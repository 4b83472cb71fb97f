------------------------ MODULE FlowAccounting_proofs ------------------------
(* While the daemon runs it never counts a byte twice, and its rows add up *)
(* to what it credited, for any flows, counters, timeouts and failures of  *)
(* the database.  With prompt commits, nothing it was shown is lost.       *)
EXTENDS FlowAccounting, FiniteSetTheorems, TLAPS

(* What the argument needs to know of a database.                          *)
Counts(D) == D.credited \in [Flow -> Bytes]

FlowTypes ==
  /\ live \in [Flow -> BOOLEAN]
  /\ counter \in [Flow -> Bytes] /\ sent \in [Flow -> Bytes]
  /\ missed \in [Flow -> 0 .. MaxMissed]
  /\ table \in [Flow -> Entry \cup {None}]
  /\ Counts(db) /\ Counts(card)
  /\ bucket \in Bucket
  /\ restarts = 0

(* The bytes of f that may still be credited are among those it has sent.  *)
(* An entry that was not seen for longer than its live connection was      *)
(* missed belongs to an earlier connection: none of the bytes of this one  *)
(* have been taken in, so that the entry may expire.                       *)
Room(f, d) ==
  LET e == table[f]  paid == db.credited[f][d] IN
  /\ card.credited[f][d] <= sent[f][d]
  /\ paid <= sent[f][d]
  /\ e = None /\ live[f] => paid + counter[f][d] <= sent[f][d]
  /\ e # None => paid + e.bytes[d] <= sent[f][d]
  /\ e # None /\ live[f] =>
       paid + e.bytes[d] + Growth(counter[f], e.prev)[d] <= sent[f][d]
  /\ e # None /\ live[f] /\ e.unseen > missed[f] =>
       paid + e.bytes[d] + counter[f][d] <= sent[f][d]

AccountInv == FlowTypes /\ \A f \in Flow, d \in Dir : Room(f, d)

(* The commit visits entries of the table, and all of them before it ends. *)
Visits == /\ pending \subseteq {f \in Flow : table[f] # None}
          /\ pc # "store" => pending = {}

-----------------------------------------------------------------------------
LEMMA ZeroIsBytes == Zero \in Bytes
BY DEF Zero, Bytes

LEMMA PlusIsBytes ==
  ASSUME NEW a \in Bytes, NEW b \in Bytes
  PROVE  Plus(a, b) \in Bytes /\ \A d \in Dir : Plus(a, b)[d] = a[d] + b[d]
BY DEF Plus, Bytes

LEMMA GrowthIsBytes ==
  ASSUME NEW c \in Bytes, NEW p \in Bytes
  PROVE  /\ Growth(c, p) \in Bytes
         /\ \A d \in Dir : /\ c[d] > p[d] => Growth(c, p)[d] = c[d] - p[d]
                           /\ c[d] <= p[d] => Growth(c, p)[d] = 0
BY DEF Growth, Bytes

LEMMA EntryFields ==
  ASSUME NEW e \in Entry
  PROVE  /\ e # None /\ e.bytes \in Bytes /\ e.prev \in Bytes
         /\ e.dirty \in BOOLEAN /\ e.unseen \in 0 .. FlowTimeout
         /\ e.day \in Bucket
BY NoneIsNoEntry DEF Entry

(* database_store_flow credits the flow with the bytes of its entry.       *)
LEMMA StoreCredits ==
  ASSUME Counts(db), NEW f \in Flow, table[f] \in Entry
  PROVE  /\ Inserted(f).credited = db.credited
         /\ Updated(Inserted(f), f).credited =
              [db.credited EXCEPT ![f] = Plus(@, table[f].bytes)]
         /\ Counts(Updated(Inserted(f), f))
<1>1. Inserted(f).credited = db.credited
  BY DEF Inserted
<1>2. Updated(Inserted(f), f).credited =
        [db.credited EXCEPT ![f] = Plus(@, table[f].bytes)]
  BY <1>1 DEF Updated
<1>3. Plus(db.credited[f], table[f].bytes) \in Bytes
  BY EntryFields, PlusIsBytes DEF Counts
<1>. QED BY <1>1, <1>2, <1>3 DEF Counts

-----------------------------------------------------------------------------
LEMMA AccountInit == Init => AccountInv
<1> SUFFICES ASSUME Init PROVE AccountInv
  OBVIOUS
<1>. USE FlowConstants, ZeroIsBytes DEF Init, Counts, EmptyDatabase
<1>1. FlowTypes
  BY DEF FlowTypes, Bucket
<1>2. ASSUME NEW f \in Flow, NEW d \in Dir PROVE Room(f, d)
  BY DEF Room, Zero
<1>. QED BY <1>1, <1>2 DEF AccountInv

(* The kernel: a new connection starts at zero, and every byte that is     *)
(* counted is also sent.                                                   *)
LEMMA AccountOpen ==
  ASSUME AccountInv, NEW g \in Flow, Open(g)  PROVE AccountInv'
<1>1. FlowTypes'
  BY FlowConstants, ZeroIsBytes DEF AccountInv, FlowTypes, Open, Counts
<1>2. ASSUME NEW f \in Flow, NEW d \in Dir PROVE Room(f, d)'
  <2>1. /\ Room(f, d) /\ counter[f] \in Bytes /\ sent[f] \in Bytes
        /\ db.credited[f] \in Bytes /\ missed[f] \in Nat
        /\ table[f] # None => /\ table[f].bytes \in Bytes
                              /\ table[f].prev \in Bytes
                              /\ table[f].unseen \in Nat
    BY EntryFields, FlowConstants DEF AccountInv, FlowTypes, Counts
  <2>2. CASE f # g
    BY <2>1, <2>2 DEF Open, Room, AccountInv, FlowTypes
  <2>3. CASE f = g
    <3>1. counter'[f][d] = 0 /\ ~live[f] /\ live'[f] /\ counter'[f] = Zero
      BY <2>3 DEF Open, AccountInv, FlowTypes, Zero
    <3>2. table[f] # None => Growth(counter[f]', table[f].prev)[d] = 0
      BY <3>1, <2>1, ZeroIsBytes, GrowthIsBytes DEF Bytes
    <3>3. UNCHANGED <<table, db, card, sent>>
      BY DEF Open
    <3>. QED BY <2>1, <3>1, <3>2, <3>3 DEF Room, Bytes
  <2>. QED BY <2>2, <2>3
<1>. QED BY <1>1, <1>2 DEF AccountInv

LEMMA AccountSend ==
  ASSUME AccountInv, NEW g \in Flow, NEW k \in Dir, Send(g, k)
  PROVE  AccountInv'
<1>1. /\ counter' = [counter EXCEPT ![g][k] = @ + 1]
      /\ sent' = [sent EXCEPT ![g][k] = @ + 1]
      /\ UNCHANGED <<live, missed, table, db, card, bucket, restarts>>
  BY DEF Send
<1>2. counter' \in [Flow -> Bytes] /\ sent' \in [Flow -> Bytes]
  BY <1>1 DEF AccountInv, FlowTypes, Bytes
<1>3. FlowTypes'
  BY <1>1, <1>2 DEF AccountInv, FlowTypes, Counts
<1>4. ASSUME NEW f \in Flow, NEW d \in Dir PROVE Room(f, d)'
  <2>1. /\ Room(f, d) /\ counter[f][d] \in Nat /\ sent[f][d] \in Nat
        /\ db.credited[f][d] \in Nat /\ card.credited[f][d] \in Nat
        /\ table[f] # None => table[f].bytes[d] \in Nat
                              /\ table[f].prev[d] \in Nat
    BY EntryFields DEF AccountInv, FlowTypes, Counts, Bytes
  <2>2. \/ counter'[f][d] = counter[f][d] /\ sent'[f][d] = sent[f][d]
        \/ counter'[f][d] = counter[f][d] + 1
           /\ sent'[f][d] = sent[f][d] + 1
    BY <1>1 DEF AccountInv, FlowTypes, Bytes
  <2>3. table[f] # None =>
          /\ Growth(counter[f], table[f].prev)[d] \in Nat
          /\ Growth(counter'[f], table[f].prev)[d] \in Nat
          /\ Growth(counter'[f], table[f].prev)[d]
               <= Growth(counter[f], table[f].prev)[d]
                    + (counter'[f][d] - counter[f][d])
    BY <2>1, <2>2 DEF Growth
  <2>. QED BY <1>1, <2>1, <2>2, <2>3 DEF Room
<1>. QED BY <1>3, <1>4 DEF AccountInv

LEMMA AccountClose ==
  ASSUME AccountInv, NEW g \in Flow, Close(g)  PROVE AccountInv'
<1>1. /\ live' = [live EXCEPT ![g] = FALSE]
      /\ UNCHANGED <<counter, sent, missed, table, db, card, bucket, restarts>>
  BY DEF Close
<1>2. \A f \in Flow : live'[f] => live[f]
  BY <1>1 DEF AccountInv, FlowTypes
<1>3. FlowTypes'
  BY <1>1 DEF AccountInv, FlowTypes, Counts
<1>4. ASSUME NEW f \in Flow, NEW d \in Dir PROVE Room(f, d)'
  <2>1. Room(f, d)
    BY DEF AccountInv
  <2>. QED BY <1>1, <1>2, <2>1 DEF Room
<1>. QED BY <1>3, <1>4 DEF AccountInv

(* An entry that a reading updates or ages remains one, or is freed.       *)
LEMMA EntriesRead ==
  ASSUME NEW f \in Flow, counter[f] \in Bytes, bucket \in Bucket, table[f] \in Entry \cup {None}
  PROVE  /\ Ingested(f) \in Entry
         /\ Aged(f) = None \/ Aged(f) \in Entry
<1>1. counter[f] \in Bytes /\ bucket \in Bucket /\ 0 \in 0 .. FlowTimeout
  BY FlowConstants
<1>2. CASE table[f] = None
  BY <1>1, <1>2 DEF Ingested, Aged, Entry
<1>3. CASE table[f] # None
  <2>1. table[f] \in Entry
    BY <1>3
  <2>2. Plus(table[f].bytes, Growth(counter[f], table[f].prev)) \in Bytes
    BY <1>1, <2>1, EntryFields, PlusIsBytes, GrowthIsBytes
  <2>3. Ingested(f) \in Entry
    BY <1>1, <1>3, <2>1, <2>2, EntryFields DEF Ingested, Entry
  <2>4. ~(table[f].unseen >= FlowTimeout) =>
           table[f].unseen + 1 \in 0 .. FlowTimeout
    BY <2>1, EntryFields, FlowConstants
  <2>5. CASE table[f].unseen >= FlowTimeout
    BY <2>3, <2>5 DEF Aged
  <2>6. CASE ~(table[f].unseen >= FlowTimeout)
    <3>1. Aged(f) = [table[f] EXCEPT !.unseen = @ + 1]
      BY <1>3, <2>6 DEF Aged
    <3>2. Aged(f) \in Entry
      BY <2>1, <2>4, <2>6, <3>1 DEF Entry
    <3>. QED BY <2>3, <3>2
  <2>. QED BY <2>5, <2>6
<1>. QED BY <1>2, <1>3

(* A reading moves new bytes from the counters to the entries.  An entry   *)
(* that expires although its connection lives had been silent for longer   *)
(* than the connection was missed, so that nothing of it is counted again. *)
LEMMA AccountRead ==
  ASSUME AccountInv, NEW S \in SUBSET Flow, Read(S)  PROVE AccountInv'
<1>. DEFINE seen == {f \in S : counter[f] # Zero}
<1>1. /\ S \subseteq {f \in Flow : live[f]}
      /\ \A f \in Flow : live[f] /\ f \notin S => missed[f] < MaxMissed
      /\ table' = [f \in Flow |-> IF f \in seen THEN Ingested(f) ELSE Aged(f)]
      /\ missed' = [f \in Flow |-> IF live[f] /\ f \notin S
                                   THEN missed[f] + 1 ELSE 0]
      /\ UNCHANGED <<live, counter, sent, db, card, bucket, restarts>>
  BY DEF Read
<1>2. ASSUME NEW f \in Flow
      PROVE  /\ Ingested(f) \in Entry
             /\ Aged(f) = None \/ Aged(f) \in Entry
  BY EntriesRead DEF AccountInv, FlowTypes
<1>3. FlowTypes'
  <2>1. table' \in [Flow -> Entry \cup {None}]
    BY <1>1, <1>2
  <2>2. missed' \in [Flow -> 0 .. MaxMissed]
    BY <1>1, FlowConstants DEF AccountInv, FlowTypes
  <2>. QED BY <1>1, <2>1, <2>2 DEF AccountInv, FlowTypes, Counts
<1>4. ASSUME NEW f \in Flow, NEW d \in Dir PROVE Room(f, d)'
  <2>1. /\ Room(f, d) /\ live[f] \in BOOLEAN
        /\ counter[f] \in Bytes /\ counter[f][d] \in Nat
        /\ sent[f][d] \in Nat /\ db.credited[f][d] \in Nat
        /\ card.credited[f][d] \in Nat /\ missed[f] \in 0 .. MaxMissed
    BY DEF AccountInv, FlowTypes, Counts, Bytes
  <2>2. ASSUME table[f] # None
        PROVE  /\ table[f] \in Entry
               /\ table[f].bytes \in Bytes /\ table[f].bytes[d] \in Nat
               /\ table[f].prev \in Bytes /\ table[f].prev[d] \in Nat
               /\ table[f].unseen \in 0 .. FlowTimeout
               /\ Growth(counter[f], table[f].prev) \in Bytes
               /\ Growth(counter[f], table[f].prev)[d] \in Nat
    <3>1. table[f] \in Entry
      BY <2>2 DEF AccountInv, FlowTypes
    <3>. QED BY <3>1, <2>1, EntryFields, GrowthIsBytes DEF Bytes
  <2>3. CASE f \in seen
    <3>1. table'[f] = Ingested(f) /\ table'[f] # None /\ live[f]
      BY <1>1, <1>2, <2>3, NoneIsNoEntry
    <3>2. /\ table'[f].prev = counter[f] /\ table'[f].unseen = 0
          /\ missed'[f] = 0
          /\ Growth(counter[f], table'[f].prev)[d] = 0
      BY <1>1, <2>1, <2>3, <3>1, GrowthIsBytes DEF Ingested
    <3>3. db.credited[f][d] + table'[f].bytes[d] <= sent[f][d]
      <4>1. CASE table[f] = None
        BY <2>1, <3>1, <4>1 DEF Ingested, Room
      <4>2. CASE table[f] # None
        <5>1. table'[f].bytes[d] =
                table[f].bytes[d] + Growth(counter[f], table[f].prev)[d]
          BY <2>1, <2>2, <3>1, <4>2, PlusIsBytes DEF Ingested
        <5>. QED BY <2>1, <2>2, <3>1, <4>2, <5>1 DEF Room
      <4>. QED BY <4>1, <4>2
    <3>4. table'[f].bytes[d] \in Nat
      BY <1>2, <3>1, EntryFields DEF Bytes
    <3>. QED BY <1>1, <2>1, <3>1, <3>2, <3>3, <3>4 DEF Room
  <2>4. CASE f \notin seen
    <3>1. table'[f] = Aged(f)
      BY <1>1, <2>4
    <3>2. CASE table[f] = None
      <4>1. table'[f] = None
        BY <3>1, <3>2 DEF Aged
      <4>. QED BY <1>1, <2>1, <3>2, <4>1 DEF Room
    <3>3. CASE table[f] # None /\ table[f].unseen >= FlowTimeout
      <4>1. table'[f] = None
        BY <3>1, <3>3 DEF Aged
      <4>2. ASSUME live[f]
            PROVE  db.credited[f][d] + counter[f][d] <= sent[f][d]
        <5>1. CASE f \in S
          <6>1. counter[f][d] = 0
            BY <2>4, <5>1 DEF Zero
          <6>. QED BY <2>1, <6>1 DEF Room
        <5>2. CASE f \notin S
          <6>1. table[f].unseen > missed[f]
            BY <1>1, <2>1, <2>2, <3>3, <4>2, <5>2, FlowConstants
          <6>. QED BY <2>1, <2>2, <3>3, <4>2, <6>1 DEF Room
        <5>. QED BY <5>1, <5>2
      <4>. QED BY <1>1, <2>1, <4>1, <4>2 DEF Room
    <3>4. CASE table[f] # None /\ ~(table[f].unseen >= FlowTimeout)
      <4>1. /\ table'[f] # None /\ table'[f].bytes = table[f].bytes
            /\ table'[f].prev = table[f].prev
            /\ table'[f].unseen = table[f].unseen + 1
        <5>1. table'[f] = [table[f] EXCEPT !.unseen = @ + 1]
          BY <3>1, <3>4 DEF Aged
        <5>2. table[f] \in Entry
          BY <2>2, <3>4
        <5>3. table'[f] # None
          <6>1. table[f].unseen + 1 \in 0 .. FlowTimeout
            BY <2>2, <3>4, FlowConstants
          <6>2. table'[f] \in Entry
            BY <5>1, <5>2, <6>1 DEF Entry
          <6>. QED BY <6>2, EntryFields
        <5>. QED BY <5>1, <5>2, <5>3 DEF Entry
      <4>2. ASSUME live[f], table'[f].unseen > missed'[f]
            PROVE  db.credited[f][d] + table[f].bytes[d] + counter[f][d]
                     <= sent[f][d]
        <5>1. CASE f \in S
          <6>1. counter[f][d] = 0
            BY <2>4, <5>1 DEF Zero
          <6>. QED BY <2>1, <2>2, <3>4, <6>1 DEF Room
        <5>2. CASE f \notin S
          <6>1. missed'[f] = missed[f] + 1
            BY <1>1, <4>2, <5>2
          <6>2. table[f].unseen > missed[f]
            BY <2>1, <2>2, <3>4, <4>1, <4>2, <6>1, FlowConstants
          <6>. QED BY <2>1, <2>2, <3>4, <4>2, <6>2 DEF Room
        <5>. QED BY <5>1, <5>2
      <4>. QED BY <1>1, <2>1, <2>2, <3>4, <4>1, <4>2 DEF Room
    <3>. QED BY <3>2, <3>3, <3>4
  <2>. QED BY <2>3, <2>4
<1>. QED BY <1>3, <1>4 DEF AccountInv

(* What leaves the connections and the entries of all flows but g alone,   *)
(* and g's entry where it was or cleared, needs room in the database only. *)
LEMMA AccountVisit ==
  ASSUME AccountInv, NEW g \in Flow,
         table[g] \in Entry,
         UNCHANGED <<live, counter, sent, missed, bucket, restarts>>,
         \/ table' = table /\ db'.credited = db.credited
         \/ table' = Cleared(g)
            /\ \/ db'.credited = db.credited
               \/ db'.credited = [db.credited EXCEPT
                                    ![g] = Plus(@, table[g].bytes)],
         card'.credited \in {card.credited, db'.credited}
  PROVE  AccountInv'
<1>1. db'.credited \in [Flow -> Bytes] /\ card'.credited \in [Flow -> Bytes]
  <2>1. Plus(db.credited[g], table[g].bytes) \in Bytes
    BY EntryFields, PlusIsBytes DEF AccountInv, FlowTypes, Counts
  <2>. QED BY <2>1 DEF AccountInv, FlowTypes, Counts
<1>2. [table[g] EXCEPT !.bytes = Zero, !.dirty = FALSE] \in Entry
  BY ZeroIsBytes DEF Entry
<1>3. table' \in [Flow -> Entry \cup {None}]
  BY <1>2 DEF AccountInv, FlowTypes, Cleared
<1>4. FlowTypes'
  BY <1>1, <1>3 DEF AccountInv, FlowTypes, Counts
<1>5. ASSUME NEW f \in Flow, NEW d \in Dir PROVE Room(f, d)'
  <2>1. /\ Room(f, d) /\ counter[f][d] \in Nat /\ sent[f][d] \in Nat
        /\ db.credited[f] \in Bytes /\ db.credited[f][d] \in Nat
        /\ card.credited[f][d] \in Nat /\ counter[f] \in Bytes
    BY DEF AccountInv, FlowTypes, Counts, Bytes
  <2>2. ASSUME table[f] # None
        PROVE  /\ table[f] \in Entry
               /\ table[f].bytes \in Bytes /\ table[f].bytes[d] \in Nat
               /\ Growth(counter[f], table[f].prev)[d] \in Nat
    <3>1. table[f] \in Entry
      BY <2>2 DEF AccountInv, FlowTypes
    <3>. QED BY <3>1, <2>1, EntryFields, GrowthIsBytes DEF Bytes
  <2>3. CASE table'[f] = table[f] /\ db'.credited[f] = db.credited[f]
    BY <2>1, <2>2, <2>3 DEF Room
  <2>4. CASE f = g /\ table' = Cleared(g)
    <3>1. table'[g] = [table[g] EXCEPT !.bytes = Zero, !.dirty = FALSE]
      BY <2>4 DEF Cleared, AccountInv, FlowTypes
    <3>2. /\ table[f] # None /\ table'[f] # None
          /\ table'[f].bytes[d] = 0 /\ table'[f].prev = table[f].prev
          /\ table'[f].unseen = table[f].unseen
      <4>1. table[g] # None /\ table'[g] # None
        BY <1>2, <3>1, EntryFields
      <4>2. DOMAIN table[g] = {"bytes", "prev", "dirty", "unseen", "day"}
        BY DEF Entry
      <4>3. /\ table'[g].bytes = Zero /\ table'[g].prev = table[g].prev
            /\ table'[g].unseen = table[g].unseen
        BY <3>1, <4>2
      <4>4. Zero[d] = 0
        BY DEF Zero
      <4>. QED BY <2>4, <4>1, <4>3, <4>4
    <3>3. \/ db'.credited[f][d] = db.credited[f][d]
          \/ db'.credited[f][d] = db.credited[f][d] + table[f].bytes[d]
      BY <2>1, <2>2, <2>4, <3>2, PlusIsBytes DEF AccountInv, FlowTypes, Cleared, Counts
    <3>. QED BY <2>1, <2>2, <2>4, <3>2, <3>3 DEF Room
  <2>5. CASE f # g
    <3>1. table'[f] = table[f] /\ db'.credited[f] = db.credited[f]
      BY <2>5 DEF AccountInv, FlowTypes, Cleared, Counts
    <3>. QED BY <2>3, <3>1
  <2>. QED BY <2>3, <2>4, <2>5
<1>. QED BY <1>4, <1>5 DEF AccountInv

LEMMA VisitsNext ==
  ASSUME table \in [Flow -> Entry \cup {None}], Visits, [Next]_vars  PROVE Visits'
<1>1. ASSUME NEW f \in Flow, UNCHANGED pc, pc = "store",
             pending' \subseteq pending,
             UNCHANGED table \/ table' = Cleared(f)
      PROVE  Visits'
  <2>1. ASSUME NEW g \in pending PROVE table'[g] # None
    <3>1. g \in Flow /\ table[g] \in Entry
      BY <2>1 DEF Visits
    <3>2. [table[g] EXCEPT !.bytes = Zero, !.dirty = FALSE] \in Entry
      BY <3>1, ZeroIsBytes DEF Entry
    <3>3. table'[g] \in {table[g],
                         [table[g] EXCEPT !.bytes = Zero, !.dirty = FALSE]}
      BY <1>1, <3>1 DEF Cleared
    <3>. QED BY <3>1, <3>2, <3>3, EntryFields
  <2>. QED BY <1>1, <2>1 DEF Visits
<1>2. ASSUME UNCHANGED <<table, pc, pending>> PROVE Visits'
  BY <1>2 DEF Visits
<1>3. CASE \E f \in Flow : Open(f) \/ Close(f) \/ \E d \in Dir : Send(f, d)
  BY <1>2, <1>3 DEF Open, Close, Send
<1>4. ASSUME NEW S \in SUBSET Flow, Read(S) PROVE Visits'
  BY <1>4 DEF Read, Visits
<1>5. ASSUME NEW f \in Flow,
             SkipFlow(f) \/ DropNoise(f) \/ StoreFlow(f) \/ StoreFails(f)
      PROVE  Visits'
  <2>1. /\ pc = "store" /\ UNCHANGED pc /\ pending' \subseteq pending
        /\ UNCHANGED table \/ table' = Cleared(f)
    BY <1>5 DEF SkipFlow, DropNoise, StoreFlow, StoreFails, Storable, Visited
  <2>. QED BY <1>1, <2>1
<1>6. CASE PruneAndCommit \/ Sleep
  BY <1>6 DEF PruneAndCommit, Sleep, Visits
<1>7. CASE Restart \/ PowerCut
  BY <1>7 DEF Restart, PowerCut, Fresh, Visits
<1>8. CASE Writeback \/ UNCHANGED vars
  BY <1>2, <1>8 DEF Writeback, vars
<1>. QED BY <1>3, <1>4, <1>5, <1>6, <1>7, <1>8 DEF Next, Loop

LEMMA AccountNext ==
  ASSUME MaxRestarts = 0, AccountInv, Visits, [Next]_vars  PROVE AccountInv'
<1>1. ASSUME NEW f \in Flow, Open(f) PROVE AccountInv'
  BY <1>1, AccountOpen
<1>2. ASSUME NEW f \in Flow, NEW d \in Dir, Send(f, d) PROVE AccountInv'
  BY <1>2, AccountSend
<1>3. ASSUME NEW f \in Flow, Close(f) PROVE AccountInv'
  BY <1>3, AccountClose
<1>4. ASSUME NEW S \in SUBSET Flow, Read(S) PROVE AccountInv'
  BY <1>4, AccountRead
<1>5. ASSUME NEW f \in Flow, SkipFlow(f) PROVE AccountInv'
  <2>1. UNCHANGED <<live, counter, sent, missed, table, db, card, bucket,
                    restarts>>
    BY <1>5 DEF SkipFlow, kernel
  <2>. QED BY <2>1 DEF AccountInv, FlowTypes, Counts, Room
<1>6. ASSUME NEW f \in Flow, Storable(f),
             UNCHANGED <<live, counter, sent, missed, bucket, restarts>>,
             UNCHANGED card,
             \/ UNCHANGED table /\ db'.credited = db.credited
             \/ table' = Cleared(f) /\ UNCHANGED db
             \/ table' = Cleared(f) /\ db' = Updated(Inserted(f), f)
      PROVE  AccountInv'
  <2>1. CASE table[f] = None
    BY <1>6, <2>1 DEF Storable, Visits
  <2>2. CASE table[f] # None
    <3>1. table[f] \in Entry /\ Counts(db)
      BY <2>2 DEF AccountInv, FlowTypes
    <3>. QED BY <1>6, <3>1, StoreCredits, AccountVisit
  <2>. QED BY <2>1, <2>2
<1>7. ASSUME NEW f \in Flow, DropNoise(f) \/ StoreFlow(f) \/ StoreFails(f)
      PROVE  AccountInv'
  <2>1. CASE DropNoise(f)
    BY <1>6, <2>1 DEF DropNoise, kernel
  <2>2. CASE StoreFlow(f)
    BY <1>6, <2>2 DEF StoreFlow, kernel
  <2>3. CASE StoreFails(f)
    <3>1. db'.credited = db.credited
      BY <2>3 DEF StoreFails, Inserted
    <3>. QED BY <1>6, <2>3, <3>1 DEF StoreFails, kernel
  <2>. QED BY <1>7, <2>1, <2>2, <2>3
<1>8. ASSUME UNCHANGED <<live, counter, sent, missed, table, restarts>>,
             bucket' \in Bucket,
             db'.credited = db.credited,
             card'.credited \in {card.credited, db.credited}
      PROVE  AccountInv'
  <2>1. FlowTypes'
    BY <1>8 DEF AccountInv, FlowTypes, Counts
  <2>2. ASSUME NEW f \in Flow, NEW d \in Dir PROVE Room(f, d)'
    BY <1>8 DEF AccountInv, Room
  <2>. QED BY <2>1, <2>2 DEF AccountInv
<1>9. CASE PruneAndCommit
  <2>1. db'.credited = db.credited /\ card' = db'
    BY <1>9 DEF PruneAndCommit, Pruned
  <2>. QED BY <1>8, <1>9, <2>1 DEF PruneAndCommit, kernel, AccountInv, FlowTypes
<1>10. CASE Sleep
  BY <1>8, <1>10 DEF Sleep, kernel, AccountInv, FlowTypes
<1>11. CASE Restart
  BY <1>11 DEF Restart, AccountInv, FlowTypes
<1>12. CASE Writeback
  BY <1>8, <1>12 DEF Writeback, kernel, AccountInv, FlowTypes
<1>13. CASE PowerCut
  <2>1. /\ table' = [f \in Flow |-> None] /\ live' = [f \in Flow |-> FALSE]
        /\ db' = card
        /\ UNCHANGED <<counter, sent, missed, card, bucket, restarts>>
    BY <1>13 DEF PowerCut, Fresh
  <2>2. FlowTypes'
    BY <2>1 DEF AccountInv, FlowTypes, Counts
  <2>3. ASSUME NEW f \in Flow, NEW d \in Dir PROVE Room(f, d)'
    BY <2>1 DEF AccountInv, Room
  <2>. QED BY <2>2, <2>3 DEF AccountInv
<1>14. CASE UNCHANGED vars
  BY <1>8, <1>14 DEF vars, AccountInv, FlowTypes
<1>. QED BY <1>1, <1>2, <1>3, <1>4, <1>5, <1>7, <1>9, <1>10, <1>11, <1>12,
            <1>13, <1>14 DEF Next, Loop

(* AccountInv, the inductive invariant of the accounting, holds as long as *)
(* the daemon is not restarted.                                            *)
THEOREM AccountInvariant ==
  ASSUME MaxRestarts = 0  PROVE Spec => []AccountInv
<1>1. Init => AccountInv /\ Visits
  BY AccountInit DEF Init, Visits
<1>2. AccountInv /\ Visits /\ [Next]_vars => AccountInv' /\ Visits'
  BY AccountNext, VisitsNext DEF AccountInv, FlowTypes
<1>. QED BY <1>1, <1>2, PTL DEF Spec

(* A daemon that is not restarted counts no byte twice (flow_ingest,       *)
(* flow_expire, database_store_flow), however many flows there are,        *)
(* whether five-tuples are reused, statements fail, connections are missed *)
(* by some reads for less than flow_timeout or the power is cut.           *)
THEOREM CountsOnce ==
  ASSUME MaxRestarts = 0  PROVE Spec => []NeverOvercounts
<1>1. AccountInv => NeverOvercounts
  <2> SUFFICES ASSUME AccountInv, NEW f \in Flow, NEW d \in Dir
               PROVE  db.credited[f][d] + Unstored(f)[d] <= sent[f][d]
    BY DEF NeverOvercounts
  <2>1. Room(f, d) /\ db.credited[f][d] \in Nat
    BY DEF AccountInv, FlowTypes, Counts, Bytes
  <2>. QED BY <2>1 DEF Room, Unstored, Zero
<1>. QED BY <1>1, AccountInvariant, PTL

-----------------------------------------------------------------------------
(* Types.  A total of numbers is a number; the steps of a sum exist, since *)
(* each is made from the one before.                                       *)
LEMMA LeastNumber ==
  ASSUME NEW S \in SUBSET Nat, S # {}
  PROVE  \E i \in S : \A j \in S : i <= j
<1>1. \E i \in S : \A j \in S : ~ (<<j, i>> \in OpToRel(<, Nat))
  BY NatLessThanWellFounded, WFMin
<1>2. PICK i \in S : \A j \in S : ~ (<<j, i>> \in OpToRel(<, Nat))
  BY <1>1
<1>3. ASSUME NEW j \in S PROVE i <= j
  <2>1. ~ (<<j, i>> \in OpToRel(<, Nat))
    BY <1>2
  <2>2. ~ (j < i)
    BY <2>1 DEF OpToRel
  <2>. QED BY <2>2
<1>. QED BY <1>3

Steps == 0 .. (MaxBucket + 1)
SumsUp(sum, bytes) ==
  sum = [n \in Steps |-> IF n = 0 THEN 0 ELSE sum[n - 1] + bytes[n - 1]]

LEMMA SumExists ==
  ASSUME NEW bytes \in [Bucket -> Nat]
  PROVE  \E sum \in [Steps -> Nat] : SumsUp(sum, bytes)
<1>1. MaxBucket \in Nat
  BY FlowConstants
<1>. DEFINE Good(k) == \E sum \in [Steps -> Nat] :
                         \A n \in Steps : n <= k =>
                           sum[n] = IF n = 0 THEN 0 ELSE sum[n - 1] + bytes[n - 1]
            Bad == {k \in Steps : ~Good(k)}
<1>2. Good(0)
  <2>. DEFINE sum == [n \in Steps |-> 0]
  <2>1. sum \in [Steps -> Nat] /\ \A n \in Steps : sum[n] = 0
    OBVIOUS
  <2>2. \A n \in Steps : n <= 0 => n = 0
    BY <1>1 DEF Steps
  <2>. HIDE DEF sum
  <2>. QED BY <2>1, <2>2
<1>3. ASSUME NEW k \in Nat, k + 1 \in Steps, Good(k) PROVE Good(k + 1)
  <2>1. PICK sum \in [Steps -> Nat] :
          \A n \in Steps : n <= k => sum[n] = IF n = 0 THEN 0 ELSE sum[n - 1] + bytes[n - 1]
    BY <1>3
  <2>2. k \in Steps /\ k \in Bucket /\ k <= MaxBucket
    BY <1>1, <1>3 DEF Steps, Bucket
  <2>3. sum[k] + bytes[k] \in Nat
    BY <2>2
  <2>. DEFINE more == [sum EXCEPT ![k + 1] = sum[k] + bytes[k]]
  <2>4. more \in [Steps -> Nat]
    BY <1>3, <2>3
  <2>5. more[k + 1] = sum[k] + bytes[k] /\ \A n \in Steps : n # k + 1 => more[n] = sum[n]
    BY <1>3
  <2>. HIDE DEF more
  <2>6. ASSUME NEW n \in Steps, n <= k + 1
        PROVE  more[n] = IF n = 0 THEN 0 ELSE more[n - 1] + bytes[n - 1]
    <3>1. n \in Nat /\ (n # 0 => n - 1 \in Steps /\ n - 1 # k + 1)
      BY <1>1, <2>6 DEF Steps
    <3>2. CASE n = k + 1
      <4>1. n - 1 = k /\ n # 0 /\ k # k + 1
        BY <3>2
      <4>2. more[k] = sum[k]
        BY <2>2, <2>5, <4>1
      <4>. QED BY <2>5, <3>2, <4>1, <4>2
    <3>3. CASE n # k + 1
      <4>1. n <= k
        BY <2>6, <3>1, <3>3
      <4>2. more[n] = sum[n] /\ (n # 0 => more[n - 1] = sum[n - 1])
        BY <2>5, <3>1, <3>3
      <4>. QED BY <2>1, <4>1, <4>2
    <3>. QED BY <3>2, <3>3
  <2>. QED BY <2>4, <2>6
<1>4. Bad = {}
  <2> SUFFICES ASSUME Bad # {} PROVE FALSE
    OBVIOUS
  <2>1. Bad \in SUBSET Nat
    BY <1>1 DEF Steps
  <2>. HIDE DEF Good
  <2>2. PICK k \in Bad : \A j \in Bad : k <= j
    BY <2>1, LeastNumber
  <2>3. k \in Steps /\ ~Good(k)
    BY <2>2
  <2>4. k # 0
    BY <1>2, <2>3
  <2>5. k - 1 \in Nat /\ k - 1 \in Steps /\ ~(k <= k - 1) /\ k - 1 + 1 = k
    BY <1>1, <2>3, <2>4 DEF Steps
  <2>6. Good(k - 1)
    BY <2>2, <2>5
  <2>7. Good(k - 1 + 1)
    BY <1>3, <2>3, <2>5, <2>6
  <2>. QED BY <2>3, <2>5, <2>7
<1>5. MaxBucket + 1 \in Steps /\ \A n \in Steps : n <= MaxBucket + 1
  BY <1>1 DEF Steps
<1>6. Good(MaxBucket + 1)
  <2>. HIDE DEF Good
  <2>. QED BY <1>4, <1>5
<1>7. PICK sum \in [Steps -> Nat] :
        \A n \in Steps : n <= MaxBucket + 1 => sum[n] = IF n = 0 THEN 0 ELSE sum[n - 1] + bytes[n - 1]
  BY <1>6
<1>8. sum = [n \in Steps |-> IF n = 0 THEN 0 ELSE sum[n - 1] + bytes[n - 1]]
  BY <1>5, <1>7
<1>. QED BY <1>8 DEF SumsUp

(* The numbers that a total runs through.                                  *)
LEMMA TotalRuns ==
  ASSUME NEW bytes \in [Bucket -> Nat]
  PROVE  \E sum \in [Steps -> Nat] :
           /\ Total(bytes) = sum[MaxBucket + 1]
           /\ sum[0] = 0
           /\ \A n \in Bucket : sum[n + 1] = sum[n] + bytes[n]
<1>. DEFINE sum == CHOOSE f : SumsUp(f, bytes)
<1>1. Total(bytes) = sum[MaxBucket + 1]
  BY DEF Total, SumsUp, Steps
<1>2. PICK f \in [Steps -> Nat] : SumsUp(f, bytes)
  BY SumExists
<1>3. SumsUp(sum, bytes)
  <2>. HIDE DEF SumsUp
  <2>. QED BY <1>2
<1>. HIDE DEF sum
<1>4. MaxBucket \in Nat
  BY FlowConstants
<1>5. 0 \in Steps /\ \A n \in Bucket : n \in Steps /\ n + 1 \in Steps /\ n + 1 # 0 /\ (n + 1) - 1 = n
  BY <1>4 DEF Steps, Bucket
<1>6. \A n \in Steps : sum[n] = IF n = 0 THEN 0 ELSE sum[n - 1] + bytes[n - 1]
  BY <1>3 DEF SumsUp
<1>7. sum[0] = 0 /\ \A n \in Bucket : sum[n + 1] = sum[n] + bytes[n]
  BY <1>5, <1>6
<1>8. sum \in [Steps -> Nat]
  <2>1. sum = [n \in Steps |-> sum[n]]
    BY <1>3 DEF SumsUp
  <2>. DEFINE Bad == {n \in Steps : sum[n] \notin Nat}
  <2>2. Bad = {}
    <3> SUFFICES ASSUME Bad # {} PROVE FALSE
      OBVIOUS
    <3>1. Bad \in SUBSET Nat
      BY <1>4 DEF Steps
    <3>2. PICK k \in Bad : \A j \in Bad : k <= j
      BY <3>1, LeastNumber
    <3>3. k \in Steps /\ sum[k] \notin Nat /\ k # 0
      BY <1>7, <3>2
    <3>4. k - 1 \in Steps /\ k - 1 \in Bucket /\ ~(k <= k - 1) /\ (k - 1) + 1 = k
      BY <1>4, <3>3 DEF Steps, Bucket
    <3>5. sum[k - 1] \in Nat
      BY <3>2, <3>4
    <3>6. sum[k] = sum[k - 1] + bytes[k - 1]
      BY <1>7, <3>4
    <3>. QED BY <3>3, <3>4, <3>5, <3>6
  <2>. QED BY <2>1, <2>2
<1>. QED BY <1>1, <1>7, <1>8

LEMMA TotalIsNat ==
  ASSUME NEW bytes \in [Bucket -> Nat]
  PROVE  Total(bytes) \in Nat
<1>1. PICK sum \in [Steps -> Nat] : Total(bytes) = sum[MaxBucket + 1]
  BY TotalRuns
<1>2. MaxBucket + 1 \in Steps
  BY FlowConstants DEF Steps
<1>. QED BY <1>1, <1>2

(* Totals add up.                                                          *)
LEMMA TotalOfSum ==
  ASSUME NEW a \in [Bucket -> Nat], NEW b \in [Bucket -> Nat], NEW c \in [Bucket -> Nat],
         \A n \in Bucket : a[n] = b[n] + c[n]
  PROVE  Total(a) = Total(b) + Total(c)
<1>1. PICK s \in [Steps -> Nat] : /\ Total(a) = s[MaxBucket + 1] /\ s[0] = 0
                                  /\ \A n \in Bucket : s[n + 1] = s[n] + a[n]
  BY TotalRuns
<1>2. PICK t \in [Steps -> Nat] : /\ Total(b) = t[MaxBucket + 1] /\ t[0] = 0
                                  /\ \A n \in Bucket : t[n + 1] = t[n] + b[n]
  BY TotalRuns
<1>3. PICK u \in [Steps -> Nat] : /\ Total(c) = u[MaxBucket + 1] /\ u[0] = 0
                                  /\ \A n \in Bucket : u[n + 1] = u[n] + c[n]
  BY TotalRuns
<1>4. MaxBucket \in Nat
  BY FlowConstants
<1>. DEFINE Bad == {n \in Steps : s[n] # t[n] + u[n]}
<1>5. Bad = {}
  <2> SUFFICES ASSUME Bad # {} PROVE FALSE
    OBVIOUS
  <2>1. Bad \in SUBSET Nat
    BY <1>4 DEF Steps
  <2>2. PICK k \in Bad : \A j \in Bad : k <= j
    BY <2>1, LeastNumber
  <2>3. k \in Steps /\ s[k] # t[k] + u[k] /\ k # 0
    BY <1>1, <1>2, <1>3, <2>2
  <2>4. k - 1 \in Steps /\ k - 1 \in Bucket /\ ~(k <= k - 1) /\ (k - 1) + 1 = k
    BY <1>4, <2>3 DEF Steps, Bucket
  <2>5. s[k - 1] = t[k - 1] + u[k - 1]
    BY <2>2, <2>4
  <2>6. s[k] = s[k - 1] + a[k - 1] /\ t[k] = t[k - 1] + b[k - 1] /\ u[k] = u[k - 1] + c[k - 1]
    BY <1>1, <1>2, <1>3, <2>4
  <2>7. a[k - 1] = b[k - 1] + c[k - 1] /\ b[k - 1] \in Nat /\ c[k - 1] \in Nat
        /\ t[k - 1] \in Nat /\ u[k - 1] \in Nat
    BY <2>4
  <2>. QED BY <2>3, <2>5, <2>6, <2>7
<1>6. MaxBucket + 1 \in Steps
  BY <1>4 DEF Steps
<1>. QED BY <1>1, <1>2, <1>3, <1>5, <1>6

LEMMA TotalOfNothing ==
  ASSUME NEW a \in [Bucket -> Nat], \A n \in Bucket : a[n] = 0
  PROVE  Total(a) = 0
<1>1. Total(a) = Total(a) + Total(a)
  BY TotalOfSum
<1>2. Total(a) \in Nat
  BY TotalIsNat
<1>3. \A x \in Nat : x = x + x => x = 0
  OBVIOUS
<1>. QED BY <1>1, <1>2, <1>3

(* A total grows by what one of its numbers grows.                         *)
LEMMA TotalGrows ==
  ASSUME NEW a \in [Bucket -> Nat], NEW c \in [Bucket -> Nat], NEW b \in Bucket, NEW x \in Nat,
         \A n \in Bucket : c[n] = IF n = b THEN a[n] + x ELSE a[n]
  PROVE  Total(c) = Total(a) + x
<1>1. PICK s \in [Steps -> Nat] : /\ Total(a) = s[MaxBucket + 1] /\ s[0] = 0
                                  /\ \A n \in Bucket : s[n + 1] = s[n] + a[n]
  BY TotalRuns
<1>2. PICK t \in [Steps -> Nat] : /\ Total(c) = t[MaxBucket + 1] /\ t[0] = 0
                                  /\ \A n \in Bucket : t[n + 1] = t[n] + c[n]
  BY TotalRuns
<1>3. MaxBucket \in Nat /\ b \in Nat /\ b <= MaxBucket
  BY FlowConstants DEF Bucket
<1>. DEFINE Extra(n) == IF b < n THEN x ELSE 0
            Bad == {n \in Steps : t[n] # s[n] + Extra(n)}
<1>4. Bad = {}
  <2> SUFFICES ASSUME Bad # {} PROVE FALSE
    OBVIOUS
  <2>1. Bad \in SUBSET Nat
    BY <1>3 DEF Steps
  <2>2. PICK k \in Bad : \A j \in Bad : k <= j
    BY <2>1, LeastNumber
  <2>3. k \in Steps /\ t[k] # s[k] + Extra(k)
    BY <2>2
  <2>4. k # 0
    <3>1. Extra(0) = 0
      BY <1>3
    <3>. HIDE DEF Extra
    <3>. QED BY <1>1, <1>2, <2>3, <3>1
  <2>5. k - 1 \in Steps /\ k - 1 \in Bucket /\ ~(k <= k - 1) /\ (k - 1) + 1 = k /\ k \in Nat
    BY <1>3, <2>3, <2>4 DEF Steps, Bucket
  <2>6. t[k - 1] = s[k - 1] + Extra(k - 1)
    BY <2>2, <2>5
  <2>7. s[k] = s[k - 1] + a[k - 1] /\ t[k] = t[k - 1] + c[k - 1]
    BY <1>1, <1>2, <2>5
  <2>8. a[k - 1] \in Nat /\ s[k - 1] \in Nat /\ c[k - 1] = IF k - 1 = b THEN a[k - 1] + x ELSE a[k - 1]
    BY <2>5
  <2>9. CASE k - 1 = b
    <3>1. Extra(k) = x /\ Extra(k - 1) = 0 /\ c[k - 1] = a[k - 1] + x
      BY <1>3, <2>5, <2>8, <2>9
    <3>. HIDE DEF Extra
    <3>. QED BY <2>3, <2>6, <2>7, <2>8, <3>1
  <2>10. CASE k - 1 # b
    <3>1. Extra(k) = Extra(k - 1) /\ Extra(k) \in Nat /\ c[k - 1] = a[k - 1]
      BY <1>3, <2>5, <2>8, <2>10
    <3>. HIDE DEF Extra
    <3>. QED BY <2>3, <2>6, <2>7, <2>8, <3>1
  <2>. QED BY <2>9, <2>10
<1>5. MaxBucket + 1 \in Steps /\ b < MaxBucket + 1
  BY <1>3 DEF Steps
<1>6. t[MaxBucket + 1] = s[MaxBucket + 1] + x
  BY <1>4, <1>5
<1>. QED BY <1>1, <1>2, <1>6

-----------------------------------------------------------------------------
(* What a database has of a flow in some rows.                             *)
Rows(D, R, f, d) ==
  [b \in Bucket |-> IF <<f, b>> \notin R \/ D.row[<<f, b>>] = None THEN 0 ELSE D.row[<<f, b>>][d]]

LEMMA DatabaseParts ==
  ASSUME NEW D \in Database
  PROVE  /\ D.row \in [Flow \X Bucket -> Bytes \cup {None}]
         /\ D.credited \in [Flow -> Bytes] /\ D.pruned \in [Flow -> Bytes]
         /\ \A f \in Flow, d \in Dir : D.credited[f][d] \in Nat /\ D.pruned[f][d] \in Nat
         /\ \A f \in Flow, b \in Bucket : D.row[<<f, b>>] # None => D.row[<<f, b>>] \in Bytes
<1>1. D.row \in [Flow \X Bucket -> Bytes \cup {None}]
      /\ D.credited \in [Flow -> Bytes] /\ D.pruned \in [Flow -> Bytes]
  BY DEF Database
<1>2. \A f \in Flow, d \in Dir : D.credited[f][d] \in Nat /\ D.pruned[f][d] \in Nat
  BY <1>1 DEF Bytes
<1>3. ASSUME NEW f \in Flow, NEW b \in Bucket, D.row[<<f, b>>] # None PROVE D.row[<<f, b>>] \in Bytes
  <2>1. <<f, b>> \in Flow \X Bucket
    OBVIOUS
  <2>. QED BY <1>1, <1>3, <2>1
<1>. QED BY <1>1, <1>2, <1>3

LEMMA RowsAreNumbers ==
  ASSUME NEW D \in Database, NEW R, NEW f \in Flow, NEW d \in Dir
  PROVE  /\ Rows(D, R, f, d) \in [Bucket -> Nat]
         /\ RowBytes(D, R, f, d) = Total(Rows(D, R, f, d))
         /\ RowBytes(D, R, f, d) \in Nat
<1>1. ASSUME NEW b \in Bucket, D.row[<<f, b>>] # None PROVE D.row[<<f, b>>][d] \in Nat
  <2>1. D.row[<<f, b>>] \in Bytes
    BY <1>1, DatabaseParts
  <2>. QED BY <2>1 DEF Bytes
<1>2. Rows(D, R, f, d) \in [Bucket -> Nat]
  BY <1>1 DEF Rows
<1>3. RowBytes(D, R, f, d) = Total(Rows(D, R, f, d))
  BY DEF RowBytes, Rows
<1>. QED BY <1>2, <1>3, TotalIsNat

(* The rows of a database add up.                                          *)
AddsUp(D) ==
  \A f \in Flow, d \in Dir :
    RowBytes(D, {f} \X Bucket, f, d) + D.pruned[f][d] = D.credited[f][d]

LEMMA InsertKeeps ==
  ASSUME db \in Database, NEW g \in Flow, table[g] \in Entry
  PROVE  /\ Inserted(g) \in Database
         /\ Inserted(g).row[<<g, table[g].day>>] # None
         /\ AddsUp(db) => AddsUp(Inserted(g))
<1>. DEFINE r == <<g, table[g].day>>
            I == Inserted(g)
<1>1. r \in Flow \X Bucket
  BY EntryFields
<1>2. db.row \in [Flow \X Bucket -> Bytes \cup {None}]
  BY DatabaseParts
<1>3. /\ I.row = [db.row EXCEPT ![r] = IF @ = None THEN Zero ELSE @]
      /\ I.credited = db.credited /\ I.pruned = db.pruned
  BY DEF Inserted
<1>4. I \in Database
  <2>1. I.row \in [Flow \X Bucket -> Bytes \cup {None}]
    BY <1>1, <1>2, <1>3, ZeroIsBytes
  <2>2. I = [row |-> I.row, credited |-> I.credited, pruned |-> I.pruned]
    BY DEF Inserted
  <2>3. db.credited \in [Flow -> Bytes] /\ db.pruned \in [Flow -> Bytes]
    BY DatabaseParts
  <2>. HIDE DEF I
  <2>. QED BY <1>3, <2>1, <2>2, <2>3 DEF Database
<1>. HIDE DEF r, I
<1>5. I.row[r] = IF db.row[r] = None THEN Zero ELSE db.row[r]
  BY <1>1, <1>2, <1>3
<1>6. \A q \in Flow \X Bucket : q # r => I.row[q] = db.row[q]
  BY <1>1, <1>2, <1>3
<1>7. I.row[r] # None
  BY <1>5, ZeroIsBytes, NoneIsNoEntry
<1>8. ASSUME NEW f \in Flow, NEW d \in Dir
      PROVE  Rows(I, {f} \X Bucket, f, d) = Rows(db, {f} \X Bucket, f, d)
  <2>1. ASSUME NEW b \in Bucket
        PROVE  (IF I.row[<<f, b>>] = None THEN 0 ELSE I.row[<<f, b>>][d])
                 = (IF db.row[<<f, b>>] = None THEN 0 ELSE db.row[<<f, b>>][d])
    <3>1. CASE <<f, b>> = r
      <4>1. Zero[d] = 0
        BY DEF Zero
      <4>. QED BY <1>5, <1>7, <3>1, <4>1
    <3>2. CASE <<f, b>> # r
      <4>1. <<f, b>> \in Flow \X Bucket
        OBVIOUS
      <4>. QED BY <1>6, <3>2, <4>1
    <3>. QED BY <3>1, <3>2
  <2>2. \A b \in Bucket : <<f, b>> \in {f} \X Bucket
    OBVIOUS
  <2>. QED BY <2>1, <2>2 DEF Rows
<1>9. ASSUME AddsUp(db) PROVE AddsUp(I)
  <2> SUFFICES ASSUME NEW f \in Flow, NEW d \in Dir
               PROVE  RowBytes(I, {f} \X Bucket, f, d) + I.pruned[f][d] = I.credited[f][d]
    BY DEF AddsUp
  <2>1. RowBytes(I, {f} \X Bucket, f, d) = RowBytes(db, {f} \X Bucket, f, d)
    BY <1>4, <1>8, RowsAreNumbers
  <2>. QED BY <1>3, <1>9, <2>1 DEF AddsUp
<1>. QED BY <1>4, <1>7, <1>9 DEF r, I

LEMMA UpdateKeeps ==
  ASSUME NEW D \in Database, NEW g \in Flow, table[g] \in Entry, D.row[<<g, table[g].day>>] # None
  PROVE  /\ Updated(D, g) \in Database
         /\ AddsUp(D) => AddsUp(Updated(D, g))
<1>. DEFINE r == <<g, table[g].day>>
            U == Updated(D, g)
            new == table[g].bytes
<1>1. r \in Flow \X Bucket /\ new \in Bytes /\ table[g].day \in Bucket
  BY EntryFields
<1>2. D.row \in [Flow \X Bucket -> Bytes \cup {None}] /\ D.credited \in [Flow -> Bytes]
      /\ D.pruned \in [Flow -> Bytes]
  BY DatabaseParts
<1>3. /\ U.row = [D.row EXCEPT ![r] = IF @ = None THEN None ELSE Plus(@, new)]
      /\ U.credited = [D.credited EXCEPT ![g] = Plus(@, new)]
      /\ U.pruned = D.pruned
  BY DEF Updated
<1>4. D.row[r] # None /\ D.row[r] \in Bytes /\ D.credited[g] \in Bytes
  BY <1>1, <1>2
<1>5. U = [row |-> U.row, credited |-> U.credited, pruned |-> U.pruned]
  BY DEF Updated
<1>. HIDE DEF r, U, new
<1>6. Plus(D.row[r], new) \in Bytes /\ (\A d \in Dir : Plus(D.row[r], new)[d] = D.row[r][d] + new[d])
  BY <1>1, <1>4, PlusIsBytes
<1>7. Plus(D.credited[g], new) \in Bytes
      /\ (\A d \in Dir : Plus(D.credited[g], new)[d] = D.credited[g][d] + new[d])
  BY <1>1, <1>4, PlusIsBytes
<1>8. U.row[r] = Plus(D.row[r], new) /\ U.row[r] # None
      /\ \A q \in Flow \X Bucket : q # r => U.row[q] = D.row[q]
  <2>1. U.row[r] = Plus(D.row[r], new)
    BY <1>1, <1>2, <1>3, <1>4
  <2>2. U.row[r] # None
    BY <1>6, <2>1, NoneIsNoEntry
  <2>3. \A q \in Flow \X Bucket : q # r => U.row[q] = D.row[q]
    BY <1>1, <1>2, <1>3
  <2>. QED BY <2>1, <2>2, <2>3
<1>9. U \in Database
  <2>1. U.row \in [Flow \X Bucket -> Bytes \cup {None}]
    BY <1>1, <1>2, <1>3, <1>4, <1>6
  <2>2. U.credited \in [Flow -> Bytes]
    BY <1>2, <1>3, <1>7
  <2>. QED BY <1>2, <1>3, <1>5, <2>1, <2>2 DEF Database
<1>10. ASSUME AddsUp(D) PROVE AddsUp(U)
  <2> SUFFICES ASSUME NEW f \in Flow, NEW d \in Dir
               PROVE  RowBytes(U, {f} \X Bucket, f, d) + U.pruned[f][d] = U.credited[f][d]
    BY DEF AddsUp
  <2>. DEFINE a == Rows(D, {f} \X Bucket, f, d)
              c == Rows(U, {f} \X Bucket, f, d)
  <2>1. a \in [Bucket -> Nat] /\ c \in [Bucket -> Nat]
        /\ RowBytes(D, {f} \X Bucket, f, d) = Total(a) /\ RowBytes(U, {f} \X Bucket, f, d) = Total(c)
    BY <1>9, RowsAreNumbers
  <2>2. \A b \in Bucket : /\ a[b] = IF D.row[<<f, b>>] = None THEN 0 ELSE D.row[<<f, b>>][d]
                          /\ c[b] = IF U.row[<<f, b>>] = None THEN 0 ELSE U.row[<<f, b>>][d]
    BY DEF Rows
  <2>. HIDE DEF a, c
  <2>3. D.pruned[f][d] \in Nat /\ D.credited[f][d] \in Nat /\ new[d] \in Nat
    BY <1>1, DatabaseParts DEF Bytes
  <2>4. Total(a) + D.pruned[f][d] = D.credited[f][d]
    BY <1>10, <2>1 DEF AddsUp
  <2>5. CASE f = g
    <3>1. ASSUME NEW b \in Bucket
          PROVE  c[b] = IF b = table[g].day THEN a[b] + new[d] ELSE a[b]
      <4>1. CASE b = table[g].day
        <5>1. <<f, b>> = r
          BY <2>5, <4>1 DEF r
        <5>2. c[b] = U.row[r][d] /\ a[b] = D.row[r][d]
          BY <1>4, <1>8, <2>2, <5>1
        <5>. QED BY <1>6, <1>8, <4>1, <5>2
      <4>2. CASE b # table[g].day
        <5>1. <<f, b>> # r /\ <<f, b>> \in Flow \X Bucket
          BY <4>2 DEF r
        <5>. QED BY <1>8, <2>2, <4>2, <5>1
      <4>. QED BY <4>1, <4>2
    <3>2. Total(c) = Total(a) + new[d]
      BY <1>1, <2>1, <2>3, <3>1, TotalGrows
    <3>3. U.credited[f][d] = D.credited[f][d] + new[d]
      BY <1>2, <1>3, <1>7, <2>5
    <3>4. Total(a) \in Nat
      BY <2>1, TotalIsNat
    <3>. QED BY <1>3, <2>1, <2>3, <2>4, <3>2, <3>3, <3>4
  <2>6. CASE f # g
    <3>1. \A b \in Bucket : c[b] = a[b]
      <4> SUFFICES ASSUME NEW b \in Bucket PROVE c[b] = a[b]
        OBVIOUS
      <4>1. <<f, b>> # r /\ <<f, b>> \in Flow \X Bucket
        BY <2>6 DEF r
      <4>. QED BY <1>8, <2>2, <4>1
    <3>2. c = a
      BY <2>1, <3>1
    <3>3. U.credited[f][d] = D.credited[f][d]
      BY <1>2, <1>3, <2>6
    <3>. QED BY <1>3, <2>1, <2>4, <3>2, <3>3
  <2>. QED BY <2>5, <2>6
<1>. QED BY <1>9, <1>10 DEF U

LEMMA PruneKeeps ==
  ASSUME db \in Database, NEW R \in SUBSET (Flow \X Bucket)
  PROVE  /\ Pruned(R) \in Database
         /\ AddsUp(db) => AddsUp(Pruned(R))
<1>. DEFINE P == Pruned(R)
<1>1. db.row \in [Flow \X Bucket -> Bytes \cup {None}] /\ db.credited \in [Flow -> Bytes]
      /\ db.pruned \in [Flow -> Bytes]
  BY DatabaseParts
<1>2. /\ P.row = [r \in Flow \X Bucket |-> IF r \in R THEN None ELSE db.row[r]]
      /\ P.credited = db.credited
      /\ P.pruned = [f \in Flow |-> [d \in Dir |-> db.pruned[f][d] + RowBytes(db, R, f, d)]]
      /\ P = [row |-> P.row, credited |-> P.credited, pruned |-> P.pruned]
  BY DEF Pruned
<1>. HIDE DEF P
<1>3. ASSUME NEW f \in Flow, NEW d \in Dir PROVE RowBytes(db, R, f, d) \in Nat /\ db.pruned[f][d] \in Nat
  BY RowsAreNumbers, DatabaseParts
<1>4. P \in Database
  <2>1. P.row \in [Flow \X Bucket -> Bytes \cup {None}]
    BY <1>1, <1>2
  <2>2. P.pruned \in [Flow -> Bytes]
    <3>1. ASSUME NEW f \in Flow
          PROVE  [d \in Dir |-> db.pruned[f][d] + RowBytes(db, R, f, d)] \in [Dir -> Nat]
      <4>1. \A d \in Dir : db.pruned[f][d] + RowBytes(db, R, f, d) \in Nat
        BY <1>3
      <4>. QED BY <4>1
    <3>. QED BY <1>2, <3>1 DEF Bytes
  <2>. QED BY <1>1, <1>2, <2>1, <2>2 DEF Database
<1>5. ASSUME AddsUp(db) PROVE AddsUp(P)
  <2> SUFFICES ASSUME NEW f \in Flow, NEW d \in Dir
               PROVE  RowBytes(P, {f} \X Bucket, f, d) + P.pruned[f][d] = P.credited[f][d]
    BY DEF AddsUp
  <2>. DEFINE a == Rows(db, {f} \X Bucket, f, d)
              b == Rows(P, {f} \X Bucket, f, d)
              c == Rows(db, R, f, d)
  <2>1. /\ a \in [Bucket -> Nat] /\ RowBytes(db, {f} \X Bucket, f, d) = Total(a)
        /\ b \in [Bucket -> Nat] /\ RowBytes(P, {f} \X Bucket, f, d) = Total(b)
        /\ c \in [Bucket -> Nat] /\ RowBytes(db, R, f, d) = Total(c)
    BY <1>4, RowsAreNumbers
  <2>2. ASSUME NEW n \in Bucket
        PROVE  /\ a[n] = IF db.row[<<f, n>>] = None THEN 0 ELSE db.row[<<f, n>>][d]
               /\ b[n] = IF P.row[<<f, n>>] = None THEN 0 ELSE P.row[<<f, n>>][d]
               /\ c[n] = IF <<f, n>> \notin R \/ db.row[<<f, n>>] = None THEN 0 ELSE db.row[<<f, n>>][d]
    BY DEF Rows
  <2>. HIDE DEF a, b, c
  <2>3. ASSUME NEW n \in Bucket PROVE a[n] = b[n] + c[n]
    <3>1. a[n] \in Nat /\ b[n] \in Nat /\ c[n] \in Nat /\ <<f, n>> \in Flow \X Bucket
      BY <2>1
    <3>2. CASE <<f, n>> \in R
      <4>1. P.row[<<f, n>>] = None
        BY <1>2, <3>1, <3>2
      <4>2. b[n] = 0 /\ c[n] = a[n]
        BY <2>2, <3>2, <4>1
      <4>. QED BY <3>1, <4>2
    <3>3. CASE <<f, n>> \notin R
      <4>1. P.row[<<f, n>>] = db.row[<<f, n>>]
        BY <1>2, <3>1, <3>3
      <4>2. c[n] = 0 /\ b[n] = a[n]
        BY <2>2, <3>3, <4>1
      <4>. QED BY <3>1, <4>2
    <3>. QED BY <3>2, <3>3
  <2>4. Total(a) = Total(b) + Total(c)
    BY <2>1, <2>3, TotalOfSum
  <2>5. P.pruned[f][d] = db.pruned[f][d] + Total(c) /\ P.credited[f][d] = db.credited[f][d]
    BY <1>2, <2>1
  <2>6. Total(a) + db.pruned[f][d] = db.credited[f][d]
    BY <1>5, <2>1 DEF AddsUp
  <2>7. Total(a) \in Nat /\ Total(b) \in Nat /\ Total(c) \in Nat /\ db.pruned[f][d] \in Nat
    BY <1>3, <2>1, TotalIsNat
  <2>8. Total(b) + (db.pruned[f][d] + Total(c)) = db.credited[f][d]
    <3>1. \A x, y, z, p, q \in Nat : x = y + z /\ x + p = q => y + (p + z) = q
      OBVIOUS
    <3>2. db.credited[f][d] \in Nat
      BY DatabaseParts
    <3>. QED BY <2>4, <2>6, <2>7, <3>1, <3>2
  <2>. QED BY <2>1, <2>5, <2>8
<1>. QED BY <1>4, <1>5 DEF P

-----------------------------------------------------------------------------
(* The inductive invariant of the rows: the types, and the rows add up     *)
(* both in the database the daemon sees and in what survives a power cut.  *)
RowsInv == TypeOK /\ Visits /\ AddsUp(db) /\ AddsUp(card)

(* The five-tuples that failed or lost bytes are five-tuples.              *)
LossTypes == failed \subseteq Flow /\ lost \subseteq Flow

LEMMA LossesTyped == LossTypes /\ [Next]_vars => LossTypes'
<1> SUFFICES ASSUME LossTypes, [Next]_vars PROVE LossTypes'
  OBVIOUS
<1>1. ASSUME NEW f \in Flow, Open(f) \/ StoreFlow(f) \/ StoreFails(f) PROVE LossTypes'
  BY <1>1 DEF Open, StoreFlow, StoreFails, LossTypes
<1>2. ASSUME NEW S \in SUBSET Flow, Read(S) PROVE LossTypes'
  BY <1>2 DEF Read, LossTypes
<1>3. ASSUME NEW f \in Flow, Close(f) \/ SkipFlow(f) \/ DropNoise(f) \/ \E d \in Dir : Send(f, d)
      PROVE  LossTypes'
  BY <1>3 DEF Close, SkipFlow, DropNoise, Send, losses, LossTypes
<1>4. CASE PruneAndCommit \/ Sleep \/ Restart \/ Writeback \/ PowerCut \/ UNCHANGED vars
  BY <1>4 DEF PruneAndCommit, Sleep, Restart, Writeback, PowerCut, vars, losses, LossTypes
<1>. QED BY <1>1, <1>2, <1>3, <1>4 DEF Next, Loop

LEMMA RowsInit == Init => RowsInv
<1> SUFFICES ASSUME Init PROVE RowsInv
  OBVIOUS
<1>. USE FlowConstants, ZeroIsBytes DEF Init
<1>1. EmptyDatabase \in Database
  BY DEF EmptyDatabase, Database
<1>2. AddsUp(EmptyDatabase)
  <2> SUFFICES ASSUME NEW f \in Flow, NEW d \in Dir
               PROVE  RowBytes(EmptyDatabase, {f} \X Bucket, f, d) + EmptyDatabase.pruned[f][d]
                        = EmptyDatabase.credited[f][d]
    BY DEF AddsUp
  <2>1. EmptyDatabase.pruned[f][d] = 0 /\ EmptyDatabase.credited[f][d] = 0
    BY DEF EmptyDatabase, Zero
  <2>. DEFINE a == Rows(EmptyDatabase, {f} \X Bucket, f, d)
  <2>2. \A b \in Bucket : EmptyDatabase.row[<<f, b>>] = None
    BY DEF EmptyDatabase
  <2>3. \A b \in Bucket : a[b] = 0
    BY <2>2 DEF Rows
  <2>4. a \in [Bucket -> Nat] /\ RowBytes(EmptyDatabase, {f} \X Bucket, f, d) = Total(a)
    BY <1>1, RowsAreNumbers
  <2>. HIDE DEF a
  <2>5. Total(a) = 0
    BY <2>3, <2>4, TotalOfNothing
  <2>. QED BY <2>1, <2>4, <2>5
<1>3. TypeOK
  <2>1. pending \subseteq {f \in Flow : table[f] # None} /\ bucket \in Bucket
    BY DEF Bucket
  <2>2. sinceCommit \in 0 .. CommitEvery /\ restarts \in 0 .. MaxRestarts /\ cuts \in 0 .. MaxCuts
    OBVIOUS
  <2>3. live \in [Flow -> BOOLEAN] /\ missed \in [Flow -> 0 .. MaxMissed] /\ table \in [Flow -> Entry \cup {None}]
    OBVIOUS
  <2>4. counter \in [Flow -> Bytes] /\ sent \in [Flow -> Bytes] /\ shown \in [Flow -> Bytes]
        /\ base \in [Flow -> Bytes]
    OBVIOUS
  <2>. QED BY <1>1, <2>1, <2>2, <2>3, <2>4 DEF TypeOK
<1>. QED BY <1>1, <1>2, <1>3 DEF RowsInv, Visits

(* The kernel's connections do not touch the database.                     *)
LEMMA RowsKernel ==
  ASSUME RowsInv, LossTypes', NEW f \in Flow, Open(f) \/ Close(f) \/ \E d \in Dir : Send(f, d)
  PROVE  RowsInv'
<1>1. UNCHANGED <<table, db, card, pc, pending, sinceCommit, bucket, shown, restarts, cuts>>
  BY DEF Open, Close, Send
<1>2. /\ live' \in [Flow -> BOOLEAN] /\ missed' \in [Flow -> 0 .. MaxMissed]
      /\ base' \in [Flow -> Bytes]
  <2>1. CASE Open(f)
    <3>1. 0 \in 0 .. MaxMissed
      BY FlowConstants
    <3>. QED BY <2>1, <3>1 DEF Open, RowsInv, TypeOK
  <2>2. CASE Close(f)
    BY <2>2 DEF Close, RowsInv, TypeOK
  <2>3. ASSUME NEW d \in Dir, Send(f, d)
        PROVE  live' = live /\ missed' = missed /\ base' = base
    BY <2>3 DEF Send
  <2>. QED BY <2>1, <2>2, <2>3 DEF RowsInv, TypeOK
<1>3. counter' \in [Flow -> Bytes] /\ sent' \in [Flow -> Bytes]
  <2>1. CASE Open(f)
    BY <2>1, ZeroIsBytes DEF Open, RowsInv, TypeOK
  <2>2. CASE Close(f)
    BY <2>2 DEF Close, RowsInv, TypeOK
  <2>3. ASSUME NEW d \in Dir, Send(f, d) PROVE counter' \in [Flow -> Bytes] /\ sent' \in [Flow -> Bytes]
    BY <2>3 DEF Send, RowsInv, TypeOK, Bytes
  <2>. QED BY <2>1, <2>2, <2>3
<1>4. TypeOK'
  BY <1>1, <1>2, <1>3 DEF RowsInv, TypeOK, LossTypes
<1>5. AddsUp(db)' /\ AddsUp(card)' /\ Visits'
  BY <1>1 DEF RowsInv, AddsUp, RowBytes, Visits
<1>. QED BY <1>4, <1>5 DEF RowsInv

LEMMA RowsRead ==
  ASSUME RowsInv, LossTypes', NEW S \in SUBSET Flow, Read(S)
  PROVE  RowsInv'
<1>. DEFINE read == {f \in S : counter[f] # Zero}
<1>1. /\ \A f \in Flow : live[f] /\ f \notin S => missed[f] < MaxMissed
      /\ table' = [f \in Flow |-> IF f \in read THEN Ingested(f) ELSE Aged(f)]
      /\ shown' = [f \in Flow |-> IF f \in read THEN Plus(base[f], counter[f]) ELSE shown[f]]
      /\ missed' = [f \in Flow |-> IF live[f] /\ f \notin S THEN missed[f] + 1 ELSE 0]
      /\ UNCHANGED <<live, counter, db, card, sinceCommit, bucket, sent, base, restarts, cuts>>
  BY DEF Read
<1>2. \/ pc' = "store" /\ pending' = {f \in Flow : table'[f] # None}
      \/ pc' = "sleep" /\ pending' = pending /\ pc = "read"
  BY DEF Read
<1>. HIDE DEF read
<1>3. table' \in [Flow -> Entry \cup {None}]
  <2>1. ASSUME NEW f \in Flow PROVE Ingested(f) \in Entry /\ (Aged(f) = None \/ Aged(f) \in Entry)
    BY EntriesRead DEF RowsInv, TypeOK
  <2>. QED BY <1>1, <2>1
<1>4. shown' \in [Flow -> Bytes]
  <2>1. ASSUME NEW f \in Flow PROVE Plus(base[f], counter[f]) \in Bytes /\ shown[f] \in Bytes
    BY PlusIsBytes DEF RowsInv, TypeOK
  <2>. QED BY <1>1, <2>1
<1>5. missed' \in [Flow -> 0 .. MaxMissed]
  BY <1>1, FlowConstants DEF RowsInv, TypeOK
<1>6. pending' \subseteq {f \in Flow : table'[f] # None} /\ (pc' # "store" => pending' = {})
  <2>1. pc = "read" => pending = {}
    BY DEF RowsInv, Visits
  <2>. QED BY <1>2, <2>1
<1>7. pc' \in {"read", "store", "sleep"}
  BY <1>2
<1>8. TypeOK'
  <2>1. UNCHANGED <<live, counter, db, card, sinceCommit, bucket, sent, base, restarts, cuts>>
    BY <1>1
  <2>. QED BY <1>3, <1>4, <1>5, <1>6, <1>7, <2>1 DEF RowsInv, TypeOK, LossTypes
<1>9. Visits'
  BY <1>6 DEF Visits
<1>10. AddsUp(db)' /\ AddsUp(card)'
  BY <1>1 DEF RowsInv, AddsUp, RowBytes
<1>. QED BY <1>8, <1>9, <1>10 DEF RowsInv

(* A visit of the commit: the entry remains or is cleared, the row is      *)
(* added to, or made only, or neither.                                     *)
LEMMA RowsVisit ==
  ASSUME RowsInv, LossTypes', Visits', NEW f \in Flow, SkipFlow(f) \/ DropNoise(f) \/ StoreFlow(f) \/ StoreFails(f)
  PROVE  RowsInv'
<1>1. /\ pc = "store" /\ f \in pending /\ pending' = pending \ {f}
      /\ UNCHANGED <<live, counter, missed, sent, base, card, pc, sinceCommit, bucket, shown, restarts, cuts>>
  BY DEF SkipFlow, DropNoise, StoreFlow, StoreFails, Storable, Visited, kernel
<1>2. table' = table \/ table' = Cleared(f)
  BY DEF SkipFlow, DropNoise, StoreFlow, StoreFails
<1>3. db' \in {db, Inserted(f), Updated(Inserted(f), f)}
  BY DEF SkipFlow, DropNoise, StoreFlow, StoreFails
<1>4. table[f] \in Entry /\ db \in Database /\ AddsUp(db)
  BY <1>1 DEF RowsInv, TypeOK
<1>5. Inserted(f) \in Database /\ AddsUp(Inserted(f)) /\ Inserted(f).row[<<f, table[f].day>>] # None
  BY <1>4, InsertKeeps
<1>6. Updated(Inserted(f), f) \in Database /\ AddsUp(Updated(Inserted(f), f))
  <2>. DEFINE I == Inserted(f)
  <2>1. I \in Database /\ AddsUp(I) /\ I.row[<<f, table[f].day>>] # None
    BY <1>5
  <2>. HIDE DEF I
  <2>2. Updated(I, f) \in Database /\ AddsUp(Updated(I, f))
    BY <1>4, <2>1, UpdateKeeps
  <2>. QED BY <2>2 DEF I
<1>7. db' \in Database
  BY <1>3, <1>4, <1>5, <1>6
<1>8. AddsUp(db)' /\ AddsUp(card)'
  <2>1. \A D : D = db' => (AddsUp(D) => AddsUp(db)')
    BY DEF AddsUp, RowBytes
  <2>2. AddsUp(card)'
    BY <1>1 DEF RowsInv, AddsUp, RowBytes
  <2>. QED BY <1>3, <1>4, <1>5, <1>6, <2>1, <2>2
<1>9. table' \in [Flow -> Entry \cup {None}]
  <2>1. [table[f] EXCEPT !.bytes = Zero, !.dirty = FALSE] \in Entry
    BY <1>4, ZeroIsBytes DEF Entry
  <2>. QED BY <1>2, <2>1 DEF RowsInv, TypeOK, Cleared
<1>10. TypeOK'
  <2>1. pending' \subseteq {g \in Flow : table'[g] # None}
    BY DEF Visits
  <2>. QED BY <1>1, <1>7, <1>9, <2>1 DEF RowsInv, TypeOK, LossTypes
<1>. QED BY <1>8, <1>10 DEF RowsInv

LEMMA RowsCommit == ASSUME RowsInv, LossTypes', PruneAndCommit  PROVE RowsInv'
<1>1. /\ pc = "store" /\ pending = {} /\ pc' = "sleep" /\ sinceCommit' = 0 /\ card' = db'
      /\ UNCHANGED <<live, counter, missed, sent, base, table, pending, bucket, shown, restarts, cuts>>
  BY DEF PruneAndCommit, kernel
<1>2. db \in Database /\ AddsUp(db)
  BY DEF RowsInv, TypeOK
<1>3. PICK D : D = db' /\ D \in Database /\ AddsUp(D)
  <2>1. CASE UNCHANGED db
    BY <1>2, <2>1
  <2>2. ASSUME NEW E \in SUBSET {r \in Flow \X Bucket : r[2] + Retention = bucket},
               db' = Pruned(E \cup {r \in Flow \X Bucket : r[2] + Retention < bucket})
        PROVE  \E D : D = db' /\ D \in Database /\ AddsUp(D)
    <3>. DEFINE R == E \cup {r \in Flow \X Bucket : r[2] + Retention < bucket}
    <3>1. R \in SUBSET (Flow \X Bucket) /\ db' = Pruned(R)
      BY <2>2
    <3>. HIDE DEF R
    <3>2. Pruned(R) \in Database /\ AddsUp(Pruned(R))
      BY <1>2, <3>1, PruneKeeps
    <3>. QED BY <3>1, <3>2
  <2>. QED BY <2>1, <2>2 DEF PruneAndCommit
<1>4. AddsUp(db)' /\ AddsUp(card)'
  BY <1>1, <1>3 DEF AddsUp, RowBytes
<1>5. TypeOK'
  BY <1>1, <1>3, FlowConstants DEF RowsInv, TypeOK, LossTypes
<1>6. Visits'
  BY <1>1 DEF Visits
<1>. QED BY <1>4, <1>5, <1>6 DEF RowsInv

LEMMA RowsNext == RowsInv /\ [Next]_vars => RowsInv'
<1> SUFFICES ASSUME RowsInv, [Next]_vars PROVE RowsInv'
  OBVIOUS
<1>1. Visits'
  BY VisitsNext DEF RowsInv, TypeOK
<1>2. LossTypes'
  BY LossesTyped DEF LossTypes, RowsInv, TypeOK
<1>3. ASSUME NEW f \in Flow, Open(f) \/ Close(f) \/ \E d \in Dir : Send(f, d) PROVE RowsInv'
  BY <1>2, <1>3, RowsKernel
<1>4. ASSUME NEW S \in SUBSET Flow, Read(S) PROVE RowsInv'
  BY <1>2, <1>4, RowsRead
<1>5. ASSUME NEW f \in Flow, SkipFlow(f) \/ DropNoise(f) \/ StoreFlow(f) \/ StoreFails(f) PROVE RowsInv'
  BY <1>1, <1>2, <1>5, RowsVisit
<1>6. CASE PruneAndCommit
  BY <1>2, <1>6, RowsCommit
<1>7. CASE Sleep
  <2>1. /\ UNCHANGED <<live, counter, missed, sent, base, table, db, card, pending, shown, restarts, cuts>>
        /\ pc' = "read" /\ bucket' \in Bucket
        /\ sinceCommit' = IF sinceCommit < CommitEvery THEN sinceCommit + 1 ELSE sinceCommit
    BY <1>7 DEF Sleep, kernel
  <2>2. sinceCommit' \in 0 .. CommitEvery
    BY <2>1, FlowConstants DEF RowsInv, TypeOK
  <2>3. TypeOK'
    BY <1>2, <2>1, <2>2 DEF RowsInv, TypeOK, LossTypes
  <2>. QED BY <1>1, <2>1, <2>3 DEF RowsInv, AddsUp, RowBytes
<1>8. CASE Restart
  <2>1. /\ UNCHANGED <<live, counter, missed, sent, base, db, card, bucket, shown, cuts>>
        /\ table' = [f \in Flow |-> None] /\ pc' = "read" /\ pending' = {} /\ sinceCommit' = CommitEvery
        /\ restarts < MaxRestarts /\ restarts' = restarts + 1
    BY <1>8 DEF Restart, Fresh, kernel
  <2>2. sinceCommit' \in 0 .. CommitEvery /\ restarts' \in 0 .. MaxRestarts
    BY <2>1, FlowConstants DEF RowsInv, TypeOK
  <2>3. TypeOK'
    BY <1>2, <2>1, <2>2 DEF RowsInv, TypeOK, LossTypes
  <2>. QED BY <1>1, <2>1, <2>3 DEF RowsInv, AddsUp, RowBytes
<1>9. CASE Writeback
  <2>1. /\ UNCHANGED <<live, counter, missed, sent, base, table, db, pc, pending, sinceCommit, bucket,
                       shown, restarts, cuts>>
        /\ card' = db
    BY <1>9 DEF Writeback, kernel
  <2>2. TypeOK'
    BY <1>2, <2>1 DEF RowsInv, TypeOK, LossTypes
  <2>. QED BY <1>1, <2>1, <2>2 DEF RowsInv, AddsUp, RowBytes
<1>10. CASE PowerCut
  <2>1. /\ UNCHANGED <<counter, missed, sent, base, card, bucket, shown, restarts>>
        /\ table' = [f \in Flow |-> None] /\ pc' = "read" /\ pending' = {} /\ sinceCommit' = CommitEvery
        /\ cuts < MaxCuts /\ cuts' = cuts + 1 /\ db' = card /\ live' = [f \in Flow |-> FALSE]
    BY <1>10 DEF PowerCut, Fresh
  <2>2. sinceCommit' \in 0 .. CommitEvery /\ cuts' \in 0 .. MaxCuts
    BY <2>1, FlowConstants DEF RowsInv, TypeOK
  <2>3. TypeOK'
    BY <1>2, <2>1, <2>2 DEF RowsInv, TypeOK, LossTypes
  <2>. QED BY <1>1, <2>1, <2>3 DEF RowsInv, AddsUp, RowBytes
<1>11. CASE UNCHANGED vars
  BY <1>11 DEF vars, RowsInv, TypeOK, Visits, AddsUp, RowBytes
<1>. QED BY <1>3, <1>4, <1>5, <1>6, <1>7, <1>8, <1>9, <1>10, <1>11 DEF Next, Loop

(* The types of the daemon's and the kernel's state, with restarts, power  *)
(* cuts and failing statements.                                            *)
THEOREM FlowsTyped == Spec => []TypeOK
<1>1. RowsInv => TypeOK
  BY DEF RowsInv
<1>. QED BY <1>1, RowsInit, RowsNext, PTL DEF Spec

(* The traffic table adds up, in what the daemon sees and on the card: for *)
(* any number of flows and buckets, any retention, any restarts, power     *)
(* cuts and failing statements (database_store_flow, database_prune).      *)
THEOREM RowsAlwaysAddUp == Spec => []RowsAddUp
<1>1. RowsInv => RowsAddUp
  BY DEF RowsInv, AddsUp, RowsAddUp
<1>. QED BY <1>1, RowsInit, RowsNext, PTL DEF Spec

-----------------------------------------------------------------------------
(* Nothing shown is lost: while the daemon runs, every byte the kernel's   *)
(* table showed it of a five-tuple is in the database or in an entry that  *)
(* the next commit writes, unless the five-tuple is reused while its entry *)
(* is held or the entry expires after a statement failed.  This needs a    *)
(* commit interval of at most one iteration more than the timeout of a     *)
(* flow (the defaults are 60 s and 300 s): otherwise an entry can expire   *)
(* before a commit has seen it.                                            *)
Prompt == CommitEvery <= FlowTimeout + 1

(* The entry of a live connection was read from this connection and not    *)
(* from an earlier one with its tuple: what was shown of the connection is *)
(* what its entry has read.                                                *)
OfNow(f) ==
  /\ table[f].unseen <= missed[f] /\ table[f].prev # Zero
  /\ \A d \in Dir : /\ table[f].prev[d] <= counter[f][d]
                    /\ shown[f][d] = base[f][d] + table[f].prev[d]

(* A commit is due before the entry can expire: it was seen since the last *)
(* one.                                                                    *)
InTime(f) ==
  /\ pc = "read"  => table[f].unseen + 2 <= sinceCommit
  /\ pc = "sleep" => table[f].unseen + 1 <= sinceCommit
  /\ pc = "store" => f \in pending

(* Where the loop stands in its commit interval.                           *)
Rhythm ==
  /\ pc = "read"  => sinceCommit >= 1 \/ CommitEvery = 0
  /\ pc = "sleep" => sinceCommit < CommitEvery \/ CommitEvery = 0

(* An entry with bytes to store is marked, and a commit or a failed one    *)
(* knows of them.                                                          *)
Waits(f) == table[f].bytes # Zero => table[f].dirty /\ (InTime(f) \/ f \in failed)

FlowInv(f) ==
  /\ table[f] = None /\ live[f] => shown[f] = base[f]
  /\ table[f] # None /\ live[f] => OfNow(f)
  /\ table[f] # None => Waits(f)
  /\ f \notin Noise => \A d \in Dir : db.credited[f][d] + Unstored(f)[d] = shown[f][d]

ShownInv == restarts = 0 /\ cuts = 0 => Rhythm /\ \A f \in Flow \ lost : FlowInv(f)

(* A pair of counters is zero when each of its directions is.              *)
LEMMA ZeroOrNot ==
  ASSUME NEW b \in Bytes PROVE b = Zero <=> \A d \in Dir : b[d] = 0
BY DEF Bytes, Zero

LEMMA ShownInit == Init => ShownInv
<1> SUFFICES ASSUME Init PROVE ShownInv
  OBVIOUS
<1>1. Rhythm
  BY FlowConstants DEF Init, Rhythm
<1>2. ASSUME NEW f \in Flow PROVE FlowInv(f)
  <2>1. table[f] = None /\ ~live[f] /\ db.credited[f] = Zero /\ shown[f] = Zero
    BY DEF Init, EmptyDatabase
  <2>2. \A d \in Dir : Zero[d] = 0
    BY DEF Zero
  <2>. QED BY <2>1, <2>2 DEF FlowInv, Unstored
<1>. QED BY <1>1, <1>2 DEF ShownInv

(* The types of what belongs to a flow.                                    *)
LEMMA FlowParts ==
  ASSUME TypeOK, NEW f \in Flow
  PROVE  /\ live[f] \in BOOLEAN /\ counter[f] \in Bytes /\ base[f] \in Bytes /\ shown[f] \in Bytes
         /\ missed[f] \in 0 .. MaxMissed /\ missed[f] \in Nat /\ db.credited[f] \in Bytes
         /\ table[f] = None \/ table[f] \in Entry
         /\ table[f] # None => /\ table[f] \in Entry /\ table[f].bytes \in Bytes
                               /\ table[f].prev \in Bytes /\ table[f].unseen \in Nat
                               /\ table[f].unseen <= FlowTimeout
<1>1. db.credited \in [Flow -> Bytes]
  BY DEF TypeOK, Database
<1>. QED BY <1>1, EntryFields, FlowConstants DEF TypeOK

(* A connection opens, closes or sends: the daemon sees none of it yet.    *)
LEMMA ShownKernel ==
  ASSUME TypeOK, ShownInv, NEW g \in Flow, Open(g) \/ Close(g) \/ \E k \in Dir : Send(g, k)
  PROVE  ShownInv'
<1> SUFFICES ASSUME restarts = 0, cuts = 0 PROVE Rhythm' /\ \A f \in Flow \ lost' : FlowInv(f)'
  BY DEF ShownInv, Open, Close, Send
<1>1. UNCHANGED <<table, db, pc, pending, sinceCommit, shown, failed>> /\ lost \subseteq lost'
  BY DEF Open, Close, Send, losses
<1>2. Rhythm'
  BY <1>1 DEF ShownInv, Rhythm
<1>3. ASSUME NEW f \in Flow, f \notin lost' PROVE FlowInv(f)'
  <2>1. FlowInv(f)
    BY <1>1, <1>3 DEF ShownInv
  <2>2. /\ table[f] # None => Waits(f)'
        /\ f \notin Noise => \A d \in Dir : db'.credited[f][d] + Unstored(f)'[d] = shown'[f][d]
    BY <1>1, <2>1 DEF FlowInv, Waits, InTime, Unstored
  <2>3. CASE Open(g)
    <3>1. ~live[g] /\ (f = g => table[g] = None) /\ base' = [base EXCEPT ![g] = shown[g]]
          /\ \A h \in Flow : h # g => live'[h] = live[h] /\ counter'[h] = counter[h] /\ missed'[h] = missed[h]
      BY <1>3, <2>3 DEF Open, TypeOK
    <3>2. CASE f = g
      <4>1. base'[f] = shown[f]
        BY <3>1, <3>2 DEF TypeOK
      <4>. QED BY <1>1, <2>2, <3>1, <3>2, <4>1 DEF FlowInv
    <3>3. CASE f # g
      <4>1. base'[f] = base[f] /\ live'[f] = live[f] /\ counter'[f] = counter[f] /\ missed'[f] = missed[f]
        BY <3>1, <3>3 DEF TypeOK
      <4>. QED BY <1>1, <2>1, <2>2, <4>1 DEF FlowInv, OfNow
    <3>. QED BY <3>2, <3>3
  <2>4. CASE Close(g)
    <3>1. base' = base /\ counter' = counter /\ missed' = missed /\ (live'[f] => live[f])
      BY <2>4 DEF Close, TypeOK
    <3>. QED BY <1>1, <2>1, <2>2, <3>1 DEF FlowInv, OfNow
  <2>5. ASSUME NEW k \in Dir, Send(g, k) PROVE FlowInv(f)'
    <3>1. base' = base /\ missed' = missed /\ live' = live
          /\ counter' = [counter EXCEPT ![g][k] = @ + 1]
      BY <2>5 DEF Send
    <3>2. \A d \in Dir : counter[f][d] \in Nat /\ counter'[f][d] \in Nat /\ counter[f][d] <= counter'[f][d]
      BY <3>1 DEF TypeOK, Bytes
    <3>3. table[f] # None => \A d \in Dir : table[f].prev[d] \in Nat
      BY FlowParts DEF Bytes
    <3>4. table[f] # None /\ live[f] => OfNow(f)'
      BY <1>1, <2>1, <3>1, <3>2, <3>3 DEF FlowInv, OfNow
    <3>. QED BY <1>1, <2>1, <2>2, <3>1, <3>4 DEF FlowInv
  <2>. QED BY <2>3, <2>4, <2>5
<1>. QED BY <1>2, <1>3

(* A reading: what it shows it takes in, and what expires has been stored. *)
LEMMA ShownRead ==
  ASSUME Prompt, TypeOK, ShownInv, NEW S \in SUBSET Flow, Read(S)
  PROVE  ShownInv'
<1> SUFFICES ASSUME restarts = 0, cuts = 0 PROVE Rhythm' /\ \A f \in Flow \ lost' : FlowInv(f)'
  BY DEF ShownInv, Read
<1>. DEFINE seen == {f \in S : counter[f] # Zero}
<1>1. /\ pc = "read" /\ S \subseteq {f \in Flow : live[f]}
      /\ \A f \in Flow : live[f] /\ f \notin S => missed[f] < MaxMissed
      /\ table' = [f \in Flow |-> IF f \in seen THEN Ingested(f) ELSE Aged(f)]
      /\ shown' = [f \in Flow |-> IF f \in seen THEN Plus(base[f], counter[f]) ELSE shown[f]]
      /\ missed' = [f \in Flow |-> IF live[f] /\ f \notin S THEN missed[f] + 1 ELSE 0]
      /\ UNCHANGED <<live, counter, db, sinceCommit, base, failed>>
      /\ lost' = lost \cup {f \in failed : table'[f] = None}
  BY DEF Read
<1>2. \/ sinceCommit >= CommitEvery /\ pc' = "store" /\ pending' = {f \in Flow : table'[f] # None}
      \/ ~(sinceCommit >= CommitEvery) /\ pc' = "sleep"
  BY DEF Read
<1>3. /\ Rhythm /\ sinceCommit \in Nat /\ sinceCommit <= CommitEvery /\ CommitEvery \in Nat
      /\ FlowTimeout \in Nat /\ MaxMissed \in Nat /\ MaxMissed <= FlowTimeout /\ CommitEvery <= FlowTimeout + 1
  BY FlowConstants DEF ShownInv, TypeOK, Prompt
<1>4. Rhythm'
  BY <1>1, <1>2, <1>3 DEF Rhythm
<1>5. ASSUME NEW f \in Flow, f \notin lost' PROVE FlowInv(f)'
  <2>1. FlowInv(f)
    BY <1>1, <1>5 DEF ShownInv
  <2>2. CASE f \in seen
    <3>1. /\ table'[f] = Ingested(f) /\ shown'[f] = Plus(base[f], counter[f]) /\ live[f]
          /\ counter[f] # Zero /\ missed'[f] = 0
      BY <1>1, <2>2
    <3>2. /\ counter[f] \in Bytes /\ base[f] \in Bytes /\ shown[f] \in Bytes /\ db.credited[f] \in Bytes
          /\ \A d \in Dir : /\ counter[f][d] \in Nat /\ base[f][d] \in Nat /\ shown[f][d] \in Nat
                            /\ db.credited[f][d] \in Nat
                            /\ shown'[f][d] = base[f][d] + counter[f][d]
      BY <3>1, FlowParts, PlusIsBytes DEF Bytes
    <3>3. Ingested(f) \in Entry /\ Ingested(f) # None
      BY EntriesRead, EntryFields DEF TypeOK
    <3>4. Ingested(f).unseen = 0 /\ Ingested(f).prev = counter[f]
      BY DEF Ingested
    <3>5. OfNow(f)'
      BY <1>1, <3>1, <3>2, <3>4 DEF OfNow
    <3>6. \A d \in Dir : db.credited[f][d] + Ingested(f).bytes[d] = shown'[f][d] \/ f \in Noise
      <4>1. CASE table[f] = None
        <5>1. Ingested(f).bytes = counter[f] /\ shown[f] = base[f] /\ Unstored(f) = Zero
          BY <2>1, <3>1, <4>1 DEF Ingested, FlowInv, Unstored
        <5>2. \A d \in Dir : Zero[d] = 0
          BY DEF Zero
        <5>3. \A d \in Dir : db.credited[f][d] + 0 = shown[f][d] \/ f \in Noise
          BY <2>1, <5>1, <5>2 DEF FlowInv
        <5>. QED BY <3>2, <5>1, <5>3
      <4>2. CASE table[f] # None
        <5>. DEFINE e == table[f]
        <5>1. e.bytes \in Bytes /\ e.prev \in Bytes
          BY <4>2, FlowParts
        <5>2. OfNow(f) /\ Unstored(f) = e.bytes
          BY <2>1, <3>1, <4>2 DEF FlowInv, Unstored
        <5>3. ASSUME NEW d \in Dir
              PROVE  Ingested(f).bytes[d] = e.bytes[d] + (counter[f][d] - e.prev[d])
          <6>1. Ingested(f).bytes = Plus(e.bytes, Growth(counter[f], e.prev))
            BY <4>2 DEF Ingested
          <6>2. e.prev[d] <= counter[f][d] /\ e.prev[d] \in Nat /\ counter[f][d] \in Nat
            BY <3>2, <5>1, <5>2 DEF OfNow, Bytes
          <6>3. Growth(counter[f], e.prev)[d] = counter[f][d] - e.prev[d]
            BY <3>2, <5>1, <6>2, GrowthIsBytes
          <6>4. Plus(e.bytes, Growth(counter[f], e.prev))[d] = e.bytes[d] + Growth(counter[f], e.prev)[d]
            BY <3>2, <5>1, PlusIsBytes, GrowthIsBytes
          <6>. QED BY <6>1, <6>3, <6>4
        <5>4. ASSUME NEW d \in Dir, f \notin Noise
              PROVE  db.credited[f][d] + Ingested(f).bytes[d] = shown'[f][d]
          <6>1. db.credited[f][d] + e.bytes[d] = shown[f][d] /\ shown[f][d] = base[f][d] + e.prev[d]
            BY <2>1, <5>2, <5>4 DEF FlowInv, OfNow
          <6>2. e.bytes[d] \in Nat /\ e.prev[d] \in Nat
            BY <5>1 DEF Bytes
          <6>3. Ingested(f).bytes[d] = e.bytes[d] + (counter[f][d] - e.prev[d])
            BY <5>3
          <6>. HIDE DEF e
          <6>. QED BY <3>2, <6>1, <6>2, <6>3
        <5>. QED BY <5>4
      <4>. QED BY <4>1, <4>2
    <3>7. Ingested(f).bytes # Zero => Ingested(f).dirty /\ InTime(f)'
      <4>1. Ingested(f).bytes = Zero \/ Ingested(f).dirty
        <5>1. CASE table[f] = None
          BY <5>1 DEF Ingested
        <5>2. CASE table[f] # None
          <6>. DEFINE e == table[f]
          <6>1. /\ Ingested(f).bytes = Plus(e.bytes, Growth(counter[f], e.prev))
                /\ Ingested(f).dirty = (e.dirty \/ Growth(counter[f], e.prev) # Zero)
            BY <5>2 DEF Ingested
          <6>2. e.bytes = Zero \/ e.dirty
            BY <2>1, <5>2 DEF FlowInv, Waits
          <6>3. Plus(Zero, Zero) = Zero
            BY DEF Plus, Zero
          <6>. QED BY <6>1, <6>2, <6>3
        <5>. QED BY <5>1, <5>2
      <4>2. pc' = "sleep" => 0 + 1 <= sinceCommit'
        BY <1>1, <1>2, <1>3 DEF Rhythm
      <4>3. pc' = "store" => f \in pending'
        BY <1>2, <3>1, <3>3
      <4>4. pc' # "read"
        BY <1>2
      <4>. QED BY <3>1, <3>4, <4>1, <4>2, <4>3, <4>4 DEF InTime
    <3>. QED BY <1>1, <3>1, <3>3, <3>5, <3>6, <3>7 DEF FlowInv, Waits, Unstored
  <2>3. CASE f \notin seen /\ table[f] = None
    <3>1. table'[f] = None /\ shown'[f] = shown[f]
      BY <1>1, <2>3 DEF Aged
    <3>. QED BY <1>1, <2>1, <2>3, <3>1 DEF FlowInv, Unstored
  <2>4. CASE f \notin seen /\ table[f] # None
    <3>. DEFINE e == table[f]
    <3>1. table'[f] = Aged(f) /\ shown'[f] = shown[f]
      BY <1>1, <2>4
    <3>2. /\ e \in Entry /\ e.bytes \in Bytes /\ e.prev \in Bytes /\ e.unseen \in Nat
          /\ e.unseen <= FlowTimeout /\ missed[f] \in Nat
      BY <2>4, FlowParts
    <3>3. ASSUME live[f]
          PROVE  f \notin S /\ missed'[f] = missed[f] + 1 /\ e.unseen < FlowTimeout
      <4>1. OfNow(f)
        BY <2>1, <2>4, <3>3 DEF FlowInv
      <4>2. counter[f] # Zero
        <5>1. counter[f] \in Bytes /\ e.prev \in Bytes /\ e.prev # Zero
          BY <3>2, <4>1, FlowParts DEF OfNow
        <5>2. PICK d \in Dir : e.prev[d] # 0
          BY <5>1, ZeroOrNot
        <5>3. e.prev[d] <= counter[f][d] /\ e.prev[d] \in Nat /\ counter[f][d] \in Nat
          BY <4>1, <5>1 DEF OfNow, Bytes
        <5>4. counter[f][d] # 0
          BY <5>2, <5>3
        <5>. QED BY <5>1, <5>4, ZeroOrNot
      <4>3. f \notin S /\ missed[f] < MaxMissed
        BY <1>1, <2>4, <3>3, <4>2
      <4>4. e.unseen <= missed[f]
        BY <4>1 DEF OfNow
      <4>. QED BY <1>1, <1>3, <3>2, <3>3, <4>3, <4>4
    <3>4. CASE e.unseen >= FlowTimeout
      <4>1. table'[f] = None
        BY <2>4, <3>1, <3>4 DEF Aged
      <4>2. ~live[f]
        BY <1>3, <3>2, <3>3, <3>4
      <4>3. e.bytes = Zero
        <5>1. InTime(f) => e.unseen + 2 <= sinceCommit
          BY <1>1 DEF InTime
        <5>2. ~(e.unseen + 2 <= sinceCommit)
          BY <1>3, <3>2, <3>4
        <5>3. f \notin failed
          BY <1>1, <1>5, <4>1
        <5>. QED BY <2>1, <2>4, <5>1, <5>2, <5>3 DEF FlowInv, Waits
      <4>. QED BY <1>1, <2>1, <2>4, <3>1, <4>1, <4>2, <4>3 DEF FlowInv, Unstored
    <3>5. CASE ~(e.unseen >= FlowTimeout)
      <4>1. table'[f] = [e EXCEPT !.unseen = @ + 1]
        BY <2>4, <3>1, <3>5 DEF Aged
      <4>2. /\ table'[f].bytes = e.bytes /\ table'[f].prev = e.prev /\ table'[f].dirty = e.dirty
            /\ table'[f].unseen = e.unseen + 1
        BY <3>2, <4>1 DEF Entry
      <4>3. table'[f] # None
        <5>1. Aged(f) = None \/ Aged(f) \in Entry
          BY EntriesRead DEF TypeOK
        <5>2. e.unseen + 1 \in 0 .. FlowTimeout
          BY <1>3, <3>2, <3>5
        <5>3. table'[f] \in Entry
          BY <3>2, <4>1, <5>2 DEF Entry
        <5>. QED BY <5>3, EntryFields
      <4>4. live'[f] => OfNow(f)'
        <5>1. live'[f] => OfNow(f) /\ live[f]
          BY <1>1, <2>1, <2>4 DEF FlowInv
        <5>2. live'[f] => e.unseen + 1 <= missed'[f]
          BY <1>1, <3>2, <3>3, <5>1 DEF OfNow
        <5>. QED BY <1>1, <3>1, <4>2, <5>1, <5>2 DEF OfNow
      <4>5. Waits(f)'
        <5>1. e.bytes # Zero => e.dirty /\ (e.unseen + 2 <= sinceCommit \/ f \in failed)
          BY <1>1, <2>1, <2>4 DEF FlowInv, Waits, InTime
        <5>2. pc' = "store" => f \in pending'
          BY <1>2, <4>3
        <5>3. e.unseen + 2 <= sinceCommit => (e.unseen + 1) + 1 <= sinceCommit'
          BY <1>1, <1>3, <3>2
        <5>4. pc' # "read"
          BY <1>2
        <5>. QED BY <1>1, <4>2, <5>1, <5>2, <5>3, <5>4 DEF Waits, InTime
      <4>. QED BY <1>1, <2>1, <2>4, <3>1, <4>2, <4>3, <4>4, <4>5 DEF FlowInv, Unstored
    <3>. QED BY <3>4, <3>5
  <2>. QED BY <2>2, <2>3, <2>4
<1>. QED BY <1>4, <1>5

(* A visit whose statement fails leaves the entry to a later commit.       *)
LEMMA ShownFails ==
  ASSUME ShownInv, NEW g \in Flow, StoreFails(g)
  PROVE  ShownInv'
<1>1. /\ UNCHANGED <<live, counter, missed, table, pc, sinceCommit, base, shown, lost, restarts, cuts>>
      /\ db'.credited = db.credited /\ failed' = failed \cup {g} /\ pending' = pending \ {g}
  BY DEF StoreFails, Visited, Inserted, kernel
<1>2. Rhythm => Rhythm'
  BY <1>1 DEF Rhythm
<1>3. ASSUME NEW f \in Flow, FlowInv(f) PROVE FlowInv(f)'
  <2>1. table[f] # None => Waits(f)'
    BY <1>1, <1>3 DEF FlowInv, Waits, InTime
  <2>. QED BY <1>1, <1>3, <2>1 DEF FlowInv, OfNow, Unstored
<1>. QED BY <1>1, <1>2, <1>3 DEF ShownInv

(* A visit of the commit moves the bytes of an entry to its row.           *)
LEMMA ShownVisit ==
  ASSUME TypeOK, Visits, ShownInv, NEW g \in Flow,
         SkipFlow(g) \/ DropNoise(g) \/ StoreFlow(g)
  PROVE  ShownInv'
<1> SUFFICES ASSUME restarts = 0, cuts = 0 PROVE Rhythm' /\ \A f \in Flow \ lost' : FlowInv(f)'
  BY DEF ShownInv, SkipFlow, DropNoise, StoreFlow
<1>1. /\ pc = "store" /\ g \in pending /\ pending' = pending \ {g} /\ pc' = pc
      /\ UNCHANGED <<live, counter, missed, base, shown, sinceCommit, lost>>
      /\ \A f \in Flow : f # g /\ f \in failed => f \in failed'
  BY DEF losses, SkipFlow, DropNoise, StoreFlow, Storable, Visited, kernel
<1>2. Rhythm'
  BY <1>1 DEF Rhythm
<1>3. table[g] \in Entry /\ table[g] # None /\ table[g].bytes \in Bytes /\ Counts(db)
  BY <1>1, FlowParts DEF TypeOK, Counts, Database
<1>4. \/ table' = table /\ db' = db /\ (table[g].bytes = Zero \/ ~table[g].dirty)
      \/ table' = Cleared(g) /\ db' = db /\ g \in Noise
      \/ table' = Cleared(g) /\ db' = Updated(Inserted(g), g)
  BY DEF SkipFlow, DropNoise, StoreFlow
<1>5. g \notin lost => table[g].bytes = Zero \/ table[g].dirty
  BY <1>3 DEF ShownInv, FlowInv, Waits
<1>6. /\ table'[g] # None /\ (g \notin lost => table'[g].bytes = Zero)
      /\ table'[g].prev = table[g].prev /\ table'[g].unseen = table[g].unseen
      /\ \A f \in Flow : f # g => table'[f] = table[f]
  <2>1. CASE table' = table /\ (table[g].bytes = Zero \/ ~table[g].dirty)
    BY <1>3, <1>5, <2>1
  <2>2. CASE table' = Cleared(g)
    <3>. DEFINE c == [table[g] EXCEPT !.bytes = Zero, !.dirty = FALSE]
    <3>1. c \in Entry /\ c.bytes = Zero /\ c.prev = table[g].prev /\ c.unseen = table[g].unseen
      BY <1>3, ZeroIsBytes DEF Entry
    <3>2. table' = [table EXCEPT ![g] = c]
      BY <2>2 DEF Cleared, TypeOK
    <3>3. c # None
      BY <3>1, EntryFields
    <3>. HIDE DEF c
    <3>. QED BY <3>1, <3>2, <3>3 DEF TypeOK
  <2>. QED BY <1>4, <2>1, <2>2
<1>7. ASSUME NEW f \in Flow, NEW d \in Dir, f # g PROVE db'.credited[f][d] = db.credited[f][d]
  <2>1. Updated(Inserted(g), g).credited = [db.credited EXCEPT ![g] = Plus(@, table[g].bytes)]
    BY <1>3, StoreCredits
  <2>. QED BY <1>3, <1>4, <1>7, <2>1 DEF Counts
<1>8. ASSUME NEW d \in Dir, g \notin Noise, g \notin lost
      PROVE  db'.credited[g][d] = db.credited[g][d] + table[g].bytes[d]
  <2>1. Updated(Inserted(g), g).credited = [db.credited EXCEPT ![g] = Plus(@, table[g].bytes)]
    BY <1>3, StoreCredits
  <2>2. db.credited[g] \in Bytes /\ db.credited[g][d] \in Nat /\ Zero[d] = 0
    BY FlowParts DEF Bytes, Zero
  <2>3. CASE db' = Updated(Inserted(g), g)
    <3>1. db'.credited[g] = Plus(db.credited[g], table[g].bytes)
      BY <1>3, <2>1, <2>3 DEF Counts
    <3>. QED BY <1>3, <2>2, <3>1, PlusIsBytes
  <2>4. CASE db' = db /\ table[g].bytes = Zero
    BY <2>2, <2>4
  <2>. QED BY <1>4, <1>5, <1>8, <2>3, <2>4
<1>9. ASSUME NEW f \in Flow, f \notin lost' PROVE FlowInv(f)'
  <2>1. f \notin lost /\ FlowInv(f)
    BY <1>1, <1>9 DEF ShownInv
  <2>2. CASE f # g
    <3>1. table'[f] = table[f]
      BY <1>6, <2>2
    <3>2. table[f] # None => Waits(f)'
      BY <1>1, <2>1, <2>2, <3>1 DEF FlowInv, Waits, InTime
    <3>. QED BY <1>1, <1>7, <2>1, <2>2, <3>1, <3>2 DEF FlowInv, OfNow, Unstored
  <2>3. CASE f = g
    <3>1. live'[f] => OfNow(f)'
      BY <1>1, <1>3, <1>6, <2>1, <2>3 DEF FlowInv, OfNow
    <3>2. ASSUME NEW d \in Dir, f \notin Noise
          PROVE  db'.credited[f][d] + Unstored(f)'[d] = shown'[f][d]
      <4>1. Unstored(f)' = Zero /\ Unstored(f) = table[f].bytes
        BY <1>3, <1>6, <2>1, <2>3 DEF Unstored
      <4>2. db.credited[f][d] + table[f].bytes[d] = shown[f][d]
        BY <2>1, <3>2, <4>1 DEF FlowInv
      <4>3. db'.credited[f][d] = shown[f][d] /\ shown[f][d] \in Nat
        BY <1>8, <2>1, <2>3, <3>2, <4>2, FlowParts DEF Bytes
      <4>4. Zero[d] = 0
        BY DEF Zero
      <4>. QED BY <1>1, <4>1, <4>3, <4>4
    <3>. QED BY <1>6, <2>1, <2>3, <3>1, <3>2 DEF FlowInv, Waits
  <2>. QED BY <2>2, <2>3
<1>. QED BY <1>2, <1>9

LEMMA ShownNext == Prompt /\ RowsInv /\ ShownInv /\ [Next]_vars => ShownInv'
<1> SUFFICES ASSUME Prompt, RowsInv, ShownInv, [Next]_vars PROVE ShownInv'
  OBVIOUS
<1>1. TypeOK /\ Visits
  BY DEF RowsInv
<1>2. ASSUME NEW f \in Flow, Open(f) \/ Close(f) \/ \E d \in Dir : Send(f, d) PROVE ShownInv'
  BY <1>1, <1>2, ShownKernel
<1>3. ASSUME NEW S \in SUBSET Flow, Read(S) PROVE ShownInv'
  BY <1>1, <1>3, ShownRead
<1>4. ASSUME NEW f \in Flow, SkipFlow(f) \/ DropNoise(f) \/ StoreFlow(f) \/ StoreFails(f) PROVE ShownInv'
  BY <1>1, <1>4, ShownVisit, ShownFails
<1>5. CASE PruneAndCommit
  <2>1. /\ pc = "store" /\ pending = {} /\ pc' = "sleep" /\ sinceCommit' = 0
        /\ UNCHANGED <<live, counter, missed, base, table, shown, failed, lost, restarts, cuts>>
        /\ db'.credited = db.credited
    BY <1>5 DEF PruneAndCommit, kernel, losses, Pruned
  <2>2. Rhythm'
    BY <2>1, FlowConstants DEF Rhythm
  <2>3. ASSUME restarts = 0, cuts = 0, NEW f \in Flow, f \notin lost PROVE FlowInv(f)'
    <3>1. FlowInv(f)
      BY <2>3 DEF ShownInv
    <3>2. table[f] # None => Waits(f)'
      BY <2>1, <3>1 DEF FlowInv, Waits, InTime
    <3>. QED BY <2>1, <3>1, <3>2 DEF FlowInv, OfNow, Unstored
  <2>. QED BY <2>1, <2>2, <2>3 DEF ShownInv
<1>6. CASE Sleep
  <2>1. /\ UNCHANGED <<live, counter, missed, base, table, db, shown, failed, lost, restarts, cuts>>
        /\ pc = "sleep" /\ pc' = "read"
        /\ sinceCommit' = IF sinceCommit < CommitEvery THEN sinceCommit + 1 ELSE sinceCommit
        /\ sinceCommit \in Nat /\ CommitEvery \in Nat /\ sinceCommit <= CommitEvery
    BY <1>1, <1>6, FlowConstants DEF Sleep, kernel, losses, TypeOK
  <2>2. Rhythm => Rhythm'
    BY <2>1 DEF Rhythm
  <2>3. ASSUME restarts = 0, cuts = 0, NEW f \in Flow, f \notin lost PROVE FlowInv(f)'
    <3>1. FlowInv(f) /\ Rhythm
      BY <2>3 DEF ShownInv
    <3>2. table[f] # None => table[f].unseen \in Nat
      BY <1>1, FlowParts
    <3>3. table[f] # None /\ table[f].bytes # Zero
            => table[f].dirty /\ (table[f].unseen + 1 <= sinceCommit \/ f \in failed)
      BY <2>1, <3>1 DEF FlowInv, Waits, InTime
    <3>4. table[f] # None /\ table[f].unseen + 1 <= sinceCommit => table[f].unseen + 2 <= sinceCommit'
      BY <2>1, <3>1, <3>2 DEF Rhythm
    <3>5. table[f] # None => Waits(f)'
      BY <2>1, <3>3, <3>4 DEF Waits, InTime
    <3>. QED BY <2>1, <3>1, <3>5 DEF FlowInv, OfNow, Unstored
  <2>. QED BY <2>1, <2>2, <2>3 DEF ShownInv
<1>7. CASE Restart \/ PowerCut
  <2>1. restarts' # 0 \/ cuts' # 0
    BY <1>1, <1>7, FlowConstants DEF Restart, PowerCut, TypeOK
  <2>. QED BY <2>1 DEF ShownInv
<1>8. CASE Writeback \/ UNCHANGED vars
  <2>1. UNCHANGED <<live, counter, missed, base, table, db, shown, failed, lost, restarts, cuts, pc, pending,
                    sinceCommit>>
    BY <1>8 DEF Writeback, kernel, losses, vars
  <2>2. Rhythm => Rhythm'
    BY <2>1 DEF Rhythm
  <2>3. \A f \in Flow : FlowInv(f) => FlowInv(f)'
    BY <2>1 DEF FlowInv, OfNow, Waits, InTime, Unstored
  <2>. QED BY <2>1, <2>2, <2>3 DEF ShownInv
<1>. QED BY <1>2, <1>3, <1>4, <1>5, <1>6, <1>7, <1>8 DEF Next, Loop

(* Every byte that conntrack_update was shown of a flow that is stored at  *)
(* all is in its rows or in its entry, for any number of flows and any     *)
(* traffic, failing statements and reuse of five-tuples included: only a   *)
(* flow whose tuple is reused while its entry is held, or whose entry      *)
(* expires after a failure, may lose bytes; of all others flow_expire      *)
(* drops only what database_store_flow has written.                        *)
THEOREM ShownCounted == ASSUME Prompt PROVE Spec => []ShownIsCounted
<1>1. ShownInv => ShownIsCounted
  BY DEF ShownInv, FlowInv, ShownIsCounted
<1>2. RowsInv /\ ShownInv /\ [Next]_vars => ShownInv'
  BY ShownNext
<1>. QED BY <1>1, <1>2, ShownInit, RowsInit, RowsNext, PTL DEF Spec
=============================================================================
