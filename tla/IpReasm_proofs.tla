--------------------------- MODULE IpReasm_proofs ---------------------------
(* The fragment table for every number of slots, datagrams, keys and       *)
(* lengths: what it hands out is whole, what was shown in order does not   *)
(* wait, and no half datagram stays.                                       *)
EXTENDS IpReasm, TLAPS, WellFoundedInduction

LEMMA LeastSlot ==
  ASSUME NEW S \in SUBSET Nat, S # {}
  PROVE  \E i \in S : \A j \in S : i <= j
<1>1. \E i \in S : \A j \in S : ~ (<<j, i>> \in OpToRel(<, Nat))
  BY NatLessThanWellFounded, WFMin
<1>2. PICK i \in S : \A j \in S : ~ (<<j, i>> \in OpToRel(<, Nat))
  BY <1>1
<1>3. ASSUME NEW j \in S PROVE i <= j
  <2>1. ~ (<<j, i>> \in OpToRel(<, Nat))
    BY <1>2
  <2>2. ~ (j < i)
    BY <2>1 DEF OpToRel
  <2>3. QED BY <2>2
<1>4. QED BY <1>3

(* Where the scan of the table stops, and which slot is given up.          *)
LEMMA FirstInSlots ==
  ASSUME NEW S \in SUBSET Slot, S # {}
  PROVE  First(S) \in S
<1>1. \E i \in S : \A j \in S : i <= j
  BY LeastSlot, IpReasmConstants DEF Slot
<1>2. QED BY <1>1 DEF First

LEMMA LookupStops ==
  ASSUME NEW T, NEW k
  PROVE  /\ Lookup(T, k) = 0 => \A i \in Slot : T[i].inUse /\ T[i].key # k
         /\ Lookup(T, k) # 0 => /\ Lookup(T, k) \in Slot
                               /\ \/ ~ T[Lookup(T, k)].inUse
                                  \/ T[Lookup(T, k)].key = k
<1>1. Stops(T, k) \in SUBSET Slot /\ 0 \notin Slot
  BY IpReasmConstants DEF Stops, Slot
<1>2. Stops(T, k) # {} => First(Stops(T, k)) \in Stops(T, k)
  BY <1>1, FirstInSlots
<1>3. QED BY <1>1, <1>2 DEF Lookup, Stops

LEMMA HitSlotHits ==
  ASSUME NEW T, NEW k, HitSlot(T, k) # 0
  PROVE  /\ HitSlot(T, k) \in Slot /\ T[HitSlot(T, k)].inUse
         /\ T[HitSlot(T, k)].key = k /\ HitSlot(T, k) = Lookup(T, k)
BY LookupStops DEF HitSlot

LEMMA OldestInSlots ==
  ASSUME table \in [Slot -> Entry]
  PROVE  OldestSlot \in Slot
<1> DEFINE ages == {table[i].seen : i \in Slot}
           old  == {i \in Slot : \A j \in Slot : table[i].seen <= table[j].seen}
<1>1. ages \in SUBSET Nat /\ ages # {}
  <2>1. 1 \in Slot
    BY IpReasmConstants DEF Slot
  <2>2. QED BY <2>1 DEF Entry
<1>2. \E a \in ages : \A b \in ages : a <= b
  BY <1>1, LeastSlot
<1>3. old # {}
  BY <1>2
<1>4. old \in SUBSET Slot
  OBVIOUS
<1>5. QED BY <1>3, <1>4, FirstInSlots DEF OldestSlot

LEMMA EntryFields ==
  ASSUME NEW e \in Entry
  PROVE  /\ e.inUse \in BOOLEAN /\ e.key \in Key \cup {None} /\ e.buf \in Buffer
         /\ e.used \in 0 .. MaxLen /\ e.total \in 0 .. MaxLen /\ e.seen \in Nat
BY DEF Entry

LEMMA ClearedIsEntry ==
  /\ Cleared \in Entry /\ ~ Cleared.inUse /\ Cleared.used = 0
  /\ Cleared.total = 0 /\ \A n \in 0 .. (MaxLen - 1) : Cleared.buf[n] = None
BY IpReasmConstants DEF Cleared, Entry, EmptyBuffer, Buffer

LEMMA StartedIsEntry ==
  ASSUME NEW k \in Key, now \in Nat
  PROVE  /\ Started(k) \in Entry /\ Started(k).inUse /\ Started(k).key = k
         /\ Started(k).used = 0 /\ Started(k).total = 0 /\ Started(k).seen = now
         /\ \A n \in 0 .. (MaxLen - 1) : Started(k).buf[n] = None
BY ClearedIsEntry DEF Started, Entry

-----------------------------------------------------------------------------
(* The inductive invariant.  An entry has blocks of datagrams of its key   *)
(* only, and a length that one of them has; the entry a fragment is for is *)
(* still the fragment's, or ipfrag_age has cleared it.                     *)
OfKey(e) ==
  /\ \A n \in 0 .. (e.used - 1) :
       \E d \in Datagram : KeyOf[d] = e.key /\ e.buf[n] = <<d, n>>
  /\ e.total > 0 => \E d \in Datagram : KeyOf[d] = e.key /\ e.total = Length[d]

TableInv == \A i \in Slot : table[i].inUse => OfKey(table[i])

CurInv ==
  cur # None =>
    /\ cur.off < cur.end /\ cur.end <= Length[cur.d]
    /\ cur.end - cur.off < Length[cur.d]
    /\ \/ table[cur.slot].inUse /\ table[cur.slot].key = KeyOf[cur.d]
       \/ /\ ~ table[cur.slot].inUse
          /\ table[cur.slot].used = 0 /\ table[cur.slot].total = 0

(* What was shown in order is there, but not all of the datagram.          *)
ShownInv ==
  \A d \in Datagram :
    /\ next[d] < Length[d]
    /\ next[d] > 0 => /\ HitSlot(table, KeyOf[d]) # 0
                      /\ next[d] <= table[HitSlot(table, KeyOf[d])].used

(* Who has been passed by a pass of ipfrag_age is not idle for long.       *)
AgeInv ==
  /\ ageNow <= now /\ now - ageNow <= AgeEvery
  /\ ageAt # 0 => ageNow = now
  /\ \A i \in Slot : table[i].inUse =>
       /\ table[i].seen <= now
       /\ now - table[i].seen <= Timeout + AgeEvery
       /\ ageAt = 0 \/ i < ageAt => ageNow - table[i].seen <= Timeout

ReasmInv == TypeOK /\ TableInv /\ CurInv /\ ShownInv /\ AgeInv /\ DeliveredIsWhole

LEMMA InitReasmInv == Init => ReasmInv
<1> SUFFICES ASSUME Init PROVE ReasmInv
  OBVIOUS
<1> USE DEF Init
<1>1. TypeOK
  BY ClearedIsEntry, IpReasmConstants DEF TypeOK
<1>2. TableInv /\ CurInv /\ DeliveredIsWhole
  BY ClearedIsEntry DEF TableInv, CurInv, DeliveredIsWhole
<1>3. ShownInv
  <2>1. ASSUME NEW d \in Datagram
        PROVE  next[d] = 0 /\ next[d] < Length[d] /\ ~ (next[d] > 0)
    BY IpReasmConstants
  <2>2. QED BY <2>1 DEF ShownInv
<1>4. AgeInv
  BY ClearedIsEntry, IpReasmConstants DEF AgeInv
<1>5. QED BY <1>1, <1>2, <1>3, <1>4 DEF ReasmInv

-----------------------------------------------------------------------------
(* The history keeps its meaning when no entry loses any of its prefix.    *)
LEMMA KeptIsShown ==
  ASSUME TypeOK, ShownInv, NEW T \in [Slot -> Entry],
         \A i \in Slot : T[i].inUse /\ table[i].inUse /\ T[i].key = table[i].key
                        => table[i].used <= T[i].used
  PROVE  /\ Kept(T) \in [Datagram -> 0 .. MaxLen]
         /\ \A d \in Datagram :
              /\ Kept(T)[d] < Length[d]
              /\ Kept(T)[d] > 0 => /\ HitSlot(T, KeyOf[d]) # 0
                                   /\ Kept(T)[d] <= T[HitSlot(T, KeyOf[d])].used
              /\ Kept(T)[d] > 0 => /\ HitSlot(T, KeyOf[d]) = HitSlot(table, KeyOf[d])
                                   /\ Kept(T)[d] = next[d]
<1>1. Kept(T) \in [Datagram -> 0 .. MaxLen]
  BY IpReasmConstants DEF Kept, TypeOK
<1>2. ASSUME NEW d \in Datagram
      PROVE  /\ Kept(T)[d] < Length[d]
             /\ Kept(T)[d] > 0 => /\ HitSlot(T, KeyOf[d]) # 0
                                  /\ Kept(T)[d] <= T[HitSlot(T, KeyOf[d])].used
             /\ Kept(T)[d] > 0 => /\ HitSlot(T, KeyOf[d]) = HitSlot(table, KeyOf[d])
                                  /\ Kept(T)[d] = next[d]
  <2> DEFINE i == HitSlot(table, KeyOf[d])
  <2>1. /\ Length[d] \in Nat /\ Length[d] > 0 /\ next[d] \in 0 .. MaxLen
        /\ next[d] < Length[d]
        /\ next[d] > 0 => i # 0 /\ next[d] <= table[i].used
    <3>1. Length[d] \in Nat /\ Length[d] > 0
      BY IpReasmConstants
    <3>2. next[d] \in 0 .. MaxLen
      BY DEF TypeOK
    <3>3. QED BY <3>1, <3>2 DEF ShownInv
  <2>2. CASE HitSlot(T, KeyOf[d]) = i /\ next[d] > 0
    <3>1. i # 0
      BY <2>1, <2>2
    <3>2. /\ i \in Slot /\ table[i].inUse /\ T[i].inUse
          /\ table[i].key = KeyOf[d] /\ T[i].key = KeyOf[d]
      BY <2>2, <3>1, HitSlotHits
    <3>3. table[i].used <= T[i].used
      BY <3>2
    <3>4. table[i].used \in Nat /\ T[i].used \in Nat
      BY <3>2, EntryFields, IpReasmConstants DEF TypeOK
    <3>5. Kept(T)[d] = next[d]
      BY <2>2 DEF Kept
    <3>6. i = HitSlot(table, KeyOf[d])
      OBVIOUS
    <3> HIDE DEF i
    <3>7. QED BY <2>1, <2>2, <3>1, <3>3, <3>4, <3>5, <3>6
  <2>3. CASE ~ (HitSlot(T, KeyOf[d]) = i /\ next[d] > 0)
    <3>1. Kept(T)[d] = 0
      BY <2>1, <2>3 DEF Kept
    <3>2. QED BY <2>1, <3>1
  <2>4. QED BY <2>2, <2>3
<1>3. QED BY <1>1, <1>2

-----------------------------------------------------------------------------
(* The steps.                                                              *)

LEMMA ShowKeepsInv ==
  ASSUME ReasmInv, NEW d \in Datagram, Show(d)
  PROVE  ReasmInv'
<1> USE DEF ReasmInv
<1>1. PICK off \in 0 .. (Length[d] - 1), end \in 1 .. Length[d] :
        off < end /\ end - off < Length[d] /\ Find(d, off, end)
  BY DEF Show
<1> DEFINE k == KeyOf[d]
           i == Lookup(table, k)
           j == IF i = 0 THEN OldestSlot ELSE i
<1>2. /\ now \in Nat /\ k \in Key /\ table \in [Slot -> Entry] /\ j \in Slot
      /\ off \in Nat /\ end \in Nat /\ Length[d] \in Nat
  BY OldestInSlots, LookupStops, IpReasmConstants DEF TypeOK
<1>3. /\ cur' = [slot |-> j, d |-> d, off |-> off, end |-> end]
      /\ next' = Kept(table') /\ out' = None
      /\ UNCHANGED <<now, ageAt, ageNow>>
  BY <1>1 DEF Find, Show
<1>4. /\ \/ table' = table /\ table[j].inUse /\ table[j].key = k
         \/ /\ table' = [table EXCEPT ![j] = Started(k)]
            /\ table[j].inUse => table[j].key # k
  <2>1. CASE i # 0 /\ table[i].inUse
    BY <1>1, <2>1, LookupStops DEF Find
  <2>2. CASE ~ (i # 0 /\ table[i].inUse)
    <3>1. table' = [table EXCEPT ![j] = Started(k)]
      BY <1>1, <2>2 DEF Find
    <3>2. table[j].inUse => table[j].key # k
      BY <1>2, <2>2, LookupStops
    <3>3. QED BY <3>1, <3>2
  <2>3. QED BY <2>1, <2>2
<1> HIDE DEF j, i
<1>5. /\ table' \in [Slot -> Entry]
      /\ table'[j].inUse /\ table'[j].key = k
      /\ \A s \in Slot : table'[s] = table[s] \/ (s = j /\ table'[s] = Started(k))
  BY <1>2, <1>4, StartedIsEntry
<1>6. \A s \in Slot : table'[s].inUse /\ table[s].inUse /\ table'[s].key = table[s].key
                       => table[s].used <= table'[s].used
  <2>1. SUFFICES ASSUME NEW s \in Slot, table'[s].inUse, table[s].inUse,
                        table'[s].key = table[s].key
                 PROVE  table[s].used <= table'[s].used
    OBVIOUS
  <2>2. table'[s] = table[s]
    BY <1>2, <1>4, <2>1, StartedIsEntry
  <2>3. table[s].used \in Nat
    BY <1>2, EntryFields, IpReasmConstants
  <2>4. QED BY <2>2, <2>3
<1>7. TypeOK'
  <2>1. cur' \in Fragment
    BY <1>2, <1>3 DEF Fragment
  <2>2. next' \in [Datagram -> 0 .. MaxLen]
    BY <1>3, <1>5, <1>6, KeptIsShown
  <2>3. ASSUME NEW s \in Slot
        PROVE  /\ table'[s].inUse => table'[s].key \in Key
               /\ \A n \in 0 .. (MaxLen - 1) :
                     n < table'[s].used <=> table'[s].buf[n] # None
    <3>1. CASE table'[s] = table[s]
      BY <3>1 DEF TypeOK
    <3>2. CASE table'[s] = Started(k)
      BY <1>2, <3>2, StartedIsEntry
    <3>3. QED BY <1>5, <3>1, <3>2
  <2>4. QED BY <1>3, <1>5, <2>1, <2>2, <2>3 DEF TypeOK
<1>8. TableInv'
  <2>1. OfKey(Started(k))
    BY <1>2, StartedIsEntry DEF OfKey
  <2>2. QED BY <1>5, <2>1 DEF TableInv, OfKey
<1>9. CurInv'
  BY <1>1, <1>2, <1>3, <1>5 DEF CurInv
<1>10. ShownInv'
  BY <1>3, <1>5, <1>6, KeptIsShown DEF ShownInv, HitSlot, Lookup, Stops
<1>11. AgeInv'
  <2>1. ASSUME NEW s \in Slot, table'[s].inUse
        PROVE  /\ table'[s].seen <= now
               /\ now - table'[s].seen <= Timeout + AgeEvery
               /\ ageAt = 0 \/ s < ageAt => ageNow - table'[s].seen <= Timeout
    <3>1. CASE table'[s] = table[s]
      BY <2>1, <3>1 DEF AgeInv
    <3>2. CASE table'[s] = Started(k)
      BY <1>2, <3>2, StartedIsEntry, IpReasmConstants DEF AgeInv, TypeOK
    <3>3. QED BY <1>5, <3>1, <3>2
  <2>2. QED BY <1>3, <2>1 DEF AgeInv
<1>12. DeliveredIsWhole'
  BY <1>3 DEF DeliveredIsWhole
<1>13. QED BY <1>7, <1>8, <1>9, <1>10, <1>11, <1>12

(* What one fragment does to its entry.                                    *)
LEMMA WithTotalFields ==
  ASSUME NEW f \in Fragment, NEW e \in Entry, f.end <= Length[f.d]
  PROVE  LET w == WithTotal(f, e) IN
         /\ w \in Entry /\ w.inUse = e.inUse /\ w.key = e.key /\ w.buf = e.buf
         /\ w.used = e.used /\ w.seen = e.seen
         /\ w.total = IF f.end = Length[f.d] THEN f.end ELSE e.total
<1>1. f.d \in Datagram /\ Length[f.d] \in 0 .. MaxLen
  BY IpReasmConstants DEF Fragment
<1>2. CASE f.end = Length[f.d]
  <2>1. WithTotal(f, e) = [e EXCEPT !.total = f.end]
    BY <1>2 DEF WithTotal
  <2>2. f.end \in 0 .. MaxLen
    BY <1>1, <1>2
  <2>3. QED BY <1>2, <2>1, <2>2 DEF Entry
<1>3. CASE f.end # Length[f.d]
  BY <1>3 DEF WithTotal
<1>4. QED BY <1>2, <1>3

LEMMA AppendedFields ==
  ASSUME NEW f \in Fragment, NEW e \in Entry, f.end <= Length[f.d],
         now \in Nat
  PROVE  LET a == Appended(f, e) IN
         /\ a \in Entry /\ a.inUse = e.inUse /\ a.key = e.key
         /\ a.total = e.total /\ a.seen = now
         /\ a.used = IF f.end > e.used THEN f.end ELSE e.used
         /\ \A n \in 0 .. (MaxLen - 1) :
              a.buf[n] = IF e.used <= n /\ n < f.end THEN <<f.d, n>> ELSE e.buf[n]
<1> DEFINE buf  == [n \in 0 .. (MaxLen - 1) |->
                      IF e.used <= n /\ n < f.end THEN <<f.d, n>> ELSE e.buf[n]]
           used == IF f.end > e.used THEN f.end ELSE e.used
<1>1. f.d \in Datagram /\ Length[f.d] \in 0 .. MaxLen /\ f.end \in 0 .. MaxLen
  BY IpReasmConstants DEF Fragment
<1>2. used \in 0 .. MaxLen
  BY <1>1, EntryFields
<1>3. buf \in Buffer
  <2>1. e.buf \in Buffer
    BY EntryFields
  <2>2. ASSUME NEW n \in 0 .. (MaxLen - 1)
        PROVE  <<f.d, n>> \in Block /\ e.buf[n] \in Block \cup {None}
    <3>1. n \in Nat /\ f.d \in Datagram
      BY <1>1, IpReasmConstants
    <3>2. e.buf[n] \in Block \cup {None}
      BY <2>1 DEF Buffer
    <3>3. QED BY <3>1, <3>2 DEF Block
  <2>3. \A n \in 0 .. (MaxLen - 1) : buf[n] \in Block \cup {None}
    BY <2>2
  <2>4. QED BY <2>3 DEF Buffer
<1>4. Appended(f, e) = [e EXCEPT !.buf = buf, !.used = used, !.seen = now]
  BY DEF Appended
<1> HIDE DEF buf, used
<1>5. /\ Appended(f, e) \in Entry
      /\ Appended(f, e).inUse = e.inUse /\ Appended(f, e).key = e.key
      /\ Appended(f, e).total = e.total /\ Appended(f, e).seen = now
      /\ Appended(f, e).used = used /\ Appended(f, e).buf = buf
  BY <1>2, <1>3, <1>4 DEF Entry
<1>6. QED BY <1>5 DEF buf, used

LEMMA AppendKeepsInv ==
  ASSUME ReasmInv, AppendData
  PROVE  ReasmInv'
<1> USE DEF ReasmInv
<1> DEFINE f == cur
           i == f.slot
           o == table[i]
           e == WithTotal(f, o)
           a == IF Gap(f, e) THEN e ELSE Appended(f, e)
           full == ~Gap(f, e) /\ Complete(a)
           T == [table EXCEPT ![i] = IF full THEN Cleared ELSE a]
           kept == Kept(T)
           adds == HitSlot(T, KeyOf[f.d]) = i /\ f.off <= kept[f.d]
                     /\ f.end > kept[f.d]
<1>1. /\ f \in Fragment /\ i \in Slot /\ f.d \in Datagram /\ f.off \in Nat /\ f.end \in Nat
      /\ f.off < f.end /\ f.end <= Length[f.d] /\ f.end - f.off < Length[f.d]
      /\ Length[f.d] \in 0 .. MaxLen /\ table \in [Slot -> Entry] /\ now \in Nat
  <2>1. f \in Fragment
    BY DEF AppendData, TypeOK
  <2>2. QED BY <2>1, IpReasmConstants DEF AppendData, TypeOK, CurInv, Fragment
<1>2. /\ table' = T
      /\ out' = IF full THEN [key |-> e.key, len |-> a.total, data |-> a.buf] ELSE None
      /\ next' = IF adds THEN [kept EXCEPT ![f.d] = f.end] ELSE kept
      /\ cur' = None /\ UNCHANGED <<now, ageAt, ageNow>>
  BY DEF AppendData
<1>3. \/ o.inUse /\ o.key = KeyOf[f.d]
      \/ ~ o.inUse /\ o.used = 0 /\ o.total = 0
  BY DEF AppendData, CurInv
<1>4. /\ e \in Entry /\ e.inUse = o.inUse /\ e.key = o.key /\ e.buf = o.buf
      /\ e.used = o.used /\ e.seen = o.seen
      /\ e.total = IF f.end = Length[f.d] THEN f.end ELSE o.total
  BY <1>1, WithTotalFields
<1>5. /\ o.used \in 0 .. MaxLen /\ o.total \in 0 .. MaxLen /\ o.seen \in Nat
      /\ o.buf \in Buffer /\ MaxLen \in Nat
  BY <1>1, EntryFields, IpReasmConstants
<1> HIDE DEF e, o, i, f
<1>6. /\ a \in Entry /\ a.inUse = o.inUse /\ a.key = o.key /\ a.total = e.total
      /\ Gap(f, e) => a = e
      /\ ~Gap(f, e) => /\ a.used = (IF f.end > o.used THEN f.end ELSE o.used)
                       /\ a.seen = now
                       /\ \A n \in 0 .. (MaxLen - 1) :
                            a.buf[n] = IF o.used <= n /\ n < f.end
                                       THEN <<f.d, n>> ELSE o.buf[n]
      /\ Gap(f, e) <=> f.off > o.used
  BY <1>1, <1>4, AppendedFields DEF Gap
<1>7. o.used <= a.used
  BY <1>1, <1>4, <1>5, <1>6
<1> HIDE DEF a
<1>8. full => o.inUse /\ a.total > 0 /\ a.total <= a.used
  <2>1. SUFFICES ASSUME full PROVE o.inUse /\ a.total > 0 /\ a.total <= a.used
    OBVIOUS
  <2>2. a.total > 0 /\ a.used >= a.total /\ f.off <= o.used
    BY <1>1, <1>5, <1>6, <2>1 DEF Complete
  <2>3. a.total \in Nat /\ a.used \in Nat
    BY <1>6, EntryFields, <1>5
  <2>4. o.inUse
    <3>1. SUFFICES ASSUME ~ o.inUse PROVE FALSE
      OBVIOUS
    <3>2. o.used = 0 /\ o.total = 0
      BY <1>3, <3>1
    <3>3. f.off = 0
      BY <1>1, <2>2, <3>2
    <3>4. f.end # Length[f.d]
      BY <1>1, <3>3
    <3>5. a.total = 0
      BY <1>4, <1>6, <3>2, <3>4
    <3>6. QED BY <2>2, <3>5
  <2>5. QED BY <2>2, <2>3, <2>4
<1> HIDE DEF full
<1>9. /\ T \in [Slot -> Entry]
      /\ full => T[i] = Cleared
      /\ ~full => T[i] = a
      /\ \A s \in Slot : s # i => T[s] = table[s]
  BY <1>1, <1>6, ClearedIsEntry
<1>10. \A s \in Slot : T[s].inUse /\ table[s].inUse /\ T[s].key = table[s].key
                        => table[s].used <= T[s].used
  <2>1. ASSUME NEW s \in Slot, T[s].inUse PROVE table[s].used <= T[s].used
    <3>1. CASE s = i
      BY <1>7, <1>9, <2>1, <3>1, ClearedIsEntry DEF o
    <3>2. CASE s # i
      <4>1. table[s].used \in Nat
        BY <1>1, EntryFields, <1>5
      <4>2. QED BY <1>9, <3>2, <4>1
    <3>3. QED BY <3>1, <3>2
  <2>2. QED BY <2>1
<1> HIDE DEF T
<1>11. /\ kept \in [Datagram -> 0 .. MaxLen]
       /\ \A d \in Datagram :
            /\ kept[d] < Length[d]
            /\ kept[d] > 0 => /\ HitSlot(T, KeyOf[d]) # 0
                              /\ kept[d] <= T[HitSlot(T, KeyOf[d])].used
            /\ kept[d] > 0 => /\ HitSlot(T, KeyOf[d]) = HitSlot(table, KeyOf[d])
                              /\ kept[d] = next[d]
  BY <1>9, <1>10, KeptIsShown
<1> HIDE DEF kept
<1>12. adds => ~full /\ f.end < Length[f.d] /\ f.end <= T[i].used
  <2>1. SUFFICES ASSUME adds PROVE ~full /\ f.end < Length[f.d] /\ f.end <= T[i].used
    OBVIOUS
  <2>2. T[i].inUse /\ i # 0
    <3>1. i # 0
      BY <1>1, IpReasmConstants DEF Slot
    <3>2. QED BY <2>1, <3>1, HitSlotHits
  <2>3. ~full /\ T[i] = a
    BY <1>9, <2>2, ClearedIsEntry
  <2>4. f.off <= o.used
    <3>1. kept[f.d] \in Nat /\ f.off <= kept[f.d]
      BY <1>1, <1>5, <1>11, <2>1
    <3>2. CASE kept[f.d] = 0
      BY <1>1, <1>5, <3>1, <3>2
    <3>3. CASE kept[f.d] > 0
      <4>1. HitSlot(table, KeyOf[f.d]) = i /\ kept[f.d] = next[f.d] /\ next[f.d] > 0
        BY <1>1, <1>11, <2>1, <3>3
      <4>2. next[f.d] <= o.used
        BY <1>1, <4>1 DEF ShownInv, o
      <4>3. QED BY <1>1, <1>5, <3>1, <4>1, <4>2
    <3>4. QED BY <3>1, <3>2, <3>3
  <2>5. ~Gap(f, e) /\ a.used >= f.end /\ a.used \in Nat
    BY <1>1, <1>5, <1>6, <2>4
  <2>6. ~ (a.total > 0 /\ a.used >= a.total)
    BY <2>3, <2>5 DEF full, Complete
  <2>7. f.end # Length[f.d]
    BY <1>1, <1>4, <1>6, <2>5, <2>6
  <2>8. QED BY <1>1, <2>3, <2>5, <2>7
<1> HIDE DEF adds
<1>13. OfKey(a) \/ ~ o.inUse
  <2>1. SUFFICES ASSUME o.inUse PROVE OfKey(a)
    OBVIOUS
  <2>2. OfKey(o) /\ o.key = KeyOf[f.d] /\ a.key = KeyOf[f.d]
    BY <1>1, <1>3, <1>6, <2>1 DEF TableInv, o
  <2>3. ASSUME NEW n \in 0 .. (a.used - 1)
        PROVE  \E d \in Datagram : KeyOf[d] = a.key /\ a.buf[n] = <<d, n>>
    <3>1. CASE n < o.used
      <4>1. a.buf[n] = o.buf[n]
        <5>1. n \in 0 .. (MaxLen - 1) /\ ~ (o.used <= n)
          BY <1>5, <2>3, <3>1
        <5>2. CASE Gap(f, e)
          BY <1>4, <1>6, <5>2
        <5>3. CASE ~Gap(f, e)
          BY <1>6, <5>1, <5>3
        <5>4. QED BY <5>2, <5>3
      <4>2. n \in 0 .. (o.used - 1)
        BY <1>5, <2>3, <3>1
      <4>3. QED BY <2>2, <4>1, <4>2 DEF OfKey
    <3>2. CASE ~ (n < o.used)
      <4>1. ~Gap(f, e) /\ n < f.end /\ n \in 0 .. (MaxLen - 1) /\ o.used <= n
        BY <1>1, <1>4, <1>5, <1>6, <2>3, <3>2
      <4>2. a.buf[n] = <<f.d, n>>
        BY <1>6, <4>1
      <4>3. QED BY <1>1, <2>2, <4>2
    <3>3. QED BY <3>1, <3>2
  <2>4. a.total > 0 => \E d \in Datagram : KeyOf[d] = a.key /\ a.total = Length[d]
    BY <1>1, <1>4, <1>6, <2>2 DEF OfKey
  <2>5. QED BY <2>3, <2>4 DEF OfKey
<1>14. TypeOK'
  <2>1. ASSUME NEW s \in Slot
        PROVE  /\ T[s].inUse => T[s].key \in Key
               /\ \A n \in 0 .. (MaxLen - 1) : n < T[s].used <=> T[s].buf[n] # None
    <3>1. CASE s # i
      BY <1>9, <3>1 DEF TypeOK
    <3>2. CASE s = i /\ full
      BY <1>9, <3>2, ClearedIsEntry
    <3>3. CASE s = i /\ ~full
      <4>1. /\ o.inUse => o.key \in Key
            /\ \A n \in 0 .. (MaxLen - 1) : n < o.used <=> o.buf[n] # None
        BY <1>1 DEF TypeOK, o
      <4>2. ASSUME NEW n \in 0 .. (MaxLen - 1) PROVE n < a.used <=> a.buf[n] # None
        <5>1. CASE Gap(f, e)
          BY <1>4, <1>6, <4>1, <5>1
        <5>2. CASE ~Gap(f, e)
          <6>1. <<f.d, n>> # None
            BY <1>1, <1>5, NoneIsApart DEF Block
          <6>2. n < a.used <=> n < f.end \/ n < o.used
            BY <1>1, <1>5, <1>6, <5>2
          <6>3. CASE o.used <= n /\ n < f.end
            BY <1>6, <5>2, <6>1, <6>2, <6>3
          <6>4. CASE ~ (o.used <= n /\ n < f.end)
            <7>1. a.buf[n] = o.buf[n]
              BY <1>6, <5>2, <6>4
            <7>2. n < a.used <=> n < o.used
              BY <1>1, <1>5, <6>2, <6>4
            <7>3. QED BY <4>1, <7>1, <7>2
          <6>5. QED BY <6>3, <6>4
        <5>3. QED BY <5>1, <5>2
      <4>3. QED BY <1>6, <1>9, <3>3, <4>1, <4>2
    <3>4. QED BY <3>1, <3>2, <3>3
  <2>2. full => [key |-> e.key, len |-> a.total, data |-> a.buf]
                  \in [key : Key, len : 1 .. MaxLen, data : Buffer]
    <3>1. SUFFICES ASSUME full
                   PROVE  e.key \in Key /\ a.total \in 1 .. MaxLen /\ a.buf \in Buffer
      OBVIOUS
    <3>2. e.key \in Key
      BY <1>1, <1>4, <1>8, <3>1 DEF TypeOK, o
    <3>3. QED BY <1>5, <1>6, <1>8, <3>1, <3>2, EntryFields
  <2>3. next' \in [Datagram -> 0 .. MaxLen]
    <3>1. f.end \in 0 .. MaxLen
      BY <1>1, <1>5
    <3>2. QED BY <1>2, <1>11, <3>1
  <2>4. QED BY <1>2, <1>9, <2>1, <2>2, <2>3 DEF TypeOK
<1>15. TableInv'
  <2>1. ASSUME NEW s \in Slot, T[s].inUse PROVE OfKey(T[s])
    <3>1. CASE s # i
      BY <1>9, <2>1, <3>1 DEF TableInv
    <3>2. CASE s = i
      BY <1>6, <1>9, <1>13, <2>1, <3>2, ClearedIsEntry
    <3>3. QED BY <3>1, <3>2
  <2>2. QED BY <1>2, <2>1 DEF TableInv, OfKey
<1>16. CurInv'
  BY <1>2 DEF CurInv
<1>17. ShownInv'
  <2>1. ASSUME NEW d \in Datagram
        PROVE  /\ next'[d] < Length[d]
               /\ next'[d] > 0 => /\ HitSlot(T, KeyOf[d]) # 0
                                  /\ next'[d] <= T[HitSlot(T, KeyOf[d])].used
    <3>1. CASE adds /\ d = f.d
      <4>1. next'[d] = f.end
        BY <1>2, <1>11, <3>1
      <4>2. HitSlot(T, KeyOf[d]) = i /\ i # 0
        <5>1. i # 0
          BY <1>1, IpReasmConstants DEF Slot
        <5>2. QED BY <3>1, <5>1 DEF adds
      <4>3. QED BY <1>12, <3>1, <4>1, <4>2
    <3>2. CASE ~ (adds /\ d = f.d)
      <4>1. next'[d] = kept[d]
        BY <1>1, <1>2, <1>11, <3>2
      <4>2. QED BY <1>11, <4>1
    <3>3. QED BY <3>1, <3>2
  <2>2. QED BY <1>2, <2>1 DEF ShownInv, HitSlot, Lookup, Stops
<1>18. AgeInv'
  <2>1. ASSUME NEW s \in Slot, T[s].inUse
        PROVE  /\ T[s].seen <= now /\ now - T[s].seen <= Timeout + AgeEvery
               /\ ageAt = 0 \/ s < ageAt => ageNow - T[s].seen <= Timeout
    <3>1. CASE s # i
      BY <1>9, <2>1, <3>1 DEF AgeInv
    <3>2. CASE s = i /\ Gap(f, e)
      <4>1. T[s].seen = o.seen /\ o.inUse
        BY <1>4, <1>6, <1>9, <2>1, <3>2, ClearedIsEntry
      <4>2. QED BY <1>1, <3>2, <4>1 DEF AgeInv, o
    <3>3. CASE s = i /\ ~Gap(f, e)
      <4>1. T[s].seen = now
        BY <1>6, <1>9, <2>1, <3>3, ClearedIsEntry
      <4>2. /\ now \in Nat /\ ageNow \in Nat /\ ageNow <= now
            /\ Timeout \in Nat /\ AgeEvery \in Nat
        BY <1>1, IpReasmConstants DEF AgeInv, TypeOK
      <4>3. QED BY <4>1, <4>2
    <3>4. QED BY <3>1, <3>2, <3>3
  <2>2. QED BY <1>2, <2>1 DEF AgeInv
<1>19. DeliveredIsWhole'
  <2>1. CASE ~full
    BY <1>2, <2>1 DEF DeliveredIsWhole
  <2>2. CASE full
    <3>1. /\ out'.key = a.key /\ out'.len = a.total /\ out'.data = a.buf
      BY <1>2, <1>4, <1>6, <2>2
    <3>2. OfKey(a) /\ a.total > 0 /\ a.total <= a.used
      BY <1>8, <1>13, <2>2
    <3>3. a.total \in Nat /\ a.used \in Nat
      BY <1>5, <1>6, EntryFields
    <3>4. \A n \in 0 .. (a.total - 1) :
            \E d \in Datagram : KeyOf[d] = a.key /\ a.buf[n] = <<d, n>>
      <4>1. 0 .. (a.total - 1) \subseteq 0 .. (a.used - 1)
        BY <3>2, <3>3
      <4>2. QED BY <3>2, <4>1 DEF OfKey
    <3>5. QED BY <3>1, <3>2, <3>4 DEF DeliveredIsWhole, OfKey
  <2>3. QED BY <2>1, <2>2
<1>20. QED BY <1>14, <1>15, <1>16, <1>17, <1>18, <1>19

LEMMA AgeBeginKeepsInv ==
  ASSUME ReasmInv, AgeBegin
  PROVE  ReasmInv'
<1> USE DEF ReasmInv, AgeBegin
<1>1. TypeOK'
  BY IpReasmConstants DEF TypeOK
<1>2. TableInv' /\ CurInv' /\ DeliveredIsWhole'
  BY DEF TableInv, OfKey, CurInv, DeliveredIsWhole
<1>3. ShownInv'
  BY DEF ShownInv, HitSlot, Lookup, Stops
<1>4. AgeInv'
  BY IpReasmConstants DEF AgeInv, TypeOK, Slot
<1>5. QED BY <1>1, <1>2, <1>3, <1>4

LEMMA AgeSlotKeepsInv ==
  ASSUME ReasmInv, AgeSlot
  PROVE  ReasmInv'
<1> USE DEF ReasmInv
<1> DEFINE T == IF Idle(table[ageAt]) THEN [table EXCEPT ![ageAt] = Cleared] ELSE table
<1>1. /\ table' = T /\ next' = Kept(T) /\ UNCHANGED <<cur, out, now, ageNow>>
      /\ ageAt' = IF ageAt = MaxSlots THEN 0 ELSE ageAt + 1
      /\ ageAt \in Slot
  BY IpReasmConstants DEF AgeSlot, TypeOK, Slot
<1>2. /\ table \in [Slot -> Entry]
      /\ now \in Nat /\ ageNow \in Nat /\ MaxSlots \in Nat /\ Timeout \in Nat
  BY IpReasmConstants DEF TypeOK
<1>3. /\ T \in [Slot -> Entry]
      /\ \A s \in Slot : T[s] = table[s] \/ (s = ageAt /\ T[s] = Cleared)
      /\ ~ Idle(T[ageAt])
  <2>1. CASE Idle(table[ageAt])
    <3>1. T[ageAt] = Cleared
      BY <1>1, <1>2, <2>1
    <3>2. ~ Idle(T[ageAt])
      BY <3>1, ClearedIsEntry DEF Idle
    <3>3. T = [table EXCEPT ![ageAt] = Cleared]
      BY <2>1
    <3> HIDE DEF T
    <3>4. QED BY <1>1, <1>2, <3>1, <3>2, <3>3, ClearedIsEntry
  <2>2. CASE ~ Idle(table[ageAt])
    <3>1. T = table
      BY <2>2
    <3> HIDE DEF T
    <3>2. QED BY <1>2, <2>2, <3>1
  <2>3. QED BY <2>1, <2>2
<1> HIDE DEF T
<1>4. \A s \in Slot : T[s].inUse => T[s] = table[s]
  BY <1>3, ClearedIsEntry
<1>5. TypeOK'
  <2>1. next' \in [Datagram -> 0 .. MaxLen]
    <3>1. \A s \in Slot : table[s].used \in Nat
      BY <1>2, EntryFields, IpReasmConstants
    <3>2. QED BY <1>1, <1>3, <1>4, <3>1, KeptIsShown
  <2>2. ageAt' \in 0 .. MaxSlots
    BY <1>1, <1>2 DEF Slot
  <2>3. \A s \in Slot :
          /\ T[s].inUse => T[s].key \in Key
          /\ \A n \in 0 .. (MaxLen - 1) : n < T[s].used <=> T[s].buf[n] # None
    BY <1>3, ClearedIsEntry DEF TypeOK
  <2>4. QED BY <1>1, <1>3, <2>1, <2>2, <2>3 DEF TypeOK
<1>6. TableInv'
  BY <1>1, <1>4 DEF TableInv, OfKey
<1>7. CurInv'
  <2>1. cur # None => cur.slot \in Slot
    BY DEF TypeOK, Fragment
  <2>2. QED BY <1>1, <1>3, <2>1, ClearedIsEntry DEF CurInv
<1>8. ShownInv'
  <2>1. \A s \in Slot : table[s].used \in Nat
    BY <1>2, EntryFields, IpReasmConstants
  <2>2. \A d \in Datagram :
          /\ next'[d] < Length[d]
          /\ next'[d] > 0 => /\ HitSlot(T, KeyOf[d]) # 0
                             /\ next'[d] <= T[HitSlot(T, KeyOf[d])].used
    BY <1>1, <1>3, <1>4, <2>1, KeptIsShown
  <2>3. QED BY <1>1, <2>2 DEF ShownInv, HitSlot, Lookup, Stops
<1>9. AgeInv'
  <2>1. ageNow = now
    BY DEF AgeInv, AgeSlot
  <2>2. ASSUME NEW s \in Slot, T[s].inUse
        PROVE  /\ T[s].seen <= now /\ now - T[s].seen <= Timeout + AgeEvery
               /\ ageAt' = 0 \/ s < ageAt' => ageNow - T[s].seen <= Timeout
    <3>1. /\ T[s] = table[s] /\ T[s].seen \in Nat
      BY <1>2, <1>4, <2>2, EntryFields
    <3>2. s = ageAt => ageNow - T[s].seen <= Timeout
      BY <1>2, <1>3, <2>2, <3>1 DEF Idle
    <3>3. ageAt' = 0 \/ s < ageAt' => s = ageAt \/ s < ageAt
      BY <1>1, <1>2 DEF Slot
    <3>4. QED BY <2>2, <3>1, <3>2, <3>3 DEF AgeInv
  <2>3. QED BY <1>1, <2>1, <2>2 DEF AgeInv
<1>10. DeliveredIsWhole'
  BY <1>1 DEF DeliveredIsWhole
<1>11. QED BY <1>5, <1>6, <1>7, <1>8, <1>9, <1>10

LEMMA TickKeepsInv ==
  ASSUME ReasmInv, Tick
  PROVE  ReasmInv'
<1> USE DEF ReasmInv, Tick
<1>1. TypeOK'
  BY IpReasmConstants DEF TypeOK
<1>2. TableInv' /\ CurInv' /\ DeliveredIsWhole'
  BY DEF TableInv, OfKey, CurInv, DeliveredIsWhole
<1>3. ShownInv'
  BY DEF ShownInv, HitSlot, Lookup, Stops
<1>4. AgeInv'
  <2>1. /\ now \in Nat /\ ageNow \in Nat /\ Timeout \in Nat /\ AgeEvery \in Nat
        /\ \A s \in Slot : table[s].seen \in Nat
    BY EntryFields, IpReasmConstants DEF TypeOK
  <2>2. QED BY <2>1 DEF AgeInv
<1>5. QED BY <1>1, <1>2, <1>3, <1>4

LEMMA ReasmInductive == Spec => []ReasmInv
<1>1. ASSUME ReasmInv, [Next]_vars PROVE ReasmInv'
  <2>1. CASE UNCHANGED vars
    BY <1>1, <2>1 DEF ReasmInv, vars, TypeOK, TableInv, OfKey, CurInv, ShownInv,
                      HitSlot, Lookup, Stops, AgeInv, DeliveredIsWhole
  <2>2. CASE Next
    BY <1>1, <2>2, ShowKeepsInv, AppendKeepsInv, AgeBeginKeepsInv,
       AgeSlotKeepsInv, TickKeepsInv DEF Next
  <2>3. QED BY <1>1, <2>1, <2>2
<1>2. QED BY <1>1, InitReasmInv, PTL DEF Spec

(* The table, the fragment on its way and what is handed out have their    *)
(* types, and the prefix of an entry has no hole: ipfrag_feed appends only *)
(* what touches it.                                                        *)
THEOREM TableTypes == Spec => []TypeOK
BY ReasmInductive, PTL DEF ReasmInv

(* What ipfrag_feed hands out has the length of a datagram of its key and  *)
(* no hole, whatever is lost, repeated or out of order, and however        *)
(* ipfrag_age runs between its steps.                                      *)
THEOREM HandsOutWhole == Spec => []DeliveredIsWhole
BY ReasmInductive, PTL DEF ReasmInv

(* A datagram that was shown in order to the entry that the table finds    *)
(* for it does not wait in the table: it is handed out at once.            *)
THEOREM CompleteIsDelivered == Spec => []InOrderIsDelivered
<1>1. ReasmInv => InOrderIsDelivered
  BY DEF ReasmInv, ShownInv, InOrderIsDelivered
<1>2. QED BY <1>1, ReasmInductive, PTL

(* A datagram whose fragments stop coming loses its slot: no entry is idle *)
(* for longer than the timeout and one interval of the ageing.             *)
THEOREM SlotsAreReleased == Spec => []NoHalfForever
<1>1. ReasmInv => NoHalfForever
  BY DEF ReasmInv, AgeInv, NoHalfForever
<1>2. QED BY <1>1, ReasmInductive, PTL
=============================================================================
