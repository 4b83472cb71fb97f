------------------------------ MODULE IpReasm ------------------------------
(***************************************************************************)
(* The IP fragment table of apptraffic: the capture thread feeds it the    *)
(* fragments that pcap shows, in any order, some missed, some repeated,    *)
(* and gets a datagram back when its fragments came in order.  The main    *)
(* thread ages the table, without a lock: a fragment is looked up in one   *)
(* step and appended in another, and the entries are aged one by one.  One *)
(* unit of length is the 8 bytes that fragment offsets count; block i of   *)
(* datagram d is <<d, i>>.                                                 *)
(***************************************************************************)
EXTENDS Integers

CONSTANTS
  Datagram,  \* the fragmented datagrams
  Key,       \* version, addresses, identification and protocol
  KeyOf,     \* the key of each datagram; identifications are used again
  Length,    \* the length of each datagram
  MaxSlots,  \* IPFRAG_MAX
  MaxLen,    \* IPFRAG_MAX_LEN
  MaxFrag,   \* bound: the longest fragment
  Timeout,   \* IPFRAG_TIMEOUT
  AgeEvery,  \* how often the main loop ages the table
  MaxTime,   \* bound: the clock
  None

ASSUME IpReasmConstants ==
  /\ KeyOf \in [Datagram -> Key] /\ Length \in [Datagram -> Nat \ {0}]
  /\ MaxSlots \in Nat \ {0} /\ MaxLen \in Nat \ {0} /\ MaxFrag \in Nat \ {0}
  /\ Timeout \in Nat /\ AgeEvery \in Nat \ {0} /\ MaxTime \in Nat
  /\ \A d \in Datagram : Length[d] <= MaxLen

Slot   == 1 .. MaxSlots
Block  == Datagram \X Nat
Buffer == [0 .. (MaxLen - 1) -> Block \cup {None}]

(* struct ipfrag; have_last is total > 0.                                  *)
Entry == [inUse : BOOLEAN, key : Key \cup {None}, buf : Buffer,
          used : 0 .. MaxLen, total : 0 .. MaxLen, seen : Nat]

(* The local variables of ipfrag_feed between its two steps: the slot that *)
(* was found and the fragment of d it is for, blocks off .. end - 1.       *)
Fragment == [slot : Slot, d : Datagram, off : Nat, end : Nat]

ASSUME NoneIsApart == None \notin Block \cup Fragment \cup Key

VARIABLES
  table,    \* g_table
  cur,      \* the capture thread: idle (None) or a fragment on its way in
  out,      \* what ipfrag_feed handed out last, until the next fragment
  now,      \* time(NULL)
  ageAt,    \* the main thread: the next slot of ipfrag_age, 0 outside of it
  ageNow,   \* when the last ipfrag_age began
  next      \* history: how much of a datagram was shown in order to the
            \* entry that its fragments are looked up to

vars == <<table, cur, out, now, ageAt, ageNow, next>>

EmptyBuffer == [i \in 0 .. (MaxLen - 1) |-> None]
Cleared == [inUse |-> FALSE, key |-> None, buf |-> EmptyBuffer,
            used |-> 0, total |-> 0, seen |-> 0]
Started(k) == [Cleared EXCEPT !.inUse = TRUE, !.key = k, !.seen = now]

Init ==
  /\ table = [i \in Slot |-> Cleared]
  /\ cur = None /\ out = None
  /\ now = 0 /\ ageAt = 0 /\ ageNow = 0
  /\ next = [d \in Datagram |-> 0]

-----------------------------------------------------------------------------
(* The slot the scan of find_or_create stops at: the first that is free or *)
(* has the key, whichever comes first; 0 if there is none.                 *)
Stops(T, k) == {i \in Slot : ~T[i].inUse \/ T[i].key = k}
First(S)    == CHOOSE i \in S : \A j \in S : i <= j
Lookup(T, k) == IF Stops(T, k) = {} THEN 0 ELSE First(Stops(T, k))

(* A full table gives up the entry that was not used for the longest time. *)
OldestSlot == First({i \in Slot : \A j \in Slot : table[i].seen <= table[j].seen})

(* What the history keeps when the table becomes T.                        *)
HitSlot(T, k) == LET i == Lookup(T, k) IN
                 IF i # 0 /\ T[i].inUse THEN i ELSE 0
Kept(T) == [d \in Datagram |->
              IF HitSlot(T, KeyOf[d]) = HitSlot(table, KeyOf[d])
              THEN next[d] ELSE 0]

(* ipfrag_feed, first step: find_or_create.                                *)
Find(d, off, end) ==
  LET k == KeyOf[d]
      i == Lookup(table, k)
      j == IF i = 0 THEN OldestSlot ELSE i
      T == IF i # 0 /\ table[i].inUse THEN table
           ELSE [table EXCEPT ![j] = Started(k)]
  IN /\ cur' = [slot |-> j, d |-> d, off |-> off, end |-> end]
     /\ table' = T
     /\ next' = Kept(T)
     /\ out' = None

(* A fragment of d that pcap shows; a datagram in one piece goes another   *)
(* way.                                                                    *)
Show(d) ==
  /\ cur = None
  /\ \E off \in 0 .. (Length[d] - 1), end \in 1 .. Length[d] :
       /\ off < end /\ end - off <= MaxFrag /\ end - off < Length[d]
       /\ Find(d, off, end)
  /\ UNCHANGED <<now, ageAt, ageNow>>

(* There is a gap between what the entry has and the fragment.             *)
Gap(f, e) == f.off > e.used

(* Mutant: the fragment is put behind what is there, all of it.            *)
AppendedWhole(f, e) ==
  [e EXCEPT !.buf = [i \in 0 .. (MaxLen - 1) |->
                       IF e.used <= i /\ i < e.used + f.end - f.off
                       THEN <<f.d, f.off + i - e.used>> ELSE e.buf[i]],
            !.used = IF f.end > e.used THEN f.end ELSE e.used,
            !.seen = now]

(* The part of the fragment that is new goes to the end of the prefix.     *)
Appended(f, e) ==
  [e EXCEPT !.buf = [i \in 0 .. (MaxLen - 1) |->
                       IF e.used <= i /\ i < f.end THEN <<f.d, i>> ELSE e.buf[i]],
            !.used = IF f.end > e.used THEN f.end ELSE e.used,
            !.seen = now]

(* Mutant: the last fragment counts only when it is appended itself.       *)
LastMissed(f, e) ==
  IF f.end = Length[f.d] /\ ~Gap(f, e) /\ f.end > e.used
  THEN [e EXCEPT !.total = f.end] ELSE e

(* The last fragment tells the length of the datagram.                     *)
WithTotal(f, e) == IF f.end = Length[f.d] THEN [e EXCEPT !.total = f.end] ELSE e

Complete(e) == e.total > 0 /\ e.used >= e.total

(* ipfrag_feed, second step: from the bounds checks to the return.         *)
AppendData ==
  /\ cur # None
  /\ LET f == cur
         e == WithTotal(f, table[f.slot])
         a == IF Gap(f, e) THEN e ELSE Appended(f, e)
         T == [table EXCEPT ![f.slot] =
                 IF ~Gap(f, e) /\ Complete(a) THEN Cleared ELSE a]
         kept == Kept(T)
     IN /\ table' = T
        /\ out' = IF ~Gap(f, e) /\ Complete(a)
                  THEN [key |-> e.key, len |-> a.total, data |-> a.buf] ELSE None
        /\ next' = IF HitSlot(T, KeyOf[f.d]) = f.slot /\ f.off <= kept[f.d]
                      /\ f.end > kept[f.d]
                   THEN [kept EXCEPT ![f.d] = f.end] ELSE kept
  /\ cur' = None
  /\ UNCHANGED <<now, ageAt, ageNow>>

-----------------------------------------------------------------------------
(* ipfrag_age in the main thread.  The time is read once, at its begin.    *)
AgeBegin ==
  /\ ageAt = 0 /\ now - ageNow >= AgeEvery
  /\ ageAt' = 1 /\ ageNow' = now
  /\ UNCHANGED <<table, cur, out, now, next>>

(* Mutant: an entry ages only while it has nothing yet.                    *)
IdleEmpty(e) == e.inUse /\ ageNow - e.seen > Timeout /\ e.used = 0

Idle(e) == e.inUse /\ ageNow - e.seen > Timeout

AgeSlot ==
  /\ ageAt # 0
  /\ LET T == IF Idle(table[ageAt]) THEN [table EXCEPT ![ageAt] = Cleared]
              ELSE table
     IN table' = T /\ next' = Kept(T)
  /\ ageAt' = IF ageAt = MaxSlots THEN 0 ELSE ageAt + 1
  /\ UNCHANGED <<cur, out, now, ageNow>>

(* The clock.  The main loop is on time: ipfrag_age is not late and is     *)
(* over before the clock goes on.                                          *)
Tick ==
  /\ now < MaxTime
  /\ ageAt = 0 /\ now - ageNow < AgeEvery
  /\ now' = now + 1
  /\ UNCHANGED <<table, cur, out, ageAt, ageNow, next>>

Next == (\E d \in Datagram : Show(d)) \/ AppendData \/ AgeBegin \/ AgeSlot \/ Tick

Spec == Init /\ [][Next]_vars

-----------------------------------------------------------------------------
(* The types; the prefix of an entry has no hole and nothing lies behind it. *)
TypeOK ==
  /\ table \in [Slot -> Entry]
  /\ \A i \in Slot : /\ table[i].inUse => table[i].key \in Key
                     /\ \A n \in 0 .. (MaxLen - 1) :
                          n < table[i].used <=> table[i].buf[n] # None
  /\ cur \in Fragment \cup {None}
  /\ out \in [key : Key, len : 1 .. MaxLen, data : Buffer] \cup {None}
  /\ now \in 0 .. MaxTime /\ ageAt \in 0 .. MaxSlots /\ ageNow \in 0 .. MaxTime
  /\ next \in [Datagram -> 0 .. MaxLen]

(* What is handed out has the length of a datagram of its key and no hole: *)
(* every block of it is the block at that place of a datagram of that key. *)
(* With a key that is used once this is the datagram.                      *)
DeliveredIsWhole ==
  out # None =>
    /\ \E d \in Datagram : KeyOf[d] = out.key /\ out.len = Length[d]
    /\ \A i \in 0 .. (out.len - 1) :
         \E d \in Datagram : KeyOf[d] = out.key /\ out.data[i] = <<d, i>>

(* A datagram all of which was shown in order to the entry its fragments   *)
(* are looked up to has been handed out: nothing complete waits.           *)
InOrderIsDelivered == \A d \in Datagram : next[d] < Length[d]

(* A datagram that never becomes complete does not keep its slot.          *)
NoHalfForever ==
  \A i \in Slot : table[i].inUse => now - table[i].seen <= Timeout + AgeEvery
=============================================================================
