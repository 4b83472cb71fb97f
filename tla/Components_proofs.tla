-------------------------- MODULE Components_proofs --------------------------
(***************************************************************************)
(* Proofs about the smaller components, one section for each: the          *)
(* Wake-on-LAN relay, the accounts and directories of dav-bridge, the      *)
(* thumbnail cache, the walk over the headers of an IPv6 packet, the       *)
(* visits of the WiFi probe, and the name caches of apptraffic; then the   *)
(* types of the visits and of the thumbnail cache.  The components share   *)
(* nothing.                                                                *)
(***************************************************************************)
EXTENDS WolProxy, DavAdmin, ThumbCache, Ip6Walk, WifiVisits, DnsMap,
        SequenceTheorems, FiniteSetTheorems, TLAPS

(* A set of numbers has a least element.                                   *)
LEMMA LeastNumber ==
  ASSUME NEW S \in SUBSET Nat, S # {}
  PROVE  \E i \in S : \A j \in S : i <= j
<1>1. \E i \in S : \A j \in S : ~ (<<j, i>> \in OpToRel(<, Nat))
  BY NatLessThanWellFounded, WFMin
<1>2. PICK i \in S : \A j \in S : ~ (<<j, i>> \in OpToRel(<, Nat))
  BY <1>1
<1>3. ASSUME NEW j \in S PROVE i <= j
  <2>1. ~ (<<j, i>> \in OpToRel(<, Nat))
    BY <1>2
  <2>2. ~ (j < i)
    BY <2>1 DEF OpToRel
  <2>. QED BY <2>2
<1>. QED BY <1>3

-----------------------------------------------------------------------------
(***************************************************************************)
(* The Wake-on-LAN relay.                                                  *)
(***************************************************************************)
(* The types the invariant needs.                                          *)
DupEntry == [src : Source \cup {Router}, mac : Mac \cup {NoMac}, seen : 0 .. LastSecond]
WolNote  == [src : Source \cup {Router}, mac : Mac, at : 1 .. LastSecond]

WolTyped ==
  /\ WolTypeOK
  /\ dupTab \in [1 .. DupMax -> DupEntry] /\ inbox \in Seq(MagicPacket)
  /\ noted \in Seq(WolNote) /\ arrived \in Nat
  /\ sent \in Seq([pkt : WolNote, to : {Lan, Override} \cup Subnet])
  /\ ignored \in Seq(WolNote)

(* The packets that were noted after the i-th, or in its second.           *)
Since(i, n) == {k \in (1 .. n) \ {i} : noted[k].at >= noted[i].at}

(* The table is a part of the history: every entry in use is one of the    *)
(* packets noted, another one for each entry, and a packet whose entry is  *)
(* gone was followed by as many others as the table holds.                 *)
Used == {e \in 1 .. DupMax : dupTab[e].seen # 0}
TabIs(m) ==
  /\ \A e \in Used : /\ m[e] \in 1 .. Len(noted)
                     /\ Same(noted[m[e]], dupTab[e]) /\ noted[m[e]].at = dupTab[e].seen
  /\ \A e, d \in Used : m[e] = m[d] => e = d
  /\ ~setBack => \A i \in 1 .. Len(noted) :
       (\E e \in Used : m[e] = i) \/ Cardinality(Since(i, Len(noted))) >= DupMax

WolHistory ==
  /\ \E m \in [1 .. DupMax -> Nat] : TabIs(m)
  /\ ~setBack => \A i \in 1 .. Len(noted) : noted[i].at <= time

(* Packets from outside that wait.                                         *)
Outside(s) == {i \in 1 .. Len(s) : ~s[i].lo}
NoEchoInv == loKnown => Len(sent) + Cardinality(Outside(inbox)) <= arrived

WolInv == WolTyped /\ WolHistory /\ NoEchoInv /\ OncePerWindow /\ IgnoredWasNoted

LEMMA OutsideFinite == ASSUME NEW n \in Nat, NEW S \in SUBSET (1 .. n)
  PROVE  IsFiniteSet(S) /\ Cardinality(S) \in Nat
<1>1. IsFiniteSet(1 .. n)
  BY FS_Interval
<1>2. IsFiniteSet(S)
  BY <1>1, FS_Subset
<1>. QED BY <1>2, FS_CardinalityType

LEMMA OutsideTail ==
  ASSUME NEW s \in Seq(MagicPacket), s # <<>>
  PROVE  /\ Cardinality(Outside(s)) \in Nat /\ Cardinality(Outside(Tail(s))) \in Nat
         /\ Cardinality(Outside(Tail(s))) =
              IF Head(s).lo THEN Cardinality(Outside(s)) ELSE Cardinality(Outside(s)) - 1
<1>. DEFINE R == Outside(s) \ {1}
            T == Outside(Tail(s))
            f == [i \in T |-> i + 1]
<1>1. Len(s) \in Nat /\ Len(s) >= 1 /\ Len(Tail(s)) = Len(s) - 1 /\ Head(s) = s[1]
      /\ \A i \in 1 .. Len(Tail(s)) : Tail(s)[i] = s[i + 1]
  OBVIOUS
<1>2. IsFiniteSet(Outside(s)) /\ IsFiniteSet(T) /\ Cardinality(Outside(s)) \in Nat /\ Cardinality(T) \in Nat
  <2>1. Outside(s) \in SUBSET (1 .. Len(s)) /\ T \in SUBSET (1 .. Len(Tail(s))) /\ Len(Tail(s)) \in Nat
    BY <1>1 DEF Outside
  <2>. QED BY <1>1, <2>1, OutsideFinite
<1>3. f \in Bijection(T, R)
  <2>1. \A i \in T : i \in Nat /\ i + 1 \in R
    BY <1>1 DEF Outside
  <2>2. \A j \in R : j - 1 \in T /\ j - 1 + 1 = j
    BY <1>1 DEF Outside
  <2>3. f \in [T -> R]
    BY <2>1
  <2>4. f \in Injection(T, R)
    BY <2>1, <2>3 DEF Injection, IsInjective
  <2>5. f \in Surjection(T, R)
    BY <2>2, <2>3 DEF Surjection
  <2>. QED BY <2>4, <2>5 DEF Bijection
<1>4. Cardinality(R) = Cardinality(T)
  BY <1>2, <1>3, FS_Bijection DEF ExistsBijection
<1>5. Cardinality(R) = IF 1 \in Outside(s) THEN Cardinality(Outside(s)) - 1 ELSE Cardinality(Outside(s))
  BY <1>2, FS_RemoveElement
<1>6. 1 \in Outside(s) <=> ~Head(s).lo
  BY <1>1 DEF Outside
<1>. QED BY <1>2, <1>4, <1>5, <1>6

LEMMA OutsideAppend ==
  ASSUME NEW s \in Seq(MagicPacket), NEW p \in MagicPacket
  PROVE  Cardinality(Outside(Append(s, p))) =
           IF p.lo THEN Cardinality(Outside(s)) ELSE Cardinality(Outside(s)) + 1
<1>1. Len(s) \in Nat /\ Len(Append(s, p)) = Len(s) + 1 /\ Append(s, p)[Len(s) + 1] = p
      /\ \A i \in 1 .. Len(s) : Append(s, p)[i] = s[i]
  OBVIOUS
<1>2. IsFiniteSet(Outside(s)) /\ Len(s) + 1 \notin Outside(s)
  <2>1. Outside(s) \in SUBSET (1 .. Len(s)) /\ Len(s) + 1 \notin 1 .. Len(s)
    BY <1>1 DEF Outside
  <2>. QED BY <1>1, <2>1, OutsideFinite
<1>3. CASE p.lo
  <2>1. Outside(Append(s, p)) = Outside(s)
    BY <1>1, <1>3 DEF Outside
  <2>. QED BY <1>3, <2>1
<1>4. CASE ~p.lo
  <2>1. Outside(Append(s, p)) = Outside(s) \cup {Len(s) + 1}
    BY <1>1, <1>4 DEF Outside
  <2>. QED BY <1>2, <1>4, <2>1, FS_AddElement
<1>. QED BY <1>3, <1>4

LEMMA OldestIs ==
  ASSUME WolTyped
  PROVE  /\ Oldest \in 1 .. DupMax
         /\ \A e \in 1 .. DupMax : dupTab[Oldest].seen <= dupTab[e].seen
<1>. DEFINE Seen == {dupTab[e].seen : e \in 1 .. DupMax}
<1>1. \A e \in 1 .. DupMax : dupTab[e].seen \in Nat
  BY DEF WolTyped, DupEntry
<1>2. 1 \in 1 .. DupMax
  BY WolConstants
<1>3. Seen \in SUBSET Nat /\ Seen # {}
  BY <1>1, <1>2
<1>4. PICK t \in Seen : \A u \in Seen : t <= u
  BY <1>3, LeastNumber
<1>. DEFINE First == {e \in 1 .. DupMax : dupTab[e].seen = t}
<1>5. First \in SUBSET Nat /\ First # {}
  BY <1>4
<1>6. PICK e \in First : \A d \in First : e <= d
  BY <1>5, LeastNumber
<1>7. /\ e \in 1 .. DupMax
      /\ \A d \in 1 .. DupMax : \/ dupTab[e].seen < dupTab[d].seen
                                \/ dupTab[e].seen = dupTab[d].seen /\ e <= d
  <2>1. ASSUME NEW d \in 1 .. DupMax
        PROVE  dupTab[e].seen < dupTab[d].seen \/ (dupTab[e].seen = dupTab[d].seen /\ e <= d)
    <3>1. dupTab[e].seen = t /\ t \in Nat /\ dupTab[d].seen \in Nat /\ t <= dupTab[d].seen
      BY <1>1, <1>4, <1>6
    <3>2. dupTab[d].seen = t => e <= d
      BY <1>6
    <3>. QED BY <3>1, <3>2
  <2>. QED BY <1>6, <2>1
<1>8. /\ Oldest \in 1 .. DupMax
      /\ \A d \in 1 .. DupMax : \/ dupTab[Oldest].seen < dupTab[d].seen
                                \/ dupTab[Oldest].seen = dupTab[d].seen /\ Oldest <= d
  BY <1>7 DEF Oldest
<1>. QED BY <1>1, <1>8

(* A packet is noted that is no duplicate of an entry of the table.        *)
LEMMA NotesKeep ==
  ASSUME WolInv, NEW p \in MagicPacket, ~Duplicate(p), Note(p), UNCHANGED <<time, setBack>>,
         noted' = Append(noted, [src |-> p.src, mac |-> p.mac, at |-> time])
  PROVE  /\ dupTab' \in [1 .. DupMax -> DupEntry] /\ noted' \in Seq(WolNote)
         /\ Len(noted') = Len(noted) + 1
         /\ WolHistory' /\ OncePerWindow'
<1>. DEFINE L == Len(noted)
            o == Oldest
            note == [src |-> p.src, mac |-> p.mac, at |-> time]
            entry == [src |-> p.src, mac |-> p.mac, seen |-> time]
            N(i, n) == {k \in (1 .. n) \ {i} : noted'[k].at >= noted'[i].at}
<1>1. /\ dupTab \in [1 .. DupMax -> DupEntry] /\ noted \in Seq(WolNote) /\ L \in Nat
      /\ time \in 1 .. LastSecond /\ DupMax \in Nat \ {0} /\ DupWindow \in Nat /\ LastSecond \in Nat
      /\ WolHistory /\ OncePerWindow
  BY WolConstants DEF WolInv, WolTyped, WolTypeOK
<1>2. o \in 1 .. DupMax /\ \A e \in 1 .. DupMax : dupTab[o].seen <= dupTab[e].seen
  BY OldestIs DEF WolInv
<1>3. note \in WolNote /\ entry \in DupEntry
  BY <1>1 DEF WolNote, DupEntry, MagicPacket
<1>4. /\ dupTab' \in [1 .. DupMax -> DupEntry] /\ dupTab'[o] = entry
      /\ \A e \in 1 .. DupMax : e # o => dupTab'[e] = dupTab[e]
  BY <1>1, <1>2, <1>3 DEF Note
<1>5. /\ noted' \in Seq(WolNote) /\ Len(noted') = L + 1 /\ noted'[L + 1] = note
      /\ \A i \in 1 .. L : noted'[i] = noted[i]
  BY <1>1, <1>3
<1>6. \A e \in 1 .. DupMax : dupTab[e].seen \in Nat
  BY <1>1 DEF DupEntry
<1>7. \A i \in 1 .. L : noted[i].at \in Nat
  <2>1. \A i \in 1 .. L : noted[i] \in WolNote
    BY <1>1
  <2>2. \A x \in WolNote : x.at \in Nat
    BY DEF WolNote
  <2>. QED BY <2>1, <2>2
<1>0. L \in Nat
  BY <1>1
<1>8. \A i \in 1 .. L, n \in 0 .. L : N(i, n) = Since(i, n)
  BY <1>1, <1>5 DEF Since
<1>9. ~setBack => \A i \in 1 .. (L + 1) : noted'[i].at <= time
  BY <1>1, <1>5 DEF WolHistory
<1>10. PICK m \in [1 .. DupMax -> Nat] : TabIs(m)
  BY <1>1 DEF WolHistory
<1>11. PICK w \in [1 .. DupMax -> Nat] :
         w[o] = L + 1 /\ \A e \in 1 .. DupMax : e # o => w[e] = m[e]
  <2>. DEFINE x == [m EXCEPT ![o] = L + 1]
  <2>1. x \in [1 .. DupMax -> Nat] /\ x[o] = L + 1 /\ \A e \in 1 .. DupMax : e # o => x[e] = m[e]
    BY <1>1, <1>2
  <2>. HIDE DEF x
  <2>. QED BY <2>1
<1>12. \A e \in 1 .. DupMax : e \in Used' <=> (e = o \/ e \in Used)
  <2>1. \A e \in 1 .. DupMax : e \in Used' <=> dupTab'[e].seen # 0
    BY DEF Used
  <2>2. \A e \in 1 .. DupMax : e \in Used <=> dupTab[e].seen # 0
    BY DEF Used
  <2>3. dupTab'[o].seen # 0
    BY <1>1, <1>4
  <2>. QED BY <1>4, <2>1, <2>2, <2>3
<1>. HIDE DEF N
<1>13. ASSUME NEW e \in Used'
       PROVE  w[e] \in 1 .. (L + 1) /\ Same(noted'[w[e]], dupTab'[e]) /\ noted'[w[e]].at = dupTab'[e].seen
  <2>1. e \in 1 .. DupMax
    BY DEF Used
  <2>2. CASE e = o
    BY <1>1, <1>4, <1>5, <1>11, <2>2 DEF Same
  <2>3. CASE e # o
    <3>1. e \in Used /\ w[e] = m[e] /\ dupTab'[e] = dupTab[e]
      BY <1>4, <1>11, <1>12, <2>1, <2>3
    <3>2. m[e] \in 1 .. L /\ Same(noted[m[e]], dupTab[e]) /\ noted[m[e]].at = dupTab[e].seen
      BY <1>10, <3>1 DEF TabIs
    <3>. QED BY <1>1, <1>5, <3>1, <3>2
  <2>. QED BY <2>2, <2>3
<1>14. ASSUME NEW e \in Used', NEW d \in Used', w[e] = w[d] PROVE e = d
  <2>1. e \in 1 .. DupMax /\ d \in 1 .. DupMax
    BY DEF Used
  <2>2. \A x \in Used : m[x] \in 1 .. L
    BY <1>10 DEF TabIs
  <2>3. CASE e = o /\ d # o
    <3>1. w[e] = L + 1 /\ w[d] = m[d] /\ m[d] \in 1 .. L
      BY <1>11, <1>12, <2>1, <2>2, <2>3
    <3>2. w[e] = w[d]
      BY <1>14
    <3>. QED BY <1>0, <3>1, <3>2
  <2>4. CASE e # o /\ d = o
    <3>1. w[d] = L + 1 /\ w[e] = m[e] /\ m[e] \in 1 .. L
      BY <1>11, <1>12, <2>1, <2>2, <2>4
    <3>2. w[e] = w[d]
      BY <1>14
    <3>. QED BY <1>0, <3>1, <3>2
  <2>5. CASE e # o /\ d # o
    BY <1>10, <1>11, <1>12, <1>14, <2>1, <2>5 DEF TabIs
  <2>. QED BY <2>3, <2>4, <2>5
<1>15. ASSUME ~setBack, NEW i \in 1 .. (L + 1), \A e \in Used' : w[e] # i
       PROVE  Cardinality(N(i, L + 1)) >= DupMax
  <2>1. i \in 1 .. L
    <3>1. o \in Used' /\ w[o] = L + 1
      BY <1>2, <1>11, <1>12
    <3>2. i # L + 1
      BY <1>15, <3>1
    <3>. QED BY <1>0, <3>2
  <2>2. N(i, L + 1) \in SUBSET (1 .. (L + 1))
    BY DEF N
  <2>3. IsFiniteSet(N(i, L + 1)) /\ Cardinality(N(i, L + 1)) \in Nat
    <3>1. L + 1 \in Nat
      BY <1>0
    <3>. QED BY <2>2, <3>1, OutsideFinite
  <2>4. CASE Cardinality(Since(i, L)) >= DupMax
    <3>1. Since(i, L) \in SUBSET N(i, L + 1)
      BY <1>1, <1>5, <2>1 DEF Since, N
    <3>2. IsFiniteSet(Since(i, L)) /\ Cardinality(Since(i, L)) \in Nat
      BY <2>3, <3>1, FS_Subset, FS_CardinalityType
    <3>3. Cardinality(Since(i, L)) <= Cardinality(N(i, L + 1))
      BY <2>3, <3>1, FS_Subset
    <3>4. DupMax \in Nat
      BY <1>1
    <3>. QED BY <2>3, <2>4, <3>2, <3>3, <3>4
  <2>5. CASE \E e \in Used : m[e] = i
    \* the entry given up is the oldest: all the others are younger
    <3>1. o \in Used /\ m[o] = i
      BY <1>11, <1>12, <1>15, <2>5 DEF Used
    <3>2. noted[i].at = dupTab[o].seen /\ dupTab[o].seen # 0
      BY <1>10, <3>1 DEF TabIs, Used
    <3>3. \A e \in 1 .. DupMax : e \in Used /\ dupTab[e].seen >= noted[i].at
      BY <1>2, <1>6, <3>2 DEF Used
    <3>4. ASSUME NEW e \in 1 .. DupMax PROVE w[e] \in N(i, L + 1)
      <4>1. CASE e = o
        <5>1. w[e] = L + 1 /\ noted'[L + 1].at = time /\ noted'[i] = noted[i] /\ noted[i].at <= time
          BY <1>5, <1>9, <1>11, <1>15, <2>1, <4>1
        <5>2. L + 1 # i /\ noted[i].at \in Nat
          BY <1>1, <1>7, <2>1
        <5>. QED BY <1>1, <5>1, <5>2 DEF N
      <4>2. CASE e # o
        <5>1. w[e] = m[e] /\ m[e] \in 1 .. L /\ noted[m[e]].at = dupTab[e].seen /\ m[e] # i
          BY <1>10, <1>11, <3>1, <3>3, <4>2 DEF TabIs
        <5>2. noted'[m[e]].at >= noted'[i].at
          BY <1>5, <2>1, <3>3, <5>1
        <5>. QED BY <1>1, <5>1, <5>2 DEF N
      <4>. QED BY <4>1, <4>2
    <3>5. w \in [1 .. DupMax -> N(i, L + 1)]
      BY <1>11, <3>4
    <3>6. w \in Injection(1 .. DupMax, N(i, L + 1))
      BY <1>12, <1>14, <3>3, <3>5 DEF Injection, IsInjective
    <3>7. Cardinality(1 .. DupMax) = DupMax
      BY <1>1, FS_Interval
    <3>. QED BY <2>3, <3>6, <3>7, FS_Injection
  <2>. QED BY <1>10, <1>15, <2>1, <2>4, <2>5 DEF TabIs
<1>16. WolHistory'
  <2>1. \A i \in 1 .. (L + 1) : Since(i, Len(noted))' = N(i, Len(noted'))
    BY DEF N, Since
  <2>2. Len(noted') = L + 1 /\ setBack' = setBack /\ time' = time
    BY <1>5
  <2>3. ASSUME ~setBack, NEW i \in 1 .. (L + 1)
        PROVE  (\E e \in Used' : w[e] = i) \/ Cardinality(Since(i, Len(noted))') >= DupMax
    <3>1. Since(i, Len(noted))' = N(i, L + 1)
      BY <2>1, <2>2
    <3>. QED BY <1>15, <2>3, <3>1
  <2>4. TabIs(w)'
    BY <1>13, <1>14, <2>2, <2>3 DEF TabIs
  <2>5. (~setBack => \A i \in 1 .. Len(noted) : noted[i].at <= time)'
    BY <1>9, <2>2
  <2>. QED BY <1>11, <2>4, <2>5 DEF WolHistory
<1>17. ASSUME ~setBack, NEW i \in 1 .. (L + 1), NEW j \in 1 .. (L + 1),
              i < j, Same(noted'[i], noted'[j]), noted'[j].at - noted'[i].at < DupWindow
       PROVE  Cardinality(N(i, j - 1)) >= DupMax
  <2>1. i \in 1 .. L /\ j - 1 \in 0 .. L /\ noted'[i] = noted[i] /\ N(i, j - 1) = Since(i, j - 1)
    BY <1>1, <1>5, <1>8, <1>17
  <2>2. CASE j \in 1 .. L
    <3>1. noted'[j] = noted[j] /\ Same(noted[i], noted[j]) /\ noted[j].at - noted[i].at < DupWindow /\ i < j
      BY <1>5, <1>17, <2>1, <2>2
    <3>2. i \in DOMAIN noted /\ j \in DOMAIN noted
      BY <1>1, <2>1, <2>2
    <3>3. Cardinality(Since(i, j - 1)) >= DupMax
      BY <1>1, <1>17, <3>1, <3>2 DEF OncePerWindow, Since
    <3>. QED BY <2>1, <3>3
  <2>3. CASE j = L + 1
    <3>1. \A e \in Used : m[e] # i
      <4> SUFFICES ASSUME NEW e \in Used, m[e] = i PROVE FALSE
        OBVIOUS
      <4>1. e \in 1 .. DupMax /\ dupTab[e].seen # 0 /\ Same(noted[i], dupTab[e]) /\ noted[i].at = dupTab[e].seen
        BY <1>10 DEF TabIs, Used
      <4>2. noted'[j] = note /\ note.src = p.src /\ note.mac = p.mac /\ note.at = time
        BY <1>5, <2>3
      <4>3. dupTab[e].src = p.src /\ dupTab[e].mac = p.mac /\ time - dupTab[e].seen < DupWindow
        BY <1>17, <2>1, <4>1, <4>2 DEF Same
      <4>. QED BY <4>1, <4>3 DEF Duplicate
    <3>2. j - 1 = L
      BY <1>1, <2>3
    <3>. QED BY <1>10, <1>17, <2>1, <3>1, <3>2 DEF TabIs
  <2>. QED BY <1>1, <2>2, <2>3
<1>18. OncePerWindow'
  <2>1. \A i, j \in 1 .. (L + 1) : N(i, j - 1) = {k \in (1 .. j - 1) \ {i} : noted'[k].at >= noted'[i].at}
    BY DEF N
  <2>2. DOMAIN noted' = 1 .. (L + 1)
    BY <1>5
  <2>3. setBack' = setBack
    OBVIOUS
  <2>4. ASSUME ~setBack', NEW i \in DOMAIN noted', NEW j \in DOMAIN noted',
               i < j, Same(noted'[i], noted'[j]), noted'[j].at - noted'[i].at < DupWindow
        PROVE  Cardinality({k \in (1 .. j - 1) \ {i} : noted'[k].at >= noted'[i].at}) >= DupMax
    <3>1. Cardinality(N(i, j - 1)) >= DupMax
      BY <1>17, <2>2, <2>3, <2>4
    <3>. QED BY <2>1, <2>2, <3>1
  <2>. QED BY <2>4 DEF OncePerWindow, Same
<1>. QED BY <1>4, <1>5, <1>16, <1>18

(* A step that leaves the table and the notes alone.                       *)
LEMMA NotesStay ==
  ASSUME WolInv, UNCHANGED <<dupTab, noted>>, time' \in Nat,
         setBack' \/ (setBack' = setBack /\ time' >= time)
  PROVE  WolHistory' /\ OncePerWindow'
<1>1. /\ \A m : TabIs(m) => TabIs(m)'
      /\ OncePerWindow'
  <2>1. setBack => setBack'
    OBVIOUS
  <2>2. \A i, n : Since(i, n)' = Since(i, n)
    BY DEF Since
  <2>3. Used' = Used
    BY DEF Used
  <2>4. \A i : Since(i, Len(noted))' = Since(i, Len(noted))
    BY DEF Since
  <2>5. ASSUME NEW m, TabIs(m) PROVE TabIs(m)'
    BY <2>1, <2>3, <2>4, <2>5 DEF TabIs, Same
  <2>. QED BY <2>1, <2>5 DEF OncePerWindow, WolInv, Same
<1>2. (~setBack => \A i \in 1 .. Len(noted) : noted[i].at <= time)'
  <2>1. CASE setBack'
    BY <2>1
  <2>2. CASE setBack' = setBack /\ time' >= time
    <3>1. \A x \in WolNote : x.at \in Nat
      BY DEF WolNote
    <3>2. time \in Nat /\ time' \in Nat /\ \A i \in 1 .. Len(noted) : noted[i].at \in Nat
      BY <3>1 DEF WolInv, WolTyped, WolTypeOK
    <3>3. ~setBack => \A i \in 1 .. Len(noted) : noted[i].at <= time
      BY DEF WolInv, WolHistory
    <3>. QED BY <2>2, <3>2, <3>3
  <2>. QED BY <2>1, <2>2
<1>3. PICK m \in [1 .. DupMax -> Nat] : TabIs(m)
  BY DEF WolInv, WolHistory
<1>. QED BY <1>1, <1>2, <1>3 DEF WolHistory

LEMMA WolStarts == WolInit => WolInv
<1>. SUFFICES ASSUME WolInit PROVE WolInv
  OBVIOUS
<1>1. DupMax \in Nat \ {0} /\ LastSecond \in Nat \ {0}
  BY WolConstants
<1>2. WolTyped
  <2>1. WolTypeOK
    <3>1. allow \subseteq Source \cup {Router}
      BY WolConstants DEF WolInit
    <3>2. {override, loKnown, setBack} \subseteq BOOLEAN
      BY DEF WolInit
    <3>3. time \in 1 .. LastSecond /\ arrived <= MaxPackets
      BY <1>1, WolConstants DEF WolInit
    <3>4. \A i \in 1 .. DupMax : dupTab[i].seen \in 0 .. LastSecond
      BY <1>1 DEF WolInit
    <3>5. Len(sent) <= Len(noted) /\ DOMAIN inbox = {} /\ DOMAIN sent = {}
      BY DEF WolInit
    <3>. QED BY <3>1, <3>2, <3>3, <3>4, <3>5 DEF WolTypeOK
  <2>2. dupTab \in [1 .. DupMax -> DupEntry]
    BY <1>1 DEF WolInit, DupEntry
  <2>. QED BY <2>1, <2>2 DEF WolInit, WolTyped
<1>3. WolHistory
  <2>. DEFINE m == [e \in 1 .. DupMax |-> 0]
  <2>1. m \in [1 .. DupMax -> Nat] /\ Used = {}
    BY DEF WolInit, Used
  <2>2. Len(noted) = 0 /\ 1 .. 0 = {}
    BY DEF WolInit
  <2>. HIDE DEF m
  <2>3. TabIs(m)
    BY <2>1, <2>2 DEF TabIs
  <2>. QED BY <2>1, <2>2, <2>3 DEF WolHistory
<1>4. NoEchoInv
  <2>1. Outside(inbox) = {} /\ Len(sent) = 0 /\ arrived = 0
    BY DEF WolInit, Outside
  <2>. QED BY <2>1, FS_EmptySet DEF NoEchoInv
<1>5. OncePerWindow /\ IgnoredWasNoted
  BY DEF WolInit, OncePerWindow, IgnoredWasNoted
<1>. QED BY <1>2, <1>3, <1>4, <1>5 DEF WolInv

LEMMA WolKeeps == WolInv /\ [WolNext]_wolVars => WolInv'
<1>. SUFFICES ASSUME WolInv, [WolNext]_wolVars PROVE WolInv'
  OBVIOUS
<1>0. /\ DupMax \in Nat /\ DupWindow \in Nat /\ LastSecond \in Nat /\ MaxPackets \in Nat
      /\ Allowed \subseteq SUBSET (Source \cup {Router})
  BY WolConstants
<1>1. /\ WolTyped /\ WolTypeOK /\ WolHistory /\ NoEchoInv /\ OncePerWindow /\ IgnoredWasNoted
      /\ inbox \in Seq(MagicPacket) /\ noted \in Seq(WolNote) /\ dupTab \in [1 .. DupMax -> DupEntry]
  BY DEF WolInv, WolTyped
<1>2. /\ sent \in Seq([pkt : WolNote, to : {Lan, Override} \cup Subnet]) /\ ignored \in Seq(WolNote)
      /\ arrived \in Nat /\ Len(sent) \in Nat /\ Len(noted) \in Nat /\ Len(sent) <= Len(noted)
  BY DEF WolInv, WolTyped, WolTypeOK
<1>3. time \in Nat /\ time \in 1 .. LastSecond
  BY <1>0 DEF WolInv, WolTyped, WolTypeOK
<1>4. /\ Outside(inbox) \in SUBSET (1 .. Len(inbox))
      /\ Cardinality(Outside(inbox)) \in Nat
  <2>1. Outside(inbox) \in SUBSET (1 .. Len(inbox)) /\ Len(inbox) \in Nat
    BY <1>1 DEF Outside
  <2>. QED BY <2>1, OutsideFinite
<1>5. ASSUME Turns PROVE WolInv'
  <2>. DEFINE p == Head(inbox)
              note == [src |-> p.src, mac |-> p.mac, at |-> time]
              out == Cardinality(Outside(inbox))
              left == Cardinality(Outside(Tail(inbox)))
  <2>1. inbox # <<>> /\ UNCHANGED <<options, time, arrived, setBack>>
    BY <1>5 DEF Turns
  <2>2. p \in MagicPacket /\ Tail(inbox) \in Seq(MagicPacket)
    BY <1>1, <2>1
  <2>3. note \in WolNote
    BY <1>3, <2>2 DEF WolNote, MagicPacket
  <2>4. /\ left \in Nat /\ left = IF p.lo THEN out ELSE out - 1
    BY <1>1, <2>1, OutsideTail
  <2>5. CASE UNCHANGED <<dupTab, noted, sent>> /\ inbox' = Tail(inbox)
             /\ (ignored' = ignored \/ (ignored' = <<note>> /\ Duplicate(p)))
    <3>1. WolHistory' /\ OncePerWindow'
      BY <1>3, <2>1, <2>5, NotesStay
    <3>2. ignored' \in Seq(WolNote)
      <4>. HIDE DEF note
      <4>1. <<note>> \in Seq(WolNote)
        BY <2>3
      <4>. QED BY <1>2, <2>5, <4>1
    <3>3. WolTyped'
      BY <1>1, <1>2, <2>1, <2>2, <2>5, <3>2 DEF WolTyped, WolTypeOK, options
    <3>4. NoEchoInv'
      <4>1. Len(sent') = Len(sent) /\ arrived' = arrived /\ Outside(inbox)' = Outside(Tail(inbox)) /\ loKnown' = loKnown
        BY <2>1, <2>5 DEF Outside, options
      <4>2. left <= out
        BY <1>4, <2>4
      <4>3. loKnown => Len(sent) + out <= arrived
        BY <1>1 DEF NoEchoInv
      <4>4. loKnown => Len(sent) + left <= arrived
        BY <1>2, <1>4, <2>4, <4>2, <4>3
      <4>. QED BY <4>1, <4>4 DEF NoEchoInv
    <3>5. IgnoredWasNoted'
      <4>1. CASE ignored' = ignored
        BY <1>1, <2>1, <2>5, <4>1 DEF IgnoredWasNoted, Same
      <4>2. CASE ignored' = <<note>> /\ Duplicate(p)
        <5>1. PICK e \in 1 .. DupMax :
                /\ dupTab[e].seen # 0 /\ dupTab[e].src = p.src /\ dupTab[e].mac = p.mac
                /\ time - dupTab[e].seen < DupWindow
          BY <4>2 DEF Duplicate
        <5>2. PICK m \in [1 .. DupMax -> Nat] : TabIs(m)
          BY <1>1 DEF WolHistory
        <5>3. m[e] \in 1 .. Len(noted) /\ Same(noted[m[e]], dupTab[e]) /\ noted[m[e]].at = dupTab[e].seen
          BY <5>1, <5>2 DEF TabIs, Used
        <5>4. ignored'[1] = note /\ note.src = p.src /\ note.mac = p.mac /\ note.at = time
          BY <4>2
        <5>5. m[e] \in DOMAIN noted' /\ noted' = noted
          BY <1>1, <2>5, <5>3
        <5>6. Same(noted'[m[e]], ignored'[1]) /\ ignored'[1].at - noted'[m[e]].at < DupWindow
          BY <5>1, <5>3, <5>4, <5>5 DEF Same
        <5>. QED BY <5>5, <5>6 DEF IgnoredWasNoted, Same
      <4>. QED BY <2>5, <4>1, <4>2
    <3>. QED BY <3>1, <3>3, <3>4, <3>5 DEF WolInv
  <2>6. CASE /\ ~Drops(p) /\ ~Duplicate(p) /\ Note(p) /\ noted' = Append(noted, note) /\ ignored' = <<>>
             /\ \/ inbox' = Tail(inbox) /\ UNCHANGED sent
                \/ /\ sent' = Append(sent, [pkt |-> note, to |-> Target(p)])
                   /\ inbox' = Append(Tail(inbox), [src |-> Router, mac |-> p.mac,
                                 dst |-> Target(p), lo |-> TRUE, magic |-> TRUE])
    <3>. DEFINE echo == [src |-> Router, mac |-> p.mac, dst |-> Target(p), lo |-> TRUE, magic |-> TRUE]
                out2 == [pkt |-> note, to |-> Target(p)]
    <3>1. /\ dupTab' \in [1 .. DupMax -> DupEntry] /\ noted' \in Seq(WolNote)
          /\ Len(noted') = Len(noted) + 1
          /\ WolHistory' /\ OncePerWindow'
      BY <2>1, <2>2, <2>6, NotesKeep
    <3>2. Target(p) \in {Lan, Override} \cup Subnet
      BY DEF Target
    <3>3. echo \in MagicPacket /\ echo.lo /\ out2 \in [pkt : WolNote, to : {Lan, Override} \cup Subnet]
      BY <2>2, <2>3, <3>2 DEF MagicPacket
    <3>4. IgnoredWasNoted' /\ ignored' \in Seq(WolNote)
      BY <2>6 DEF IgnoredWasNoted
    <3>5. p.src \in allow /\ ~(p.lo /\ loKnown)
      BY <2>6 DEF Drops, IsOwn
    <3>6. CASE inbox' = Tail(inbox) /\ UNCHANGED sent
      <4>1. Len(sent') <= Len(noted')
        BY <1>2, <3>1, <3>6
      <4>2. WolTyped'
        <5>1. (\A i \in 1 .. DupMax : dupTab[i].seen \in 0 .. LastSecond)'
          BY <3>1 DEF DupEntry
        <5>2. (\A i \in DOMAIN inbox : inbox[i] \in MagicPacket)'
          BY <2>2, <3>6
        <5>. QED BY <1>1, <1>2, <2>1, <2>2, <3>1, <3>4, <3>6, <4>1, <5>1, <5>2 DEF WolTyped, WolTypeOK, options
      <4>3. NoEchoInv'
        <5>1. Len(sent') = Len(sent) /\ arrived' = arrived /\ Outside(inbox)' = Outside(Tail(inbox)) /\ loKnown' = loKnown
          BY <2>1, <3>6 DEF Outside, options
        <5>2. left <= out
          BY <1>4, <2>4
        <5>3. loKnown => Len(sent) + out <= arrived
          BY <1>1 DEF NoEchoInv
        <5>4. loKnown => Len(sent) + left <= arrived
          BY <1>2, <1>4, <2>4, <5>2, <5>3
        <5>. QED BY <5>1, <5>4 DEF NoEchoInv
      <4>. QED BY <3>1, <3>4, <4>2, <4>3 DEF WolInv
    <3>7. CASE sent' = Append(sent, out2) /\ inbox' = Append(Tail(inbox), echo)
      <4>1. Len(sent') = Len(sent) + 1 /\ sent' \in Seq([pkt : WolNote, to : {Lan, Override} \cup Subnet])
        BY <1>2, <3>3, <3>7
      <4>2. inbox' \in Seq(MagicPacket)
        BY <2>2, <3>3, <3>7
      <4>3. WolTyped'
        <5>1. (\A i \in 1 .. DupMax : dupTab[i].seen \in 0 .. LastSecond)'
          BY <3>1 DEF DupEntry
        <5>2. (\A i \in DOMAIN inbox : inbox[i] \in MagicPacket)'
          BY <4>2
        <5>3. (\A i \in DOMAIN sent : sent[i].pkt.src \in allow /\ sent[i].to \in {Lan, Override} \cup Subnet)'
          <6>1. allow' = allow /\ out2.pkt.src = p.src /\ out2.to = Target(p)
            BY <2>1 DEF options
          <6>2. \A i \in DOMAIN sent : sent[i].pkt.src \in allow /\ sent[i].to \in {Lan, Override} \cup Subnet
            BY <1>1 DEF WolTypeOK
          <6>3. \A i \in DOMAIN sent' : sent'[i] = out2 \/ (i \in DOMAIN sent /\ sent'[i] = sent[i])
            BY <1>2, <3>3, <3>7
          <6>. QED BY <3>2, <3>5, <6>1, <6>2, <6>3
        <5>4. Len(sent') <= Len(noted')
          BY <1>2, <3>1, <4>1
        <5>. QED BY <1>1, <1>2, <2>1, <3>1, <3>4, <4>1, <4>2, <5>1, <5>2, <5>3, <5>4 DEF WolTyped, WolTypeOK, options
      <4>4. NoEchoInv'
        <5>1. Cardinality(Outside(Append(Tail(inbox), echo))) = left
          BY <2>2, <3>3, OutsideAppend
        <5>2. arrived' = arrived /\ Outside(inbox)' = Outside(Append(Tail(inbox), echo)) /\ loKnown' = loKnown
          BY <2>1, <3>7 DEF Outside, options
        <5>3. loKnown => left = out - 1 /\ Len(sent) + out <= arrived
          BY <1>1, <2>4, <3>5 DEF NoEchoInv
        <5>4. loKnown => Len(sent) + 1 + left <= arrived
          BY <1>2, <1>4, <2>4, <5>3
        <5>. QED BY <4>1, <5>1, <5>2, <5>4 DEF NoEchoInv
      <4>. QED BY <3>1, <3>4, <4>3, <4>4 DEF WolInv
    <3>. QED BY <2>6, <3>6, <3>7
  <2>. QED BY <1>5, <2>5, <2>6 DEF Turns
<1>6. ASSUME PacketArrives PROVE WolInv'
  <2>1. UNCHANGED <<options, dupTab, time, noted, sent, ignored, setBack>> /\ arrived' = arrived + 1 /\ arrived < MaxPackets
    BY <1>6 DEF PacketArrives
  <2>2. PICK p \in MagicPacket : ~p.lo /\ inbox' = Append(inbox, p)
    BY <1>6 DEF PacketArrives, MagicPacket
  <2>3. WolHistory' /\ OncePerWindow'
    BY <1>3, <2>1, NotesStay
  <2>4. inbox' \in Seq(MagicPacket)
    BY <1>1, <2>2
  <2>5. WolTyped'
    <3>1. (\A i \in DOMAIN inbox : inbox[i] \in MagicPacket)'
      BY <2>4
    <3>2. arrived' \in Nat /\ arrived' <= MaxPackets
      BY <1>0, <1>2, <2>1
    <3>. QED BY <1>1, <1>2, <2>1, <2>4, <3>1, <3>2 DEF WolTyped, WolTypeOK, options
  <2>6. NoEchoInv'
    <3>1. Cardinality(Outside(Append(inbox, p))) = Cardinality(Outside(inbox)) + 1
      BY <1>1, <2>2, OutsideAppend
    <3>2. Outside(inbox)' = Outside(Append(inbox, p)) /\ loKnown' = loKnown /\ sent' = sent
      BY <2>1, <2>2 DEF Outside, options
    <3>3. loKnown => Len(sent) + Cardinality(Outside(inbox)) <= arrived
      BY <1>1 DEF NoEchoInv
    <3>4. loKnown => Len(sent) + (Cardinality(Outside(inbox)) + 1) <= arrived + 1
      BY <1>2, <1>4, <3>3
    <3>. QED BY <2>1, <3>1, <3>2, <3>4 DEF NoEchoInv
  <2>7. IgnoredWasNoted'
    BY <1>1, <2>1 DEF IgnoredWasNoted, Same
  <2>. QED BY <2>3, <2>5, <2>6, <2>7 DEF WolInv
<1>7. ASSUME TimePasses \/ ClockIsSet PROVE WolInv'
  <2>1. UNCHANGED <<options, dupTab, noted, sent, ignored, inbox, arrived>>
    BY <1>7 DEF TimePasses, ClockIsSet
  <2>2. time' \in 1 .. LastSecond /\ (setBack' \/ (setBack' = setBack /\ time' >= time)) /\ setBack' \in BOOLEAN
    <3>1. CASE TimePasses
      <4>1. setBack' = setBack /\ setBack \in BOOLEAN
        BY <1>1, <3>1 DEF TimePasses, WolTypeOK
      <4>2. time' = time + 1 /\ time < LastSecond
        BY <3>1 DEF TimePasses
      <4>3. time' \in 1 .. LastSecond /\ time' >= time
        BY <1>0, <1>3, <4>2
      <4>. QED BY <4>1, <4>3
    <3>2. CASE ClockIsSet
      <4>1. setBack' = TRUE /\ time' \in 1 .. (time - 1)
        BY <3>2 DEF ClockIsSet
      <4>2. time' \in 1 .. LastSecond
        BY <1>0, <1>3, <4>1
      <4>. QED BY <4>1, <4>2
    <3>. QED BY <1>7, <3>1, <3>2
  <2>3. time' \in Nat
    BY <1>0, <2>2
  <2>4. WolHistory' /\ OncePerWindow'
    BY <2>1, <2>2, <2>3, NotesStay
  <2>5. WolTyped'
    BY <1>1, <1>2, <2>1, <2>2 DEF WolTyped, WolTypeOK, options
  <2>6. NoEchoInv'
    BY <1>1, <2>1 DEF NoEchoInv, Outside, options
  <2>7. IgnoredWasNoted'
    BY <1>1, <2>1, <2>2 DEF IgnoredWasNoted, Same
  <2>. QED BY <2>4, <2>5, <2>6, <2>7 DEF WolInv
<1>8. ASSUME UNCHANGED wolVars PROVE WolInv'
  <2>1. UNCHANGED <<options, dupTab, time, noted, sent, ignored, setBack, inbox, arrived>>
    BY <1>8 DEF wolVars
  <2>2. WolHistory' /\ OncePerWindow'
    BY <1>3, <2>1, NotesStay
  <2>3. WolTyped'
    BY <1>1, <1>2, <2>1 DEF WolTyped, WolTypeOK, options
  <2>4. NoEchoInv'
    BY <1>1, <2>1 DEF NoEchoInv, Outside, options
  <2>5. IgnoredWasNoted'
    BY <1>1, <2>1 DEF IgnoredWasNoted, Same
  <2>. QED BY <2>2, <2>3, <2>4, <2>5 DEF WolInv
<1>. QED BY <1>5, <1>6, <1>7, <1>8 DEF WolNext

(* A wish to wake a machine is relayed once (dup_check, the loopback       *)
(* interface): for every table size, window, option and clock.             *)
THEOREM WakesOnce == WolSpec => []RelayedOnce
<1>1. WolInv => RelayedOnce
  <2> SUFFICES ASSUME WolInv PROVE RelayedOnce
    OBVIOUS
  <2>1. Outside(inbox) \in SUBSET (1 .. Len(inbox)) /\ Len(inbox) \in Nat /\ Len(sent) \in Nat /\ arrived \in Nat
    BY DEF WolInv, WolTyped, Outside
  <2>2. Cardinality(Outside(inbox)) \in Nat
    BY <2>1, OutsideFinite
  <2>3. loKnown => Len(sent) + Cardinality(Outside(inbox)) <= arrived
    BY DEF WolInv, NoEchoInv
  <2>4. NoEcho
    BY <2>1, <2>2, <2>3 DEF NoEcho
  <2>. QED BY <2>4 DEF WolInv, RelayedOnce
<1>2. WolSpec => []WolInv
  BY WolStarts, WolKeeps, PTL DEF WolSpec
<1>. QED BY <1>1, <1>2, PTL

-----------------------------------------------------------------------------
(***************************************************************************)
(* The accounts and directories of dav-bridge.                             *)
(***************************************************************************)
(* The types: only the last line of the password file may lack its end.    *)
PwLine == [name : {UserOf[r] : r \in Register} \cup {Nobody},
           pass : Register \cup {Nobody}, ended : BOOLEAN]

AdminTyped ==
  /\ AdminTypeOK
  /\ passwd \in Seq(PwLine) /\ onCard \in Nat /\ full \in Nat /\ off \in Nat
  /\ step \in [Ask -> {"idle", "look", "hash", "append", "make", "over"}]
  /\ \A r \in Register : step[r] # "make"
  /\ \A m \in Mkdir : step[m] \notin {"hash", "append"}
  /\ \A q \in Ask : reply[q] # 0 => step[q] = "over"
  /\ made \in [Mkdir -> Nat]

(* Two requests for one thing that run are known to overlap.               *)
OverlapsSeen ==
  \A q, r \in Ask :
    q # r /\ Running(q) /\ Running(r) /\ TargetOf(q) = TargetOf(r) => <<q, r>> \in overlap

(* Without a full card or a power cut every line is that of a registration *)
(* that was told 201; who comes later with the same name, as a line or     *)
(* about to append one, ran at the same time.                              *)
Accounts ==
  full = 0 /\ off = 0 =>
    /\ \A i \in 1 .. Len(passwd) :
         /\ passwd[i].ended /\ passwd[i].pass \in Register
         /\ passwd[i].name = UserOf[passwd[i].pass] /\ step[passwd[i].pass] = "over"
    /\ \A i, j \in 1 .. Len(passwd) :
         i < j => /\ passwd[i].pass # passwd[j].pass
                  /\ passwd[i].name = passwd[j].name =>
                       {<<passwd[i].pass, passwd[j].pass>>, <<passwd[j].pass, passwd[i].pass>>}
                         \subseteq overlap
    /\ \A r \in Register : reply[r] = 201 => \E i \in 1 .. Len(passwd) : passwd[i].pass = r
    /\ \A r \in Register : step[r] \in {"hash", "append"} =>
         \A i \in 1 .. Len(passwd) :
           passwd[i].name = UserOf[r] =>
             {<<passwd[i].pass, r>>, <<r, passwd[i].pass>>} \subseteq overlap

(* A directory is never without those above it, also not one that is being *)
(* made; whoever was told 201 made it at the same time as those that are   *)
(* still making it.                                                        *)
DirsClosed == \A d \in dirs : \A k \in 1 .. Len(d) : Above(d, k) \in dirs
DirsMade ==
  \A m \in Mkdir :
    /\ step[m] = "make" => \A k \in 1 .. made[m] : Above(DirOf[m], k) \in dirs
    /\ step[m] \in {"idle", "look"} => made[m] = 0
MakersOverlap ==
  off = 0 =>
    \A q, m \in Mkdir :
      q # m /\ reply[q] = 201 /\ DirOf[q] = DirOf[m] /\ (step[m] = "make" \/ reply[m] = 201)
        => {<<q, m>>, <<m, q>>} \subseteq overlap

AdminInv ==
  /\ AdminTyped /\ OverlapsSeen /\ Accounts
  /\ DirsClosed /\ DirsMade /\ DirIsThere /\ MakersOverlap

-----------------------------------------------------------------------------
(* The first line of a name decides.                                       *)
LEMMA LoginIsFirst ==
  ASSUME NEW file \in Seq(PwLine), NEW n,
         NEW i \in 1 .. Len(file), file[i].name = n, \A j \in 1 .. Len(file) : file[j].name = n => i <= j
  PROVE  Login(file, n) = file[i].pass
<1>. DEFINE lines == {j \in DOMAIN file : file[j].name = n}
            first == CHOOSE k \in lines : \A j \in lines : k <= j
<1>1. DOMAIN file = 1 .. Len(file) /\ Len(file) \in Nat
  OBVIOUS
<1>2. i \in lines /\ \A j \in lines : i <= j
  BY <1>1
<1>3. first \in lines /\ \A j \in lines : first <= j
  BY <1>2
<1>4. first = i
  BY <1>1, <1>2, <1>3
<1>5. Login(file, n) = IF lines = {} THEN Nobody ELSE file[first].pass
  BY DEF Login
<1>. QED BY <1>2, <1>4, <1>5

LEMMA LoginHasFirst ==
  ASSUME NEW file \in Seq(PwLine), NEW n, Login(file, n) # Nobody
  PROVE  \E i \in 1 .. Len(file) :
           /\ file[i].name = n /\ \A j \in 1 .. Len(file) : file[j].name = n => i <= j
           /\ Login(file, n) = file[i].pass
<1>. DEFINE lines == {j \in DOMAIN file : file[j].name = n}
<1>1. DOMAIN file = 1 .. Len(file) /\ Len(file) \in Nat
  OBVIOUS
<1>2. lines # {}
  BY DEF Login
<1>3. lines \in SUBSET Nat
  BY <1>1
<1>4. PICK i \in lines : \A j \in lines : i <= j
  BY <1>2, <1>3, LeastNumber
<1>5. i \in 1 .. Len(file) /\ file[i].name = n /\ \A j \in 1 .. Len(file) : file[j].name = n => i <= j
  BY <1>1, <1>4
<1>. QED BY <1>5, LoginIsFirst

(* What a line behind the file changes.                                    *)
LEMMA BehindIs ==
  ASSUME NEW file \in Seq(PwLine), NEW line \in PwLine,
         \A i \in 1 .. Len(file) : file[i].ended \/ i = Len(file)
  PROVE  /\ Behind(file, line) \in Seq(PwLine)
         /\ Len(Behind(file, line)) >= Len(file) /\ Len(Behind(file, line)) \in Nat
         /\ \A i \in 1 .. Len(Behind(file, line)) :
              Behind(file, line)[i].ended \/ i = Len(Behind(file, line))
         /\ \A i \in 1 .. Len(file) :
              Behind(file, line)[i] = file[i] \/ (i = Len(file) /\ ~file[i].ended)
         /\ (\A i \in 1 .. Len(file) : file[i].ended) => Behind(file, line) = Append(file, line)
<1>. DEFINE b == Behind(file, line)
<1>1. Len(file) \in Nat
  OBVIOUS
<1>0. file # <<>> => Len(file) > 0
  OBVIOUS
<1>2. CASE file # <<>> /\ ~file[Len(file)].ended
  <2>. DEFINE last == [name |-> file[Len(file)].name, pass |-> Nobody, ended |-> line.ended]
  <2>1. Len(file) \in 1 .. Len(file)
    <3>1. file # <<>>
      BY <1>2
    <3>. QED BY <1>0, <1>1, <3>1
  <2>2. file[Len(file)] \in PwLine
    BY <2>1
  <2>3. last \in PwLine
    BY <2>2 DEF PwLine
  <2>4. b = [file EXCEPT ![Len(file)] = last]
    BY <1>2 DEF Behind
  <2>. HIDE DEF last, b
  <2>5. b \in Seq(PwLine) /\ Len(b) = Len(file)
    BY <2>1, <2>3, <2>4
  <2>6. \A i \in 1 .. Len(file) : i # Len(file) => b[i] = file[i]
    BY <2>4
  <2>7. ~(\A i \in 1 .. Len(file) : file[i].ended)
    BY <1>2, <2>1
  <2>8. \A i \in 1 .. Len(b) : b[i].ended \/ i = Len(b)
    BY <2>5, <2>6
  <2>9. \A i \in 1 .. Len(file) : b[i] = file[i] \/ (i = Len(file) /\ ~file[i].ended)
    BY <1>2, <2>6
  <2>10. Len(b) >= Len(file) /\ Len(b) \in Nat
    <3>1. Len(b) = Len(file)
      BY <2>5
    <3>. QED BY <1>1, <3>1
  <2>. QED BY <2>5, <2>7, <2>8, <2>9, <2>10 DEF b
<1>3. CASE ~(file # <<>> /\ ~file[Len(file)].ended)
  <2>1. b = Append(file, line)
    BY <1>3 DEF Behind
  <2>2. \A i \in 1 .. Len(file) : file[i].ended
    <3>1. CASE file = <<>>
      BY <3>1
    <3>2. CASE file[Len(file)].ended
      BY <3>2
    <3>. QED BY <1>3, <3>1, <3>2
  <2>. HIDE DEF b
  <2>3. b \in Seq(PwLine) /\ Len(b) = Len(file) + 1
    BY <2>1
  <2>4. \A i \in 1 .. Len(file) : b[i] = file[i]
    BY <2>1
  <2>7. Len(b) = Len(file) + 1
    BY <2>3
  <2>5. ASSUME NEW i \in 1 .. Len(b), i # Len(b) PROVE b[i].ended
    <3>1. i \in 1 .. Len(file)
      BY <1>1, <2>5, <2>7
    <3>. QED BY <2>2, <2>4, <3>1
  <2>6. Len(b) >= Len(file) /\ Len(b) \in Nat
    BY <1>1, <2>7
  <2>. QED BY <2>1, <2>3, <2>4, <2>5, <2>6 DEF b
<1>. QED BY <1>2, <1>3

(* Of a directory above another one.                                       *)
LEMMA AboveAbove ==
  ASSUME NEW T, NEW d \in Seq(T), NEW n \in 1 .. Len(d)
  PROVE  /\ Len(Above(d, n)) = n
         /\ \A k \in 1 .. n : Above(Above(d, n), k) = Above(d, k)
<1>1. Len(d) \in Nat
  OBVIOUS
<1>2. n < Len(d) => SubSeq(d, 1, n) \in Seq(T) /\ Len(SubSeq(d, 1, n)) = n
  BY <1>1
<1>3. Len(Above(d, n)) = n
  BY <1>1, <1>2 DEF Above
<1>4. ASSUME NEW k \in 1 .. n, n < Len(d), k < n
      PROVE  SubSeq(SubSeq(d, 1, n), 1, k) = SubSeq(d, 1, k)
  <2>. DEFINE u == SubSeq(d, 1, n)
  <2>1. u \in Seq(T) /\ Len(u) = n /\ \A i \in 1 .. n : u[i] = d[i]
    BY <1>1, <1>4
  <2>. HIDE DEF u
  <2>2. SubSeq(u, 1, k) = [i \in 1 .. k |-> u[i]]
    BY <1>4, <2>1
  <2>3. SubSeq(d, 1, k) = [i \in 1 .. k |-> d[i]]
    BY <1>1, <1>4
  <2>4. \A i \in 1 .. k : u[i] = d[i]
    BY <1>4, <2>1
  <2>. QED BY <2>2, <2>3, <2>4 DEF u
<1>5. n \in Nat /\ n <= Len(d)
  BY <1>1
<1>6. ASSUME NEW k \in 1 .. n PROVE Above(Above(d, n), k) = Above(d, k)
  <2>1. CASE k = n
    <3>1. Above(Above(d, n), k) = Above(d, n)
      BY <1>3, <1>5, <2>1 DEF Above
    <3>. QED BY <2>1, <3>1
  <2>2. CASE k # n /\ n < Len(d)
    <3>1. k < n /\ k < Len(d)
      BY <1>5, <2>2
    <3>2. Above(d, n) = SubSeq(d, 1, n) /\ Above(d, k) = SubSeq(d, 1, k)
      BY <2>2, <3>1 DEF Above
    <3>3. Above(Above(d, n), k) = SubSeq(SubSeq(d, 1, n), 1, k)
      BY <1>3, <3>1, <3>2 DEF Above
    <3>. QED BY <1>4, <2>2, <3>1, <3>2, <3>3
  <2>3. CASE n = Len(d)
    BY <2>3 DEF Above
  <2>. QED BY <1>1, <1>5, <2>1, <2>2, <2>3
<1>. QED BY <1>3, <1>6

-----------------------------------------------------------------------------
(* What a request does to its own place and answer.                        *)
Place == {"idle", "look", "hash", "append", "make", "over"}
Status == {0, 201, 405, 409, 500}

LEMMA AnswerIs ==
  ASSUME AdminTyped, NEW q \in Ask, NEW status \in Status, Replies(q, status), status # 0
  PROVE  /\ step' \in [Ask -> Place] /\ reply' \in [Ask -> Status]
         /\ step'[q] = "over" /\ reply'[q] = status
         /\ \A x \in Ask : x # q => step'[x] = step[x] /\ reply'[x] = reply[x]
         /\ \A x \in Ask : reply'[x] # 0 => step'[x] = "over"
<1>1. step \in [Ask -> Place] /\ reply \in [Ask -> Status]
      /\ \A x \in Ask : reply[x] # 0 => step[x] = "over"
  BY DEF AdminTyped, AdminTypeOK, Place, Status
<1>2. step' = [step EXCEPT ![q] = "over"] /\ reply' = [reply EXCEPT ![q] = status]
  BY DEF Replies
<1>3. "over" \in Place
  BY DEF Place
<1>4. step' \in [Ask -> Place] /\ reply' \in [Ask -> Status]
  BY <1>1, <1>2, <1>3
<1>5. step'[q] = "over" /\ reply'[q] = status /\ \A x \in Ask : x # q => step'[x] = step[x] /\ reply'[x] = reply[x]
  BY <1>1, <1>2
<1>. QED BY <1>1, <1>4, <1>5

LEMMA GoingIs ==
  ASSUME AdminTyped, NEW q \in Ask, NEW to \in Place, Goes(q, to), step[q] # "over"
  PROVE  /\ step' \in [Ask -> Place] /\ reply' = reply
         /\ step'[q] = to /\ \A x \in Ask : x # q => step'[x] = step[x]
         /\ \A x \in Ask : reply'[x] # 0 => step'[x] = "over"
<1>1. step \in [Ask -> Place] /\ \A x \in Ask : reply[x] # 0 => step[x] = "over"
  BY DEF AdminTyped, Place
<1>2. step' = [step EXCEPT ![q] = to] /\ reply' = reply
  BY DEF Goes
<1>3. step' \in [Ask -> Place] /\ step'[q] = to /\ \A x \in Ask : x # q => step'[x] = step[x]
  BY <1>1, <1>2
<1>. QED BY <1>1, <1>2, <1>3

(* Every step of a request ends with its answer or takes it to its next    *)
(* place; nobody else's place or answer changes.                           *)
Next1(q) ==
  \/ /\ step[q] = "idle" /\ Goes(q, "look")
     /\ UNCHANGED <<passwd, onCard, dirs, made, full, off>> /\ RequestArrives(q)
  \/ q \in Register /\ (LooksUp(q) \/ Hashes(q) \/ Appends(q) \/ AppendFails(q)) /\ UNCHANGED <<dirs, made, overlap, off>>
  \/ q \in Mkdir /\ (Stats(q) \/ Makes(q) \/ Made(q)) /\ UNCHANGED <<passwd, onCard, full, overlap, off>>

LEMMA StepsAre ==
  ASSUME AdminNext
  PROVE  (\E q \in Ask : Next1(q)) \/ ReachesCard \/ PowerFails
<1>1. ASSUME NEW q \in Ask, RequestArrives(q) PROVE Next1(q)
  BY <1>1 DEF RequestArrives, Next1
<1>2. ASSUME NEW r \in Register, LooksUp(r) \/ Hashes(r) \/ Appends(r) \/ AppendFails(r) PROVE r \in Ask /\ Next1(r)
  BY <1>2 DEF Ask, LooksUp, Hashes, Appends, AppendFails, Next1
<1>3. ASSUME NEW m \in Mkdir, Stats(m) \/ Makes(m) \/ Made(m) PROVE m \in Ask /\ Next1(m)
  BY <1>3 DEF Ask, Stats, Makes, Made, Next1
<1>. QED BY <1>1, <1>2, <1>3 DEF AdminNext

(* The places and answers after a step of q.                               *)
Moves(q) ==
  /\ step' \in [Ask -> Place] /\ reply' \in [Ask -> Status]
  /\ \A x \in Ask : x # q => step'[x] = step[x] /\ reply'[x] = reply[x]
  /\ \A x \in Ask : reply'[x] # 0 => step'[x] = "over"
  /\ Running(q) \/ RequestArrives(q)
  /\ \A r \in Register : step'[r] # "make"
  /\ \A m \in Mkdir : step'[m] \notin {"hash", "append"}

LEMMA EveryStepMoves == ASSUME AdminTyped, NEW q \in Ask, Next1(q) PROVE Moves(q)
<1>1. /\ step \in [Ask -> Place] /\ reply \in [Ask -> Status]
      /\ \A x \in Ask : reply[x] # 0 => step[x] = "over"
      /\ \A r \in Register : step[r] # "make"
      /\ \A m \in Mkdir : step[m] \notin {"hash", "append"}
  BY DEF AdminTyped, AdminTypeOK, Place, Status
<1>2. {201, 405, 409, 500} \subseteq Status /\ {"look", "hash", "append", "make", "over"} \subseteq Place
  BY DEF Status, Place
<1>3. ASSUME NEW status \in {201, 405, 409, 500}, Replies(q, status), Running(q) PROVE Moves(q)
  <2>1. /\ step' \in [Ask -> Place] /\ reply' \in [Ask -> Status] /\ step'[q] = "over"
        /\ \A x \in Ask : x # q => step'[x] = step[x] /\ reply'[x] = reply[x]
        /\ \A x \in Ask : reply'[x] # 0 => step'[x] = "over"
    BY <1>2, <1>3, AnswerIs
  <2>2. \A x \in Ask : step'[x] = step[x] \/ step'[x] = "over"
    BY <2>1
  <2>. QED BY <1>1, <1>3, <2>1, <2>2 DEF Moves, Ask
<1>4. ASSUME NEW to \in {"look", "hash", "append", "make"}, Goes(q, to), step[q] # "over",
             Running(q) \/ RequestArrives(q),
             q \in Register => to # "make", q \in Mkdir => to \notin {"hash", "append"}
      PROVE Moves(q)
  <2>1. /\ step' \in [Ask -> Place] /\ reply' = reply /\ step'[q] = to
        /\ \A x \in Ask : x # q => step'[x] = step[x]
        /\ \A x \in Ask : reply'[x] # 0 => step'[x] = "over"
    BY <1>2, <1>4, GoingIs
  <2>2. \A x \in Ask : step'[x] = step[x] \/ (x = q /\ step'[x] = to)
    BY <2>1
  <2>3. \A r \in Register : step'[r] # "make"
    BY <1>1, <1>4, <2>2 DEF Ask
  <2>4. \A m \in Mkdir : step'[m] \notin {"hash", "append"}
    BY <1>1, <1>4, <2>2 DEF Ask
  <2>. QED BY <1>1, <1>4, <2>1, <2>3, <2>4 DEF Moves
<1>5. ASSUME UNCHANGED <<step, reply>>, Running(q) PROVE Moves(q)
  BY <1>1, <1>5 DEF Moves
<1>6. Register \cap Mkdir = {}
  BY DavAdminConstants
<1>7. CASE step[q] = "idle" /\ Goes(q, "look") /\ RequestArrives(q)
  BY <1>4, <1>7
<1>8. CASE q \in Register /\ (LooksUp(q) \/ Hashes(q) \/ Appends(q) \/ AppendFails(q))
  <2>1. /\ Running(q) /\ step[q] # "over" /\ q \notin Mkdir
        /\ \/ \E to \in {"hash", "append"} : Goes(q, to)
           \/ \E status \in {201, 409, 500} : Replies(q, status)
    BY <1>6, <1>8 DEF LooksUp, Hashes, Appends, AppendFails, Running
  <2>. QED BY <1>3, <1>4, <2>1
<1>9. CASE q \in Mkdir /\ (Stats(q) \/ Makes(q) \/ Made(q))
  <2>1. /\ Running(q) /\ step[q] # "over" /\ q \notin Register
        /\ \/ Goes(q, "make") \/ UNCHANGED <<step, reply>>
           \/ \E status \in {201, 405, 500} : Replies(q, status)
    BY <1>6, <1>9 DEF Stats, Makes, Made, Running
  <2>. QED BY <1>3, <1>4, <1>5, <2>1
<1>. QED BY <1>7, <1>8, <1>9 DEF Next1

(* A step of a request leaves the password file alone or adds a line.      *)
LEMMA FileGrows ==
  ASSUME NEW q \in Ask, Next1(q)
  PROVE  passwd' = passwd \/ \E line \in PwLine : passwd' = Behind(passwd, line)
<1>1. CASE q \in Register /\ Appends(q)
  <2>1. [name |-> UserOf[q], pass |-> q, ended |-> TRUE] \in PwLine
    BY <1>1 DEF PwLine
  <2>. QED BY <1>1, <2>1 DEF Appends, Line
<1>2. CASE q \in Register /\ AppendFails(q)
  <2>1. ASSUME NEW cut \in {<<Nobody, Nobody>>, <<UserOf[q], Nobody>>, <<UserOf[q], q>>}
        PROVE  [name |-> cut[1], pass |-> cut[2], ended |-> FALSE] \in PwLine
    <3>1. cut[1] \in {UserOf[q], Nobody} /\ cut[2] \in {q, Nobody}
      OBVIOUS
    <3>. QED BY <1>2, <3>1 DEF PwLine
  <2>. QED BY <1>2, <2>1 DEF AppendFails
<1>3. CASE UNCHANGED passwd
  BY <1>3
<1>4. q \in Register /\ (LooksUp(q) \/ Hashes(q)) => UNCHANGED passwd
  BY DEF LooksUp, Hashes
<1>. QED BY <1>1, <1>2, <1>3, <1>4 DEF Next1

LEMMA AdminTypesKeep == AdminTyped /\ [AdminNext]_adminVars => AdminTyped'
<1>. SUFFICES ASSUME AdminTyped, [AdminNext]_adminVars PROVE AdminTyped'
  OBVIOUS
<1>1. /\ passwd \in Seq(PwLine) /\ onCard \in Nat /\ full \in Nat /\ off \in Nat
      /\ \A i \in 1 .. Len(passwd) : passwd[i].ended \/ i = Len(passwd)
  BY DEF AdminTyped, AdminTypeOK
<1>2. onCard <= Len(passwd) /\ Len(passwd) \in Nat
  BY DEF AdminTyped, AdminTypeOK
<1>3. made \in [Mkdir -> Nat] /\ \A m \in Mkdir : made[m] <= Len(DirOf[m])
  BY DEF AdminTyped, AdminTypeOK
<1>4. \A m \in Mkdir : Len(DirOf[m]) \in Nat
  BY DavAdminConstants
<1>5. ASSUME NEW q \in Ask, Next1(q) PROVE AdminTyped'
  <2>1. Moves(q)
    BY <1>5, EveryStepMoves
  <2>2. UNCHANGED <<onCard, off>>
    BY <1>5 DEF Next1, LooksUp, Hashes, Appends, AppendFails
  <2>3. full' \in Nat
    BY <1>1, <1>5 DEF Next1, LooksUp, Hashes, Appends, AppendFails
  <2>4. /\ passwd' \in Seq(PwLine) /\ Len(passwd') >= Len(passwd) /\ Len(passwd') \in Nat
        /\ \A i \in 1 .. Len(passwd') : passwd'[i].ended \/ i = Len(passwd')
    <3>1. CASE passwd' = passwd
      BY <1>1, <1>2, <3>1
    <3>2. CASE \E line \in PwLine : passwd' = Behind(passwd, line)
      BY <1>1, <3>2, BehindIs
    <3>. QED BY <1>5, <3>1, <3>2, FileGrows
  <2>5. onCard' <= Len(passwd')
    BY <1>1, <1>2, <2>2, <2>4
  <2>6. made' \in [Mkdir -> Nat] /\ \A m \in Mkdir : made'[m] <= Len(DirOf[m])
    <3>1. CASE q \in Mkdir /\ ~IsMade(q) /\ made' = [made EXCEPT ![q] = @ + 1]
      BY <1>3, <1>4, <3>1 DEF IsMade
    <3>2. CASE made' = made
      BY <1>3, <3>2
    <3>. QED BY <1>5, <3>1, <3>2 DEF Next1, Stats, Makes, Made
  <2>7. DOMAIN passwd' = 1 .. Len(passwd')
    BY <2>4
  <2>8. AdminTypeOK'
    BY <2>1, <2>4, <2>5, <2>6, <2>7 DEF AdminTypeOK, Moves, Status
  <2>9. /\ step' \in [Ask -> Place] /\ \A x \in Ask : reply'[x] # 0 => step'[x] = "over"
        /\ \A r \in Register : step'[r] # "make"
        /\ \A m \in Mkdir : step'[m] \notin {"hash", "append"}
    BY <2>1 DEF Moves
  <2>. QED BY <1>1, <2>2, <2>3, <2>4, <2>6, <2>8, <2>9 DEF AdminTyped, Place
<1>6. CASE ReachesCard
  <2>1. /\ UNCHANGED <<passwd, dirs, step, reply, made, full, off, overlap>> /\ onCard' = Len(passwd)
    BY <1>6 DEF ReachesCard
  <2>2. onCard' \in Nat /\ onCard' <= Len(passwd')
    BY <1>2, <2>1
  <2>. QED BY <2>1, <2>2 DEF AdminTyped, AdminTypeOK, Ask
<1>7. CASE PowerFails
  <2>1. /\ UNCHANGED <<onCard, reply, made, full, overlap>> /\ off' = off + 1
        /\ passwd' = SubSeq(passwd, 1, onCard)
        /\ step' = [q \in Ask |-> IF Running(q) THEN "over" ELSE step[q]]
    BY <1>7 DEF PowerFails
  <2>2. /\ passwd' \in Seq(PwLine) /\ Len(passwd') = onCard
        /\ \A i \in 1 .. onCard : passwd'[i] = passwd[i]
    BY <1>1, <1>2, <2>1
  <2>3. \A i \in DOMAIN passwd' : passwd'[i].ended \/ i = Len(passwd')
    <3>1. DOMAIN passwd' = 1 .. onCard
      BY <2>2
    <3>2. ASSUME NEW i \in 1 .. onCard, i # onCard PROVE i \in 1 .. Len(passwd) /\ i # Len(passwd)
      BY <1>1, <1>2, <3>2
    <3>. QED BY <1>1, <2>2, <3>1, <3>2
  <2>4. onCard' <= Len(passwd')
    <3>1. Len(passwd') = onCard /\ onCard' = onCard
      BY <2>1, <2>2
    <3>. QED BY <1>1, <3>1
  <2>5. AdminTypeOK'
    BY <1>3, <2>1, <2>3, <2>4 DEF AdminTypeOK, AdminTyped
  <2>6. /\ step \in [Ask -> Place] /\ \A x \in Ask : reply[x] # 0 => step[x] = "over"
        /\ \A r \in Register : step[r] # "make"
        /\ \A m \in Mkdir : step[m] \notin {"hash", "append"}
    BY DEF AdminTyped, Place
  <2>7. \A x \in Ask : step'[x] \in Place /\ (step'[x] = step[x] \/ step'[x] = "over")
    BY <2>1, <2>6 DEF Place
  <2>8. step' \in [Ask -> Place]
    BY <2>1, <2>7
  <2>9. /\ \A x \in Ask : reply'[x] # 0 => step'[x] = "over"
        /\ \A r \in Register : step'[r] # "make"
        /\ \A m \in Mkdir : step'[m] \notin {"hash", "append"}
    BY <2>1, <2>6, <2>7 DEF Ask
  <2>. QED BY <1>1, <1>3, <2>1, <2>2, <2>5, <2>8, <2>9 DEF AdminTyped, Place
<1>8. CASE UNCHANGED adminVars
  BY <1>8 DEF adminVars, AdminTyped, AdminTypeOK
<1>. QED BY <1>5, <1>6, <1>7, <1>8, StepsAre

(* A login stays: what is added lies behind the first line of its name.    *)
LEMMA AddedBehind ==
  ASSUME AdminTyped, NEW line \in PwLine, NEW r \in Register, Login(passwd, UserOf[r]) # Nobody
  PROVE  \/ Login(Behind(passwd, line), UserOf[r]) = Login(passwd, UserOf[r])
         \/ [name |-> UserOf[r], pass |-> Login(passwd, UserOf[r]), ended |-> FALSE] = passwd[Len(passwd)]
<1>. DEFINE n == UserOf[r]
            b == Behind(passwd, line)
<1>1. passwd \in Seq(PwLine) /\ \A i \in 1 .. Len(passwd) : passwd[i].ended \/ i = Len(passwd)
  BY DEF AdminTyped, AdminTypeOK
<1>2. PICK i \in 1 .. Len(passwd) :
        /\ passwd[i].name = n /\ \A j \in 1 .. Len(passwd) : passwd[j].name = n => i <= j
        /\ Login(passwd, n) = passwd[i].pass
  BY <1>1, LoginHasFirst
<1>3. /\ b \in Seq(PwLine) /\ Len(b) >= Len(passwd) /\ Len(b) \in Nat
      /\ \A j \in 1 .. Len(passwd) : b[j] = passwd[j] \/ (j = Len(passwd) /\ ~passwd[j].ended)
  BY <1>1, BehindIs
<1>4. Len(passwd) \in Nat
  BY <1>1
<1>. HIDE DEF b
<1>5. CASE b[i] = passwd[i]
  <2>1. i \in 1 .. Len(b)
    BY <1>3, <1>4
  <2>2. ASSUME NEW j \in 1 .. Len(b), b[j].name = n PROVE i <= j
    <3>1. CASE j < i
      <4>1. j \in 1 .. Len(passwd) /\ j # Len(passwd)
        BY <1>3, <1>4, <3>1
      <4>2. b[j] = passwd[j]
        BY <1>3, <4>1
      <4>3. i <= j
        BY <1>2, <2>2, <4>1, <4>2
      <4>. QED BY <4>3
    <3>. QED BY <1>3, <1>4, <3>1
  <2>3. b[i].name = n /\ b[i].pass = Login(passwd, n)
    BY <1>2, <1>5
  <2>. QED BY <1>3, <2>1, <2>2, <2>3, LoginIsFirst DEF b
<1>6. CASE i = Len(passwd) /\ ~passwd[i].ended
  <2>1. passwd[i] \in PwLine
    BY <1>1
  <2>2. passwd[i] = [name |-> passwd[i].name, pass |-> passwd[i].pass, ended |-> FALSE]
    BY <1>6, <2>1 DEF PwLine
  <2>. QED BY <1>2, <1>6, <2>2
<1>. QED BY <1>3, <1>5, <1>6

LEMMA LoginStep ==
  AdminTyped /\ [AdminNext]_adminVars =>
    (off' = off =>
       \A r \in Register :
         LET n == UserOf[r]
             p == Login(passwd, n)
         IN p # Nobody => \/ Login(passwd', n) = p
                          \/ [name |-> n, pass |-> p, ended |-> FALSE] = passwd[Len(passwd)])
<1>. SUFFICES ASSUME AdminTyped, [AdminNext]_adminVars, off' = off,
                     NEW r \in Register, Login(passwd, UserOf[r]) # Nobody
              PROVE  \/ Login(passwd', UserOf[r]) = Login(passwd, UserOf[r])
                     \/ [name |-> UserOf[r], pass |-> Login(passwd, UserOf[r]), ended |-> FALSE]
                           = passwd[Len(passwd)]
  OBVIOUS
<1>1. CASE passwd' = passwd
  BY <1>1
<1>2. ASSUME NEW q \in Ask, Next1(q)
      PROVE  passwd' = passwd \/ \E line \in PwLine : passwd' = Behind(passwd, line)
  BY <1>2, FileGrows
<1>3. CASE \E line \in PwLine : passwd' = Behind(passwd, line)
  BY <1>3, AddedBehind
<1>4. ~PowerFails
  <2>1. off \in Nat
    BY DEF AdminTyped
  <2>. QED BY <2>1 DEF PowerFails
<1>5. (ReachesCard \/ UNCHANGED adminVars) => passwd' = passwd
  BY DEF ReachesCard, adminVars
<1>. QED BY <1>1, <1>2, <1>3, <1>4, <1>5, StepsAre

(* Requests for one thing that run at the same time are known to.          *)
LEMMA OverlapsKeep == AdminTyped /\ OverlapsSeen /\ [AdminNext]_adminVars => OverlapsSeen'
<1>. SUFFICES ASSUME AdminTyped, OverlapsSeen, [AdminNext]_adminVars PROVE OverlapsSeen'
  OBVIOUS
<1>1. ASSUME \A q \in Ask : Running(q)' => Running(q), overlap' = overlap PROVE OverlapsSeen'
  <2>1. \A q : TargetOf(q)' = TargetOf(q)
    BY DEF TargetOf
  <2>. QED BY <1>1, <2>1 DEF OverlapsSeen
<1>2. ASSUME NEW q \in Ask, Next1(q) PROVE OverlapsSeen'
  <2>1. Moves(q)
    BY <1>2, EveryStepMoves
  <2>2. \A x \in Ask : x # q => (Running(x)' <=> Running(x))
    BY <2>1 DEF Moves, Running
  <2>3. CASE RequestArrives(q)
    <3>. DEFINE others == {r \in Ask : Running(r) /\ TargetOf(r) = TargetOf(q)}
    <3>1. overlap' = overlap \cup (others \X {q}) \cup ({q} \X others)
      BY <2>3 DEF RequestArrives
    <3>2. ASSUME NEW x \in Ask, NEW y \in Ask, x # y, Running(x)', Running(y)', TargetOf(x) = TargetOf(y)
          PROVE  <<x, y>> \in overlap'
      <4>1. CASE x = q
        <5>1. y \in others
          BY <2>2, <3>2, <4>1
        <5>. QED BY <3>1, <4>1, <5>1
      <4>2. CASE y = q
        <5>1. x \in others
          BY <2>2, <3>2, <4>2
        <5>. QED BY <3>1, <4>2, <5>1
      <4>3. CASE x # q /\ y # q
        <5>1. <<x, y>> \in overlap
          BY <2>2, <3>2, <4>3 DEF OverlapsSeen
        <5>. QED BY <3>1, <5>1
      <4>. QED BY <4>1, <4>2, <4>3
    <3>3. \A x : TargetOf(x)' = TargetOf(x)
      BY DEF TargetOf
    <3>. QED BY <3>2, <3>3 DEF OverlapsSeen
  <2>4. CASE ~RequestArrives(q)
    <3>1. Running(q) /\ overlap' = overlap
      BY <1>2, <2>1, <2>4 DEF Next1, Moves
    <3>. QED BY <1>1, <2>2, <3>1
  <2>. QED BY <2>3, <2>4
<1>3. CASE ReachesCard \/ UNCHANGED adminVars
  BY <1>1, <1>3 DEF ReachesCard, adminVars, Running
<1>4. CASE PowerFails
  <2>1. overlap' = overlap /\ step' = [q \in Ask |-> IF Running(q) THEN "over" ELSE step[q]]
    BY <1>4 DEF PowerFails
  <2>2. \A q \in Ask : ~Running(q)'
    BY <2>1 DEF Running
  <2>. QED BY <1>1, <2>1, <2>2
<1>. QED BY <1>2, <1>3, <1>4, StepsAre

-----------------------------------------------------------------------------
(* Accounts.  Pairs of requests that are known to have overlapped, both    *)
(* ways.                                                                   *)

LEMMA AccountsKeep == AdminTyped /\ OverlapsSeen /\ Accounts /\ [AdminNext]_adminVars => Accounts'
<1>. SUFFICES ASSUME AdminTyped, OverlapsSeen, Accounts, [AdminNext]_adminVars, full' = 0, off' = 0
              PROVE  /\ \A i \in 1 .. Len(passwd') :
                          /\ passwd'[i].ended /\ passwd'[i].pass \in Register
                          /\ passwd'[i].name = UserOf[passwd'[i].pass] /\ step'[passwd'[i].pass] = "over"
                     /\ \A i, j \in 1 .. Len(passwd') :
                          i < j => /\ passwd'[i].pass # passwd'[j].pass
                                   /\ passwd'[i].name = passwd'[j].name =>
                                        {<<passwd'[i].pass, passwd'[j].pass>>, <<passwd'[j].pass, passwd'[i].pass>>}
                                          \subseteq overlap'
                     /\ \A r \in Register : reply'[r] = 201 => \E i \in 1 .. Len(passwd') : passwd'[i].pass = r
                     /\ \A r \in Register : step'[r] \in {"hash", "append"} =>
                          \A i \in 1 .. Len(passwd') :
                            passwd'[i].name = UserOf[r] =>
                              {<<passwd'[i].pass, r>>, <<r, passwd'[i].pass>>} \subseteq overlap'
  BY DEF Accounts
<1>1. full \in Nat /\ off \in Nat /\ passwd \in Seq(PwLine) /\ Len(passwd) \in Nat /\ DOMAIN passwd = 1 .. Len(passwd)
  BY DEF AdminTyped
<1>2. full = 0 /\ off = 0 /\ ~PowerFails /\ \A q : ~AppendFails(q)
  <2>1. ~PowerFails
    BY <1>1 DEF PowerFails
  <2>2. \A q : ~AppendFails(q)
    BY <1>1 DEF AppendFails
  <2>3. ASSUME NEW q \in Ask, Next1(q) PROVE full' = full /\ off' = off
    BY <2>2, <2>3 DEF Next1, LooksUp, Hashes, Appends
  <2>4. (ReachesCard \/ UNCHANGED adminVars) => full' = full /\ off' = off
    BY DEF ReachesCard, adminVars
  <2>. QED BY <2>1, <2>2, <2>3, <2>4, StepsAre
<1>3. /\ \A i \in 1 .. Len(passwd) :
           /\ passwd[i].ended /\ passwd[i].pass \in Register
           /\ passwd[i].name = UserOf[passwd[i].pass] /\ step[passwd[i].pass] = "over"
      /\ \A i, j \in 1 .. Len(passwd) :
           i < j => /\ passwd[i].pass # passwd[j].pass
                    /\ passwd[i].name = passwd[j].name =>
                         {<<passwd[i].pass, passwd[j].pass>>, <<passwd[j].pass, passwd[i].pass>>} \subseteq overlap
      /\ \A r \in Register : reply[r] = 201 => \E i \in 1 .. Len(passwd) : passwd[i].pass = r
      /\ \A r \in Register : step[r] \in {"hash", "append"} =>
           \A i \in 1 .. Len(passwd) :
             passwd[i].name = UserOf[r] => {<<passwd[i].pass, r>>, <<r, passwd[i].pass>>} \subseteq overlap
  BY <1>2 DEF Accounts
<1>4. CASE (ReachesCard \/ UNCHANGED adminVars)
  <2>1. UNCHANGED <<passwd, step, reply, overlap>>
    BY <1>4 DEF ReachesCard, adminVars
  <2>. QED BY <1>3, <2>1
<1>5. ASSUME NEW q \in Ask, Next1(q), ~(q \in Register /\ Appends(q))
      PROVE  /\ passwd' = passwd /\ overlap \subseteq overlap' /\ Moves(q)
             /\ q \in Register /\ step'[q] \in {"hash", "append"} =>
                  step[q] \in {"hash", "append"} \/ ~UserExists(UserOf[q])
             /\ q \in Register => reply'[q] # 201 \/ reply'[q] = reply[q]
  <2>1. Moves(q) /\ Register \cap Mkdir = {}
    BY <1>5, EveryStepMoves, DavAdminConstants
  <2>2. CASE step[q] = "idle" /\ Goes(q, "look") /\ UNCHANGED passwd /\ RequestArrives(q)
    <3>1. step'[q] = "look" /\ reply' = reply
      BY <2>2, GoingIs DEF Place
    <3>. QED BY <2>1, <2>2, <3>1 DEF RequestArrives
  <2>3. CASE q \in Register /\ LooksUp(q)
    <3>1. CASE UserExists(UserOf[q]) /\ Replies(q, 409)
      <4>1. step'[q] = "over" /\ reply'[q] = 409
        BY <3>1, AnswerIs DEF Status
      <4>. QED BY <2>1, <2>3, <4>1 DEF LooksUp
    <3>2. CASE ~UserExists(UserOf[q]) /\ Goes(q, "hash")
      <4>1. reply' = reply
        BY <3>2 DEF Goes
      <4>. QED BY <2>1, <2>3, <3>2, <4>1 DEF LooksUp
    <3>. QED BY <2>3, <3>1, <3>2 DEF LooksUp
  <2>4. CASE q \in Register /\ Hashes(q)
    <3>1. CASE Goes(q, "append")
      <4>1. reply' = reply
        BY <3>1 DEF Goes
      <4>. QED BY <2>1, <2>4, <3>1, <4>1 DEF Hashes
    <3>2. CASE Replies(q, 500)
      <4>1. step'[q] = "over" /\ reply'[q] = 500
        BY <3>2, AnswerIs DEF Status
      <4>. QED BY <2>1, <2>4, <4>1 DEF Hashes
    <3>. QED BY <2>4, <3>1, <3>2 DEF Hashes
  <2>5. CASE q \in Mkdir /\ UNCHANGED <<passwd, overlap>>
    BY <2>1, <2>5
  <2>. QED BY <1>2, <1>5, <2>2, <2>3, <2>4, <2>5 DEF Next1
<1>6. ASSUME NEW q \in Ask, Next1(q), ~(q \in Register /\ Appends(q))
      PROVE  /\ \A i \in 1 .. Len(passwd') : step'[passwd'[i].pass] = "over"
             /\ \A r \in Register : reply'[r] = 201 => \E i \in 1 .. Len(passwd') : passwd'[i].pass = r
             /\ \A r \in Register : step'[r] \in {"hash", "append"} =>
                  \A i \in 1 .. Len(passwd') :
                    passwd'[i].name = UserOf[r] =>
                      {<<passwd'[i].pass, r>>, <<r, passwd'[i].pass>>} \subseteq overlap'
  <2>1. /\ passwd' = passwd /\ overlap \subseteq overlap' /\ Moves(q)
        /\ q \in Register /\ step'[q] \in {"hash", "append"} =>
             step[q] \in {"hash", "append"} \/ ~UserExists(UserOf[q])
        /\ q \in Register => reply'[q] # 201 \/ reply'[q] = reply[q]
    BY <1>5, <1>6
  <2>2. /\ \A x \in Ask : x # q => step'[x] = step[x] /\ reply'[x] = reply[x]
        /\ step[q] # "over"
    BY <2>1 DEF Moves, Running, RequestArrives
  <2>3. \A i \in 1 .. Len(passwd) : passwd[i].pass \in Ask /\ passwd[i].pass # q
    BY <1>3, <2>2 DEF Ask
  <2>4. \A i \in 1 .. Len(passwd) : step'[passwd[i].pass] = "over"
    BY <1>3, <2>2, <2>3
  <2>5. \A r \in Register : reply'[r] = 201 => reply[r] = 201
    BY <2>1, <2>2 DEF Ask
  <2>6. ASSUME NEW r \in Register, step'[r] \in {"hash", "append"}, NEW i \in 1 .. Len(passwd), passwd[i].name = UserOf[r]
        PROVE {<<passwd[i].pass, r>>, <<r, passwd[i].pass>>} \subseteq overlap
    <3>1. UserExists(UserOf[r])
      BY <1>1, <2>6 DEF UserExists
    <3>2. step[r] \in {"hash", "append"}
      BY <2>1, <2>2, <2>6, <3>1 DEF Ask
    <3>. QED BY <1>3, <2>6, <3>2
  <2>. QED BY <1>3, <2>1, <2>4, <2>5, <2>6
<1>7. ASSUME NEW q \in Ask, Next1(q), ~(q \in Register /\ Appends(q))
      PROVE  /\ \A i \in 1 .. Len(passwd') :
                  /\ passwd'[i].ended /\ passwd'[i].pass \in Register
                  /\ passwd'[i].name = UserOf[passwd'[i].pass]
             /\ \A i, j \in 1 .. Len(passwd') :
                  i < j => /\ passwd'[i].pass # passwd'[j].pass
                           /\ passwd'[i].name = passwd'[j].name =>
                                {<<passwd'[i].pass, passwd'[j].pass>>, <<passwd'[j].pass, passwd'[i].pass>>}
                                  \subseteq overlap'
  <2>1. passwd' = passwd /\ overlap \subseteq overlap'
    BY <1>5, <1>7
  <2>2. \A i, j \in 1 .. Len(passwd) :
           i < j => /\ passwd[i].pass # passwd[j].pass
                    /\ passwd[i].name = passwd[j].name =>
                         {<<passwd[i].pass, passwd[j].pass>>, <<passwd[j].pass, passwd[i].pass>>} \subseteq overlap'
    BY <1>3, <2>1
  <2>. QED BY <1>3, <2>1, <2>2
<1>8. CASE \E q \in Register : Appends(q)
  <2>1. PICK q \in Register : Appends(q)
    BY <1>8
  <2>. DEFINE line == [name |-> UserOf[q], pass |-> q, ended |-> TRUE]
              L == Len(passwd)
  <2>2. q \in Ask /\ step[q] = "append" /\ Replies(q, 201) /\ overlap' = overlap
    BY <2>1 DEF Appends, Ask
  <2>3. /\ step'[q] = "over" /\ reply'[q] = 201
        /\ \A x \in Ask : x # q => step'[x] = step[x] /\ reply'[x] = reply[x]
    BY <2>2, AnswerIs DEF Status
  <2>4. line \in PwLine
    BY DEF PwLine
  <2>5. passwd' = Append(passwd, line)
    <3>1. \A i \in 1 .. L : passwd[i].ended
      BY <1>3
    <3>2. Behind(passwd, line) = Append(passwd, line)
      <4>1. \A i \in 1 .. Len(passwd) : passwd[i].ended \/ i = Len(passwd)
        BY <3>1
      <4>2. (\A i \in 1 .. Len(passwd) : passwd[i].ended) => Behind(passwd, line) = Append(passwd, line)
        <5> HIDE DEF line, L
        <5>1. passwd \in Seq(PwLine) /\ line \in PwLine
          BY <1>1, <2>4
        <5>. QED BY <4>1, <5>1, BehindIs
      <4>. QED BY <3>1, <4>2
    <3>. QED BY <2>1, <3>2 DEF Appends, Line
  <2>. HIDE DEF line
  <2>6. L \in Nat /\ Len(passwd') = L + 1 /\ passwd'[L + 1] = line /\ \A i \in 1 .. L : passwd'[i] = passwd[i]
    BY <1>1, <2>4, <2>5
  <2>7. \A i \in 1 .. (L + 1) : i \in 1 .. L \/ i = L + 1
    BY <2>6
  <2>8. line.name = UserOf[q] /\ line.pass = q /\ line.ended
    BY DEF line
  <2>9. \A i \in 1 .. L : passwd[i].pass # q /\ passwd[i].pass \in Ask /\ step'[passwd[i].pass] = "over"
    BY <1>3, <2>2, <2>3 DEF Ask
  <2>10. \A i \in 1 .. (L + 1) :
           /\ passwd'[i].ended /\ passwd'[i].pass \in Register
           /\ passwd'[i].name = UserOf[passwd'[i].pass] /\ step'[passwd'[i].pass] = "over"
    BY <1>3, <2>3, <2>6, <2>7, <2>8, <2>9
  <2>11. \A i \in 1 .. L : passwd[i].name = UserOf[q] =>
           {<<passwd[i].pass, q>>, <<q, passwd[i].pass>>} \subseteq overlap
    BY <1>3, <2>2
  <2>12. ASSUME NEW i \in 1 .. (L + 1), NEW j \in 1 .. (L + 1), i < j
         PROVE  /\ passwd'[i].pass # passwd'[j].pass
                /\ passwd'[i].name = passwd'[j].name =>
                     {<<passwd'[i].pass, passwd'[j].pass>>, <<passwd'[j].pass, passwd'[i].pass>>} \subseteq overlap
    <3>1. i \in 1 .. L
      BY <2>6, <2>12
    <3>2. CASE j \in 1 .. L
      <4>1. /\ passwd[i].pass # passwd[j].pass
            /\ passwd[i].name = passwd[j].name =>
                 {<<passwd[i].pass, passwd[j].pass>>, <<passwd[j].pass, passwd[i].pass>>} \subseteq overlap
        BY <1>3, <2>12, <3>1, <3>2
      <4>. QED BY <2>6, <3>1, <3>2, <4>1
    <3>3. CASE j = L + 1
      <4>1. passwd'[i] = passwd[i] /\ passwd'[j] = line
        BY <2>6, <3>1, <3>3
      <4>2. passwd[i].pass # q /\ (passwd[i].name = UserOf[q] => {<<passwd[i].pass, q>>, <<q, passwd[i].pass>>} \subseteq overlap)
        BY <2>9, <2>11, <3>1
      <4>. QED BY <2>8, <4>1, <4>2
    <3>. QED BY <2>7, <3>2, <3>3
  <2>13. ASSUME NEW r \in Register, reply'[r] = 201 PROVE \E i \in 1 .. (L + 1) : passwd'[i].pass = r
    <3>1. CASE r = q
      <4>1. L + 1 \in 1 .. (L + 1)
        BY <2>6
      <4>. QED BY <2>6, <2>8, <3>1, <4>1
    <3>2. CASE r # q
      <4>1. PICK i \in 1 .. L : passwd[i].pass = r
        BY <1>3, <2>3, <2>13, <3>2 DEF Ask
      <4>2. i \in 1 .. (L + 1)
        BY <2>6
      <4>. QED BY <2>6, <4>1, <4>2
    <3>. QED BY <3>1, <3>2
  <2>14. ASSUME NEW r \in Register, step'[r] \in {"hash", "append"}, NEW i \in 1 .. (L + 1), passwd'[i].name = UserOf[r]
         PROVE  {<<passwd'[i].pass, r>>, <<r, passwd'[i].pass>>} \subseteq overlap
    <3>1. r # q /\ r \in Ask /\ step[r] \in {"hash", "append"}
      BY <2>3, <2>14 DEF Ask
    <3>2. CASE i \in 1 .. L
      <4>1. passwd'[i] = passwd[i]
        BY <2>6, <3>2
      <4>. QED BY <1>3, <2>14, <3>1, <3>2, <4>1
    <3>3. CASE i = L + 1
      <4>1. UserOf[q] = UserOf[r] /\ passwd'[i].pass = q
        BY <2>6, <2>8, <2>14, <3>3
      <4>2. Running(q) /\ Running(r) /\ TargetOf(q) = TargetOf(r)
        BY <2>2, <3>1, <4>1 DEF Running, TargetOf
      <4>3. <<q, r>> \in overlap /\ <<r, q>> \in overlap
        BY <2>2, <3>1, <4>2 DEF OverlapsSeen
      <4>. QED BY <4>1, <4>3
    <3>. QED BY <2>7, <3>2, <3>3
  <2>15. Len(passwd') = L + 1 /\ overlap' = overlap
    BY <2>2, <2>6
  <2>. QED BY <2>10, <2>12, <2>13, <2>14, <2>15
<1>. QED BY <1>2, <1>3, <1>4, <1>6, <1>7, <1>8, StepsAre

-----------------------------------------------------------------------------
(* Directories.                                                            *)
DirsInv == DirsClosed /\ DirsMade /\ DirIsThere /\ MakersOverlap

LEMMA DirsKeep == AdminTyped /\ OverlapsSeen /\ DirsInv /\ [AdminNext]_adminVars => DirsInv'
<1>. SUFFICES ASSUME AdminTyped, OverlapsSeen, DirsInv, [AdminNext]_adminVars PROVE DirsInv'
  OBVIOUS
<1>0. \A d, k : Above(d, k)' = Above(d, k)
  BY DEF Above
<1>1. off \in Nat /\ made \in [Mkdir -> Nat] /\ Register \cap Mkdir = {}
      /\ \A m \in Mkdir : made[m] <= Len(DirOf[m]) /\ Len(DirOf[m]) \in Nat /\ made[m] \in Nat
  BY DavAdminConstants DEF AdminTyped, AdminTypeOK
<1>2. DirsClosed /\ DirsMade /\ DirIsThere /\ MakersOverlap
  BY DEF DirsInv
<1>3. \A m \in Mkdir : m \in Ask /\ TargetOf(m) = DirOf[m] /\ m \notin Register
  BY <1>1 DEF Ask, TargetOf
<1>4. ASSUME UNCHANGED <<dirs, made, off>>, overlap \subseteq overlap',
             \A m \in Mkdir : (step'[m] = "make" => step[m] = "make")
                              /\ (step'[m] \in {"idle", "look"} => step[m] \in {"idle", "look"}),
             \A m \in Mkdir : (reply'[m] \in {201, 405} => reply'[m] = reply[m])
      PROVE  DirsInv'
  <2>1. DirsClosed' /\ DirsMade'
    BY <1>2, <1>4 DEF DirsClosed, DirsMade, Above
  <2>2. DirIsThere'
    BY <1>2, <1>4 DEF DirIsThere, Above
  <2>3. ASSUME off' = 0, NEW q \in Mkdir, NEW m \in Mkdir, q # m, reply'[q] = 201, DirOf[q] = DirOf[m],
               step'[m] = "make" \/ reply'[m] = 201
        PROVE  {<<q, m>>, <<m, q>>} \subseteq overlap'
    <3>1. off = 0 /\ reply[q] = 201 /\ (step[m] = "make" \/ reply[m] = 201)
      BY <1>4, <2>3
    <3>2. {<<q, m>>, <<m, q>>} \subseteq overlap
      BY <1>2, <2>3, <3>1 DEF MakersOverlap
    <3>. QED BY <1>4, <3>2
  <2>4. MakersOverlap'
    BY <2>3 DEF MakersOverlap
  <2>. QED BY <2>1, <2>2, <2>4 DEF DirsInv
<1>5. ASSUME NEW q \in Ask, RequestArrives(q) PROVE DirsInv'
  <2>1. Goes(q, "look") /\ UNCHANGED <<dirs, made, off>> /\ overlap \subseteq overlap' /\ step[q] = "idle"
    BY <1>5 DEF RequestArrives
  <2>2. reply' = reply /\ step'[q] = "look" /\ \A x \in Ask : x # q => step'[x] = step[x]
    BY <2>1, GoingIs DEF Place
  <2>. QED BY <1>3, <1>4, <2>1, <2>2
<1>6. ASSUME NEW q \in Register, LooksUp(q) \/ Hashes(q) \/ Appends(q) \/ AppendFails(q) PROVE DirsInv'
  <2>1. q \in Ask /\ Next1(q) /\ UNCHANGED <<dirs, made, off, overlap>>
    BY <1>6 DEF LooksUp, Hashes, Appends, AppendFails, Next1, Ask
  <2>2. \A x \in Ask : x # q => step'[x] = step[x] /\ reply'[x] = reply[x]
    BY <2>1, EveryStepMoves DEF Moves
  <2>. QED BY <1>3, <1>4, <2>1, <2>2
<1>7. ASSUME NEW m \in Mkdir, Stats(m) PROVE DirsInv'
  <2>1. m \in Ask /\ step[m] = "look" /\ UNCHANGED <<dirs, made, off, overlap>>
    BY <1>3, <1>7 DEF Stats
  <2>2. CASE DirOf[m] \in dirs /\ Replies(m, 405)
    <3>1. step'[m] = "over" /\ reply'[m] = 405 /\ \A x \in Ask : x # m => step'[x] = step[x] /\ reply'[x] = reply[x]
      BY <2>1, <2>2, AnswerIs DEF Status
    <3>2. DirsClosed' /\ DirsMade'
      BY <1>2, <1>3, <2>1, <3>1 DEF DirsClosed, DirsMade, Above
    <3>3. DirIsThere'
      <4>1. \A k \in 1 .. Len(DirOf[m]) : Above(DirOf[m], k) \in dirs
        BY <1>2, <2>2 DEF DirsClosed
      <4>. QED BY <1>0, <1>2, <1>3, <2>1, <3>1, <4>1 DEF DirIsThere
    <3>4. MakersOverlap'
      BY <1>2, <1>3, <2>1, <3>1 DEF MakersOverlap
    <3>. QED BY <3>2, <3>3, <3>4 DEF DirsInv
  <2>3. CASE DirOf[m] \notin dirs /\ Goes(m, "make")
    <3>1. step'[m] = "make" /\ reply' = reply /\ \A x \in Ask : x # m => step'[x] = step[x]
      BY <2>1, <2>3, GoingIs DEF Place
    <3>2. made[m] = 0
      BY <1>2, <2>1 DEF DirsMade
    <3>3. \A k \in 1 .. made[m] : Above(DirOf[m], k) \in dirs
      BY <3>2
    <3>4. DirsClosed' /\ DirsMade'
      BY <1>2, <1>3, <2>1, <3>1, <3>2, <3>3 DEF DirsClosed, DirsMade, Above
    <3>5. DirIsThere'
      BY <1>2, <2>1, <3>1 DEF DirIsThere, Above
    <3>6. off = 0 => \A q \in Mkdir : DirOf[q] = DirOf[m] => reply[q] # 201
      <4> SUFFICES ASSUME off = 0, NEW q \in Mkdir, DirOf[q] = DirOf[m], reply[q] = 201 PROVE FALSE
        OBVIOUS
      <4>1. Len(DirOf[m]) > 0 /\ Len(DirOf[m]) \in Nat
        BY <1>1, DavAdminConstants
      <4>2. Len(DirOf[m]) \in 1 .. Len(DirOf[m]) /\ Above(DirOf[m], Len(DirOf[m])) = DirOf[m]
        BY <4>1 DEF Above
      <4>3. DirOf[m] \in dirs
        BY <1>2, <4>2 DEF DirIsThere
      <4>. QED BY <2>3, <4>3
    <3>7. MakersOverlap'
      <4> SUFFICES ASSUME off = 0, NEW q \in Mkdir, NEW x \in Mkdir, q # x, reply[q] = 201,
                          DirOf[q] = DirOf[x], step'[x] = "make" \/ reply[x] = 201
                   PROVE {<<q, x>>, <<x, q>>} \subseteq overlap
        BY <2>1, <3>1 DEF MakersOverlap
      <4>1. x # m
        BY <3>6
      <4>. QED BY <1>2, <1>3, <3>1, <4>1 DEF MakersOverlap
    <3>. QED BY <3>4, <3>5, <3>7 DEF DirsInv
  <2>. QED BY <1>7, <2>2, <2>3 DEF Stats
<1>8. ASSUME NEW m \in Mkdir, Makes(m) PROVE DirsInv'
  <2>1. m \in Ask /\ step[m] = "make" /\ ~IsMade(m) /\ UNCHANGED <<off, overlap>>
    BY <1>3, <1>8 DEF Makes
  <2>2. CASE UNCHANGED <<dirs, made>> /\ Replies(m, 500)
    <3>1. step'[m] = "over" /\ reply'[m] = 500 /\ \A x \in Ask : x # m => step'[x] = step[x] /\ reply'[x] = reply[x]
      BY <2>1, <2>2, AnswerIs DEF Status
    <3>. QED BY <1>3, <1>4, <2>1, <2>2, <3>1
  <2>3. CASE /\ dirs' = dirs \cup {Above(DirOf[m], made[m] + 1)}
             /\ made' = [made EXCEPT ![m] = @ + 1] /\ UNCHANGED <<step, reply>>
    <3>. DEFINE new == Above(DirOf[m], made[m] + 1)
    <3>1. made'[m] = made[m] + 1 /\ \A x \in Mkdir : x # m => made'[x] = made[x]
      BY <1>1, <2>3
    <3>2. \A k \in 1 .. made[m] : Above(DirOf[m], k) \in dirs
      BY <1>2, <2>1 DEF DirsMade
    <3>3. made[m] + 1 \in 1 .. Len(DirOf[m])
      BY <1>1, <2>1 DEF IsMade
    <3>4. Len(new) = made[m] + 1 /\ \A k \in 1 .. (made[m] + 1) : Above(new, k) = Above(DirOf[m], k)
      BY <3>3, AboveAbove, DavAdminConstants
    <3>5. \A k \in 1 .. (made[m] + 1) : Above(DirOf[m], k) \in dirs'
      <4>1. ASSUME NEW k \in 1 .. (made[m] + 1) PROVE k \in 1 .. made[m] \/ k = made[m] + 1
        BY <1>1
      <4>. QED BY <2>3, <3>2, <4>1
    <3>. HIDE DEF new
    <3>6. \A d \in dirs' : \A k \in 1 .. Len(d) : Above(d, k) \in dirs'
      <4>1. ASSUME NEW k \in 1 .. Len(new) PROVE Above(new, k) \in dirs'
        <5>1. k \in 1 .. (made[m] + 1)
          BY <3>4
        <5>. QED BY <3>4, <3>5, <5>1
      <4>2. ASSUME NEW d \in dirs, NEW k \in 1 .. Len(d) PROVE Above(d, k) \in dirs'
        BY <1>2, <2>3 DEF DirsClosed
      <4>3. \A d \in dirs' : d \in dirs \/ d = new
        BY <2>3 DEF new
      <4>. QED BY <4>1, <4>2, <4>3
    <3>7. DirsClosed'
      BY <1>0, <3>6 DEF DirsClosed
    <3>8. DirsMade'
      <4> SUFFICES ASSUME NEW x \in Mkdir
                   PROVE /\ step'[x] = "make" => \A k \in 1 .. made'[x] : Above(DirOf[x], k) \in dirs'
                         /\ step'[x] \in {"idle", "look"} => made'[x] = 0
        BY <1>0 DEF DirsMade
      <4>1. CASE x = m
        BY <2>1, <2>3, <3>1, <3>5, <4>1
      <4>2. CASE x # m
        BY <1>2, <2>3, <3>1, <4>2 DEF DirsMade
      <4>. QED BY <4>1, <4>2
    <3>9. DirIsThere'
      BY <1>0, <1>2, <2>1, <2>3 DEF DirIsThere
    <3>10. MakersOverlap'
      BY <1>2, <2>1, <2>3 DEF MakersOverlap
    <3>. QED BY <3>7, <3>8, <3>9, <3>10 DEF DirsInv
  <2>. QED BY <1>8, <2>2, <2>3 DEF Makes
<1>9. ASSUME NEW m \in Mkdir, Made(m) PROVE DirsInv'
  <2>1. /\ m \in Ask /\ step[m] = "make" /\ made[m] = Len(DirOf[m])
        /\ UNCHANGED <<dirs, made, off, overlap>> /\ Replies(m, 201)
    BY <1>3, <1>9 DEF Made, IsMade
  <2>2. step'[m] = "over" /\ reply'[m] = 201 /\ \A x \in Ask : x # m => step'[x] = step[x] /\ reply'[x] = reply[x]
    BY <2>1, AnswerIs DEF Status
  <2>3. DirsClosed' /\ DirsMade'
    BY <1>2, <1>3, <2>1, <2>2 DEF DirsClosed, DirsMade, Above
  <2>4. DirIsThere'
    <3>1. \A k \in 1 .. Len(DirOf[m]) : Above(DirOf[m], k) \in dirs
      BY <1>2, <2>1 DEF DirsMade
    <3>. QED BY <1>0, <1>2, <1>3, <2>1, <2>2, <3>1 DEF DirIsThere
  <2>5. MakersOverlap'
    <3> SUFFICES ASSUME off = 0, NEW q \in Mkdir, NEW x \in Mkdir, q # x, reply'[q] = 201,
                        DirOf[q] = DirOf[x], step'[x] = "make" \/ reply'[x] = 201
                 PROVE {<<q, x>>, <<x, q>>} \subseteq overlap
      BY <2>1 DEF MakersOverlap
    <3>1. CASE q # m /\ x # m
      BY <1>2, <1>3, <2>2, <3>1 DEF MakersOverlap
    <3>2. ASSUME NEW y \in Mkdir, y # m, reply[y] = 201, DirOf[y] = DirOf[m]
          PROVE {<<y, m>>, <<m, y>>} \subseteq overlap
      BY <1>2, <2>1, <3>2 DEF MakersOverlap
    <3>3. CASE x = m
      <4>1. reply[q] = 201
        BY <1>3, <2>2, <3>3
      <4>. QED BY <3>2, <3>3, <4>1
    <3>4. CASE q = m
      <4>1. step[x] = "make" \/ reply[x] = 201
        BY <1>3, <2>2, <3>4
      <4>2. CASE reply[x] = 201
        <5>1. {<<x, m>>, <<m, x>>} \subseteq overlap
          BY <3>2, <3>4, <4>2
        <5>. QED BY <3>4, <5>1
      <4>3. CASE step[x] = "make"
        <5>1. Running(x) /\ Running(m) /\ TargetOf(x) = TargetOf(m)
          BY <1>3, <2>1, <3>4, <4>3 DEF Running
        <5>2. <<x, m>> \in overlap /\ <<m, x>> \in overlap
          BY <1>3, <3>4, <5>1 DEF OverlapsSeen
        <5>. QED BY <3>4, <5>2
      <4>. QED BY <4>1, <4>2, <4>3
    <3>. QED BY <3>1, <3>3, <3>4
  <2>. QED BY <2>3, <2>4, <2>5 DEF DirsInv
<1>10. ASSUME ReachesCard \/ UNCHANGED adminVars PROVE DirsInv'
  <2>1. UNCHANGED <<dirs, step, reply, made, off, overlap>>
    BY <1>10 DEF ReachesCard, adminVars
  <2>. QED BY <1>4, <2>1
<1>11. ASSUME PowerFails PROVE DirsInv'
  <2>1. off' = off + 1 /\ made' = made /\ step' = [q \in Ask |-> IF Running(q) THEN "over" ELSE step[q]]
    BY <1>11 DEF PowerFails
  <2>2. off' # 0
    BY <1>1, <2>1
  <2>3. DirsClosed'
    <3>1. \A d \in dirs' : \A k \in 1 .. Len(d) : Above(d, k) \in dirs'
      BY <1>11 DEF PowerFails
    <3>. QED BY <1>0, <3>1 DEF DirsClosed
  <2>4. \A m \in Mkdir : step'[m] # "make" /\ (step'[m] \in {"idle", "look"} => step'[m] = step[m])
    BY <1>3, <2>1 DEF Running
  <2>5. DirsMade'
    BY <1>2, <2>1, <2>4 DEF DirsMade
  <2>. QED BY <2>2, <2>3, <2>5 DEF DirsInv, DirIsThere, MakersOverlap
<1>. QED BY <1>5, <1>6, <1>7, <1>8, <1>9, <1>10, <1>11 DEF AdminNext

-----------------------------------------------------------------------------
(* The invariant holds at the start, is kept, and gives the answers.       *)
LEMMA AdminStarts == AdminInit => AdminInv
<1>. SUFFICES ASSUME AdminInit PROVE AdminInv
  OBVIOUS
<1>1. AdminTyped
  <2>1. AdminTypeOK
    <3>1. DOMAIN passwd = {} /\ Len(passwd) = 0 /\ onCard = 0
      BY DEF AdminInit
    <3>2. reply \in [Ask -> {0, 201, 405, 409, 500}]
      BY DEF AdminInit
    <3>3. \A m \in Mkdir : made[m] <= Len(DirOf[m])
      BY DavAdminConstants DEF AdminInit
    <3>. QED BY <3>1, <3>2, <3>3 DEF AdminTypeOK
  <2>. QED BY <2>1 DEF AdminInit, AdminTyped, Ask
<1>2. OverlapsSeen
  BY DEF AdminInit, OverlapsSeen, Running
<1>3. Accounts
  <2>1. Len(passwd) = 0 /\ 1 .. 0 = {}
    BY DEF AdminInit
  <2>. QED BY <2>1 DEF AdminInit, Accounts, Ask
<1>4. DirsInv
  BY DEF AdminInit, DirsInv, DirsClosed, DirsMade, DirIsThere, MakersOverlap, Ask
<1>. QED BY <1>1, <1>2, <1>3, <1>4 DEF AdminInv, DirsInv

LEMMA AdminKeeps == AdminInv /\ [AdminNext]_adminVars => AdminInv'
BY AdminTypesKeep, OverlapsKeep, AccountsKeep, DirsKeep DEF AdminInv, DirsInv

(* The answers to register and mkdir are true.                             *)
LEMMA AdminInvAnswers == AdminInv => AnswersAreTrue
<1>. SUFFICES ASSUME AdminInv PROVE AnswersAreTrue
  OBVIOUS
<1>1. AdminTyped /\ Accounts /\ DirIsThere /\ MakersOverlap
  BY DEF AdminInv
<1>2. passwd \in Seq(PwLine) /\ Len(passwd) \in Nat
  BY <1>1 DEF AdminTyped
<1>3. ASSUME full = 0, off = 0
      PROVE  /\ \A i, j \in 1 .. Len(passwd) :
                   i < j /\ passwd[i].name = passwd[j].name =>
                              {<<passwd[i].pass, passwd[j].pass>>, <<passwd[j].pass, passwd[i].pass>>} \subseteq overlap
             /\ \A i \in 1 .. Len(passwd) : passwd[i].pass \in Register /\ passwd[i].name = UserOf[passwd[i].pass]
             /\ \A r \in Register : reply[r] = 201 => \E i \in 1 .. Len(passwd) : passwd[i].pass = r
  BY <1>1, <1>3 DEF Accounts
<1>4. AckedCanLogIn
  <2> SUFFICES ASSUME full = 0, off = 0, NEW r \in Register, reply[r] = 201,
                      \A q \in Register : <<q, r>> \notin overlap
               PROVE  Login(passwd, UserOf[r]) = r
    BY DEF AckedCanLogIn
  <2>1. PICK i \in 1 .. Len(passwd) : passwd[i].pass = r
    BY <1>3
  <2>2. passwd[i].name = UserOf[r]
    BY <1>3, <2>1
  <2>3. ASSUME NEW j \in 1 .. Len(passwd), passwd[j].name = UserOf[r] PROVE i <= j
    <3>1. CASE j < i
      <4>1. <<passwd[j].pass, r>> \in overlap /\ passwd[j].pass \in Register
        <5>1. passwd[j].name = passwd[i].name
          BY <2>2, <2>3
        <5>2. {<<passwd[j].pass, passwd[i].pass>>, <<passwd[i].pass, passwd[j].pass>>} \subseteq overlap
          BY <1>3, <3>1, <5>1
        <5>. QED BY <1>3, <2>1, <5>2
      <4>. QED BY <4>1
    <3>. QED BY <1>2, <3>1
  <2>. QED BY <1>2, <2>1, <2>2, <2>3, LoginIsFirst
<1>5. \A q \in Register : \A r \in Mkdir : UserOf[q] # DirOf[r]
  BY DavAdminConstants
<1>6. CreatedOnce
  <2> SUFFICES ASSUME full = 0, off = 0, NEW q \in Ask, NEW r \in Ask, q # r,
                      reply[q] = 201, reply[r] = 201, TargetOf(q) = TargetOf(r)
               PROVE  <<q, r>> \in overlap
    BY DEF CreatedOnce
  <2>1. CASE q \in Register /\ r \in Register
    <3>1. PICK i \in 1 .. Len(passwd) : passwd[i].pass = q
      BY <1>3, <2>1
    <3>2. PICK j \in 1 .. Len(passwd) : passwd[j].pass = r
      BY <1>3, <2>1
    <3>3. passwd[i].name = passwd[j].name
      BY <1>3, <2>1, <3>1, <3>2 DEF TargetOf
    <3>4. i < j \/ j < i
      <4>1. i # j
        BY <3>1, <3>2
      <4>. QED BY <1>2, <4>1
    <3>5. i < j => <<q, r>> \in overlap
      BY <1>3, <3>1, <3>2, <3>3
    <3>6. j < i => <<q, r>> \in overlap
      BY <1>3, <3>1, <3>2, <3>3
    <3>. QED BY <3>4, <3>5, <3>6
  <2>2. CASE q \notin Register /\ r \notin Register
    <3>1. q \in Mkdir /\ r \in Mkdir /\ DirOf[q] = DirOf[r]
      BY <2>2 DEF Ask, TargetOf
    <3>. QED BY <1>1, <3>1 DEF MakersOverlap
  <2>3. CASE q \in Register /\ r \notin Register
    <3>1. r \in Mkdir /\ TargetOf(q) = UserOf[q] /\ TargetOf(r) = DirOf[r]
      BY <2>3 DEF Ask, TargetOf
    <3>2. UserOf[q] # DirOf[r]
      BY <1>5, <2>3, <3>1
    <3>. QED BY <3>1, <3>2
  <2>4. CASE q \notin Register /\ r \in Register
    <3>1. q \in Mkdir /\ TargetOf(r) = UserOf[r] /\ TargetOf(q) = DirOf[q]
      BY <2>4 DEF Ask, TargetOf
    <3>2. UserOf[r] # DirOf[q]
      BY <1>5, <2>4, <3>1
    <3>. QED BY <3>1, <3>2
  <2>. QED BY <2>1, <2>2, <2>3, <2>4
<1>. QED BY <1>1, <1>4, <1>6 DEF AnswersAreTrue

(* An account that was created can log in, a name or a directory is        *)
(* created once, and a directory that is said to be there is, for any      *)
(* requests, full cards and power cuts.                                    *)
THEOREM AnswersTrue == AdminSpec => []AnswersAreTrue
<1>1. AdminSpec => []AdminInv
  BY AdminStarts, AdminKeeps, PTL DEF AdminSpec
<1>. QED BY <1>1, AdminInvAnswers, PTL

(* A name that can log in keeps its password.                              *)
THEOREM LoginKept == AdminSpec => LoginStays
<1>. DEFINE Step ==
       off' = off =>
         \A r \in Register :
           LET n == UserOf[r]
               p == Login(passwd, n)
           IN p # Nobody => \/ Login(passwd', n) = p
                            \/ [name |-> n, pass |-> p, ended |-> FALSE] = passwd[Len(passwd)]
<1>1. AdminTyped /\ [AdminNext]_adminVars => Step
  BY LoginStep
<1>2. AdminInv => AdminTyped
  BY DEF AdminInv
<1>3. AdminSpec => []AdminInv
  BY AdminStarts, AdminKeeps, PTL DEF AdminSpec
<1>4. AdminTyped /\ [AdminNext]_adminVars => [Step]_adminVars
  BY <1>1
<1>. HIDE DEF Step
<1>5. AdminSpec => [][Step]_adminVars
  BY <1>2, <1>3, <1>4, PTL DEF AdminSpec
<1>. QED BY <1>5 DEF LoginStays, Step

-----------------------------------------------------------------------------
(***************************************************************************)
(* The thumbnail cache.                                                    *)
(***************************************************************************)
(* The entries of a manifest, whose keys are different.                    *)
EntriesOf(m) == {m[i] : i \in 1 .. Len(m)}
OneOfEach(m) == \A i, j \in 1 .. Len(m) : m[i].key = m[j].key => i = j
IsManifest(m) == m \in Seq(ThumbEntry) /\ OneOfEach(m)

LEMMA KeysAre ==
  ASSUME NEW m, IsManifest(m)
  PROVE  /\ KeysOf(m) = {e.key : e \in EntriesOf(m)} /\ KeysOf(m) \subseteq Thumb
         /\ EntriesOf(m) \subseteq ThumbEntry
<1>1. DOMAIN m = 1 .. Len(m) /\ \A i \in 1 .. Len(m) : m[i] \in ThumbEntry
  BY DEF IsManifest
<1>2. EntriesOf(m) \subseteq ThumbEntry
  BY <1>1 DEF EntriesOf
<1>3. KeysOf(m) \subseteq Thumb
  BY <1>1 DEF KeysOf, ThumbEntry
<1>4. KeysOf(m) = {e.key : e \in EntriesOf(m)}
  BY <1>1 DEF KeysOf, EntriesOf
<1>. QED BY <1>2, <1>3, <1>4

LEMMA NotedIs ==
  ASSUME NEW m, IsManifest(m), NEW k \in Thumb, NEW t \in Nat
  PROVE  /\ IsManifest(Noted(m, k, t)) /\ KeysOf(Noted(m, k, t)) = KeysOf(m) \cup {k}
         /\ \A e \in EntriesOf(Noted(m, k, t)) :
              e = [key |-> k, time |-> t] \/ (e \in EntriesOf(m) /\ e.key # k)
<1>. DEFINE new == [key |-> k, time |-> t]
            w == Noted(m, k, t)
<1>0. new \in ThumbEntry /\ new.key = k
  BY DEF ThumbEntry
<1>1. Len(m) \in Nat /\ DOMAIN m = 1 .. Len(m) /\ m \in Seq(ThumbEntry)
  BY DEF IsManifest
<1>. HIDE DEF new
<1>2. CASE k \in KeysOf(m)
  <2>1. w = [i \in 1 .. Len(m) |-> IF m[i].key = k THEN new ELSE m[i]]
    BY <1>1, <1>2 DEF Noted, new
  <2>. HIDE DEF w
  <2>2. w \in Seq(ThumbEntry) /\ Len(w) = Len(m) /\ DOMAIN w = 1 .. Len(m)
    BY <1>0, <1>1, <2>1
  <2>3. \A i \in 1 .. Len(m) : w[i] = IF m[i].key = k THEN new ELSE m[i]
    BY <2>1
  <2>4. \A i \in 1 .. Len(m) : w[i].key = m[i].key
    BY <1>0, <2>3
  <2>5. IsManifest(w)
    BY <2>2, <2>4 DEF IsManifest, OneOfEach
  <2>6. KeysOf(w) = KeysOf(m)
    BY <1>1, <2>2, <2>4 DEF KeysOf
  <2>7. \A e \in EntriesOf(w) : e = new \/ (e \in EntriesOf(m) /\ e.key # k)
    BY <2>2, <2>3 DEF EntriesOf
  <2>. QED BY <1>2, <2>5, <2>6, <2>7 DEF w, new
<1>3. CASE k \notin KeysOf(m)
  <2>1. w = Append(m, new)
    BY <1>3 DEF Noted, new
  <2>. HIDE DEF w
  <2>2. w \in Seq(ThumbEntry) /\ Len(w) = Len(m) + 1 /\ DOMAIN w = 1 .. (Len(m) + 1) /\ w[Len(m) + 1] = new
    BY <1>0, <1>1, <2>1
  <2>3. \A i \in 1 .. Len(m) : w[i] = m[i]
    BY <1>1, <2>1
  <2>4. \A i \in 1 .. (Len(m) + 1) : i \in 1 .. Len(m) \/ i = Len(m) + 1
    BY <1>1
  <2>5. \A i \in 1 .. Len(m) : m[i].key # k
    BY <1>1, <1>3 DEF KeysOf
  <2>6. OneOfEach(w)
    <3> SUFFICES ASSUME NEW i \in 1 .. (Len(m) + 1), NEW j \in 1 .. (Len(m) + 1), w[i].key = w[j].key
                 PROVE i = j
      BY <2>2 DEF OneOfEach
    <3>1. CASE i \in 1 .. Len(m) /\ j \in 1 .. Len(m)
      BY <2>3, <3>1 DEF IsManifest, OneOfEach
    <3>2. CASE i \in 1 .. Len(m) /\ j = Len(m) + 1
      BY <1>0, <2>2, <2>3, <2>5, <3>2
    <3>3. CASE j \in 1 .. Len(m) /\ i = Len(m) + 1
      BY <1>0, <2>2, <2>3, <2>5, <3>3
    <3>. QED BY <2>4, <3>1, <3>2, <3>3
  <2>7. KeysOf(w) = KeysOf(m) \cup {k}
    <3>1. \A i \in 1 .. Len(m) : i \in 1 .. (Len(m) + 1)
      BY <1>1
    <3>2. Len(m) + 1 \in 1 .. (Len(m) + 1)
      BY <1>1
    <3>3. \A x \in KeysOf(w) : x \in KeysOf(m) \cup {k}
      BY <1>0, <1>1, <2>2, <2>3, <2>4 DEF KeysOf
    <3>4. \A x \in KeysOf(m) : x \in KeysOf(w)
      BY <1>1, <2>2, <2>3, <3>1 DEF KeysOf
    <3>5. k \in KeysOf(w)
      BY <1>0, <2>2, <3>2 DEF KeysOf
    <3>. QED BY <3>3, <3>4, <3>5
  <2>8. \A e \in EntriesOf(w) : e = new \/ (e \in EntriesOf(m) /\ e.key # k)
    BY <2>2, <2>3, <2>4, <2>5 DEF EntriesOf
  <2>. QED BY <2>2, <2>6, <2>7, <2>8 DEF w, new, IsManifest
<1>. QED BY <1>2, <1>3

(* What is left without a key: the entries before its own, and those after *)
(* it, one place further to the front.                                     *)
LEMMA LessAt ==
  ASSUME NEW m, IsManifest(m), NEW k \in KeysOf(m)
  PROVE  \E p \in 1 .. Len(m) :
           /\ m[p].key = k
           /\ Less(m, k) \in Seq(ThumbEntry) /\ Len(Less(m, k)) = Len(m) - 1
           /\ \A i \in 1 .. (Len(m) - 1) : Less(m, k)[i] = IF i < p THEN m[i] ELSE m[i + 1]
<1>1. Len(m) \in Nat /\ DOMAIN m = 1 .. Len(m) /\ m \in Seq(ThumbEntry)
      /\ \A i, j \in 1 .. Len(m) : m[i].key = m[j].key => i = j
  BY DEF IsManifest, OneOfEach
<1>. DEFINE p == CHOOSE i \in DOMAIN m : m[i].key = k
            w == Less(m, k)
<1>2. p \in 1 .. Len(m) /\ m[p].key = k
  BY <1>1 DEF KeysOf
<1>3. w = SubSeq(m, 1, p - 1) \o SubSeq(m, p + 1, Len(m))
  BY DEF Less, RemoveAt
<1>. HIDE DEF p, w
<1>. DEFINE u == SubSeq(m, 1, p - 1)
            v == SubSeq(m, p + 1, Len(m))
            n == Len(m)
<1>4. p \in Nat /\ n \in Nat /\ 1 <= p /\ p <= n /\ m \in Seq(ThumbEntry)
  BY <1>1, <1>2
<1>5. u \in Seq(ThumbEntry) /\ Len(u) = p - 1 /\ \A i \in 1 .. (p - 1) : u[i] = m[i]
  BY <1>4
<1>6. v \in Seq(ThumbEntry) /\ Len(v) = n - p /\ \A i \in 1 .. (n - p) : v[i] = m[i + p]
  BY <1>4
<1>7. w = u \o v
  BY <1>3
<1>. HIDE DEF u, v, n
<1>8. w \in Seq(ThumbEntry) /\ Len(w) = Len(u) + Len(v)
  BY <1>5, <1>6, <1>7, ConcatProperties
<1>9. \A i \in 1 .. (Len(u) + Len(v)) : w[i] = IF i <= Len(u) THEN u[i] ELSE v[i - Len(u)]
  BY <1>5, <1>6, <1>7
<1>10. Len(w) = n - 1
  BY <1>4, <1>5, <1>6, <1>8
<1>11. ASSUME NEW i \in 1 .. (n - 1) PROVE w[i] = IF i < p THEN m[i] ELSE m[i + 1]
  <2>1. i \in 1 .. (Len(u) + Len(v))
    BY <1>4, <1>5, <1>6
  <2>2. CASE i < p
    <3>1. i <= Len(u) /\ i \in 1 .. (p - 1)
      BY <1>4, <1>5, <2>2
    <3>. QED BY <1>5, <1>9, <2>1, <2>2, <3>1
  <2>3. CASE ~(i < p)
    <3>1. ~(i <= Len(u)) /\ i - Len(u) \in 1 .. (n - p) /\ i - Len(u) + p = i + 1
      BY <1>4, <1>5, <2>3
    <3>2. w[i] = v[i - Len(u)] /\ v[i - Len(u)] = m[i - Len(u) + p]
      BY <1>6, <1>9, <2>1, <3>1
    <3>. QED BY <2>3, <3>1, <3>2
  <2>. QED BY <2>2, <2>3
<1>12. w \in Seq(ThumbEntry) /\ Len(w) = Len(m) - 1
  BY <1>8, <1>10 DEF n
<1>13. \A i \in 1 .. (Len(m) - 1) : w[i] = IF i < p THEN m[i] ELSE m[i + 1]
  BY <1>11 DEF n
<1>. QED BY <1>2, <1>12, <1>13 DEF w

LEMMA LessIs ==
  ASSUME NEW m, IsManifest(m), NEW k \in Thumb
  PROVE  /\ IsManifest(Less(m, k)) /\ KeysOf(Less(m, k)) = KeysOf(m) \ {k}
         /\ EntriesOf(Less(m, k)) = {e \in EntriesOf(m) : e.key # k}
<1>1. Len(m) \in Nat /\ DOMAIN m = 1 .. Len(m) /\ m \in Seq(ThumbEntry)
      /\ \A i, j \in 1 .. Len(m) : m[i].key = m[j].key => i = j
  BY DEF IsManifest, OneOfEach
<1>2. CASE k \notin KeysOf(m)
  <2>1. \A e \in EntriesOf(m) : e.key # k
    BY <1>1, <1>2 DEF EntriesOf, KeysOf
  <2>. QED BY <1>2, <2>1 DEF Less
<1>3. CASE k \in KeysOf(m)
  <2>. DEFINE w == Less(m, k)
  <2>1. PICK p \in 1 .. Len(m) :
          /\ m[p].key = k /\ w \in Seq(ThumbEntry) /\ Len(w) = Len(m) - 1
          /\ \A i \in 1 .. (Len(m) - 1) : w[i] = IF i < p THEN m[i] ELSE m[i + 1]
    BY <1>3, LessAt
  <2>. HIDE DEF w
  <2>3. w \in Seq(ThumbEntry) /\ Len(w) = Len(m) - 1
    BY <2>1
  <2>4. \A i \in 1 .. (Len(m) - 1) : w[i] = IF i < p THEN m[i] ELSE m[i + 1]
    BY <2>1
  <2>5. DOMAIN w = 1 .. (Len(m) - 1) /\ Len(m) - 1 \in Nat
    BY <1>1, <2>1, <2>3
  <2>. DEFINE at(i) == IF i < p THEN i ELSE i + 1
  <2>6. \A i \in 1 .. (Len(m) - 1) : at(i) \in 1 .. Len(m) /\ at(i) # p /\ w[i] = m[at(i)]
    BY <1>1, <2>1, <2>4
  <2>7. \A i, j \in 1 .. (Len(m) - 1) : at(i) = at(j) => i = j
    BY <1>1, <2>1
  <2>8. \A j \in 1 .. Len(m) : j # p => \E i \in 1 .. (Len(m) - 1) : at(i) = j
    <3>1. ASSUME NEW j \in 1 .. Len(m), j < p PROVE j \in 1 .. (Len(m) - 1) /\ at(j) = j
      BY <1>1, <2>1, <3>1
    <3>2. ASSUME NEW j \in 1 .. Len(m), j > p PROVE j - 1 \in 1 .. (Len(m) - 1) /\ at(j - 1) = j
      BY <1>1, <2>1, <3>2
    <3>3. \A j \in 1 .. Len(m) : j # p => j < p \/ j > p
      BY <1>1, <2>1
    <3>. QED BY <3>1, <3>2, <3>3
  <2>. HIDE DEF at
  <2>9. OneOfEach(w)
    BY <1>1, <2>3, <2>6, <2>7 DEF OneOfEach
  <2>10. EntriesOf(w) = {e \in EntriesOf(m) : e.key # k}
    <3>1. \A e \in EntriesOf(w) : e \in EntriesOf(m) /\ e.key # k
      BY <1>1, <2>1, <2>3, <2>6 DEF EntriesOf
    <3>2. ASSUME NEW e \in EntriesOf(m), e.key # k PROVE e \in EntriesOf(w)
      <4>1. PICK j \in 1 .. Len(m) : m[j] = e
        BY DEF EntriesOf
      <4>2. j # p
        BY <2>1, <3>2, <4>1
      <4>3. PICK i \in 1 .. (Len(m) - 1) : at(i) = j
        BY <2>8, <4>2
      <4>4. w[i] = e
        BY <2>6, <4>1, <4>3
      <4>. QED BY <2>3, <4>4 DEF EntriesOf
    <3>. QED BY <3>1, <3>2
  <2>11. IsManifest(w)
    BY <2>3, <2>9 DEF IsManifest
  <2>12. KeysOf(w) = {e.key : e \in EntriesOf(w)} /\ KeysOf(m) = {e.key : e \in EntriesOf(m)}
    BY <2>11, KeysAre
  <2>13. KeysOf(w) = KeysOf(m) \ {k}
    BY <2>10, <2>12
  <2>. QED BY <2>10, <2>11, <2>13 DEF w
<1>. QED BY <1>2, <1>3

(* The entry given up is one of the oldest.                                *)
LEMMA VictimIs ==
  ASSUME NEW m, IsManifest(m), Len(m) > 0
  PROVE  Victim(m) \in 1 .. Len(m) /\ \A j \in 1 .. Len(m) : m[Victim(m)].time <= m[j].time
<1>1. Len(m) \in Nat /\ DOMAIN m = 1 .. Len(m) /\ \A i \in 1 .. Len(m) : m[i] \in ThumbEntry
  BY DEF IsManifest
<1>2. \A i \in 1 .. Len(m) : m[i].time \in Nat
  BY <1>1 DEF ThumbEntry
<1>. DEFINE Times == {m[i].time : i \in 1 .. Len(m)}
<1>3. Times \in SUBSET Nat /\ Times # {}
  <2>1. 1 \in 1 .. Len(m)
    BY <1>1
  <2>. QED BY <1>2, <2>1
<1>4. PICK t \in Times : \A u \in Times : t <= u
  BY <1>3, LeastNumber
<1>. DEFINE First == {i \in 1 .. Len(m) : m[i].time = t}
<1>5. First \in SUBSET Nat /\ First # {}
  BY <1>4
<1>6. PICK i \in First : \A j \in First : i <= j
  BY <1>5, LeastNumber
<1>7. ASSUME NEW j \in 1 .. Len(m)
      PROVE  m[i].time < m[j].time \/ (m[i].time = m[j].time /\ i <= j)
  <2>1. m[i].time = t /\ t \in Nat /\ m[j].time \in Nat /\ t <= m[j].time
    BY <1>2, <1>4, <1>6
  <2>2. m[j].time = t => i <= j
    BY <1>6
  <2>. QED BY <2>1, <2>2
<1>8. /\ Victim(m) \in 1 .. Len(m)
      /\ \A j \in 1 .. Len(m) :
           m[Victim(m)].time < m[j].time \/ (m[Victim(m)].time = m[j].time /\ Victim(m) <= j)
  <2>1. i \in DOMAIN m /\ \A j \in DOMAIN m : m[i].time < m[j].time \/ (m[i].time = m[j].time /\ i <= j)
    BY <1>1, <1>6, <1>7
  <2>. QED BY <1>1, <2>1 DEF Victim
<1>. QED BY <1>2, <1>8

ThumbTyped ==
  /\ files \in [Thumb -> {"whole", "torn", NoFileHere}] /\ IsManifest(manifest)
  /\ call \in ThumbCall \cup {NoFileHere}
  /\ call # NoFileHere => IsManifest(call.m) /\ given = NoFileHere
  /\ given \in Thumb \cup {NoFileHere} /\ phone \in Nat

Present(f) == {k \in Thumb : f[k] # NoFileHere}

(* Between its steps put knows which entries the files have.               *)
Together ==
  /\ CallAt("clean") /\ ~call.evicted => manifest = call.m
  /\ faults \cap {"kill", "unlink"} = {} =>
       /\ call = NoFileHere => Present(files) = KeysOf(manifest)
       /\ CallAt("copy") => Present(files) = KeysOf(call.m)
       /\ CallAt("save") => Present(files) = KeysOf(call.m) \cup {call.key}
       /\ CallAt("clean") => Present(files) = KeysOf(call.m)
       /\ CallAt("discard") => Present(files) = KeysOf(call.m)

(* A torn file is in no manifest, written or about to be.                  *)
TornUnlisted ==
  /\ CallAt("save") => files[call.key] = "whole"
  /\ "overwrite" \notin faults =>
       \A k \in Thumb : files[k] = "torn" =>
         k \notin KeysOf(manifest) /\ (call # NoFileHere => k \notin KeysOf(call.m))

(* What put adds is newer than everything else, so it is not given up.     *)
Newest ==
  "clock" \notin faults =>
    /\ \A e \in EntriesOf(manifest) : e.time <= phone
    /\ CallAt("copy") \/ CallAt("save") =>
         call.time = phone /\ \A e \in EntriesOf(call.m) : e.time < phone
    /\ CallAt("clean") =>
         /\ call.time = phone /\ files[call.key] = "whole"
         /\ \E i \in 1 .. Len(call.m) : call.m[i].key = call.key /\ call.m[i].time = phone
         /\ \A e \in EntriesOf(call.m) : e.time <= phone
         /\ \A e \in EntriesOf(call.m) : e.key # call.key => e.time < phone
    /\ CallAt("discard") => \A e \in EntriesOf(call.m) : e.time <= phone

ThumbInv == ThumbTyped /\ Together /\ TornUnlisted /\ Newest /\ GivenIsWhole

(* While put cleans up it does not give up what it has just put.           *)
LEMMA KeepsWhatItPut ==
  ASSUME NEW m, IsManifest(m), ~FitsIn(m), NEW k, NEW t \in Nat,
         \E i \in 1 .. Len(m) : m[i].key = k /\ m[i].time = t,
         \A e \in EntriesOf(m) : e.key # k => e.time < t
  PROVE  m[Victim(m)].key # k
<1>1. Len(m) \in Nat /\ m \in Seq(ThumbEntry) /\ \A i, j \in 1 .. Len(m) : m[i].key = m[j].key => i = j
  BY DEF IsManifest, OneOfEach
<1>2. Len(m) > 1
  <2>1. ~(Len(m) <= 1)
    BY DEF FitsIn
  <2>. QED BY <1>1, <2>1
<1>3. /\ Victim(m) \in 1 .. Len(m) /\ \A j \in 1 .. Len(m) : m[Victim(m)].time <= m[j].time
  <2>1. Len(m) > 0
    BY <1>1, <1>2
  <2>. QED BY <2>1, VictimIs
<1>4. \A i \in 1 .. Len(m) : m[i].time \in Nat
  <2>1. \A i \in 1 .. Len(m) : m[i] \in ThumbEntry
    BY <1>1
  <2>. QED BY <2>1 DEF ThumbEntry
<1>5. PICK i \in 1 .. Len(m) : m[i].key = k /\ m[i].time = t
  OBVIOUS
<1>6. PICK j \in 1 .. Len(m) : j # i
  <2>1. 1 \in 1 .. Len(m) /\ 2 \in 1 .. Len(m) /\ 1 # 2
    BY <1>1, <1>2
  <2>. QED BY <2>1
<1>7. m[j].time < t
  <2>1. m[j].key # k /\ m[j] \in EntriesOf(m)
    BY <1>1, <1>5, <1>6 DEF EntriesOf
  <2>. QED BY <2>1
<1> SUFFICES ASSUME m[Victim(m)].key = k PROVE FALSE
  OBVIOUS
<1>8. Victim(m) = i
  BY <1>1, <1>3, <1>5
<1>9. t <= m[j].time
  BY <1>3, <1>5, <1>8
<1>10. m[j].time \in Nat
  BY <1>4
<1>. QED BY <1>7, <1>9, <1>10

LEMMA ThumbStarts == ThumbInit => ThumbInv
<1>. SUFFICES ASSUME ThumbInit PROVE ThumbInv
  OBVIOUS
<1>1. IsManifest(manifest) /\ KeysOf(manifest) = {} /\ EntriesOf(manifest) = {}
  <2>1. manifest = <<>> /\ Len(manifest) = 0 /\ DOMAIN manifest = {} /\ 1 .. 0 = {} /\ manifest \in Seq(ThumbEntry)
    BY DEF ThumbInit
  <2>. QED BY <2>1 DEF IsManifest, OneOfEach, KeysOf, EntriesOf
<1>2. Present(files) = {}
  BY DEF ThumbInit, Present
<1>. QED BY <1>1, <1>2, ThumbConstants
     DEF ThumbInit, ThumbInv, ThumbTyped, Together, TornUnlisted, Newest, GivenIsWhole, CallAt

LEMMA GetsKeeps == ASSUME ThumbInv, NEW k \in Thumb, NEW t \in Nat, Gets(k, t) PROVE ThumbInv'
<1>1. ThumbTyped /\ Together /\ TornUnlisted /\ Newest /\ GivenIsWhole /\ call = NoFileHere
      /\ IsManifest(manifest) /\ phone \in Nat
  BY DEF ThumbInv, ThumbTyped, Gets
<1>2. /\ UNCHANGED <<files, call>> /\ phone' = t
      /\ faults' = IF t > phone THEN faults ELSE faults \cup {"clock"}
  BY DEF Gets, CalledAt
<1>3. CASE k \in KeysOf(manifest) /\ files[k] # NoFileHere /\ manifest' = Noted(manifest, k, t) /\ given' = k
  <2>1. /\ IsManifest(manifest') /\ KeysOf(manifest') = KeysOf(manifest)
        /\ \A e \in EntriesOf(manifest') : e = [key |-> k, time |-> t] \/ e \in EntriesOf(manifest)
    <3>1. /\ IsManifest(manifest') /\ KeysOf(manifest') = KeysOf(manifest) \cup {k}
          /\ \A e \in EntriesOf(manifest') : e = [key |-> k, time |-> t] \/ (e \in EntriesOf(manifest) /\ e.key # k)
      BY <1>1, <1>3, NotedIs
    <3>2. KeysOf(manifest) \cup {k} = KeysOf(manifest)
      BY <1>3
    <3>. QED BY <3>1, <3>2
  <2>2. ThumbTyped'
    BY <1>1, <1>2, <1>3, <2>1 DEF ThumbTyped
  <2>3. Together'
    BY <1>1, <1>2, <2>1 DEF Together, CallAt, Present
  <2>4. TornUnlisted'
    BY <1>1, <1>2, <2>1 DEF TornUnlisted, CallAt
  <2>5. Newest'
    <3>1. ASSUME "clock" \notin faults', NEW e \in EntriesOf(manifest') PROVE e.time <= t
      <4>1. t > phone /\ "clock" \notin faults
        BY <1>2, <3>1
      <4>2. CASE e = [key |-> k, time |-> t]
        BY <4>2
      <4>3. CASE e \in EntriesOf(manifest)
        <5>1. e.time <= phone /\ e.time \in Nat
          BY <1>1, <4>1, <4>3, KeysAre DEF Newest, ThumbEntry
        <5>. QED BY <1>1, <4>1, <5>1
      <4>. QED BY <2>1, <4>2, <4>3
    <3>. QED BY <1>1, <1>2, <3>1 DEF Newest, CallAt
  <2>6. GivenIsWhole'
    <3>1. "overwrite" \notin faults' => files[k] # "torn"
      BY <1>1, <1>2, <1>3 DEF TornUnlisted
    <3>2. files[k] \in {"whole", "torn", NoFileHere}
      BY <1>1 DEF ThumbTyped
    <3>. QED BY <1>2, <1>3, <3>1, <3>2 DEF GivenIsWhole
  <2>. QED BY <2>2, <2>3, <2>4, <2>5, <2>6 DEF ThumbInv
<1>4. CASE given' = NoFileHere /\ UNCHANGED manifest
  <2>1. ThumbTyped' /\ Together' /\ TornUnlisted' /\ GivenIsWhole'
    BY <1>1, <1>2, <1>4 DEF ThumbTyped, Together, TornUnlisted, GivenIsWhole, CallAt, Present
  <2>2. Newest'
    <3>1. ASSUME "clock" \notin faults', NEW e \in EntriesOf(manifest) PROVE e.time <= t
      <4>1. t > phone /\ "clock" \notin faults
        BY <1>2, <3>1
      <4>2. e.time <= phone /\ e.time \in Nat
        BY <1>1, <4>1, KeysAre DEF Newest, ThumbEntry
      <4>. QED BY <1>1, <4>1, <4>2
    <3>. QED BY <1>1, <1>2, <1>4, <3>1 DEF Newest, CallAt
  <2>. QED BY <2>1, <2>2 DEF ThumbInv
<1>. QED BY <1>3, <1>4 DEF Gets

LEMMA PutsKeeps == ASSUME ThumbInv, NEW k \in Thumb, NEW t \in Nat, Puts(k, t) PROVE ThumbInv'
<1>1. ThumbTyped /\ Together /\ TornUnlisted /\ Newest /\ call = NoFileHere
      /\ IsManifest(manifest) /\ phone \in Nat
  BY DEF ThumbInv, ThumbTyped, Puts
<1>2. /\ UNCHANGED <<files, manifest>> /\ phone' = t /\ given' = NoFileHere
      /\ faults' = IF t > phone THEN faults ELSE faults \cup {"clock"}
      /\ call' = [at |-> "copy", key |-> k, time |-> t, m |-> manifest, evicted |-> FALSE]
  BY DEF Puts, CalledAt
<1>3. /\ call' \in ThumbCall /\ call'.at = "copy" /\ call'.time = t /\ call'.m = manifest /\ call' # NoFileHere
  <2>1. call' \in ThumbCall
    BY <1>1, <1>2 DEF ThumbCall, IsManifest
  <2>. QED BY <1>2, <2>1, ThumbConstants
<1>4. ThumbTyped'
  BY <1>1, <1>2, <1>3 DEF ThumbTyped
<1>5. Together' /\ TornUnlisted' /\ GivenIsWhole'
  BY <1>1, <1>2, <1>3 DEF Together, TornUnlisted, GivenIsWhole, CallAt, Present
<1>6. Newest'
  <2>1. ASSUME "clock" \notin faults', NEW e \in EntriesOf(manifest) PROVE e.time < t /\ e.time <= t
    <3>1. t > phone /\ "clock" \notin faults
      BY <1>2, <2>1
    <3>2. e.time <= phone /\ e.time \in Nat
      BY <1>1, <3>1, KeysAre DEF Newest, ThumbEntry
    <3>. QED BY <1>1, <3>1, <3>2
  <2>. QED BY <1>1, <1>2, <1>3, <2>1 DEF Newest, CallAt
<1>. QED BY <1>4, <1>5, <1>6 DEF ThumbInv

(* What the call of a state is.                                            *)
LEMMA CallIs ==
  ASSUME ThumbTyped, call # NoFileHere
  PROVE  /\ call \in ThumbCall /\ IsManifest(call.m) /\ call.key \in Thumb
         /\ call.at \in {"copy", "save", "clean"} =>
              call \in [at : {"copy", "save", "clean"}, key : Thumb, time : Nat, m : Seq(ThumbEntry),
                       evicted : BOOLEAN]
BY DEF ThumbTyped, ThumbCall

LEMMA CopiesFileKeeps == ThumbInv /\ CopiesFile => ThumbInv'
<1>. SUFFICES ASSUME ThumbInv, CopiesFile PROVE ThumbInv'
  OBVIOUS
<1>1. ThumbTyped /\ Together /\ TornUnlisted /\ Newest /\ call # NoFileHere /\ CallAt("copy")
      /\ given = NoFileHere /\ files \in [Thumb -> {"whole", "torn", NoFileHere}]
  BY DEF ThumbInv, CopiesFile, CallAt, ThumbTyped
<1>2. /\ call.key \in Thumb /\ IsManifest(call.m)
      /\ call \in [at : {"copy", "save", "clean"}, key : Thumb, time : Nat, m : Seq(ThumbEntry), evicted : BOOLEAN]
  BY <1>1, CallIs DEF CallAt
<1>3. /\ files' = [files EXCEPT ![call.key] = "whole"] /\ call' = [call EXCEPT !.at = "save"]
      /\ UNCHANGED <<manifest, given, phone, calls, faults>>
  BY DEF CopiesFile
<1>4. /\ call' \in ThumbCall /\ call'.at = "save" /\ call'.key = call.key /\ call'.time = call.time
      /\ call'.m = call.m /\ call' # NoFileHere
  <2>1. call' \in ThumbCall
    BY <1>2, <1>3 DEF ThumbCall
  <2>2. call'.at = "save" /\ call'.key = call.key /\ call'.time = call.time /\ call'.m = call.m
    BY <1>2, <1>3
  <2>. QED BY <2>1, <2>2, ThumbConstants
<1>5. /\ files' \in [Thumb -> {"whole", "torn", NoFileHere}] /\ files'[call.key] = "whole"
      /\ \A k \in Thumb : k # call.key => files'[k] = files[k]
  BY <1>1, <1>2, <1>3
<1>6. Present(files') = Present(files) \cup {call.key}
  BY <1>2, <1>5, ThumbConstants DEF Present
<1>7. ThumbTyped'
  BY <1>1, <1>2, <1>3, <1>4, <1>5 DEF ThumbTyped
<1>8. Together'
  <2>1. faults \cap {"kill", "unlink"} = {} => Present(files') = KeysOf(call.m) \cup {call.key}
    BY <1>1, <1>6 DEF Together
  <2>. QED BY <1>3, <1>4, <2>1 DEF Together, CallAt
<1>9. TornUnlisted'
  <2>1. \A k \in Thumb : files'[k] = "torn" => files[k] = "torn"
    BY <1>5
  <2>. QED BY <1>1, <1>3, <1>4, <1>5, <2>1 DEF TornUnlisted, CallAt
<1>10. Newest'
  BY <1>1, <1>3, <1>4 DEF Newest, CallAt
<1>11. GivenIsWhole'
  BY <1>1, <1>3 DEF GivenIsWhole
<1>. QED BY <1>7, <1>8, <1>9, <1>10, <1>11 DEF ThumbInv

LEMMA SavesKeeps == ThumbInv /\ Saves => ThumbInv'
<1>. SUFFICES ASSUME ThumbInv, Saves PROVE ThumbInv'
  OBVIOUS
<1>1. ThumbTyped /\ Together /\ TornUnlisted /\ Newest /\ call # NoFileHere /\ CallAt("save")
      /\ given = NoFileHere /\ phone \in Nat
  BY DEF ThumbInv, Saves, CallAt, ThumbTyped
<1>2. /\ call.key \in Thumb /\ IsManifest(call.m) /\ call.time \in Nat
      /\ call \in [at : {"copy", "save", "clean"}, key : Thumb, time : Nat, m : Seq(ThumbEntry), evicted : BOOLEAN]
  BY <1>1, CallIs DEF CallAt
<1>. DEFINE w == Noted(call.m, call.key, call.time)
            new == [key |-> call.key, time |-> call.time]
<1>3. /\ manifest' = w /\ call' = [call EXCEPT !.at = "clean", !.m = w]
      /\ UNCHANGED <<files, given, phone, calls, faults>>
  BY <1>2 DEF Saves
<1>4. /\ IsManifest(w) /\ KeysOf(w) = KeysOf(call.m) \cup {call.key}
      /\ \A e \in EntriesOf(w) : e = new \/ (e \in EntriesOf(call.m) /\ e.key # call.key)
  BY <1>2, NotedIs
<1>. HIDE DEF w
<1>5. /\ call' \in ThumbCall /\ call'.at = "clean" /\ call'.key = call.key /\ call'.time = call.time
      /\ call'.m = w /\ call' # NoFileHere
  <2>1. call' \in ThumbCall
    BY <1>2, <1>3, <1>4 DEF ThumbCall, IsManifest
  <2>2. call'.at = "clean" /\ call'.key = call.key /\ call'.time = call.time /\ call'.m = w
    BY <1>2, <1>3
  <2>. QED BY <2>1, <2>2, ThumbConstants
<1>6. ThumbTyped'
  BY <1>1, <1>3, <1>4, <1>5 DEF ThumbTyped
<1>7. Together'
  <2>1. faults \cap {"kill", "unlink"} = {} => Present(files) = KeysOf(w)
    BY <1>1, <1>4 DEF Together
  <2>. QED BY <1>3, <1>5, <2>1 DEF Together, CallAt
<1>8. TornUnlisted'
  BY <1>1, <1>3, <1>4, <1>5, ThumbConstants DEF TornUnlisted, CallAt
<1>9. Newest'
  <2> SUFFICES ASSUME "clock" \notin faults
               PROVE  /\ call.time = phone /\ files[call.key] = "whole"
                      /\ \E i \in 1 .. Len(w) : w[i].key = call.key /\ w[i].time = phone
                      /\ \A e \in EntriesOf(w) : e.time <= phone
                      /\ \A e \in EntriesOf(w) : e.key # call.key => e.time < phone
    BY <1>3, <1>5 DEF Newest, CallAt
  <2>1. call.time = phone /\ files[call.key] = "whole" /\ \A e \in EntriesOf(call.m) : e.time < phone
    BY <1>1 DEF Newest, TornUnlisted
  <2>2. new.key = call.key /\ new.time = phone
    BY <2>1
  <2>. HIDE DEF new
  <2>3. \A e \in EntriesOf(w) : e.key # call.key => e.time < phone
    BY <1>4, <2>1, <2>2
  <2>4. \A e \in EntriesOf(w) : e.time <= phone
    <3>1. ASSUME NEW e \in EntriesOf(w), e.key # call.key PROVE e.time <= phone
      <4>1. e.time < phone /\ e.time \in Nat
        BY <1>4, <2>3, <3>1, KeysAre DEF ThumbEntry
      <4>. QED BY <1>1, <4>1
    <3>2. ASSUME NEW e \in EntriesOf(w), e.key = call.key PROVE e.time <= phone
      BY <1>1, <1>4, <2>2, <3>2
    <3>. QED BY <3>1, <3>2
  <2>5. \E i \in 1 .. Len(w) : w[i].key = call.key /\ w[i].time = phone
    <3>1. call.key \in KeysOf(w)
      BY <1>4
    <3>2. PICK e \in EntriesOf(w) : e.key = call.key
      BY <1>4, <3>1, KeysAre
    <3>3. e.time = phone
      BY <1>4, <2>2, <3>2
    <3>. QED BY <3>2, <3>3 DEF EntriesOf
  <2>. QED BY <2>1, <2>3, <2>4, <2>5
<1>10. GivenIsWhole'
  BY <1>1, <1>3 DEF GivenIsWhole
<1>. QED BY <1>6, <1>7, <1>8, <1>9, <1>10 DEF ThumbInv

LEMMA CleansKeeps == ThumbInv /\ Cleans => ThumbInv'
<1>. SUFFICES ASSUME ThumbInv, Cleans PROVE ThumbInv'
  OBVIOUS
<1>1. ThumbTyped /\ Together /\ TornUnlisted /\ Newest /\ call # NoFileHere /\ CallAt("clean")
      /\ given = NoFileHere /\ phone \in Nat /\ ~FitsIn(call.m)
      /\ files \in [Thumb -> {"whole", "torn", NoFileHere}]
  BY DEF ThumbInv, Cleans, CallAt, ThumbTyped
<1>2. /\ call.key \in Thumb /\ IsManifest(call.m) /\ call.time \in Nat
      /\ call \in [at : {"copy", "save", "clean"}, key : Thumb, time : Nat, m : Seq(ThumbEntry), evicted : BOOLEAN]
  BY <1>1, CallIs DEF CallAt
<1>. DEFINE k == call.m[Victim(call.m)].key
            w == Less(call.m, k)
<1>3. /\ call' = [call EXCEPT !.m = w, !.evicted = TRUE] /\ UNCHANGED <<manifest, given, phone, calls>>
      /\ \/ files' = Unlinked(k) /\ UNCHANGED faults
         \/ files[k] # NoFileHere /\ UNCHANGED files /\ faults' = faults \cup {"unlink"}
  BY <1>2 DEF Cleans
<1>4. k \in Thumb
  <2>1. Len(call.m) > 0
    <3>1. Len(call.m) \in Nat /\ ~(Len(call.m) <= 1)
      BY <1>1, <1>2 DEF FitsIn, IsManifest
    <3>. QED BY <3>1
  <2>2. Victim(call.m) \in 1 .. Len(call.m)
    BY <1>2, <2>1, VictimIs
  <2>3. call.m[Victim(call.m)] \in ThumbEntry
    BY <1>2, <2>2 DEF IsManifest
  <2>. QED BY <2>3 DEF ThumbEntry
<1>5. "clock" \notin faults => k # call.key
  <2> SUFFICES ASSUME "clock" \notin faults PROVE k # call.key
    OBVIOUS
  <2>1. /\ \E i \in 1 .. Len(call.m) : call.m[i].key = call.key /\ call.m[i].time = phone
        /\ \A e \in EntriesOf(call.m) : e.key # call.key => e.time < phone
    BY <1>1 DEF Newest
  <2>. QED BY <1>1, <1>2, <2>1, KeepsWhatItPut
<1>. HIDE DEF k
<1>6. /\ IsManifest(w) /\ KeysOf(w) = KeysOf(call.m) \ {k}
      /\ EntriesOf(w) = {e \in EntriesOf(call.m) : e.key # k}
  BY <1>2, <1>4, LessIs
<1>. HIDE DEF w
<1>7. /\ call' \in ThumbCall /\ call'.at = "clean" /\ call'.key = call.key /\ call'.time = call.time
      /\ call'.m = w /\ call'.evicted /\ call' # NoFileHere
  <2>1. call' \in ThumbCall
    BY <1>2, <1>3, <1>6 DEF ThumbCall, IsManifest
  <2>2. call'.at = "clean" /\ call'.key = call.key /\ call'.time = call.time /\ call'.m = w /\ call'.evicted
    BY <1>1, <1>2, <1>3 DEF CallAt
  <2>. QED BY <2>1, <2>2, ThumbConstants
<1>8. /\ files' \in [Thumb -> {"whole", "torn", NoFileHere}]
      /\ \A x \in Thumb : x # k => files'[x] = files[x]
      /\ files'[k] \in {files[k], NoFileHere}
  BY <1>1, <1>3, <1>4 DEF Unlinked
<1>9. ThumbTyped'
  BY <1>1, <1>3, <1>6, <1>7, <1>8 DEF ThumbTyped
<1>10. Together'
  <2>1. ASSUME faults' \cap {"kill", "unlink"} = {} PROVE Present(files') = KeysOf(w)
    <3>1. faults' = faults /\ files' = Unlinked(k)
      BY <1>3, <2>1
    <3>2. Present(files) = KeysOf(call.m)
      BY <1>1, <2>1, <3>1 DEF Together
    <3>3. Present(files') = Present(files) \ {k}
      BY <1>1, <1>4, <3>1 DEF Present, Unlinked
    <3>. QED BY <1>6, <3>2, <3>3
  <2>. QED BY <1>7, <2>1 DEF Together, CallAt
<1>11. TornUnlisted'
  <2>1. \A x \in Thumb : files'[x] = "torn" => files[x] = "torn"
    BY <1>8, ThumbConstants
  <2>2. "overwrite" \notin faults' => "overwrite" \notin faults
    BY <1>3
  <2>. QED BY <1>1, <1>3, <1>6, <1>7, <2>1, <2>2 DEF TornUnlisted, CallAt
<1>12. Newest'
  <2> SUFFICES ASSUME "clock" \notin faults
               PROVE  /\ \A e \in EntriesOf(manifest) : e.time <= phone
                      /\ call.time = phone /\ files'[call.key] = "whole"
                      /\ \E i \in 1 .. Len(w) : w[i].key = call.key /\ w[i].time = phone
                      /\ \A e \in EntriesOf(w) : e.time <= phone
                      /\ \A e \in EntriesOf(w) : e.key # call.key => e.time < phone
    BY <1>3, <1>7 DEF Newest, CallAt
  <2>1. /\ call.time = phone /\ files[call.key] = "whole"
        /\ \E i \in 1 .. Len(call.m) : call.m[i].key = call.key /\ call.m[i].time = phone
        /\ \A e \in EntriesOf(call.m) : e.time <= phone
        /\ \A e \in EntriesOf(call.m) : e.key # call.key => e.time < phone
        /\ \A e \in EntriesOf(manifest) : e.time <= phone
    BY <1>1 DEF Newest
  <2>2. k # call.key
    BY <1>5
  <2>3. PICK e \in EntriesOf(call.m) : e.key = call.key /\ e.time = phone
    BY <2>1 DEF EntriesOf
  <2>4. e \in EntriesOf(w)
    BY <1>6, <2>2, <2>3
  <2>5. \E i \in 1 .. Len(w) : w[i].key = call.key /\ w[i].time = phone
    BY <2>3, <2>4 DEF EntriesOf
  <2>. QED BY <1>2, <1>6, <1>8, <2>1, <2>2, <2>5
<1>13. GivenIsWhole'
  BY <1>1, <1>3 DEF GivenIsWhole
<1>. QED BY <1>9, <1>10, <1>11, <1>12, <1>13 DEF ThumbInv

LEMMA PutReturnsKeeps == ThumbInv /\ PutReturns => ThumbInv'
<1>. SUFFICES ASSUME ThumbInv, PutReturns PROVE ThumbInv'
  OBVIOUS
<1>1. ThumbTyped /\ Together /\ TornUnlisted /\ Newest /\ call # NoFileHere /\ CallAt("clean")
      /\ phone \in Nat
  BY DEF ThumbInv, PutReturns, CallAt, ThumbTyped
<1>2. call.key \in Thumb /\ IsManifest(call.m)
  BY <1>1, CallIs DEF CallAt
<1>3. /\ given' = call.key /\ call' = NoFileHere /\ UNCHANGED <<files, phone, calls, faults>>
      /\ manifest' = IF call.evicted THEN call.m ELSE manifest
  BY DEF PutReturns
<1>4. manifest' = call.m
  BY <1>1, <1>3 DEF Together
<1>5. ThumbTyped'
  BY <1>1, <1>2, <1>3, <1>4 DEF ThumbTyped
<1>6. Together'
  BY <1>1, <1>3, <1>4 DEF Together, CallAt
<1>7. TornUnlisted'
  BY <1>1, <1>3, <1>4 DEF TornUnlisted, CallAt
<1>8. Newest'
  BY <1>1, <1>3, <1>4 DEF Newest, CallAt
<1>9. GivenIsWhole'
  BY <1>1, <1>3 DEF GivenIsWhole, Newest
<1>. QED BY <1>5, <1>6, <1>7, <1>8, <1>9 DEF ThumbInv

LEMMA DiscardsKeeps == ASSUME ThumbInv, NEW k \in Thumb, Discards(k) PROVE ThumbInv'
<1>1. ThumbTyped /\ Together /\ TornUnlisted /\ Newest /\ call = NoFileHere
      /\ phone \in Nat /\ IsManifest(manifest) /\ files \in [Thumb -> {"whole", "torn", NoFileHere}]
  BY DEF ThumbInv, Discards, ThumbTyped
<1>. DEFINE w == Less(manifest, k)
<1>2. /\ call' = [at |-> "discard", key |-> k, m |-> w] /\ files' = Unlinked(k) /\ given' = NoFileHere
      /\ UNCHANGED <<manifest, phone, calls, faults>>
  BY DEF Discards
<1>3. /\ IsManifest(w) /\ KeysOf(w) = KeysOf(manifest) \ {k}
      /\ EntriesOf(w) = {e \in EntriesOf(manifest) : e.key # k}
  BY <1>1, LessIs
<1>. HIDE DEF w
<1>4. call' \in ThumbCall /\ call'.at = "discard" /\ call'.m = w /\ call' # NoFileHere
  <2>1. call' \in ThumbCall
    BY <1>2, <1>3 DEF ThumbCall, IsManifest
  <2>. QED BY <1>2, <2>1, ThumbConstants
<1>5. /\ files' \in [Thumb -> {"whole", "torn", NoFileHere}] /\ files'[k] = NoFileHere
      /\ \A x \in Thumb : x # k => files'[x] = files[x]
  BY <1>1, <1>2 DEF Unlinked
<1>6. ThumbTyped'
  BY <1>1, <1>2, <1>3, <1>4, <1>5 DEF ThumbTyped
<1>7. Together'
  <2>1. Present(files') = Present(files) \ {k}
    BY <1>5 DEF Present
  <2>. QED BY <1>1, <1>2, <1>3, <1>4, <2>1 DEF Together, CallAt
<1>8. TornUnlisted'
  <2>1. \A x \in Thumb : files'[x] = "torn" => files[x] = "torn"
    BY <1>5, ThumbConstants
  <2>. QED BY <1>1, <1>2, <1>3, <1>4, <2>1 DEF TornUnlisted, CallAt
<1>9. Newest'
  BY <1>1, <1>2, <1>3, <1>4 DEF Newest, CallAt
<1>10. GivenIsWhole'
  BY <1>2 DEF GivenIsWhole
<1>. QED BY <1>6, <1>7, <1>8, <1>9, <1>10 DEF ThumbInv

LEMMA DiscardedKeeps == ThumbInv /\ Discarded => ThumbInv'
<1>. SUFFICES ASSUME ThumbInv, Discarded PROVE ThumbInv'
  OBVIOUS
<1>1. ThumbTyped /\ Together /\ TornUnlisted /\ Newest /\ call # NoFileHere /\ CallAt("discard")
      /\ given = NoFileHere /\ IsManifest(call.m)
  BY DEF ThumbInv, Discarded, CallAt, ThumbTyped
<1>2. manifest' = call.m /\ call' = NoFileHere /\ UNCHANGED <<files, given, phone, calls, faults>>
  BY DEF Discarded
<1>. QED BY <1>1, <1>2 DEF ThumbInv, ThumbTyped, Together, TornUnlisted, Newest, GivenIsWhole, CallAt

LEMMA KillKeeps == ThumbInv /\ AppIsKilled => ThumbInv'
<1>. SUFFICES ASSUME ThumbInv, AppIsKilled PROVE ThumbInv'
  OBVIOUS
<1>1. ThumbTyped /\ TornUnlisted /\ Newest /\ call # NoFileHere
      /\ files \in [Thumb -> {"whole", "torn", NoFileHere}] /\ IsManifest(manifest)
  BY DEF ThumbInv, AppIsKilled, ThumbTyped
<1>2. call.key \in Thumb
  BY <1>1, CallIs
<1>3. call' = NoFileHere /\ given' = NoFileHere /\ UNCHANGED <<phone, calls>> /\ "kill" \in faults'
      /\ ("clock" \notin faults' => "clock" \notin faults) /\ ("overwrite" \notin faults' => "overwrite" \notin faults)
  BY DEF AppIsKilled
<1>4. Together' /\ GivenIsWhole'
  BY <1>3 DEF Together, GivenIsWhole, CallAt
<1>5. CASE UNCHANGED <<files, manifest>>
  BY <1>1, <1>3, <1>4, <1>5 DEF ThumbInv, ThumbTyped, TornUnlisted, Newest, CallAt
<1>6. CASE /\ files' = [files EXCEPT ![call.key] = "torn"] /\ UNCHANGED manifest
           /\ faults' = faults \cup {"kill"} \cup
                        (IF call.key \in KeysOf(manifest) THEN {"overwrite"} ELSE {})
  <2>1. /\ files' \in [Thumb -> {"whole", "torn", NoFileHere}]
        /\ \A x \in Thumb : x # call.key => files'[x] = files[x]
    BY <1>1, <1>2, <1>6
  <2>2. "overwrite" \notin faults' => call.key \notin KeysOf(manifest)
    BY <1>6
  <2>3. ThumbTyped'
    BY <1>1, <1>3, <1>6, <2>1 DEF ThumbTyped
  <2>4. TornUnlisted'
    BY <1>1, <1>3, <1>6, <2>1, <2>2 DEF TornUnlisted, CallAt
  <2>5. Newest'
    BY <1>1, <1>3, <1>6 DEF Newest, CallAt
  <2>. QED BY <1>4, <2>3, <2>4, <2>5 DEF ThumbInv
<1>7. CASE manifest' = <<>> /\ UNCHANGED files
  <2>1. IsManifest(manifest') /\ KeysOf(manifest') = {} /\ EntriesOf(manifest') = {}
    <3>1. Len(manifest') = 0 /\ DOMAIN manifest' = {} /\ 1 .. 0 = {} /\ manifest' \in Seq(ThumbEntry)
      BY <1>7
    <3>. QED BY <3>1 DEF IsManifest, OneOfEach, KeysOf, EntriesOf
  <2>. QED BY <1>1, <1>3, <1>4, <1>7, <2>1 DEF ThumbInv, ThumbTyped, TornUnlisted, Newest, CallAt
<1>. QED BY <1>5, <1>6, <1>7 DEF AppIsKilled

LEMMA ThumbKeeps == ThumbInv /\ [ThumbNext]_thumbVars => ThumbInv'
<1>1. ASSUME ThumbInv, UNCHANGED thumbVars PROVE ThumbInv'
  BY <1>1 DEF thumbVars, ThumbInv, ThumbTyped, Together, TornUnlisted, Newest, GivenIsWhole, CallAt
<1>2. \A t \in 1 .. MaxCalls : t \in Nat
  BY ThumbConstants
<1>. QED BY <1>1, <1>2, GetsKeeps, PutsKeeps, CopiesFileKeeps, SavesKeeps, CleansKeeps,
            PutReturnsKeeps, DiscardsKeeps, DiscardedKeeps, KillKeeps DEF ThumbNext

(* Manifest and directory stay together, for any limits, thumbnails and    *)
(* clocks, and however often the app is killed.                            *)
THEOREM CacheSound == ThumbSpec => []CacheIsSound
<1>1. ThumbInv /\ [ThumbNext]_thumbVars => ThumbInv'
  BY ThumbKeeps
<1>2. ThumbInv => CacheIsSound
  BY DEF ThumbInv, CacheIsSound, NoFileIsForgotten, Together, Present
<1>. QED BY <1>1, <1>2, ThumbStarts, PTL DEF ThumbSpec

-----------------------------------------------------------------------------
(***************************************************************************)
(* The walk over the headers of an IPv6 packet.                            *)
(***************************************************************************)
(* A packet and the length of its payload.                                 *)
WalkTyped ==
  /\ packet \in Packet /\ plen = Payload(packet)
  /\ walk.off \in Nat /\ walk.nh \in Protocol /\ walk.count \in Nat
  /\ walk.off <= MaxPayload + (MaxExtra + 1) + (MaxExtra + 1)

LEMMA PayloadFits ==
  ASSUME packet \in Packet, plen = Payload(packet)
  PROVE  /\ plen \in Nat /\ plen <= MaxPayload /\ plen <= packet.announced /\ packet.announced \in Nat
         /\ Len(packet.captured) \in Nat /\ plen <= Len(packet.captured)
         /\ \A pos \in Nat : pos < plen => At(packet, pos) \in Unit
<1>1. packet.captured \in Seq(Unit) /\ Len(packet.captured) <= MaxPayload /\ MaxPayload \in Nat
  BY WalkConstants DEF Packet
<1>2. packet.announced \in 0 .. (MaxPayload + 1)
  BY DEF Packet
<1>3. Len(packet.captured) \in Nat
  BY <1>1
<1>4. packet.announced \in Nat
  BY <1>1, <1>2
<1>5. plen = IF packet.announced > Len(packet.captured) THEN Len(packet.captured) ELSE packet.announced
  BY DEF Payload
<1>6. plen \in Nat /\ plen <= MaxPayload /\ plen <= packet.announced /\ plen <= Len(packet.captured)
  BY <1>1, <1>3, <1>4, <1>5
<1>7. ASSUME NEW pos \in Nat, pos < plen PROVE At(packet, pos) \in Unit
  <2>1. pos + 1 \in 1 .. Len(packet.captured)
    BY <1>3, <1>6, <1>7
  <2>. QED BY <1>1, <2>1 DEF At
<1>. QED BY <1>3, <1>4, <1>6, <1>7

(* The header that follows begins behind this one and not too far.         *)
LEMMA HeadersGrow ==
  ASSUME packet \in Packet, plen = Payload(packet), NEW pos \in Nat, NEW t \in Protocol, pos < plen
  PROVE  /\ EndOf(pos, t) = pos + HeaderUnits(t, At(packet, pos))
         /\ EndOf(pos, t) \in Nat /\ EndOf(pos, t) > pos
         /\ EndOf(pos, t) <= MaxPayload + (MaxExtra + 1) + (MaxExtra + 1)
         /\ At(packet, pos).first \in Protocol
<1>1. plen \in Nat /\ plen <= MaxPayload /\ At(packet, pos) \in Unit /\ MaxPayload \in Nat /\ MaxExtra \in Nat
  BY PayloadFits, WalkConstants
<1>. DEFINE s == At(packet, pos).second
<1>2. s \in 0 .. MaxExtra /\ At(packet, pos).first \in Protocol
  BY <1>1 DEF Unit
<1>. HIDE DEF s
<1>3. CASE t = AuthHeader
  <2>1. EndOf(pos, t) = pos + 2 + s
    BY <1>3 DEF EndOf, s
  <2>2. HeaderUnits(t, At(packet, pos)) = s + 2
    BY <1>3 DEF HeaderUnits, s
  <2>. QED BY <1>1, <1>2, <2>1, <2>2
<1>4. CASE t # AuthHeader
  <2>1. EndOf(pos, t) = pos + (2 + s) + s
    BY <1>4 DEF EndOf, s
  <2>2. HeaderUnits(t, At(packet, pos)) = (s + 1) * 2
    BY <1>4 DEF HeaderUnits, s
  <2>3. (s + 1) * 2 = (2 + s) + s
    BY <1>1, <1>2
  <2>. QED BY <1>1, <1>2, <2>1, <2>2, <2>3
<1>. QED BY <1>3, <1>4

-----------------------------------------------------------------------------
(* The reference is well-defined: a header's end lies behind its           *)
(* beginning, so there is a function with its equation, built from the end *)
(* of the payload backwards.                                               *)
LastEnd == MaxPayload + (MaxExtra + 1) + (MaxExtra + 1)
Step(f, pos, t) ==
  IF pos >= plen THEN Nothing
  ELSE IF IsExtension(t) THEN f[EndOf(pos, t)][At(packet, pos).first]
  ELSE IF t = FragHeader THEN Fragmented(packet, pos)
  ELSE IF t \in Transport THEN Finds(t, pos, FALSE) ELSE Nothing

LEMMA StepLooksAhead ==
  ASSUME packet \in Packet, plen = Payload(packet), NEW f, NEW g, NEW pos \in Nat, NEW t \in Protocol,
         \A o \in Nat, p \in Protocol : o > pos /\ o <= LastEnd => f[o][p] = g[o][p]
  PROVE  Step(f, pos, t) = Step(g, pos, t)
<1>1. CASE pos < plen /\ IsExtension(t)
  <2>1. EndOf(pos, t) \in Nat /\ EndOf(pos, t) > pos /\ EndOf(pos, t) <= LastEnd /\ At(packet, pos).first \in Protocol
    BY <1>1, HeadersGrow DEF LastEnd
  <2>2. f[EndOf(pos, t)][At(packet, pos).first] = g[EndOf(pos, t)][At(packet, pos).first]
    BY <2>1
  <2>. QED BY <1>1, <2>2 DEF Step
<1>2. CASE pos >= plen \/ ~IsExtension(t)
  BY <1>2 DEF Step
<1>3. plen \in Nat
  BY PayloadFits
<1>. QED BY <1>1, <1>2, <1>3

LEMMA ReferenceExists ==
  ASSUME packet \in Packet, plen = Payload(packet)
  PROVE  \E f : f = [pos \in 0 .. LastEnd |-> [t \in Protocol |-> Step(f, pos, t)]]
<1>1. LastEnd \in Nat
  BY WalkConstants DEF LastEnd
<1>. DEFINE From(k) == {pos \in 0 .. LastEnd : pos + k > LastEnd}
            Good(k) == \E f : /\ f = [pos \in 0 .. LastEnd |-> [t \in Protocol |-> f[pos][t]]]
                              /\ \A pos \in From(k), t \in Protocol : f[pos][t] = Step(f, pos, t)
            Bad == {k \in 0 .. (LastEnd + 1) : ~Good(k)}
<1>2. Good(0)
  <2>. DEFINE f == [pos \in 0 .. LastEnd |-> [t \in Protocol |-> Nothing]]
  <2>1. f = [pos \in 0 .. LastEnd |-> [t \in Protocol |-> f[pos][t]]]
    OBVIOUS
  <2>2. From(0) = {}
    BY <1>1
  <2>. HIDE DEF f
  <2>. QED BY <2>1, <2>2
<1>3. ASSUME NEW k \in 0 .. LastEnd, Good(k) PROVE Good(k + 1)
  <2>1. PICK f : /\ f = [pos \in 0 .. LastEnd |-> [t \in Protocol |-> f[pos][t]]]
                 /\ \A pos \in From(k), t \in Protocol : f[pos][t] = Step(f, pos, t)
    BY <1>3
  <2>. DEFINE g == [pos \in 0 .. LastEnd |-> [t \in Protocol |-> IF pos + k = LastEnd THEN Step(f, pos, t) ELSE f[pos][t]]]
  <2>2. g = [pos \in 0 .. LastEnd |-> [t \in Protocol |-> g[pos][t]]]
    OBVIOUS
  <2>3. \A pos \in 0 .. LastEnd, t \in Protocol :
          g[pos][t] = IF pos + k = LastEnd THEN Step(f, pos, t) ELSE f[pos][t]
    OBVIOUS
  <2>. HIDE DEF g
  <2>4. ASSUME NEW pos \in From(k + 1), NEW t \in Protocol PROVE g[pos][t] = Step(g, pos, t)
    <3>1. pos \in 0 .. LastEnd /\ pos \in Nat /\ pos + k >= LastEnd
      BY <1>1
    <3>2. ASSUME NEW o \in Nat, NEW p \in Protocol, o > pos, o <= LastEnd PROVE f[o][p] = g[o][p]
      <4>1. o \in 0 .. LastEnd /\ o + k # LastEnd
        BY <1>1, <3>1, <3>2
      <4>. QED BY <2>3, <4>1
    <3>3. Step(f, pos, t) = Step(g, pos, t)
      BY <3>1, <3>2, StepLooksAhead
    <3>4. CASE pos + k = LastEnd
      BY <2>3, <3>1, <3>3, <3>4
    <3>5. CASE pos + k # LastEnd
      <4>1. pos \in From(k)
        BY <1>1, <3>1, <3>5
      <4>. QED BY <2>1, <2>3, <3>1, <3>3, <3>5, <4>1
    <3>. QED BY <3>4, <3>5
  <2>. QED BY <2>2, <2>4
<1>4. Bad = {}
  <2> SUFFICES ASSUME Bad # {} PROVE FALSE
    OBVIOUS
  <2>1. Bad \in SUBSET Nat
    BY <1>1
  <2>. HIDE DEF Good
  <2>2. PICK k \in Bad : \A j \in Bad : k <= j
    BY <2>1, LeastNumber
  <2>3. k \in 0 .. (LastEnd + 1) /\ ~Good(k)
    BY <2>2
  <2>4. k # 0
    BY <1>2, <2>3
  <2>5. k - 1 \in 0 .. LastEnd /\ k - 1 \in 0 .. (LastEnd + 1) /\ ~(k <= k - 1) /\ k - 1 + 1 = k
    BY <1>1, <2>3, <2>4
  <2>6. Good(k - 1)
    BY <2>2, <2>5
  <2>7. Good(k - 1 + 1)
    BY <1>3, <2>5, <2>6
  <2>. QED BY <2>3, <2>5, <2>7
<1>5. Good(LastEnd + 1)
  <2>. HIDE DEF Good
  <2>1. LastEnd + 1 \in 0 .. (LastEnd + 1)
    BY <1>1
  <2>. QED BY <1>4, <2>1
<1>6. PICK f : /\ f = [pos \in 0 .. LastEnd |-> [t \in Protocol |-> f[pos][t]]]
               /\ \A pos \in From(LastEnd + 1), t \in Protocol : f[pos][t] = Step(f, pos, t)
  BY <1>5
<1>7. \A pos \in 0 .. LastEnd : pos \in From(LastEnd + 1)
  BY <1>1
<1>8. \A pos \in 0 .. LastEnd, t \in Protocol : f[pos][t] = Step(f, pos, t)
  BY <1>6, <1>7
<1>9. f = [pos \in 0 .. LastEnd |-> [t \in Protocol |-> Step(f, pos, t)]]
  BY <1>6, <1>8
<1>. QED BY <1>9

LEMMA ReferenceIs ==
  ASSUME packet \in Packet, plen = Payload(packet), NEW pos \in 0 .. LastEnd, NEW t \in Protocol
  PROVE  Reference[pos][t] = Step(Reference, pos, t)
<1>1. Reference = CHOOSE f : f = [o \in 0 .. LastEnd |-> [p \in Protocol |-> Step(f, o, p)]]
  <2>1. MaxPayload + 2 * (MaxExtra + 1) = LastEnd
    BY WalkConstants DEF LastEnd
  <2>. QED BY <2>1 DEF Reference, Step
<1>. DEFINE Builds(f) == f = [o \in 0 .. LastEnd |-> [p \in Protocol |-> Step(f, o, p)]]
<1>2. \E f : Builds(f)
  BY ReferenceExists
<1>3. Builds(CHOOSE f : Builds(f))
  <2>. HIDE DEF Builds
  <2>. QED BY <1>2
<1>4. Reference = CHOOSE f : Builds(f)
  BY <1>1
<1>5. Builds(Reference)
  <2>. HIDE DEF Builds
  <2>. QED BY <1>3, <1>4
<1>6. Reference = [o \in 0 .. LastEnd |-> [p \in Protocol |-> Step(Reference, o, p)]]
  BY <1>5
<1>. DEFINE Is(o, p) == Step(Reference, o, p)
<1>7. Reference = [o \in 0 .. LastEnd |-> [p \in Protocol |-> Is(o, p)]]
  BY <1>6
<1>8. Reference[pos][t] = Is(pos, t)
  <2>. HIDE DEF Is
  <2>. QED BY <1>7
<1>. QED BY <1>8

-----------------------------------------------------------------------------
(* The walk is on its way to what the reference finds: from where it is    *)
(* the reference leads to the same as from the beginning.                  *)
OnItsWay ==
  result = NoResult /\ packet.captured # <<>> =>
    Reference[0][packet.captured[1].first] = Reference[walk.off][walk.nh]

(* The inductive invariant.                                                *)
WalkInv == WalkTyped /\ OnItsWay /\ WalkStays /\ WalkFollowsChain

LEMMA WalkBegins == WalkInit => WalkInv
<1> SUFFICES ASSUME WalkInit PROVE WalkInv
  OBVIOUS
<1>. USE DEF WalkInit
<1>1. packet.captured \in Seq(Unit) /\ Len(packet.captured) \in Nat /\ packet.next \in Protocol
      /\ MaxPayload \in Nat /\ MaxExtra \in Nat
  BY WalkConstants DEF Packet
<1>2. walk.off = 0 /\ walk.count = 0
      /\ walk.nh = IF packet.captured = <<>> THEN packet.next ELSE packet.captured[1].first
  OBVIOUS
<1>3. CASE packet.captured = <<>>
  <2>1. WalkTyped
    BY <1>1, <1>2, <1>3 DEF WalkTyped
  <2>. QED BY <1>3, <2>1 DEF WalkInv, OnItsWay, WalkStays, WalkFollowsChain
<1>4. CASE packet.captured # <<>>
  <2>1. Len(packet.captured) > 0
    BY <1>1, <1>4
  <2>2. packet.captured[1] \in Unit
    BY <1>1, <2>1
  <2>3. walk.nh \in Protocol
    BY <1>2, <1>4, <2>2 DEF Unit
  <2>4. WalkTyped
    BY <1>1, <1>2, <2>3 DEF WalkTyped
  <2>5. OnItsWay
    BY <1>2, <1>4 DEF OnItsWay
  <2>. QED BY <2>4, <2>5 DEF WalkInv, WalkStays, WalkFollowsChain
<1>. QED BY <1>3, <1>4

(* What the reference finds does not depend on the walk.                   *)
LEMMA ReferenceStays ==
  ASSUME UNCHANGED <<packet, plen>>
  PROVE  Reference' = Reference
BY DEF Reference, EndOf, At, Fragmented, Finds

LEMMA WalkStep == WalkInv /\ [WalkNext]_walkVars => WalkInv'
<1> SUFFICES ASSUME WalkInv, [WalkNext]_walkVars PROVE WalkInv'
  OBVIOUS
<1>. USE DEF WalkInv
<1>1. packet \in Packet /\ plen = Payload(packet) /\ walk.off \in Nat /\ walk.nh \in Protocol
      /\ walk.count \in Nat /\ walk.off \in 0 .. LastEnd
  BY WalkConstants DEF WalkTyped, LastEnd
<1>2. /\ plen \in Nat /\ plen <= packet.announced /\ packet.announced \in Nat
      /\ Len(packet.captured) \in Nat /\ plen <= Len(packet.captured)
  BY <1>1, PayloadFits
<1>3. UNCHANGED <<packet, plen>>
  BY DEF WalkNext, Passes, WalkEnds, GivesUp, walkVars
<1>4. Reference' = Reference
  BY <1>3, ReferenceStays
<1>5. Reference[walk.off][walk.nh] = Step(Reference, walk.off, walk.nh)
  BY <1>1, ReferenceIs
<1>6. Nothing.rest = 0 /\ Nothing' = Nothing
  BY DEF Nothing
<1>7. CASE Passes
  <2>. DEFINE end == walk.off + HeaderUnits(walk.nh, At(packet, walk.off))
              type == At(packet, walk.off).first
  <2>1. result = NoResult /\ walk.off < plen /\ IsExtension(walk.nh) /\ walk.count < WalkMax
    BY <1>7 DEF Passes, InLoop
  <2>2. walk' = [off |-> end, nh |-> type, count |-> walk.count + 1]
        /\ result' = IF end > plen THEN Nothing ELSE NoResult
    BY <1>7 DEF Passes
  <2>3. end = EndOf(walk.off, walk.nh) /\ end \in Nat /\ type \in Protocol
        /\ end <= MaxPayload + (MaxExtra + 1) + (MaxExtra + 1)
    BY <1>1, <2>1, HeadersGrow
  <2>4. Step(Reference, walk.off, walk.nh) = Reference[end][type]
    <3>1. ~(walk.off >= plen)
      BY <1>1, <1>2, <2>1
    <3>. QED BY <2>1, <2>3, <3>1 DEF Step
  <2>. HIDE DEF end, type
  <2>5. walk'.off = end /\ walk'.nh = type /\ walk'.count = walk.count + 1
    BY <2>2
  <2>6. WalkTyped'
    <3>1. (packet \in Packet)' /\ (plen = Payload(packet))'
      BY <1>1, <1>3 DEF Packet, Payload
    <3>. QED BY <1>1, <2>3, <2>5, <3>1 DEF WalkTyped
  <2>7. OnItsWay'
    BY <1>3, <1>4, <1>5, <2>1, <2>4, <2>5 DEF OnItsWay
  <2>8. WalkStays'
    BY <1>6, <2>2 DEF WalkStays
  <2>9. WalkFollowsChain'
    <3> SUFFICES ASSUME result' # NoResult, packet.captured # <<>>
                 PROVE  result' = Reference[0][packet.captured[1].first]
      BY <1>3, <1>4 DEF WalkFollowsChain
    <3>1. end > plen /\ result' = Nothing
      BY <2>2
    <3>2. Reference[end][type] = Step(Reference, end, type)
      <4>1. end \in 0 .. LastEnd
        BY <2>3, WalkConstants DEF LastEnd
      <4>. QED BY <1>1, <2>3, <4>1, ReferenceIs
    <3>3. end >= plen
      BY <1>2, <2>3, <3>1
    <3>4. Step(Reference, end, type) = Nothing
      BY <3>3 DEF Step
    <3>. QED BY <1>5, <2>1, <2>4, <3>1, <3>2, <3>4 DEF OnItsWay
  <2>. QED BY <2>6, <2>7, <2>8, <2>9
<1>8. ASSUME UNCHANGED walk PROVE WalkTyped' /\ Reference[0] = Reference'[0]
  <2>1. (packet \in Packet)' /\ (plen = Payload(packet))'
    BY <1>1, <1>3 DEF Packet, Payload
  <2>. QED BY <1>4, <1>8, <2>1 DEF WalkTyped
<1>9. CASE WalkEnds
  <2>1. result = NoResult /\ walk.off < plen /\ ~IsExtension(walk.nh) /\ UNCHANGED walk
    BY <1>9 DEF WalkEnds, InLoop
  <2>2. result' = IF walk.nh = FragHeader THEN Fragmented(packet, walk.off)
                  ELSE IF walk.nh \in Transport THEN Finds(walk.nh, walk.off, FALSE)
                  ELSE Nothing
    BY <1>9 DEF WalkEnds
  <2>3. result' = Step(Reference, walk.off, walk.nh)
    <3>1. ~(walk.off >= plen)
      BY <1>1, <1>2, <2>1
    <3>. QED BY <2>1, <2>2, <3>1 DEF Step
  <2>4. OnItsWay'
    BY <1>3, <1>4, <2>1 DEF OnItsWay
  <2>5. WalkFollowsChain'
    BY <1>3, <1>4, <1>5, <2>1, <2>3 DEF OnItsWay, WalkFollowsChain
  <2>6. WalkStays'
    <3> SUFFICES ASSUME result' # Nothing
                 PROVE  /\ result'.rest >= 0
                        /\ result'.off + result'.rest <= Len(packet.captured)
                        /\ result'.off + result'.rest <= packet.announced
      BY <1>3, <1>6 DEF WalkStays
    <3>1. PICK t, pos, frag : result' = Finds(t, pos, frag) /\ pos \in Nat /\ pos <= plen
      <4>1. CASE walk.nh = FragHeader
        <5>1. result' = Finds(At(packet, walk.off).first, walk.off + 2, TRUE) /\ walk.off + 2 <= plen
          BY <2>2, <4>1 DEF Fragmented
        <5>2. walk.off + 2 \in Nat
          BY <1>1
        <5>. QED BY <5>1, <5>2
      <4>2. CASE walk.nh # FragHeader
        <5>1. result' = Finds(walk.nh, walk.off, FALSE)
          BY <2>2, <4>2
        <5>2. walk.off <= plen
          BY <1>1, <1>2, <2>1
        <5>. QED BY <1>1, <5>1, <5>2
      <4>. QED BY <4>1, <4>2
    <3>2. result'.off = pos /\ result'.rest = plen - pos
      BY <3>1 DEF Finds
    <3>3. plen - pos >= 0 /\ pos + (plen - pos) = plen
      BY <1>2, <3>1
    <3>. QED BY <1>2, <3>2, <3>3
  <2>. QED BY <1>8, <2>1, <2>4, <2>5, <2>6
<1>10. CASE GivesUp
  <2>1. result = NoResult /\ ~InLoop /\ result' = Nothing /\ UNCHANGED walk
    BY <1>10 DEF GivesUp
  <2>2. OnItsWay'
    BY <1>3, <1>4, <2>1 DEF OnItsWay
  <2>3. WalkStays'
    BY <1>6, <2>1 DEF WalkStays
  <2>4. WalkFollowsChain'
    <3> SUFFICES ASSUME packet.captured # <<>>, ~(walk.count >= WalkMax)
                 PROVE  Nothing = Reference[0][packet.captured[1].first]
      BY <1>3, <1>4, <1>6, <2>1 DEF WalkFollowsChain
    <3>1. walk.off >= plen
      BY <1>1, <1>2, <2>1, WalkConstants DEF InLoop
    <3>2. Step(Reference, walk.off, walk.nh) = Nothing
      BY <3>1 DEF Step
    <3>. QED BY <1>5, <2>1, <3>2 DEF OnItsWay
  <2>. QED BY <1>8, <2>1, <2>2, <2>3, <2>4
<1>11. CASE UNCHANGED walkVars
  <2>1. UNCHANGED walk /\ result' = result
    BY <1>11 DEF walkVars
  <2>2. OnItsWay' /\ WalkStays' /\ WalkFollowsChain'
    BY <1>3, <1>4, <1>6, <2>1 DEF OnItsWay, WalkStays, WalkFollowsChain
  <2>. QED BY <1>8, <2>1, <2>2
<1>. QED BY <1>7, <1>9, <1>10, <1>11 DEF WalkNext

(* The walk over the extension headers ends where the chain of headers     *)
(* leads, and what it hands on lies inside the packet: ipv6_walk, for      *)
(* every packet, with any lengths in its headers.                          *)
THEOREM WalkRight == WalkSpec => []WalkIsRight
<1>1. WalkInv => WalkIsRight
  BY DEF WalkInv, WalkIsRight
<1>. QED BY <1>1, WalkBegins, WalkStep, PTL DEF WalkSpec

-----------------------------------------------------------------------------
(***************************************************************************)
(* The visits of the WiFi probe.                                           *)
(***************************************************************************)
(* A frame, a visit, and the frame in the capture thread's hand.           *)
Sighting   == [dev : Device, at : Nat]
VisitMade  == [dev : Device, start : Int, end : Int]
HeardFrame == [dev : Device, at : Nat, step : {"seen", "visit"}]
Heard      == [dev |-> hearing[1].dev, at |-> hearing[1].at]

(* The table of devices, and what the two threads have in hand.            *)
TableTyped ==
  /\ wpNow \in Nat /\ tick \in Int /\ tick <= wpNow
  /\ inVisit \in [Device -> BOOLEAN]
  /\ visitStart \in [Device -> Int] /\ lastSeen \in [Device -> Int]
  /\ seen \subseteq Sighting /\ torn \subseteq Sighting /\ ended \subseteq VisitMade
  /\ hearing # <<>> => hearing[1] \in HeardFrame /\ hearing[1].at <= wpNow
  /\ taking \subseteq Device /\ (\A d, e \in taking : d = e)
  /\ taking # {} => main = "scan"

(* last_seen is the time of the latest frame of the device, as far as the  *)
(* capture thread has come with it.                                        *)
LastIsLatest ==
  /\ \A d \in Device : lastSeen[d] <= wpNow
  /\ \A d \in Device : inVisit[d] => lastSeen[d] # Never /\ visitStart[d] <= lastSeen[d]
  /\ \A o \in seen : o.at <= lastSeen[o.dev] /\ lastSeen[o.dev] # Never
  /\ \A v \in ended : lastSeen[v.dev] # Never /\ v.end <= wpNow
  /\ hearing # <<>> =>
       /\ lastSeen[hearing[1].dev] # Never /\ lastSeen[hearing[1].dev] <= hearing[1].at
       /\ hearing[1].step = "visit" => lastSeen[hearing[1].dev] = hearing[1].at

(* The visit that the main thread is about to end is in progress and its   *)
(* device silent for longer than the gap, apart from the frames that came  *)
(* since the main thread looked.                                           *)
TakenIsSilent ==
  \A d \in taking :
    /\ inVisit[d]
    /\ \A o \in seen \ torn : o.dev = d => tick - o.at > SessionGap

(* A frame comes after the visits of its device that have ended, unless    *)
(* one ended during its steps; so does the visit that it starts.           *)
HeardLater ==
  hearing # <<>> => \A v \in ended :
    v.dev = hearing[1].dev => v.end <= hearing[1].at \/ Heard \in torn
StartsLater ==
  \A d \in Device : inVisit[d] => \A v \in ended :
    v.dev = d => v.end <= visitStart[d] \/ [dev |-> d, at |-> visitStart[d]] \in torn

DeviceTableInv ==
  /\ TableTyped /\ LastIsLatest /\ TakenIsSilent /\ HeardLater /\ StartsLater
  /\ FramesLieInVisits /\ VisitsEndInSilence /\ VisitsAreApart

(* The database: the row of a device counts the visits of it.              *)
VisitsOf(d) == {v \in visitRows : v.dev = d}
RowsTyped ==
  /\ events \in Seq(VisitMade)
  /\ main \in {"device", "visit"} => events # <<>>
  /\ visitRows \subseteq VisitMade /\ IsFiniteSet(visitRows)
  /\ \A d \in DOMAIN devRows : devRows[d] \in Nat
  /\ failed \in BOOLEAN
RowsCount ==
  ~failed =>
    /\ main = "visit" => Head(events).dev \in DOMAIN devRows
    /\ \A d \in Device :
         Cardinality(VisitsOf(d)) > 0 => d \in DOMAIN devRows /\ devRows[d] >= Cardinality(VisitsOf(d))
RowsInv == RowsTyped /\ RowsCount

VisitInv == DeviceTableInv /\ RowsInv

-----------------------------------------------------------------------------
(* At the start no device was heard and no visit stored.                   *)
LEMMA VisitsBegin == VisitInit => VisitInv
<1> SUFFICES ASSUME VisitInit PROVE VisitInv
  OBVIOUS
<1>. USE DEF VisitInit
<1>1. TableTyped
  BY DEF TableTyped, Never
<1>2. LastIsLatest
  BY DEF LastIsLatest, Never
<1>3. TakenIsSilent /\ HeardLater /\ StartsLater
  BY DEF TakenIsSilent, HeardLater, StartsLater
<1>4. FramesLieInVisits /\ VisitsEndInSilence /\ VisitsAreApart
  BY DEF FramesLieInVisits, VisitsEndInSilence, VisitsAreApart
<1>5. RowsTyped
  <2>1. IsFiniteSet({})
    BY FS_EmptySet
  <2>2. events \in Seq(VisitMade) /\ visitRows \subseteq VisitMade /\ failed \in BOOLEAN
    <3>1. events = <<>> /\ visitRows = {} /\ failed = FALSE
      OBVIOUS
    <3>2. <<>> \in Seq(VisitMade)
      OBVIOUS
    <3>. QED BY <3>1, <3>2
  <2>3. \A d \in DOMAIN devRows : devRows[d] \in Nat
    OBVIOUS
  <2>4. main \notin {"device", "visit"}
    OBVIOUS
  <2>5. IsFiniteSet(visitRows)
    BY <2>1
  <2>. QED BY <2>2, <2>3, <2>4, <2>5 DEF RowsTyped
<1>6. RowsCount
  <2>1. \A d \in Device : VisitsOf(d) = {}
    BY DEF VisitsOf
  <2>2. Cardinality({}) = 0
    BY FS_EmptySet
  <2>3. ASSUME NEW d \in Device PROVE ~(Cardinality(VisitsOf(d)) > 0)
    <3>1. Cardinality(VisitsOf(d)) = 0
      BY <2>1, <2>2
    <3>. QED BY <3>1
  <2>4. main # "visit"
    OBVIOUS
  <2>. QED BY <2>3, <2>4 DEF RowsCount
<1>. QED BY <1>1, <1>2, <1>3, <1>4, <1>5, <1>6 DEF VisitInv, DeviceTableInv, RowsInv

-----------------------------------------------------------------------------
(* The steps that leave the table alone: those of the database, and the    *)
(* clock's.                                                                *)
LEMMA TableAlone ==
  ASSUME DeviceTableInv, UNCHANGED <<inVisit, visitStart, lastSeen, hearing, seen, ended, torn>>,
         wpNow' \in Nat, wpNow' >= wpNow, tick' \in Int, tick' <= wpNow',
         \/ taking' = {}
         \/ taking' = taking /\ tick' = tick /\ main' = main
  PROVE  DeviceTableInv'
<1>. USE DEF DeviceTableInv
<1>1. TableTyped'
  <2>1. hearing # <<>> => hearing[1] \in HeardFrame /\ hearing[1].at <= wpNow'
    BY DEF TableTyped, HeardFrame
  <2>2. taking' \subseteq Device /\ (\A d, e \in taking' : d = e) /\ (taking' # {} => main' = "scan")
    BY DEF TableTyped
  <2>. QED BY <2>1, <2>2 DEF TableTyped
<1>2. LastIsLatest'
  <2>1. \A d \in Device : lastSeen[d] <= wpNow'
    BY DEF TableTyped, LastIsLatest
  <2>2. \A v \in ended : lastSeen[v.dev] # Never /\ v.end <= wpNow'
    BY DEF TableTyped, LastIsLatest, VisitMade
  <2>. QED BY <2>1, <2>2 DEF LastIsLatest, Never
<1>3. TakenIsSilent'
  BY DEF TakenIsSilent
<1>4. HeardLater'
  BY DEF HeardLater, Heard
<1>5. StartsLater'
  BY DEF StartsLater
<1>6. FramesLieInVisits'
  BY DEF FramesLieInVisits
<1>7. VisitsEndInSilence'
  BY DEF VisitsEndInSilence
<1>8. VisitsAreApart'
  BY DEF VisitsAreApart
<1>. QED BY <1>1, <1>2, <1>3, <1>4, <1>5, <1>6, <1>7, <1>8

(* A frame arrives.                                                        *)
LEMMA HearsTable ==
  ASSUME DeviceTableInv, NEW d \in Device, NEW ap \in BOOLEAN, Hears(d, ap)
  PROVE  DeviceTableInv'
<1>. USE DEF DeviceTableInv
<1>1. hearing = <<>> /\ hearing' = <<[dev |-> d, at |-> wpNow, step |-> "seen"]>>
  BY DEF Hears
<1>2. UNCHANGED <<wpNow, main, tick, taking, seen, ended, torn>>
  BY DEF Hears, rounds, visitHistory
<1>3. hearing' # <<>> /\ hearing'[1] \in HeardFrame /\ hearing'[1].dev = d /\ hearing'[1].at = wpNow
      /\ hearing'[1].step = "seen"
  BY <1>1 DEF TableTyped, HeardFrame
<1>4. CASE lastSeen[d] = Never
  <2>1. /\ inVisit' = [inVisit EXCEPT ![d] = TRUE]
        /\ visitStart' = [visitStart EXCEPT ![d] = wpNow]
        /\ lastSeen' = [lastSeen EXCEPT ![d] = wpNow]
    BY <1>4 DEF Hears
  <2>2. ~inVisit[d] /\ (\A o \in seen : o.dev # d) /\ (\A v \in ended : v.dev # d)
    BY <1>4 DEF LastIsLatest
  <2>3. /\ inVisit'[d] /\ visitStart'[d] = wpNow /\ lastSeen'[d] = wpNow
        /\ \A e \in Device : e # d => /\ inVisit'[e] = inVisit[e] /\ visitStart'[e] = visitStart[e]
                                      /\ lastSeen'[e] = lastSeen[e]
    BY <2>1 DEF TableTyped
  <2>4. TableTyped'
    BY <1>2, <1>3, <2>1 DEF TableTyped
  <2>5. wpNow # Never /\ wpNow \in Nat
    BY DEF TableTyped, Never
  <2>6. LastIsLatest'
    <3>1. \A e \in Device : lastSeen'[e] <= wpNow'
      BY <1>2, <2>3, <2>5 DEF LastIsLatest
    <3>2. \A e \in Device : inVisit'[e] => lastSeen'[e] # Never /\ visitStart'[e] <= lastSeen'[e]
      BY <2>3, <2>5 DEF LastIsLatest
    <3>3. \A o \in seen : o.at <= lastSeen'[o.dev] /\ lastSeen'[o.dev] # Never
      BY <2>2, <2>3 DEF LastIsLatest, TableTyped, Sighting
    <3>4. \A v \in ended : lastSeen'[v.dev] # Never /\ v.end <= wpNow
      BY <2>2, <2>3 DEF LastIsLatest, TableTyped, VisitMade
    <3>. QED BY <1>2, <1>3, <2>3, <2>5, <3>1, <3>2, <3>3, <3>4 DEF LastIsLatest
  <2>7. TakenIsSilent'
    BY <1>2, <2>2, <2>3 DEF TakenIsSilent, TableTyped
  <2>8. HeardLater'
    BY <1>2, <1>3, <2>2 DEF HeardLater
  <2>9. StartsLater'
    BY <1>2, <2>2, <2>3 DEF StartsLater
  <2>10. FramesLieInVisits'
    BY <1>2, <2>2, <2>3 DEF FramesLieInVisits, TableTyped, Sighting
  <2>. QED BY <1>2, <2>4, <2>6, <2>7, <2>8, <2>9, <2>10 DEF VisitsEndInSilence, VisitsAreApart
<1>5. CASE lastSeen[d] # Never
  <2>1. UNCHANGED <<inVisit, visitStart, lastSeen>>
    BY <1>5 DEF Hears
  <2>2. TableTyped'
    BY <1>2, <1>3, <2>1 DEF TableTyped
  <2>3. LastIsLatest'
    BY <1>2, <1>3, <1>5, <2>1 DEF LastIsLatest
  <2>4. HeardLater'
    BY <1>2, <1>3 DEF HeardLater, LastIsLatest
  <2>. QED BY <1>2, <2>1, <2>2, <2>3, <2>4
           DEF TakenIsSilent, StartsLater, FramesLieInVisits, VisitsEndInSilence, VisitsAreApart
<1>. QED BY <1>4, <1>5

LEMMA NotesTimeTable ==
  ASSUME DeviceTableInv, NotesTime
  PROVE  DeviceTableInv'
<1>. USE DEF DeviceTableInv
<1>. DEFINE d == hearing[1].dev
            t == hearing[1].at
<1>1. hearing # <<>> /\ lastSeen' = [lastSeen EXCEPT ![d] = t]
      /\ hearing' = <<[hearing[1] EXCEPT !.step = "visit"]>>
  BY DEF NotesTime
<1>2. UNCHANGED <<wpNow, inVisit, visitStart, main, tick, taking, seen, ended, torn>>
  BY DEF NotesTime, rounds, visitHistory
<1>3. hearing' # <<>> /\ hearing'[1] \in HeardFrame /\ hearing'[1].dev = d /\ hearing'[1].at = t
  BY <1>1 DEF TableTyped, HeardFrame
<1>4. d \in Device /\ t \in Nat /\ t <= wpNow
  BY <1>1 DEF TableTyped, HeardFrame
<1>5. lastSeen[d] # Never /\ lastSeen[d] <= t
  BY <1>1 DEF LastIsLatest
<1>6. Heard' = Heard
  BY <1>3 DEF Heard
<1>. HIDE DEF d, t
<1>7. lastSeen'[d] = t /\ \A e \in Device : e # d => lastSeen'[e] = lastSeen[e]
  BY <1>1, <1>4 DEF TableTyped
<1>8. t # Never
  BY <1>4 DEF Never
<1>9. TableTyped'
  BY <1>1, <1>2, <1>3, <1>4 DEF TableTyped
<1>10. LastIsLatest'
  <2>1. \A e \in Device : lastSeen'[e] <= wpNow'
    BY <1>2, <1>4, <1>7 DEF LastIsLatest
  <2>2. \A e \in Device : inVisit'[e] => lastSeen'[e] # Never /\ visitStart'[e] <= lastSeen'[e]
    <3>1. visitStart[d] \in Int /\ lastSeen[d] \in Int
      BY <1>4 DEF TableTyped
    <3>. QED BY <1>2, <1>4, <1>5, <1>7, <1>8, <3>1 DEF LastIsLatest
  <2>3. \A o \in seen : o.at <= lastSeen'[o.dev] /\ lastSeen'[o.dev] # Never
    <3>1. lastSeen[d] \in Int
      BY <1>4 DEF TableTyped
    <3>. QED BY <1>4, <1>5, <1>7, <1>8, <3>1 DEF LastIsLatest, TableTyped, Sighting
  <2>4. \A v \in ended : lastSeen'[v.dev] # Never /\ v.end <= wpNow
    BY <1>7, <1>8 DEF LastIsLatest, TableTyped, VisitMade
  <2>. QED BY <1>2, <1>3, <1>4, <1>7, <1>8, <2>1, <2>2, <2>3, <2>4 DEF LastIsLatest
<1>11. HeardLater'
  BY <1>1, <1>2, <1>3, <1>6 DEF HeardLater, d, t
<1>. QED BY <1>2, <1>9, <1>10, <1>11
         DEF TakenIsSilent, StartsLater, FramesLieInVisits, VisitsEndInSilence, VisitsAreApart

(* The frame's visit: the one in progress, or a new one that it starts.    *)
LEMMA NotesVisitTable ==
  ASSUME DeviceTableInv, NotesVisit
  PROVE  DeviceTableInv'
<1>. USE DEF DeviceTableInv
<1>. DEFINE d == hearing[1].dev
            t == hearing[1].at
            o == [dev |-> d, at |-> t]
<1>1. hearing # <<>> /\ hearing[1].step = "visit" /\ hearing' = <<>>
  BY DEF NotesVisit
<1>2. /\ inVisit' = [inVisit EXCEPT ![d] = TRUE]
      /\ visitStart' = IF inVisit[d] THEN visitStart ELSE [visitStart EXCEPT ![d] = t]
      /\ seen' = seen \cup {o}
      /\ torn' = IF inVisit[d] /\ taking = {d} THEN torn \cup {o} ELSE torn
  BY DEF NotesVisit
<1>3. UNCHANGED <<wpNow, lastSeen, main, tick, taking, ended>>
  BY DEF NotesVisit, rounds
<1>4. d \in Device /\ t \in Nat /\ o \in Sighting
  BY <1>1 DEF TableTyped, HeardFrame, Sighting
<1>5. lastSeen[d] = t /\ t # Never
  BY <1>1, <1>4 DEF LastIsLatest, Never
<1>6. \A v \in ended : v.dev = d => v.end <= t \/ o \in torn
  BY <1>1 DEF HeardLater, Heard
<1>. HIDE DEF d, t
<1>7. o.dev = d /\ o.at = t
  OBVIOUS
<1>. HIDE DEF o
<1>8. inVisit'[d] /\ \A e \in Device : e # d => inVisit'[e] = inVisit[e] /\ visitStart'[e] = visitStart[e]
  BY <1>2, <1>4 DEF TableTyped
<1>9. inVisit[d] => visitStart'[d] = visitStart[d]
  BY <1>2
<1>10. ~inVisit[d] => visitStart'[d] = t
  BY <1>2, <1>4 DEF TableTyped
<1>11. visitStart[d] \in Int /\ lastSeen[d] \in Int
  BY <1>4 DEF TableTyped
<1>12. torn \subseteq torn'
  BY <1>2
<1>13. TableTyped'
  <2>1. visitStart' \in [Device -> Int] /\ inVisit' \in [Device -> BOOLEAN]
    BY <1>2, <1>4 DEF TableTyped
  <2>2. seen' \subseteq Sighting /\ torn' \subseteq Sighting
    BY <1>2, <1>4 DEF TableTyped
  <2>. QED BY <1>1, <1>3, <2>1, <2>2 DEF TableTyped
<1>14. visitStart'[d] <= t
  BY <1>4, <1>5, <1>9, <1>10, <1>11 DEF LastIsLatest
<1>15. LastIsLatest'
  <2>1. \A e \in Device : inVisit'[e] => lastSeen'[e] # Never /\ visitStart'[e] <= lastSeen'[e]
    BY <1>3, <1>5, <1>8, <1>14 DEF LastIsLatest
  <2>2. \A p \in seen' : p.at <= lastSeen[p.dev] /\ lastSeen[p.dev] # Never
    <3>1. o.at <= lastSeen[o.dev] /\ lastSeen[o.dev] # Never
      BY <1>4, <1>5, <1>7
    <3>. QED BY <1>2, <3>1 DEF LastIsLatest
  <2>. QED BY <1>1, <1>3, <2>1, <2>2 DEF LastIsLatest
<1>16. TakenIsSilent'
  <2> SUFFICES ASSUME NEW e \in taking, NEW p \in seen' \ torn', p.dev = e
               PROVE  tick - p.at > SessionGap
    <3>1. \A e \in taking : inVisit'[e]
      BY <1>8 DEF TakenIsSilent, TableTyped
    <3>. QED BY <1>3, <3>1 DEF TakenIsSilent
  <2>1. CASE p \in seen
    <3>1. p \in seen \ torn
      BY <1>12, <2>1
    <3>. QED BY <3>1 DEF TakenIsSilent
  <2>2. CASE p = o
    <3>1. e = d /\ inVisit[d]
      BY <1>7, <2>2 DEF TakenIsSilent
    <3>2. taking = {d}
      BY <3>1 DEF TableTyped
    <3>3. o \in torn'
      BY <1>2, <3>1, <3>2
    <3>. QED BY <2>2, <3>3
  <2>. QED BY <1>2, <2>1, <2>2
<1>17. HeardLater'
  BY <1>1 DEF HeardLater
<1>18. StartsLater'
  <2> SUFFICES ASSUME NEW e \in Device, inVisit'[e], NEW v \in ended, v.dev = e
               PROVE  v.end <= visitStart'[e] \/ [dev |-> e, at |-> visitStart'[e]] \in torn'
    BY <1>3 DEF StartsLater
  <2>1. CASE e # d \/ inVisit[d]
    <3>1. inVisit[e] /\ visitStart'[e] = visitStart[e]
      BY <1>8, <1>9, <2>1
    <3>. QED BY <1>12, <3>1 DEF StartsLater
  <2>2. CASE e = d /\ ~inVisit[d]
    <3>1. visitStart'[e] = t /\ [dev |-> e, at |-> t] = o
      BY <1>10, <2>2 DEF o
    <3>. QED BY <1>6, <1>12, <2>2, <3>1
  <2>. QED BY <2>1, <2>2
<1>19. FramesLieInVisits'
  <2> SUFFICES ASSUME NEW p \in seen' \ torn'
               PROVE  \/ inVisit'[p.dev] /\ visitStart'[p.dev] <= p.at
                      \/ \E v \in ended : v.dev = p.dev /\ v.start <= p.at /\ p.at <= v.end
    BY <1>3 DEF FramesLieInVisits
  <2>1. CASE p = o
    BY <1>7, <1>8, <1>14, <2>1
  <2>2. CASE p \in seen
    <3>1. p \in seen \ torn /\ p.dev \in Device
      BY <1>12, <2>2 DEF TableTyped, Sighting
    <3>2. CASE inVisit[p.dev] /\ visitStart[p.dev] <= p.at
      BY <1>8, <1>9, <3>1, <3>2
    <3>3. CASE ~(inVisit[p.dev] /\ visitStart[p.dev] <= p.at)
      BY <3>1, <3>3 DEF FramesLieInVisits
    <3>. QED BY <3>2, <3>3
  <2>. QED BY <1>2, <2>1, <2>2
<1>20. VisitsEndInSilence'
  <2> SUFFICES ASSUME NEW v \in ended, NEW p \in seen' \ torn', p.dev = v.dev, p.at < v.end
               PROVE  v.end - p.at > SessionGap
    BY <1>3 DEF VisitsEndInSilence
  <2>1. CASE p = o
    <3>1. v.end <= t \/ o \in torn
      BY <1>6, <1>7, <2>1
    <3>2. v.end <= t
      BY <1>12, <2>1, <3>1
    <3>3. v.end \in Int /\ p.at = t
      BY <1>7, <2>1 DEF TableTyped, VisitMade
    <3>. QED BY <1>4, <3>2, <3>3
  <2>2. CASE p \in seen
    <3>1. p \in seen \ torn
      BY <1>12, <2>2
    <3>. QED BY <3>1 DEF VisitsEndInSilence
  <2>. QED BY <1>2, <2>1, <2>2
<1>21. VisitsAreApart'
  BY <1>3, <1>12 DEF VisitsAreApart
<1>. QED BY <1>13, <1>15, <1>16, <1>17, <1>18, <1>19, <1>20, <1>21

(* The main thread looks at a device.                                      *)
LEMMA LooksTable ==
  ASSUME DeviceTableInv, NEW d \in Device, Looks(d)
  PROVE  DeviceTableInv'
<1>. USE DEF DeviceTableInv
<1>1. main = "scan" /\ taking' = IF IsOver(d) THEN {d} ELSE {}
  BY DEF Looks
<1>2. UNCHANGED <<wpNow, inVisit, visitStart, lastSeen, hearing, main, tick, seen, ended, torn>>
  BY DEF Looks, devices, visitHistory
<1>3. TableTyped'
  BY <1>1, <1>2 DEF TableTyped
<1>4. TakenIsSilent'
  <2> SUFFICES ASSUME NEW e \in taking', NEW o \in seen \ torn, o.dev = e
               PROVE  tick - o.at > SessionGap
    <3>1. \A e \in taking' : inVisit[e]
      BY <1>1 DEF IsOver
    <3>. QED BY <1>2, <3>1 DEF TakenIsSilent
  <2>1. e = d /\ tick - lastSeen[d] > SessionGap
    BY <1>1 DEF IsOver
  <2>2. o.at <= lastSeen[d] /\ o.at \in Nat /\ lastSeen[d] \in Int /\ tick \in Int /\ SessionGap \in Nat
    BY <2>1, VisitConstants DEF LastIsLatest, TableTyped, Sighting
  <2>. QED BY <2>1, <2>2
<1>5. HeardLater'
  BY <1>2 DEF HeardLater, Heard
<1>. QED BY <1>2, <1>3, <1>4, <1>5
         DEF LastIsLatest, StartsLater, FramesLieInVisits, VisitsEndInSilence, VisitsAreApart

(* ... and takes it out of its visit.                                      *)
LEMMA TakesTable ==
  ASSUME DeviceTableInv, NEW d \in Device, Takes(d)
  PROVE  DeviceTableInv'
<1>. USE DEF DeviceTableInv
<1>. DEFINE w == Visit(d, visitStart[d], tick)
<1>1. taking = {d} /\ taking' = {} /\ ended' = ended \cup {w} /\ inVisit' = [inVisit EXCEPT ![d] = FALSE]
      /\ torn' = IF hearing # <<>> /\ hearing[1].dev = d
                 THEN torn \cup {[dev |-> d, at |-> hearing[1].at]} ELSE torn
  BY DEF Takes
<1>2. UNCHANGED <<wpNow, visitStart, lastSeen, hearing, main, tick, seen>>
  BY DEF Takes
<1>3. w \in VisitMade /\ w.dev = d /\ w.start = visitStart[d] /\ w.end = tick
  BY DEF Visit, VisitMade, TableTyped
<1>. HIDE DEF w
<1>4. ~inVisit'[d] /\ \A e \in Device : e # d => inVisit'[e] = inVisit[e]
  BY <1>1 DEF TableTyped
<1>5. torn \subseteq torn'
  BY <1>1
<1>6. inVisit[d] /\ lastSeen[d] # Never
  BY <1>1 DEF TakenIsSilent, LastIsLatest
<1>7. \A o \in seen \ torn : o.dev = d => tick - o.at > SessionGap
  BY <1>1 DEF TakenIsSilent
<1>8. TableTyped'
  <2>1. torn' \subseteq Sighting
    <3>1. hearing # <<>> => hearing[1].at \in Nat
      BY DEF TableTyped, HeardFrame
    <3>. QED BY <1>1, <3>1 DEF TableTyped, Sighting
  <2>2. inVisit' \in [Device -> BOOLEAN] /\ ended' \subseteq VisitMade
    BY <1>1, <1>3 DEF TableTyped
  <2>. QED BY <1>1, <1>2, <2>1, <2>2 DEF TableTyped
<1>9. LastIsLatest'
  <2>1. w.end <= wpNow
    BY <1>3 DEF TableTyped
  <2>. QED BY <1>1, <1>2, <1>3, <1>4, <1>6, <2>1 DEF LastIsLatest
<1>10. TakenIsSilent'
  BY <1>1 DEF TakenIsSilent
<1>11. HeardLater'
  <2> SUFFICES ASSUME hearing # <<>>, NEW v \in ended', v.dev = hearing[1].dev
               PROVE  v.end <= hearing[1].at \/ Heard \in torn'
    BY <1>2 DEF HeardLater, Heard
  <2>1. CASE v \in ended
    BY <1>5, <2>1 DEF HeardLater
  <2>2. CASE v = w
    <3>1. hearing[1].dev = d
      BY <1>3, <2>2
    <3>. QED BY <1>1, <3>1 DEF Heard
  <2>. QED BY <1>1, <2>1, <2>2
<1>12. StartsLater'
  <2> SUFFICES ASSUME NEW e \in Device, inVisit'[e], NEW v \in ended', v.dev = e
               PROVE  v.end <= visitStart[e] \/ [dev |-> e, at |-> visitStart[e]] \in torn'
    BY <1>2 DEF StartsLater
  <2>1. e # d /\ inVisit[e] /\ v \in ended
    BY <1>1, <1>3, <1>4
  <2>. QED BY <1>5, <2>1 DEF StartsLater
<1>13. FramesLieInVisits'
  <2> SUFFICES ASSUME NEW o \in seen \ torn'
               PROVE  \/ inVisit'[o.dev] /\ visitStart[o.dev] <= o.at
                      \/ \E v \in ended' : v.dev = o.dev /\ v.start <= o.at /\ o.at <= v.end
    BY <1>2 DEF FramesLieInVisits
  <2>1. o \in seen \ torn /\ o.dev \in Device /\ o.at \in Nat
    BY <1>5 DEF TableTyped, Sighting
  <2>2. CASE \E v \in ended : v.dev = o.dev /\ v.start <= o.at /\ o.at <= v.end
    BY <1>1, <2>2
  <2>3. CASE inVisit[o.dev] /\ visitStart[o.dev] <= o.at
    <3>1. CASE o.dev # d
      BY <1>4, <2>1, <2>3, <3>1
    <3>2. CASE o.dev = d
      <4>1. tick - o.at > SessionGap
        BY <1>7, <2>1, <3>2
      <4>2. o.at <= tick
        BY <2>1, <4>1, VisitConstants DEF TableTyped
      <4>3. w \in ended' /\ w.dev = o.dev /\ w.start <= o.at /\ o.at <= w.end
        BY <1>1, <1>3, <2>3, <3>2, <4>2
      <4>. QED BY <4>3
    <3>. QED BY <3>1, <3>2
  <2>. QED BY <2>1, <2>2, <2>3 DEF FramesLieInVisits
<1>14. VisitsEndInSilence'
  <2> SUFFICES ASSUME NEW v \in ended', NEW o \in seen \ torn', o.dev = v.dev, o.at < v.end
               PROVE  v.end - o.at > SessionGap
    BY <1>2 DEF VisitsEndInSilence
  <2>1. o \in seen \ torn
    BY <1>5
  <2>2. CASE v \in ended
    BY <2>1, <2>2 DEF VisitsEndInSilence
  <2>3. CASE v = w
    BY <1>3, <1>7, <2>1, <2>3
  <2>. QED BY <1>1, <2>2, <2>3
<1>15. VisitsAreApart'
  <2>. DEFINE Apart(u, v) == \/ u.end <= v.start \/ v.end <= u.start
                             \/ \E o \in torn' : o.dev = u.dev /\ o.at \in {u.start, v.start}
  <2>1. ASSUME NEW u \in ended, NEW v \in ended, u.dev = v.dev, u # v PROVE Apart(u, v)
    BY <1>5, <2>1 DEF VisitsAreApart
  <2>2. ASSUME NEW v \in ended, v.dev = d PROVE Apart(v, w) /\ Apart(w, v)
    <3>1. CASE v.end <= visitStart[d]
      BY <1>3, <3>1
    <3>2. CASE [dev |-> d, at |-> visitStart[d]] \in torn
      <4>. DEFINE o == [dev |-> d, at |-> visitStart[d]]
      <4>1. o.dev = d /\ o.at = visitStart[d] /\ o \in torn'
        BY <1>5, <3>2
      <4>. HIDE DEF o
      <4>2. o.dev = v.dev /\ o.dev = w.dev /\ o.at \in {v.start, w.start} /\ o.at \in {w.start, v.start}
        BY <1>3, <2>2, <4>1
      <4>. QED BY <4>1, <4>2
    <3>. QED BY <1>6, <2>2, <3>1, <3>2 DEF StartsLater
  <2>3. ASSUME NEW u \in ended', NEW v \in ended', u.dev = v.dev, u # v PROVE Apart(u, v)
    <3>. HIDE DEF Apart
    <3>1. CASE u \in ended /\ v \in ended
      BY <2>1, <2>3, <3>1
    <3>2. CASE u \in ended /\ v = w
      BY <1>3, <2>2, <2>3, <3>2
    <3>3. CASE u = w /\ v \in ended
      BY <1>3, <2>2, <2>3, <3>3
    <3>. QED BY <1>1, <2>3, <3>1, <3>2, <3>3
  <2>. QED BY <2>3 DEF VisitsAreApart
<1>. QED BY <1>8, <1>9, <1>10, <1>11, <1>12, <1>13, <1>14, <1>15

-----------------------------------------------------------------------------
(* The rows.  A visit more or less of a device.                            *)
LEMMA VisitsOfFinite ==
  ASSUME RowsTyped, NEW d
  PROVE  IsFiniteSet(VisitsOf(d)) /\ Cardinality(VisitsOf(d)) \in Nat
<1>1. VisitsOf(d) \subseteq visitRows
  BY DEF VisitsOf
<1>2. IsFiniteSet(VisitsOf(d))
  BY <1>1, FS_Subset DEF RowsTyped
<1>. QED BY <1>2, FS_CardinalityType

(* The steps that leave the database alone: those of the capture thread,   *)
(* and of the main thread while it collects.                               *)
LEMMA RowsAlone ==
  ASSUME RowsInv, UNCHANGED <<visitRows, devRows, failed>>, events' \in Seq(VisitMade),
         \/ main' = "sleep" \/ main' = "scan" \/ main' = "prune"
         \/ main' = "device" /\ events' # <<>>
         \/ main' = main /\ events' = events
  PROVE  RowsInv'
<1>1. RowsTyped'
  <2>1. visitRows' \subseteq VisitMade /\ IsFiniteSet(visitRows') /\ failed' \in BOOLEAN
    BY DEF RowsInv, RowsTyped
  <2>2. \A d \in DOMAIN devRows' : devRows'[d] \in Nat
    BY DEF RowsInv, RowsTyped
  <2>3. main' \in {"device", "visit"} => events' # <<>>
    BY DEF RowsInv, RowsTyped
  <2>. QED BY <2>1, <2>2, <2>3 DEF RowsTyped
<1>2. \A d : VisitsOf(d)' = VisitsOf(d)
  BY DEF VisitsOf
<1>3. main' = "visit" => main = "visit" /\ events' = events
  OBVIOUS
<1>4. RowsCount'
  BY <1>2, <1>3 DEF RowsInv, RowsCount
<1>. QED BY <1>1, <1>4 DEF RowsInv

LEMMA StoresDeviceRows ==
  ASSUME RowsInv, StoresDevice
  PROVE  RowsInv'
<1>. DEFINE d == Head(events).dev
<1>1. main = "device" /\ main' = "visit" /\ visitRows' = visitRows /\ events' = events
  BY DEF StoresDevice, rounds
<1>2. \/ /\ devRows' = IF d \in DOMAIN devRows THEN devRows
                       ELSE [x \in DOMAIN devRows \cup {d} |-> IF x = d THEN 0 ELSE devRows[x]]
         /\ failed' = failed
      \/ failed' = TRUE /\ devRows' = devRows
  BY DEF StoresDevice
<1>3. events # <<>> /\ events \in Seq(VisitMade)
  BY <1>1 DEF RowsInv, RowsTyped
<1>. HIDE DEF d
<1>4. \A x \in DOMAIN devRows : x \in DOMAIN devRows' /\ devRows'[x] = devRows[x]
  BY <1>2
<1>5. \A x \in DOMAIN devRows' : devRows'[x] \in Nat
  BY <1>2 DEF RowsInv, RowsTyped
<1>6. failed' = FALSE => d \in DOMAIN devRows'
  BY <1>2
<1>7. failed' \in BOOLEAN
  BY <1>2 DEF RowsInv, RowsTyped
<1>8. RowsTyped'
  <2>1. visitRows' \subseteq VisitMade /\ IsFiniteSet(visitRows')
    BY <1>1 DEF RowsInv, RowsTyped
  <2>. QED BY <1>1, <1>3, <1>5, <1>7, <2>1 DEF RowsTyped
<1>9. ~failed' => ~failed
  BY <1>2
<1>10. \A x : VisitsOf(x)' = VisitsOf(x)
  BY <1>1 DEF VisitsOf
<1>11. RowsCount'
  <2> SUFFICES ASSUME ~failed' PROVE
           /\ Head(events').dev \in DOMAIN devRows'
           /\ \A x \in Device : Cardinality(VisitsOf(x)') > 0 =>
                x \in DOMAIN devRows' /\ devRows'[x] >= Cardinality(VisitsOf(x)')
    BY DEF RowsCount
  <2>1. Head(events').dev \in DOMAIN devRows'
    BY <1>1, <1>6, <1>7 DEF d
  <2>2. ASSUME NEW x \in Device, Cardinality(VisitsOf(x)) > 0
        PROVE  x \in DOMAIN devRows' /\ devRows'[x] >= Cardinality(VisitsOf(x))
    <3>1. x \in DOMAIN devRows /\ devRows[x] >= Cardinality(VisitsOf(x))
      BY <1>9, <2>2 DEF RowsInv, RowsCount
    <3>. QED BY <1>4, <3>1
  <2>. QED BY <1>10, <2>1, <2>2
<1>. QED BY <1>8, <1>11 DEF RowsInv

LEMMA StoresVisitRows ==
  ASSUME RowsInv, StoresVisit
  PROVE  RowsInv'
<1>. DEFINE v == Head(events)
<1>1. main = "visit" /\ events' = Tail(events) /\ main' = IF Tail(events) = <<>> THEN "prune" ELSE "device"
  BY DEF StoresVisit
<1>2. \/ /\ visitRows' = visitRows \cup {v}
         /\ devRows' = [x \in DOMAIN devRows |-> IF x = v.dev THEN devRows[x] + 1 ELSE devRows[x]]
         /\ failed' = failed
      \/ failed' = TRUE /\ visitRows' \in {visitRows, visitRows \cup {v}} /\ devRows' = devRows
  BY DEF StoresVisit
<1>3. events # <<>> /\ events \in Seq(VisitMade)
  BY <1>1 DEF RowsInv, RowsTyped
<1>4. v \in VisitMade /\ Tail(events) \in Seq(VisitMade)
  BY <1>3
<1>. HIDE DEF v
<1>5. IsFiniteSet(visitRows) /\ visitRows \subseteq VisitMade /\ failed \in BOOLEAN
      /\ \A x \in DOMAIN devRows : devRows[x] \in Nat
  BY DEF RowsInv, RowsTyped
<1>6. RowsTyped'
  <2>1. \A x \in DOMAIN devRows' : devRows'[x] \in Nat
    BY <1>2, <1>5
  <2>2. IsFiniteSet(visitRows \cup {v})
    BY <1>5, FS_AddElement
  <2>3. visitRows' \subseteq VisitMade /\ IsFiniteSet(visitRows')
    BY <1>2, <1>4, <1>5, <2>2
  <2>4. failed' \in BOOLEAN
    BY <1>2, <1>5
  <2>. QED BY <1>1, <1>4, <2>1, <2>3, <2>4 DEF RowsTyped
<1>7. RowsCount'
  <2> SUFFICES ASSUME ~failed', NEW d \in Device, Cardinality(VisitsOf(d)') > 0
               PROVE  d \in DOMAIN devRows' /\ devRows'[d] >= Cardinality(VisitsOf(d)')
    BY <1>1 DEF RowsCount
  <2>1. ~failed /\ visitRows' = visitRows \cup {v}
        /\ devRows' = [x \in DOMAIN devRows |-> IF x = v.dev THEN devRows[x] + 1 ELSE devRows[x]]
    BY <1>2
  <2>2. IsFiniteSet(VisitsOf(d)) /\ Cardinality(VisitsOf(d)) \in Nat
    BY VisitsOfFinite DEF RowsInv
  <2>3. Cardinality(VisitsOf(d)) > 0 => d \in DOMAIN devRows /\ devRows[d] >= Cardinality(VisitsOf(d))
    BY <2>1 DEF RowsInv, RowsCount
  <2>4. CASE v.dev = d
    <3>1. VisitsOf(d)' = VisitsOf(d) \cup {v}
      BY <2>1, <2>4 DEF VisitsOf
    <3>2. Cardinality(VisitsOf(d)') \in Nat /\ Cardinality(VisitsOf(d)') <= Cardinality(VisitsOf(d)) + 1
      <4>1. Cardinality(VisitsOf(d) \cup {v}) =
              IF v \in VisitsOf(d) THEN Cardinality(VisitsOf(d)) ELSE Cardinality(VisitsOf(d)) + 1
        BY <2>2, FS_AddElement
      <4>2. Cardinality(VisitsOf(d)') = Cardinality(VisitsOf(d) \cup {v})
        BY <3>1
      <4> DEFINE n == Cardinality(VisitsOf(d))
                 m == Cardinality(VisitsOf(d)')
      <4>3. m = n \/ m = n + 1
        BY <4>1, <4>2
      <4>4. n \in Nat
        BY <2>2
      <4> HIDE DEF n, m
      <4>5. m \in Nat /\ m <= n + 1
        BY <4>3, <4>4
      <4>. QED BY <4>5 DEF n, m
    <3>3. d \in DOMAIN devRows
      BY <1>1, <2>1, <2>4 DEF RowsInv, RowsCount, v
    <3>4. d \in DOMAIN devRows' /\ devRows'[d] = devRows[d] + 1 /\ devRows[d] \in Nat
      BY <1>5, <2>1, <2>4, <3>3
    <3>5. devRows[d] >= Cardinality(VisitsOf(d))
      <4>1. CASE Cardinality(VisitsOf(d)) > 0
        BY <2>3, <4>1
      <4>2. CASE ~(Cardinality(VisitsOf(d)) > 0)
        BY <2>2, <3>4, <4>2
      <4>. QED BY <4>1, <4>2
    <3>. QED BY <2>2, <3>2, <3>4, <3>5
  <2>5. CASE v.dev # d
    <3>1. VisitsOf(d)' = VisitsOf(d)
      BY <2>1, <2>5 DEF VisitsOf
    <3>2. d \in DOMAIN devRows /\ devRows[d] >= Cardinality(VisitsOf(d))
      BY <2>3, <3>1
    <3>. QED BY <2>1, <2>5, <3>1, <3>2
  <2>. QED BY <2>4, <2>5
<1>. QED BY <1>6, <1>7 DEF RowsInv

LEMMA PrunesRows ==
  ASSUME RowsInv, Prunes
  PROVE  RowsInv'
<1>1. main' = "sleep" /\ events' = events /\ failed' = failed
  BY DEF Prunes, visitHistory
<1>2. \/ visitRows' = KeptVisits /\ devRows' = [d \in PrunedDevices |-> devRows[d]]
      \/ visitRows' = visitRows /\ devRows' = devRows
  BY DEF Prunes, wpDb
<1>3. events \in Seq(VisitMade) /\ failed \in BOOLEAN /\ IsFiniteSet(visitRows) /\ visitRows \subseteq VisitMade
      /\ \A d \in DOMAIN devRows : devRows[d] \in Nat
  BY DEF RowsInv, RowsTyped
<1>4. CASE visitRows' = KeptVisits /\ devRows' = [d \in PrunedDevices |-> devRows[d]]
  <2>1. KeptVisits \subseteq visitRows /\ PrunedDevices \subseteq DOMAIN devRows
    BY DEF KeptVisits, PrunedDevices
  <2>2. RowsTyped'
    <3>1. IsFiniteSet(visitRows') /\ visitRows' \subseteq VisitMade
      BY <1>3, <1>4, <2>1, FS_Subset
    <3>2. \A d \in DOMAIN devRows' : devRows'[d] \in Nat
      BY <1>3, <1>4, <2>1
    <3>. QED BY <1>1, <1>3, <3>1, <3>2 DEF RowsTyped
  <2>3. RowsCount'
    <3> SUFFICES ASSUME ~failed, NEW d \in Device, Cardinality(VisitsOf(d)') > 0
                 PROVE  d \in DOMAIN devRows' /\ devRows'[d] >= Cardinality(VisitsOf(d)')
      BY <1>1 DEF RowsCount
    <3>1. VisitsOf(d)' \subseteq VisitsOf(d)
      BY <1>4, <2>1 DEF VisitsOf
    <3>2. IsFiniteSet(VisitsOf(d)) /\ Cardinality(VisitsOf(d)) \in Nat
      BY VisitsOfFinite DEF RowsInv
    <3>3. Cardinality(VisitsOf(d)') \in Nat /\ Cardinality(VisitsOf(d)') <= Cardinality(VisitsOf(d))
      BY <3>1, <3>2, FS_Subset, FS_CardinalityType
    <3>4. d \in DOMAIN devRows /\ devRows[d] >= Cardinality(VisitsOf(d)) /\ devRows[d] \in Nat
      BY <1>3, <3>2, <3>3 DEF RowsInv, RowsCount
    <3>5. VisitsOf(d)' # {}
      BY FS_EmptySet
    <3>6. PICK v \in KeptVisits : v.dev = d
      BY <1>4, <3>5 DEF VisitsOf
    <3>7. d \in PrunedDevices
      BY <3>4, <3>6 DEF PrunedDevices
    <3>. QED BY <1>4, <3>2, <3>3, <3>4, <3>7
  <2>. QED BY <2>2, <2>3 DEF RowsInv
<1>5. CASE visitRows' = visitRows /\ devRows' = devRows
  <2>1. events' \in Seq(VisitMade)
    BY <1>1, <1>3
  <2>. QED BY <1>1, <1>5, <2>1, RowsAlone
<1>. QED BY <1>2, <1>4, <1>5

-----------------------------------------------------------------------------
(* One step per action: the table first, then the rows.                    *)
LEMMA VisitsStep == VisitInv /\ [VisitNext]_visitVars => VisitInv'
<1> SUFFICES ASSUME VisitInv, [VisitNext]_visitVars PROVE VisitInv'
  OBVIOUS
<1>1. DeviceTableInv /\ RowsInv
  BY DEF VisitInv
<1>2. wpNow \in Nat /\ tick \in Int /\ tick <= wpNow /\ Never \in Int /\ Never <= wpNow
  BY <1>1 DEF DeviceTableInv, TableTyped, Never
<1>3. events \in Seq(VisitMade)
  BY <1>1 DEF RowsInv, RowsTyped
<1>4. ASSUME NEW d \in Device, NEW ap \in BOOLEAN, Hears(d, ap) PROVE VisitInv'
  <2>1. DeviceTableInv'
    BY <1>1, <1>4, HearsTable
  <2>2. UNCHANGED <<visitRows, devRows, failed, events, main>>
    BY <1>4 DEF Hears, rounds, wpDb, visitHistory
  <2>3. RowsInv'
    BY <1>1, <1>3, <2>2, RowsAlone
  <2>. QED BY <2>1, <2>3 DEF VisitInv
<1>5. CASE NotesTime
  <2>1. DeviceTableInv'
    BY <1>1, <1>5, NotesTimeTable
  <2>2. UNCHANGED <<visitRows, devRows, failed, events, main>>
    BY <1>5 DEF NotesTime, rounds, wpDb, visitHistory
  <2>3. RowsInv'
    BY <1>1, <1>3, <2>2, RowsAlone
  <2>. QED BY <2>1, <2>3 DEF VisitInv
<1>6. CASE NotesVisit
  <2>1. DeviceTableInv'
    BY <1>1, <1>6, NotesVisitTable
  <2>2. UNCHANGED <<visitRows, devRows, failed, events, main>>
    BY <1>6 DEF NotesVisit, rounds, wpDb
  <2>3. RowsInv'
    BY <1>1, <1>3, <2>2, RowsAlone
  <2>. QED BY <2>1, <2>3 DEF VisitInv
<1>7. CASE Wakes
  <2>1. UNCHANGED <<inVisit, visitStart, lastSeen, hearing, seen, ended, torn, wpNow, taking>>
        /\ tick' = wpNow /\ main = "sleep"
    BY <1>7 DEF Wakes, devices, visitHistory
  <2>2. taking' = {}
    BY <1>1, <2>1 DEF DeviceTableInv, TableTyped
  <2>3. DeviceTableInv'
    BY <1>1, <1>2, <2>1, <2>2, TableAlone
  <2>4. UNCHANGED <<visitRows, devRows, failed>> /\ (events' = <<>> \/ events' = events)
        /\ (main' = "scan" \/ main' = "prune")
    BY <1>7 DEF Wakes, wpDb, visitHistory
  <2>5. events' \in Seq(VisitMade)
    <3>1. <<>> \in Seq(VisitMade)
      OBVIOUS
    <3>. QED BY <1>3, <2>4, <3>1
  <2>6. RowsInv'
    BY <1>1, <2>4, <2>5, RowsAlone
  <2>. QED BY <2>3, <2>6 DEF VisitInv
<1>8. ASSUME NEW d \in Device, Looks(d) PROVE VisitInv'
  <2>1. DeviceTableInv'
    BY <1>1, <1>8, LooksTable
  <2>2. UNCHANGED <<visitRows, devRows, failed, events, main>>
    BY <1>8 DEF Looks, wpDb, visitHistory
  <2>3. RowsInv'
    BY <1>1, <1>3, <2>2, RowsAlone
  <2>. QED BY <2>1, <2>3 DEF VisitInv
<1>9. ASSUME NEW d \in Device, Takes(d) PROVE VisitInv'
  <2>1. DeviceTableInv'
    BY <1>1, <1>9, TakesTable
  <2>2. UNCHANGED <<visitRows, devRows, failed, main>> /\ taking = {d}
        /\ events' = Append(events, Visit(d, visitStart[d], tick))
    BY <1>9 DEF Takes, wpDb
  <2>3. Visit(d, visitStart[d], tick) \in VisitMade
    BY <1>1 DEF DeviceTableInv, TableTyped, Visit, VisitMade
  <2>4. events' \in Seq(VisitMade)
    BY <1>3, <2>2, <2>3
  <2>5. main' = "scan"
    BY <1>1, <2>2 DEF DeviceTableInv, TableTyped
  <2>6. RowsInv'
    BY <1>1, <2>2, <2>4, <2>5, RowsAlone
  <2>. QED BY <2>1, <2>6 DEF VisitInv
<1>10. CASE Collected
  <2>1. UNCHANGED <<inVisit, visitStart, lastSeen, hearing, seen, ended, torn, wpNow, tick>> /\ taking' = {}
    BY <1>10 DEF Collected, devices, visitHistory
  <2>2. DeviceTableInv'
    BY <1>1, <1>2, <2>1, TableAlone
  <2>3. UNCHANGED <<visitRows, devRows, failed, events>>
        /\ main' = IF events = <<>> THEN "prune" ELSE "device"
    BY <1>10 DEF Collected, wpDb, visitHistory
  <2>4. main' = "prune" \/ (main' = "device" /\ events' # <<>>)
    <3>1. \/ events = <<>> /\ main' = "prune"
          \/ events # <<>> /\ main' = "device"
      BY <1>10 DEF Collected
    <3>2. events' = events
      BY <2>3
    <3>. QED BY <3>1, <3>2
  <2>5. events' \in Seq(VisitMade)
    BY <1>3, <2>3
  <2>6. RowsInv'
    BY <1>1, <2>3, <2>4, <2>5, RowsAlone
  <2>. QED BY <2>2, <2>6 DEF VisitInv
<1>11. CASE StoresDevice
  <2>1. UNCHANGED <<inVisit, visitStart, lastSeen, hearing, seen, ended, torn, wpNow, tick, taking>>
        /\ main = "device"
    BY <1>11 DEF StoresDevice, devices, rounds
  <2>2. taking' = {}
    BY <1>1, <2>1 DEF DeviceTableInv, TableTyped
  <2>3. DeviceTableInv'
    BY <1>1, <1>2, <2>1, <2>2, TableAlone
  <2>. QED BY <1>1, <1>11, <2>3, StoresDeviceRows DEF VisitInv
<1>12. CASE StoresVisit
  <2>1. UNCHANGED <<inVisit, visitStart, lastSeen, hearing, seen, ended, torn, wpNow, tick, taking>>
        /\ main = "visit"
    BY <1>12 DEF StoresVisit, devices
  <2>2. taking' = {}
    BY <1>1, <2>1 DEF DeviceTableInv, TableTyped
  <2>3. DeviceTableInv'
    BY <1>1, <1>2, <2>1, <2>2, TableAlone
  <2>. QED BY <1>1, <1>12, <2>3, StoresVisitRows DEF VisitInv
<1>13. CASE Prunes
  <2>1. UNCHANGED <<inVisit, visitStart, lastSeen, hearing, seen, ended, torn, wpNow, taking>>
        /\ main = "prune" /\ tick' = Never
    BY <1>13 DEF Prunes, devices, visitHistory
  <2>2. taking' = {}
    BY <1>1, <2>1 DEF DeviceTableInv, TableTyped
  <2>3. DeviceTableInv'
    BY <1>1, <1>2, <2>1, <2>2, TableAlone
  <2>. QED BY <1>1, <1>13, <2>3, PrunesRows DEF VisitInv
<1>14. CASE VisitsStop \/ ClockAdvances \/ UNCHANGED visitVars
  <2>1. UNCHANGED <<inVisit, visitStart, lastSeen, hearing, seen, ended, torn, tick, taking, main>>
    BY <1>14 DEF VisitsStop, ClockAdvances, visitVars, devices, rounds, visitHistory
  <2>2. wpNow' = wpNow \/ wpNow' = wpNow + 1
    BY <1>14 DEF VisitsStop, ClockAdvances, visitVars
  <2>3. wpNow' \in Nat /\ wpNow' >= wpNow /\ tick' \in Int /\ tick' <= wpNow'
    BY <1>2, <2>1, <2>2
  <2>4. DeviceTableInv'
    BY <1>1, <2>1, <2>3, TableAlone
  <2>5. UNCHANGED <<visitRows, devRows, failed, events, main>>
    BY <1>14 DEF VisitsStop, ClockAdvances, visitVars, rounds, wpDb, visitHistory
  <2>6. RowsInv'
    BY <1>1, <1>3, <2>5, RowsAlone
  <2>. QED BY <2>4, <2>6 DEF VisitInv
<1>. QED BY <1>4, <1>5, <1>6, <1>7, <1>8, <1>9, <1>10, <1>11, <1>12, <1>13, <1>14 DEF VisitNext

(* The visits stored are those of the frames heard, in every interleaving  *)
(* of the capture thread and the main thread, which share the table of     *)
(* devices without a lock (device.c, main.c, db.c).                        *)
THEOREM VisitsFit == VisitSpec => []VisitsFitTheFrames
<1>1. VisitInv => VisitsFitTheFrames
  BY DEF VisitInv, DeviceTableInv, RowsInv, RowsCount, VisitsOf, VisitsFitTheFrames, VisitsAreCounted
<1>. QED BY <1>1, VisitsBegin, VisitsStep, PTL DEF VisitSpec

-----------------------------------------------------------------------------
(***************************************************************************)
(* The name caches of apptraffic.                                          *)
(***************************************************************************)
(* A function defined from the one before: exists.                         *)
LEMMA StepsExist ==
  ASSUME NEW Q, NEW start \in Q, NEW n \in Nat, NEW Onto \in [1 .. n -> [Q -> Q]]
  PROVE  \E f \in [0 .. n -> Q] : f[0] = start /\ \A i \in 1 .. n : f[i] = Onto[i][f[i - 1]]
<1> DEFINE Good(k) == \E f \in [0 .. k -> Q] :
                        f[0] = start /\ \A i \in 1 .. k : f[i] = Onto[i][f[i - 1]]
           Bad == {k \in 0 .. n : ~Good(k)}
<1>1. Good(0)
  <2> DEFINE f == [i \in 0 .. 0 |-> start]
  <2>1. f \in [0 .. 0 -> Q] /\ f[0] = start /\ 1 .. 0 = {}
    OBVIOUS
  <2>. QED BY <2>1
<1>2. ASSUME NEW k \in Nat, k + 1 \in 1 .. n, Good(k) PROVE Good(k + 1)
  <2>1. PICK f \in [0 .. k -> Q] : f[0] = start /\ \A i \in 1 .. k : f[i] = Onto[i][f[i - 1]]
    BY <1>2
  <2>2. k \in 0 .. k /\ f[k] \in Q /\ Onto[k + 1] \in [Q -> Q]
    BY <1>2, <2>1
  <2>3. PICK v \in Q : v = Onto[k + 1][f[k]]
    BY <2>2
  <2> DEFINE g == [i \in 0 .. (k + 1) |-> IF i = k + 1 THEN v ELSE f[i]]
  <2>4. g \in [0 .. (k + 1) -> Q]
    BY <2>1, <2>3
  <2>5. g[k + 1] = v /\ \A i \in 0 .. k : g[i] = f[i]
    <3>1. \A i \in 0 .. k : i \in 0 .. (k + 1) /\ i # k + 1
      OBVIOUS
    <3>2. k + 1 \in 0 .. (k + 1)
      OBVIOUS
    <3>. QED BY <3>1, <3>2
  <2> HIDE DEF g
  <2>6. ASSUME NEW i \in 1 .. (k + 1) PROVE g[i] = Onto[i][g[i - 1]]
    <3>1. CASE i = k + 1
      <4>1. i - 1 = k
        BY <3>1
      <4>. QED BY <2>2, <2>3, <2>5, <3>1, <4>1
    <3>2. CASE i # k + 1
      <4>1. i \in 1 .. k /\ i \in 0 .. k /\ i - 1 \in 0 .. k
        BY <3>2
      <4>. QED BY <2>1, <2>5, <4>1
    <3>. QED BY <3>1, <3>2
  <2>7. g[0] = start
    <3>1. 0 \in 0 .. k
      OBVIOUS
    <3>. QED BY <2>1, <2>5, <3>1
  <2>. QED BY <2>4, <2>6, <2>7
<1> HIDE DEF Good
<1>3. Bad = {}
  <2>1. SUFFICES ASSUME Bad # {} PROVE FALSE
    OBVIOUS
  <2>2. Bad \in SUBSET Nat
    OBVIOUS
  <2>3. PICK k \in Bad : \A j \in Bad : k <= j
    BY <2>1, <2>2, LeastNumber
  <2>4. k \in Nat /\ k \in 0 .. n /\ ~Good(k) /\ k # 0
    BY <1>1, <2>3
  <2>5. k - 1 \in Nat /\ k - 1 \in 0 .. n /\ (k - 1) + 1 = k /\ k \in 1 .. n /\ ~(k <= k - 1)
    BY <2>4
  <2>6. Good(k - 1)
    BY <2>3, <2>5
  <2>7. Good((k - 1) + 1)
    BY <1>2, <2>5, <2>6
  <2>. QED BY <2>4, <2>5, <2>7
<1>4. n \in 0 .. n
  OBVIOUS
<1>5. Good(n)
  BY <1>3, <1>4
<1>. QED BY <1>5 DEF Good

(* A set of numbers from 1 on without a gap is an interval.                *)
LEMMA IsInterval ==
  ASSUME NEW n \in Nat, NEW S \in SUBSET (1 .. n),
         \A i \in S, j \in 1 .. n : j <= i => j \in S
  PROVE  Cardinality(S) \in 0 .. n /\ S = 1 .. Cardinality(S)
<1> DEFINE Out == {k \in 1 .. (n + 1) : k \notin S}
<1>1. Out \in SUBSET Nat /\ n + 1 \in Out
  OBVIOUS
<1>2. PICK k \in Out : \A j \in Out : k <= j
  BY <1>1, LeastNumber
<1>3. k \in Nat /\ k \in 1 .. (n + 1) /\ k \notin S /\ k - 1 \in 0 .. n
  BY <1>2
<1>4. ASSUME NEW j \in S PROVE j \in 1 .. (k - 1)
  <2>1. j \in 1 .. n /\ j \in Nat
    OBVIOUS
  <2>2. CASE k <= j
    <3>1. k \in 1 .. n
      BY <1>3, <2>1, <2>2
    <3>. QED BY <1>3, <2>2, <3>1
  <2>. QED BY <1>3, <2>1, <2>2
<1>5. ASSUME NEW j \in 1 .. (k - 1) PROVE j \in S
  <2>1. j \in 1 .. (n + 1) /\ ~(k <= j)
    BY <1>3
  <2>. QED BY <1>2, <2>1
<1>6. S = 1 .. (k - 1)
  BY <1>4, <1>5
<1>7. Cardinality(S) = k - 1
  <2>1. Cardinality(1 .. (k - 1)) = IF 1 > k - 1 THEN 0 ELSE (k - 1) - 1 + 1
    BY <1>3, FS_Interval
  <2>. QED BY <1>3, <1>6, <2>1
<1>. QED BY <1>3, <1>6, <1>7

(* The lines read so far, a list sorted by priority: nobody is lost, and   *)
(* the first that matches is the first of those of the highest priority.   *)
FirstMatch(list, x, i) == /\ i \in DOMAIN list /\ x \in list[i].names
                          /\ \A j \in DOMAIN list : x \in list[j].names => i <= j
FirstOfTop(file, k, x, t) ==
  /\ t \in 1 .. k /\ x \in file[t].names
  /\ \A j \in 1 .. k : x \in file[j].names =>
       file[j].priority < file[t].priority \/ (file[j].priority = file[t].priority /\ t <= j)
Ordered(list) ==
  \A i, j \in DOMAIN list : i <= j => list[j].priority <= list[i].priority
InOrder(file, k, list) ==
  /\ list \in Seq(Mapping) /\ Ordered(list)
  /\ \A x \in Name : (\A i \in DOMAIN list : x \notin list[i].names)
                     => \A j \in 1 .. k : x \notin file[j].names
  /\ \A x \in Name, i \in DOMAIN list :
       FirstMatch(list, x, i) => \E t \in 1 .. k : FirstOfTop(file, k, x, t) /\ file[t] = list[i]

(* Where everything is after a line was put in.                            *)
LEMMA InsertIs ==
  ASSUME NEW list \in Seq(Mapping), NEW m \in Mapping, Ordered(list)
  PROVE  \E n \in 0 .. Len(list) :
           /\ Insert(list, m) \in Seq(Mapping) /\ Len(Insert(list, m)) = Len(list) + 1
           /\ \A i \in 1 .. n : Insert(list, m)[i] = list[i] /\ list[i].priority >= m.priority
           /\ Insert(list, m)[n + 1] = m
           /\ \A i \in (n + 1) .. Len(list) : Insert(list, m)[i + 1] = list[i]
                                              /\ list[i].priority < m.priority
<1> DEFINE before == {i \in DOMAIN list : list[i].priority >= m.priority}
           n == Cardinality(before)
           a == SubSeq(list, 1, n)
           c == SubSeq(list, n + 1, Len(list))
           L == Len(list)
<1>1. L \in Nat /\ DOMAIN list = 1 .. L /\ \A i \in 1 .. L : list[i] \in Mapping
  BY LenProperties, ElementOfSeq
<1>2. \A i \in 1 .. L : list[i].priority \in Int /\ m.priority \in Int
  BY <1>1 DEF Mapping
<1>3. before \in SUBSET (1 .. L)
  BY <1>1
<1>4. ASSUME NEW i \in before, NEW j \in 1 .. L, j <= i PROVE j \in before
  <2>1. list[i].priority <= list[j].priority /\ list[i].priority >= m.priority
    BY <1>1, <1>4 DEF Ordered
  <2>. QED BY <1>1, <1>2, <1>3, <2>1
<1>5. n \in 0 .. L /\ before = 1 .. n
  <2> HIDE DEF before, L
  <2>. QED BY <1>1, <1>3, <1>4, IsInterval
<1>6. Insert(list, m) = (a \o <<m>>) \o c
  BY DEF Insert
<1> HIDE DEF n
<1>7. n \in Int /\ 1 \in Int /\ n + 1 \in Int /\ L \in Int
  BY <1>1, <1>5
<1>8. \A i \in 1 .. n : list[i] \in Mapping
  BY <1>1, <1>5
<1>9. \A i \in (n + 1) .. L : list[i] \in Mapping
  BY <1>1, <1>5
<1>10. a \in Seq(Mapping) /\ Len(a) = n /\ \A i \in 1 .. n : a[i] = list[i]
  <2>1. /\ SubSeq(list, 1, n) \in Seq(Mapping)
        /\ Len(SubSeq(list, 1, n)) = IF 1 <= n THEN n - 1 + 1 ELSE 0
        /\ \A i \in 1 .. n - 1 + 1 : SubSeq(list, 1, n)[i] = list[1 + i - 1]
    BY <1>7, <1>8, SubSeqProperties
  <2>2. n - 1 + 1 = n /\ \A i \in 1 .. n : 1 + i - 1 = i
    BY <1>7
  <2>. QED BY <1>5, <2>1, <2>2
<1>11. c \in Seq(Mapping) /\ Len(c) = L - n /\ \A i \in 1 .. (L - n) : c[i] = list[n + i]
  <2>1. /\ SubSeq(list, n + 1, L) \in Seq(Mapping)
        /\ Len(SubSeq(list, n + 1, L)) = IF n + 1 <= L THEN L - (n + 1) + 1 ELSE 0
        /\ \A i \in 1 .. L - (n + 1) + 1 : SubSeq(list, n + 1, L)[i] = list[n + 1 + i - 1]
    BY <1>7, <1>9, SubSeqProperties
  <2>2. ASSUME NEW i \in 1 .. (L - n) PROVE n + 1 + i - 1 = n + i
    <3>1. \A x, y \in Int : x + 1 + y - 1 = x + y
      OBVIOUS
    <3>2. i \in Int
      OBVIOUS
    <3>. QED BY <1>7, <3>1, <3>2
  <2>3. L - (n + 1) + 1 = L - n /\ (n + 1 <= L \/ L - n = 0)
    <3> HIDE DEF L
    <3>. QED BY <1>1, <1>5
  <2>. QED BY <2>1, <2>2, <2>3
<1> HIDE DEF a, c, before, L
<1>12. <<m>> \in Seq(Mapping) /\ Len(<<m>>) = 1 /\ <<m>>[1] = m
  OBVIOUS
<1>13. PICK d : d = a \o <<m>>
  OBVIOUS
<1>14. /\ d \in Seq(Mapping) /\ Len(d) = n + 1 /\ d[n + 1] = m
       /\ \A i \in 1 .. n : d[i] = list[i]
  <2>1. /\ a \o <<m>> \in Seq(Mapping) /\ Len(a \o <<m>>) = Len(a) + Len(<<m>>)
        /\ \A i \in 1 .. Len(a) + Len(<<m>>) : (a \o <<m>>)[i] =
             IF i <= Len(a) THEN a[i] ELSE <<m>>[i - Len(a)]
    BY <1>10, <1>12, ConcatProperties
  <2>2. \A i \in 1 .. n + 1 : d[i] = IF i <= n THEN a[i] ELSE <<m>>[i - n]
    BY <1>10, <1>12, <1>13, <2>1
  <2>3. n + 1 \in 1 .. n + 1 /\ ~(n + 1 <= n) /\ (n + 1) - n = 1
    BY <1>5
  <2>4. \A i \in 1 .. n : i \in 1 .. n + 1 /\ i <= n
    BY <1>5
  <2>. QED BY <1>10, <1>12, <1>13, <2>1, <2>2, <2>3, <2>4
<1>15. PICK r : r = Insert(list, m)
  OBVIOUS
<1>16. /\ r \in Seq(Mapping) /\ Len(r) = L + 1
       /\ \A i \in 1 .. L + 1 : r[i] = IF i <= n + 1 THEN d[i] ELSE c[i - (n + 1)]
  <2>1. /\ d \o c \in Seq(Mapping) /\ Len(d \o c) = Len(d) + Len(c)
        /\ \A i \in 1 .. Len(d) + Len(c) : (d \o c)[i] = IF i <= Len(d) THEN d[i] ELSE c[i - Len(d)]
    BY <1>11, <1>14, ConcatProperties
  <2>2. (n + 1) + (L - n) = L + 1
    BY <1>1, <1>5 DEF L
  <2>. QED BY <1>6, <1>11, <1>13, <1>14, <1>15, <2>1, <2>2
<1>17. ASSUME NEW i \in 1 .. n PROVE r[i] = list[i] /\ list[i].priority >= m.priority
  <2>1. i \in 1 .. L + 1 /\ i <= n + 1 /\ i \in before
    BY <1>1, <1>5 DEF L
  <2>2. list[i].priority >= m.priority
    BY <2>1 DEF before
  <2>. QED BY <1>14, <1>16, <2>1, <2>2
<1>18. r[n + 1] = m
  <2>1. n + 1 \in 1 .. L + 1 /\ n + 1 <= n + 1
    BY <1>1, <1>5 DEF L
  <2>. QED BY <1>14, <1>16, <2>1
<1>19. ASSUME NEW i \in (n + 1) .. L PROVE r[i + 1] = list[i] /\ list[i].priority < m.priority
  <2>1. /\ i + 1 \in 1 .. L + 1 /\ ~(i + 1 <= n + 1) /\ (i + 1) - (n + 1) \in 1 .. (L - n)
        /\ n + ((i + 1) - (n + 1)) = i /\ i \in 1 .. L /\ i \notin 1 .. n
    BY <1>1, <1>5 DEF L
  <2>2. i \notin before
    BY <1>5, <2>1
  <2>3. ~(list[i].priority >= m.priority)
    BY <1>1, <2>1, <2>2 DEF before, L
  <2>4. list[i].priority < m.priority
    BY <1>2, <2>1, <2>3 DEF L
  <2>. QED BY <1>11, <1>16, <2>1, <2>4
<1>. QED BY <1>5, <1>15, <1>16, <1>17, <1>18, <1>19 DEF L

(* The next line of the file is put in: the list stays in order.           *)
LEMMA InOrderStep ==
  ASSUME NEW file \in Seq(Mapping), NEW k \in Nat, k + 1 \in 1 .. Len(file),
         NEW list, InOrder(file, k, list)
  PROVE  InOrder(file, k + 1, Insert(list, file[k + 1]))
<1>1. PICK m \in Mapping : m = file[k + 1]
  BY ElementOfSeq
<1>2. PICK r : r = Insert(list, m)
  OBVIOUS
<1>3. list \in Seq(Mapping) /\ Ordered(list)
  BY DEF InOrder
<1>4. PICK L \in Nat : L = Len(list) /\ DOMAIN list = 1 .. L
  BY <1>3, LenProperties
<1>5. PICK n \in 0 .. L :
        /\ r \in Seq(Mapping) /\ Len(r) = L + 1
        /\ \A i \in 1 .. n : r[i] = list[i] /\ list[i].priority >= m.priority
        /\ r[n + 1] = m
        /\ \A i \in (n + 1) .. L : r[i + 1] = list[i] /\ list[i].priority < m.priority
  <2>1. PICK z \in 0 .. Len(list) :
           /\ Insert(list, m) \in Seq(Mapping) /\ Len(Insert(list, m)) = Len(list) + 1
           /\ \A i \in 1 .. z : Insert(list, m)[i] = list[i] /\ list[i].priority >= m.priority
           /\ Insert(list, m)[z + 1] = m
           /\ \A i \in (z + 1) .. Len(list) : Insert(list, m)[i + 1] = list[i]
                                              /\ list[i].priority < m.priority
    BY <1>3, InsertIs
  <2>. QED BY <1>2, <1>4, <2>1
<1>6. DOMAIN r = 1 .. (L + 1)
  BY <1>5, LenProperties
<1>7. ASSUME NEW i \in 1 .. (L + 1)
      PROVE  \/ i \in 1 .. n
             \/ i = n + 1
             \/ i - 1 \in (n + 1) .. L /\ i - 1 \in 1 .. L /\ (i - 1) + 1 = i
  BY <1>4, <1>5
<1>8. m.priority \in Int /\ \A i \in 1 .. L : list[i].priority \in Int
  <2>1. \A i \in 1 .. L : list[i] \in Mapping
    BY <1>3, <1>4, ElementOfSeq
  <2>. QED BY <2>1 DEF Mapping
<1>9. \A i \in 1 .. n : i \in 1 .. L
  BY <1>5
<1>10. \A i \in 1 .. L : i \in 1 .. n \/ i \in (n + 1) .. L
  BY <1>5
<1>11. Ordered(r)
  <2> SUFFICES ASSUME NEW i \in 1 .. (L + 1), NEW j \in 1 .. (L + 1), i <= j
               PROVE  r[j].priority <= r[i].priority
    BY <1>6 DEF Ordered
  <2>1. CASE i \in 1 .. n
    <3>1. r[i] = list[i] /\ list[i].priority >= m.priority /\ list[i].priority \in Int
      BY <1>5, <1>8, <1>9, <2>1
    <3>2. CASE j \in 1 .. n
      BY <1>3, <1>4, <1>5, <1>9, <2>1, <3>2 DEF Ordered
    <3>3. CASE j = n + 1
      BY <1>5, <1>8, <3>1, <3>3
    <3>4. CASE j - 1 \in (n + 1) .. L /\ j - 1 \in 1 .. L /\ (j - 1) + 1 = j
      <4>1. r[j] = list[j - 1] /\ list[j - 1].priority < m.priority /\ list[j - 1].priority \in Int
        BY <1>5, <1>8, <3>4
      <4>. QED BY <1>8, <3>1, <4>1
    <3>. QED BY <1>7, <3>2, <3>3, <3>4
  <2>2. CASE i = n + 1
    <3>1. j \notin 1 .. n
      BY <1>5, <2>2
    <3>2. CASE j = n + 1
      BY <1>5, <1>8, <2>2, <3>2
    <3>3. CASE j - 1 \in (n + 1) .. L /\ j - 1 \in 1 .. L /\ (j - 1) + 1 = j
      <4>1. r[j] = list[j - 1] /\ list[j - 1].priority < m.priority /\ list[j - 1].priority \in Int
        BY <1>5, <1>8, <3>3
      <4>. QED BY <1>5, <1>8, <2>2, <4>1
    <3>. QED BY <1>7, <3>1, <3>2, <3>3
  <2>3. CASE i - 1 \in (n + 1) .. L /\ i - 1 \in 1 .. L /\ (i - 1) + 1 = i
    <3>1. j - 1 \in (n + 1) .. L /\ j - 1 \in 1 .. L /\ (j - 1) + 1 = j /\ i - 1 <= j - 1
      BY <1>5, <2>3
    <3>2. r[i] = list[i - 1] /\ r[j] = list[j - 1]
      BY <1>5, <2>3, <3>1
    <3>. QED BY <1>3, <1>4, <2>3, <3>1, <3>2 DEF Ordered
  <2>. QED BY <1>7, <2>1, <2>2, <2>3
<1>12. \A j \in 1 .. (k + 1) : j \in 1 .. k \/ j = k + 1
  OBVIOUS
<1>13. \A j \in 1 .. k : j \in 1 .. (k + 1)
  OBVIOUS
<1>14. ASSUME NEW x \in Name, \A i \in DOMAIN r : x \notin r[i].names, NEW j \in 1 .. (k + 1)
       PROVE  x \notin file[j].names
  <2>1. n + 1 \in 1 .. (L + 1)
    BY <1>5
  <2>2. x \notin m.names
    BY <1>5, <1>6, <1>14, <2>1
  <2>3. ASSUME NEW i \in 1 .. L PROVE x \notin list[i].names
    <3>1. i \in 1 .. (L + 1) /\ i + 1 \in 1 .. (L + 1)
      OBVIOUS
    <3>2. r[i] = list[i] \/ r[i + 1] = list[i]
      BY <1>5, <1>10
    <3>. QED BY <1>6, <1>14, <3>1, <3>2
  <2>4. \A i \in 1 .. k : x \notin file[i].names
    BY <1>4, <2>3 DEF InOrder
  <2>. QED BY <1>1, <1>12, <2>2, <2>4
<1>15. ASSUME NEW x \in Name, NEW i \in DOMAIN r, FirstMatch(r, x, i)
       PROVE  \E t \in 1 .. (k + 1) : FirstOfTop(file, k + 1, x, t) /\ file[t] = r[i]
  <2>1. i \in 1 .. (L + 1) /\ x \in r[i].names /\ \A j \in 1 .. (L + 1) : x \in r[j].names => i <= j
    BY <1>6, <1>15 DEF FirstMatch
  <2>2. ASSUME NEW j \in 1 .. L, FirstMatch(list, x, j)
        PROVE  \E t \in 1 .. k : FirstOfTop(file, k, x, t) /\ file[t] = list[j]
    BY <1>4, <2>2 DEF InOrder
  <2>3. CASE i \in 1 .. n
    <3>1. i \in 1 .. L /\ r[i] = list[i] /\ list[i].priority >= m.priority
      BY <1>5, <1>9, <2>3
    <3>2. ASSUME NEW j \in 1 .. L, x \in list[j].names PROVE i <= j
      <4>1. CASE j \in 1 .. n
        <5>1. j \in 1 .. (L + 1) /\ r[j] = list[j]
          BY <1>5, <4>1
        <5>. QED BY <2>1, <3>2, <5>1
      <4>2. CASE j \in (n + 1) .. L
        BY <1>5, <2>3, <4>2
      <4>. QED BY <1>10, <4>1, <4>2
    <3>3. FirstMatch(list, x, i)
      BY <1>4, <2>1, <3>1, <3>2 DEF FirstMatch
    <3>4. PICK t \in 1 .. k : FirstOfTop(file, k, x, t) /\ file[t] = list[i]
      BY <2>2, <3>1, <3>3
    <3>5. file[t].priority \in Int /\ file[t].priority >= m.priority /\ t <= k + 1
      BY <1>8, <3>1, <3>4
    <3>6. file[k + 1].priority < file[t].priority
          \/ (file[k + 1].priority = file[t].priority /\ t <= k + 1)
      BY <1>1, <1>8, <3>5
    <3>. QED BY <1>12, <1>13, <3>1, <3>4, <3>6 DEF FirstOfTop
  <2>4. CASE i = n + 1
    <3>1. r[i] = m /\ x \in m.names /\ k + 1 \in 1 .. (k + 1)
      BY <1>5, <2>1, <2>4
    <3>2. ASSUME NEW j \in 1 .. k, x \in file[j].names PROVE file[j].priority < m.priority
      <4>. DEFINE M == {p \in 1 .. L : x \in list[p].names}
      <4>1. M # {} /\ M \in SUBSET Nat
        BY <1>4, <3>2 DEF InOrder
      <4>2. PICK p \in M : \A q \in M : p <= q
        BY <4>1, LeastNumber
      <4>3. FirstMatch(list, x, p) /\ p \in 1 .. L
        BY <1>4, <4>2 DEF FirstMatch
      <4>4. p \in (n + 1) .. L
        <5>1. ASSUME p \in 1 .. n PROVE FALSE
          <6>1. p \in 1 .. (L + 1) /\ r[p] = list[p] /\ ~(n + 1 <= p)
            BY <1>5, <5>1
          <6>. QED BY <2>1, <2>4, <4>2, <6>1
        <5>. QED BY <1>10, <4>3, <5>1
      <4>5. list[p].priority < m.priority /\ list[p].priority \in Int
        BY <1>5, <1>8, <4>3, <4>4
      <4>6. PICK t \in 1 .. k : FirstOfTop(file, k, x, t) /\ file[t] = list[p]
        BY <2>2, <4>3
      <4>7. file[j].priority < file[t].priority \/ file[j].priority = file[t].priority
        BY <3>2, <4>6 DEF FirstOfTop
      <4>8. j \in 1 .. Len(file)
        BY LenProperties
      <4>9. file[j].priority \in Int
        <5>1. file[j] \in Mapping
          BY <4>8, ElementOfSeq
        <5>. QED BY <5>1 DEF Mapping
      <4>10. file[t].priority = list[p].priority
        BY <4>6
      <4>. QED BY <1>8, <4>5, <4>7, <4>9, <4>10
    <3>3. ASSUME NEW j \in 1 .. (k + 1), x \in file[j].names
          PROVE  file[j].priority < m.priority \/ (file[j].priority = m.priority /\ k + 1 <= j)
      <4>1. CASE j \in 1 .. k
        BY <3>2, <3>3, <4>1
      <4>2. CASE j = k + 1
        BY <1>1, <4>2
      <4>. QED BY <1>12, <4>1, <4>2
    <3>4. FirstOfTop(file, k + 1, x, k + 1)
      BY <1>1, <3>1, <3>3 DEF FirstOfTop
    <3>. QED BY <1>1, <3>1, <3>4
  <2>5. CASE i - 1 \in (n + 1) .. L /\ i - 1 \in 1 .. L /\ (i - 1) + 1 = i
    <3>1. r[i] = list[i - 1]
      BY <1>5, <2>5
    <3>2. x \notin m.names
      <4>1. n + 1 \in 1 .. (L + 1) /\ ~(i <= n + 1)
        BY <1>5, <2>5
      <4>. QED BY <1>5, <2>1, <4>1
    <3>3. ASSUME NEW j \in 1 .. L, x \in list[j].names PROVE i - 1 <= j
      <4>1. CASE j \in 1 .. n
        <5>1. j \in 1 .. (L + 1) /\ r[j] = list[j]
          BY <1>5, <4>1
        <5>2. i <= j
          BY <2>1, <3>3, <5>1
        <5>. QED BY <5>1, <5>2, <2>1
      <4>2. CASE j \in (n + 1) .. L
        <5>1. j + 1 \in 1 .. (L + 1) /\ r[j + 1] = list[j]
          BY <1>5, <4>2
        <5>2. i <= j + 1
          BY <2>1, <3>3, <5>1
        <5>. QED BY <5>1, <5>2, <2>1
      <4>. QED BY <1>10, <4>1, <4>2
    <3>4. FirstMatch(list, x, i - 1)
      BY <1>4, <2>1, <2>5, <3>1, <3>3 DEF FirstMatch
    <3>5. PICK t \in 1 .. k : FirstOfTop(file, k, x, t) /\ file[t] = list[i - 1]
      BY <2>2, <2>5, <3>4
    <3>6. x \notin file[k + 1].names
      BY <1>1, <3>2
    <3>. QED BY <1>12, <1>13, <3>1, <3>5, <3>6 DEF FirstOfTop
  <2>. QED BY <1>7, <2>1, <2>3, <2>4, <2>5
<1>. QED BY <1>1, <1>2, <1>5, <1>11, <1>14, <1>15 DEF InOrder

(* mapping_load leaves the lines of the whole file in order.               *)
LEMMA LoadedIs == ASSUME NEW file \in MapFiles PROVE InOrder(file, Len(file), Loaded(file))
<1>1. file \in Seq(Mapping) /\ Len(file) \in Nat
  BY DnsMapConstants, LenProperties
<1>2. PICK n \in Nat : n = Len(file)
  BY <1>1
<1> DEFINE By(g) == g = [i \in 0 .. Len(file) |->
                           IF i = 0 THEN <<>> ELSE Insert(g[i - 1], file[i])]
           G == CHOOSE g : By(g)
<1>3. Loaded(file) = G[n]
  BY <1>2 DEF Loaded
<1> DEFINE Q == {q \in Seq(Mapping) : Ordered(q)}
<1>4. <<>> \in Q
  BY DEF Ordered
<1>5. ASSUME NEW q \in Q, NEW i \in 1 .. n PROVE Insert(q, file[i]) \in Seq(Mapping)
  <2>1. file[i] \in Mapping
    BY <1>1, <1>2, ElementOfSeq
  <2>. QED BY <2>1, InsertIs
<1> DEFINE Onto == [i \in 1 .. n |-> [q \in Seq(Mapping) |->
                      IF Insert(q, file[i]) \in Seq(Mapping) THEN Insert(q, file[i]) ELSE q]]
<1>6. Onto \in [1 .. n -> [Seq(Mapping) -> Seq(Mapping)]]
  OBVIOUS
<1>7. <<>> \in Seq(Mapping)
  OBVIOUS
<1>8. PICK f \in [0 .. n -> Seq(Mapping)] :
        f[0] = <<>> /\ \A i \in 1 .. n : f[i] = Onto[i][f[i - 1]]
  <2>1. PICK S, e, h : S = Seq(Mapping) /\ e = <<>> /\ h = Onto
    OBVIOUS
  <2> HIDE DEF Onto
  <2>2. e \in S /\ h \in [1 .. n -> [S -> S]]
    BY <1>6, <1>7, <2>1
  <2>3. \E f \in [0 .. n -> S] : f[0] = e /\ \A i \in 1 .. n : f[i] = h[i][f[i - 1]]
    <3> HIDE DEF Q, G, By
    <3>1. n \in Nat
      BY <1>2
    <3>. QED BY ONLY <2>2, <3>1, StepsExist
  <2>. QED BY <2>1, <2>3
<1>9. ASSUME NEW i \in 1 .. n
      PROVE  f[i] = IF Insert(f[i - 1], file[i]) \in Seq(Mapping) THEN Insert(f[i - 1], file[i]) ELSE f[i - 1]
  <2>1. i - 1 \in 0 .. n
    BY <1>2
  <2>2. f[i - 1] \in Seq(Mapping)
    BY <1>8, <2>1
  <2>. QED BY <1>8, <2>2
<1> HIDE DEF Onto, Q
<1> DEFINE Bad == {i \in 0 .. n : ~InOrder(file, i, f[i])}
<1>10. InOrder(file, 0, f[0])
  BY <1>8 DEF InOrder, Ordered
<1>11. ASSUME NEW i \in Nat, i + 1 \in 1 .. n, InOrder(file, i, f[i])
       PROVE  InOrder(file, i + 1, f[i + 1]) /\ f[i + 1] = Insert(f[i], file[i + 1])
  <2>1. InOrder(file, i + 1, Insert(f[i], file[i + 1]))
    BY <1>1, <1>2, <1>11, InOrderStep
  <2>2. Insert(f[i], file[i + 1]) \in Seq(Mapping)
    BY <2>1 DEF InOrder
  <2>3. (i + 1) - 1 = i
    OBVIOUS
  <2>4. f[i + 1] = Insert(f[i], file[i + 1])
    BY <1>9, <1>11, <2>2, <2>3
  <2>. QED BY <2>1, <2>4
<1>12. Bad = {}
  <2>1. SUFFICES ASSUME Bad # {} PROVE FALSE
    OBVIOUS
  <2>2. PICK k \in Bad : \A j \in Bad : k <= j
    <3>1. Bad \in SUBSET Nat
      OBVIOUS
    <3>. QED BY <2>1, <3>1, LeastNumber
  <2>3. k \in Nat /\ k \in 0 .. n /\ ~InOrder(file, k, f[k]) /\ k # 0
    BY <1>10, <2>2
  <2>4. k - 1 \in Nat /\ k - 1 \in 0 .. n /\ (k - 1) + 1 = k /\ k \in 1 .. n /\ ~(k <= k - 1)
    BY <2>3
  <2>5. InOrder(file, k - 1, f[k - 1])
    BY <2>2, <2>4
  <2>6. InOrder(file, (k - 1) + 1, f[(k - 1) + 1])
    BY <1>11, <2>4, <2>5
  <2>. QED BY <2>3, <2>4, <2>6
<1>13. By(f)
  <2>1. ASSUME NEW i \in 0 .. n PROVE f[i] = IF i = 0 THEN <<>> ELSE Insert(f[i - 1], file[i])
    <3>1. CASE i = 0
      BY <1>8, <3>1
    <3>2. CASE i # 0
      <4>1. i - 1 \in Nat /\ i - 1 \in 0 .. n /\ (i - 1) + 1 = i /\ i \in 1 .. n
        BY <3>2
      <4>2. InOrder(file, i - 1, f[i - 1])
        BY <1>12, <4>1
      <4>3. f[(i - 1) + 1] = Insert(f[i - 1], file[(i - 1) + 1])
        BY <1>11, <4>1, <4>2
      <4>. QED BY <3>2, <4>1, <4>3
    <3>. QED BY <3>1, <3>2
  <2>. QED BY <1>2, <1>8, <2>1
<1>14. By(G)
  <2> HIDE DEF By
  <2>. QED BY <1>13
<1> HIDE DEF G
<1>15. ASSUME NEW i \in 0 .. n PROVE G[i] = IF i = 0 THEN <<>> ELSE Insert(G[i - 1], file[i])
  BY <1>2, <1>14
<1> DEFINE Other == {i \in 0 .. n : G[i] # f[i]}
<1>16. Other = {}
  <2>1. SUFFICES ASSUME Other # {} PROVE FALSE
    OBVIOUS
  <2>2. PICK k \in Other : \A j \in Other : k <= j
    <3>1. Other \in SUBSET Nat
      OBVIOUS
    <3>. QED BY <2>1, <3>1, LeastNumber
  <2>3. k \in 0 .. n /\ G[k] # f[k]
    BY <2>2
  <2>4. G[0] = f[0]
    BY <1>8, <1>15
  <2>5. k # 0
    BY <2>3, <2>4
  <2>6. k - 1 \in Nat /\ k - 1 \in 0 .. n /\ (k - 1) + 1 = k /\ k \in 1 .. n /\ ~(k <= k - 1)
    BY <2>3, <2>5
  <2>7. G[k - 1] = f[k - 1]
    BY <2>2, <2>6
  <2>8. InOrder(file, k - 1, f[k - 1])
    BY <1>12, <2>6
  <2>9. f[(k - 1) + 1] = Insert(f[k - 1], file[(k - 1) + 1])
    BY <1>11, <2>6, <2>8
  <2>10. G[k] = Insert(G[k - 1], file[k])
    BY <1>15, <2>3, <2>5
  <2>. QED BY <2>3, <2>6, <2>7, <2>9, <2>10
<1>17. n \in 0 .. n
  OBVIOUS
<1>. QED BY <1>2, <1>3, <1>12, <1>16, <1>17

(* Loaded, then asked: the application of the first of the highest         *)
(* priority, for a name that some line matches.                            *)
LEMMA AppOfLoaded ==
  ASSUME NEW file \in MapFiles, NEW x \in Name
  PROVE  /\ (\E i \in DOMAIN file : x \in file[i].names) =>
              AppOf(Loaded(file), x) = FirstOfHighest(file, x)
         /\ AppOf(Loaded(file), x) \in AppName \cup {SecondLevel(x)}
<1>1. PICK list : list = Loaded(file)
  OBVIOUS
<1>2. file \in Seq(Mapping) /\ Len(file) \in Nat /\ DOMAIN file = 1 .. Len(file)
  BY DnsMapConstants, LenProperties
<1>3. InOrder(file, Len(file), list)
  BY <1>1, LoadedIs
<1>4. list \in Seq(Mapping) /\ Len(list) \in Nat /\ DOMAIN list = 1 .. Len(list)
  BY <1>3, LenProperties DEF InOrder
<1> DEFINE hits == {i \in DOMAIN list : x \in list[i].names}
<1>5. hits \in SUBSET Nat
  BY <1>4
<1>6. ASSUME hits # {}
      PROVE  \E i \in hits : AppOf(list, x) = list[i].app /\ FirstMatch(list, x, i) /\ list[i] \in Mapping
  <2> DEFINE p == CHOOSE i \in hits : \A j \in hits : i <= j
  <2>1. p \in hits /\ \A j \in hits : p <= j
    BY <1>5, <1>6, LeastNumber
  <2>2. AppOf(list, x) = list[p].app
    BY <1>6 DEF AppOf
  <2>3. FirstMatch(list, x, p)
    BY <2>1 DEF FirstMatch
  <2>4. list[p] \in Mapping
    BY <1>4, <2>1, ElementOfSeq
  <2>. QED BY <2>1, <2>2, <2>3, <2>4
<1>7. ASSUME NEW e \in DOMAIN file, x \in file[e].names
      PROVE  AppOf(list, x) = FirstOfHighest(file, x)
  <2>1. hits # {}
    BY <1>2, <1>3, <1>7 DEF InOrder
  <2>2. PICK i \in hits : AppOf(list, x) = list[i].app /\ FirstMatch(list, x, i)
    BY <1>6, <2>1
  <2>3. PICK t \in 1 .. Len(file) : FirstOfTop(file, Len(file), x, t) /\ file[t] = list[i]
    BY <1>3, <2>2 DEF InOrder
  <2> DEFINE all == {j \in DOMAIN file : x \in file[j].names}
             top == {j \in all : \A k \in all : file[k].priority <= file[j].priority}
  <2>4. \A j \in all : file[j].priority \in Int /\ j \in Nat
    <3>1. \A j \in 1 .. Len(file) : file[j] \in Mapping
      BY <1>2, ElementOfSeq
    <3>. QED BY <1>2, <3>1 DEF Mapping
  <2>5. /\ t \in all
        /\ \A j \in all : \/ file[j].priority < file[t].priority
                          \/ file[j].priority = file[t].priority /\ t <= j
    BY <1>2, <2>3 DEF FirstOfTop
  <2>6. t \in top /\ \A j \in top : t <= j
    <3>1. \A j \in all : file[j].priority <= file[t].priority
      BY <2>4, <2>5
    <3>2. ASSUME NEW j \in top PROVE t <= j
      <4>1. file[t].priority <= file[j].priority /\ j \in all
        BY <2>5
      <4>2. ~(file[j].priority < file[t].priority)
        BY <2>4, <2>5, <4>1
      <4>. QED BY <2>5, <4>1, <4>2
    <3>. QED BY <2>5, <3>1, <3>2
  <2>7. \A j \in top : j \in Nat
    BY <2>4
  <2> DEFINE c == CHOOSE j \in top : \A k \in top : j <= k
  <2>8. FirstOfHighest(file, x) = file[c].app
    BY DEF FirstOfHighest
  <2> HIDE DEF top
  <2>9. c \in top /\ \A k \in top : c <= k
    BY <2>6
  <2> HIDE DEF c
  <2>10. c = t
    <3>1. c <= t /\ t <= c /\ c \in Nat /\ t \in Nat
      BY <2>6, <2>7, <2>9
    <3>. QED BY <3>1
  <2>. QED BY <2>2, <2>3, <2>8, <2>10
<1>8. AppOf(list, x) \in AppName \cup {SecondLevel(x)}
  <2>1. CASE hits # {}
    <3>1. PICK i \in hits : AppOf(list, x) = list[i].app /\ list[i] \in Mapping
      BY <1>6, <2>1
    <3>. QED BY <3>1 DEF Mapping, AppName
  <2>2. CASE hits = {}
    <3>1. AppOf(list, x) = IF x \in Literal THEN "Unknown" ELSE SecondLevel(x)
      BY <2>2 DEF AppOf
    <3>2. "Unknown" \in AppName
      BY DEF AppName
    <3>. QED BY <3>1, <3>2
  <2>. QED BY <2>1, <2>2
<1>. QED BY <1>1, <1>7, <1>8

(* What else AppOf is asked for never is a name.                           *)
LEMMA AppOfAny ==
  ASSUME NEW file \in MapFiles, NEW x
  PROVE  AppOf(Loaded(file), x) \in AppName \cup {SecondLevel(x)}
<1>1. PICK list : list = Loaded(file)
  OBVIOUS
<1>2. list \in Seq(Mapping)
  BY <1>1, LoadedIs DEF InOrder
<1>3. Len(list) \in Nat /\ DOMAIN list = 1 .. Len(list)
  BY <1>2, LenProperties
<1> DEFINE hits == {i \in DOMAIN list : x \in list[i].names}
<1>4. hits \in SUBSET Nat
  BY <1>3
<1>5. CASE hits # {}
  <2> DEFINE p == CHOOSE i \in hits : \A j \in hits : i <= j
  <2>1. p \in hits
    BY <1>4, <1>5, LeastNumber
  <2>2. AppOf(list, x) = list[p].app
    BY <1>5 DEF AppOf
  <2>3. list[p] \in Mapping
    BY <1>2, <1>3, <2>1, ElementOfSeq
  <2>. QED BY <1>1, <2>2, <2>3 DEF Mapping, AppName
<1>6. CASE hits = {}
  <2>1. AppOf(list, x) = IF x \in Literal THEN "Unknown" ELSE SecondLevel(x)
    BY <1>6 DEF AppOf
  <2>2. "Unknown" \in AppName
    BY DEF AppName
  <2>. QED BY <1>1, <2>1, <2>2
<1>. QED BY <1>5, <1>6

(* A sweep keeps of a chain what has not expired.                          *)
LEMMA UnexpiredIs ==
  ASSUME NEW chain \in Seq(NamedEntry), clock \in Nat
  PROVE  /\ Unexpired(chain) \in Seq(NamedEntry)
         /\ \A i \in DOMAIN Unexpired(chain) :
              \E j \in DOMAIN chain : Unexpired(chain)[i] = chain[j]
         /\ \A j \in DOMAIN chain : chain[j].until >= clock =>
              \E i \in DOMAIN Unexpired(chain) : Unexpired(chain)[i] = chain[j]
<1>1. PICK n \in Nat : n = Len(chain) /\ DOMAIN chain = 1 .. n
  BY LenProperties
<1>2. \A i \in 1 .. n : chain[i] \in NamedEntry
  BY <1>1, ElementOfSeq
<1> DEFINE By(g) == g = [i \in 0 .. Len(chain) |->
                           IF i = 0 THEN <<>>
                           ELSE IF chain[i].until >= clock THEN Append(g[i - 1], chain[i]) ELSE g[i - 1]]
           G == CHOOSE g : By(g)
<1>3. Unexpired(chain) = G[n]
  BY <1>1 DEF Unexpired
<1>4. PICK S, e : S = Seq(NamedEntry) /\ e = <<>>
  OBVIOUS
<1> DEFINE Onto == [i \in 1 .. n |-> [q \in S |->
                      IF chain[i].until >= clock THEN Append(q, chain[i]) ELSE q]]
<1>5. e \in S /\ Onto \in [1 .. n -> [S -> S]]
  <2>1. ASSUME NEW q \in S, NEW i \in 1 .. n PROVE Append(q, chain[i]) \in S
    BY <1>2, <1>4, AppendProperties
  <2>2. e \in S
    BY <1>4
  <2>. QED BY <2>1, <2>2
<1>6. PICK f \in [0 .. n -> S] : f[0] = e /\ \A i \in 1 .. n : f[i] = Onto[i][f[i - 1]]
  <2> HIDE DEF Onto
  <2>1. n \in Nat
    BY <1>1
  <2>. QED BY ONLY <1>5, <2>1, StepsExist, SMTT(30)
<1>7. ASSUME NEW i \in 1 .. n
      PROVE  /\ i - 1 \in 0 .. n /\ f[i - 1] \in S
             /\ f[i] = IF chain[i].until >= clock THEN Append(f[i - 1], chain[i]) ELSE f[i - 1]
  <2>1. i - 1 \in 0 .. n /\ f[i - 1] \in S
    BY <1>6
  <2>. QED BY <1>6, <2>1
<1> HIDE DEF Onto
<1>8. By(f)
  <2>1. ASSUME NEW i \in 0 .. n
        PROVE  f[i] = IF i = 0 THEN <<>>
                      ELSE IF chain[i].until >= clock THEN Append(f[i - 1], chain[i]) ELSE f[i - 1]
    <3>1. CASE i = 0
      BY <1>4, <1>6, <3>1
    <3>2. CASE i # 0
      <4>1. i \in 1 .. n
        BY <3>2
      <4>. QED BY <1>7, <3>2, <4>1
    <3>. QED BY <3>1, <3>2
  <2>. QED BY <1>1, <1>6, <2>1
<1>9. By(G)
  <2> HIDE DEF By
  <2>. QED BY <1>8
<1> HIDE DEF G
<1>10. ASSUME NEW i \in 0 .. n
       PROVE  G[i] = IF i = 0 THEN <<>>
                     ELSE IF chain[i].until >= clock THEN Append(G[i - 1], chain[i]) ELSE G[i - 1]
  BY <1>1, <1>9
<1> HIDE DEF By
<1> DEFINE Keeps(k) ==
             /\ G[k] \in Seq(NamedEntry)
             /\ \A i \in DOMAIN G[k] : \E j \in DOMAIN chain : G[k][i] = chain[j]
             /\ \A j \in 1 .. k : chain[j].until >= clock => \E i \in DOMAIN G[k] : G[k][i] = chain[j]
           Bad == {k \in 0 .. n : ~Keeps(k)}
<1>11. Keeps(0)
  <2>1. G[0] = <<>>
    BY <1>10
  <2>2. DOMAIN G[0] = {} /\ G[0] \in Seq(NamedEntry)
    BY <2>1
  <2>3. 1 .. 0 = {}
    OBVIOUS
  <2>. QED BY <2>2, <2>3
<1>12. ASSUME NEW k \in 1 .. n, Keeps(k - 1) PROVE Keeps(k)
  <2>1. PICK q \in Seq(NamedEntry) : q = G[k - 1]
    BY <1>12
  <2>2. k \in 0 .. n /\ k # 0 /\ chain[k] \in NamedEntry /\ k \in DOMAIN chain
    BY <1>1, <1>2
  <2>3. G[k] = IF chain[k].until >= clock THEN Append(q, chain[k]) ELSE q
    BY <1>10, <2>1, <2>2
  <2>4. /\ \A i \in DOMAIN q : \E j \in DOMAIN chain : q[i] = chain[j]
        /\ \A j \in 1 .. (k - 1) : chain[j].until >= clock => \E i \in DOMAIN q : q[i] = chain[j]
    BY <1>12, <2>1
  <2>5. \A j \in 1 .. k : j \in 1 .. (k - 1) \/ j = k
    OBVIOUS
  <2>6. CASE ~(chain[k].until >= clock)
    BY <2>1, <2>3, <2>4, <2>5, <2>6
  <2>7. CASE chain[k].until >= clock
    <3>1. PICK r : r = Append(q, chain[k])
      OBVIOUS
    <3>2. /\ r \in Seq(NamedEntry) /\ Len(r) = Len(q) + 1 /\ r[Len(q) + 1] = chain[k]
          /\ \A i \in 1 .. Len(q) : r[i] = q[i]
      BY <2>2, <3>1, AppendProperties
    <3>3. DOMAIN q = 1 .. Len(q) /\ Len(q) \in Nat /\ DOMAIN r = 1 .. (Len(q) + 1)
      BY <3>2, LenProperties
    <3>4. ASSUME NEW i \in DOMAIN r PROVE \E j \in DOMAIN chain : r[i] = chain[j]
      <4>1. i \in 1 .. Len(q) \/ i = Len(q) + 1
        BY <3>3
      <4>. QED BY <2>2, <2>4, <3>2, <3>3, <4>1
    <3>5. ASSUME NEW j \in 1 .. k, chain[j].until >= clock PROVE \E i \in DOMAIN r : r[i] = chain[j]
      <4>1. CASE j = k
        <5>1. Len(q) + 1 \in DOMAIN r
          BY <3>3
        <5>. QED BY <3>2, <4>1, <5>1
      <4>2. CASE j \in 1 .. (k - 1)
        <5>1. PICK i \in DOMAIN q : q[i] = chain[j]
          BY <2>4, <3>5, <4>2
        <5>2. i \in DOMAIN r /\ r[i] = q[i]
          BY <3>2, <3>3, <5>1
        <5>. QED BY <5>1, <5>2
      <4>. QED BY <2>5, <4>1, <4>2
    <3>6. G[k] = r
      BY <2>3, <2>7, <3>1
    <3>. QED BY <3>2, <3>4, <3>5, <3>6
  <2>. QED BY <2>6, <2>7
<1> HIDE DEF Keeps
<1>13. Bad = {}
  <2>1. SUFFICES ASSUME Bad # {} PROVE FALSE
    OBVIOUS
  <2>2. PICK k \in Bad : \A j \in Bad : k <= j
    <3>1. Bad \in SUBSET Nat
      OBVIOUS
    <3>. QED BY <2>1, <3>1, LeastNumber
  <2>3. k \in 0 .. n /\ ~Keeps(k) /\ k # 0
    BY <1>11, <2>2
  <2>4. k - 1 \in 0 .. n /\ k \in 1 .. n /\ ~(k <= k - 1)
    BY <2>3
  <2>5. Keeps(k - 1)
    BY <2>2, <2>4
  <2>. QED BY <1>12, <2>3, <2>4, <2>5
<1>14. Keeps(n)
  <2>1. n \in 0 .. n
    OBVIOUS
  <2>. QED BY <1>13, <2>1
<1>. QED BY <1>1, <1>3, <1>14 DEF Keeps

(* A name that is told is in the chain afterwards, as certain as before or *)
(* What naming an address leaves: entries of other names as they were, and *)
(* an entry of the name that lives on and is no less certain than before.  *)
Confirms(chain, x, conf, r) ==
  /\ r \in Seq(NamedEntry)
  /\ \A i \in DOMAIN r :
       \/ r[i].name # x /\ \E j \in DOMAIN chain : r[i] = chain[j]
       \/ /\ r[i].name = x /\ r[i].until = clock + DnsTimeout
          /\ r[i].conf = conf \/ \E j \in DOMAIN chain : chain[j].name = x /\ chain[j].conf = r[i].conf
  /\ \A j \in DOMAIN chain :
       \E i \in DOMAIN r : r[i].name = chain[j].name /\ (chain[j].conf = Sni => r[i].conf = Sni)
  /\ \E i \in DOMAIN r : r[i].name = x /\ (conf = Sni => r[i].conf = Sni)

(* more, and every other entry stays what it was.                          *)
LEMMA AddCachedIs ==
  ASSUME NEW chain \in Seq(NamedEntry), NEW x \in Name, NEW conf \in {Dns, Sni},
         clock \in Nat
  PROVE  Confirms(chain, x, conf, AddCached(chain, x, conf))
<1>1. PICK n \in Nat : n = Len(chain) /\ DOMAIN chain = 1 .. n
  BY LenProperties
<1>2. \A i \in 1 .. n : chain[i] \in NamedEntry
  BY <1>1, ElementOfSeq
<1>3. clock + DnsTimeout \in Nat
  <2>1. DnsTimeout \in Nat
    BY DnsMapConstants
  <2>. QED BY <2>1
<1>4. PICK r : r = AddCached(chain, x, conf)
  OBVIOUS
<1> SUFFICES Confirms(chain, x, conf, r)
  BY <1>4
<1>5. CASE \E i \in 1 .. n : chain[i].name = x
  <2> DEFINE New(e) == [e EXCEPT !.until = clock + DnsTimeout, !.conf = IF conf > @ THEN conf ELSE @]
  <2>1. r = [i \in 1 .. n |-> IF chain[i].name = x THEN New(chain[i]) ELSE chain[i]]
    BY <1>1, <1>4, <1>5 DEF AddCached
  <2>2. ASSUME NEW e \in NamedEntry
        PROVE  /\ New(e) \in NamedEntry /\ New(e).name = e.name /\ New(e).until = clock + DnsTimeout
               /\ New(e).conf = conf \/ New(e).conf = e.conf
               /\ (conf = Sni \/ e.conf = Sni) => New(e).conf = Sni
    <3>1. /\ New(e).name = e.name /\ New(e).until = clock + DnsTimeout
          /\ New(e).conf = (IF conf > e.conf THEN conf ELSE e.conf)
      BY DEF NamedEntry
    <3>2. New(e).conf \in {Dns, Sni} /\ ((conf = Sni \/ e.conf = Sni) => New(e).conf = Sni)
      <4>1. e.conf \in {1, 2} /\ conf \in {1, 2}
        BY DEF NamedEntry, Dns, Sni
      <4>. QED BY <3>1, <4>1 DEF Dns, Sni
    <3>3. New(e) \in NamedEntry
      <4>1. PICK v \in Nat, w \in {Dns, Sni} :
              v = clock + DnsTimeout /\ w = IF conf > e.conf THEN conf ELSE e.conf
        BY <1>3, <3>1, <3>2
      <4>2. New(e) = [e EXCEPT !.until = v, !.conf = w]
        BY <4>1
      <4>. QED BY <4>2 DEF NamedEntry
    <3>. QED BY <3>1, <3>2, <3>3
  <2> HIDE DEF New
  <2>3. \A i \in 1 .. n : r[i] \in NamedEntry /\ r[i] = IF chain[i].name = x THEN New(chain[i]) ELSE chain[i]
    BY <1>2, <2>1, <2>2
  <2>4. r \in Seq(NamedEntry) /\ DOMAIN r = 1 .. n
    <3>1. r \in [1 .. n -> NamedEntry]
      BY <2>1, <2>3
    <3>. QED BY <3>1
  <2>5. ASSUME NEW i \in 1 .. n
        PROVE  /\ \/ r[i].name # x /\ \E j \in DOMAIN chain : r[i] = chain[j]
                  \/ /\ r[i].name = x /\ r[i].until = clock + DnsTimeout
                     /\ r[i].conf = conf \/ \E j \in DOMAIN chain : chain[j].name = x /\ chain[j].conf = r[i].conf
               /\ r[i].name = chain[i].name /\ (chain[i].conf = Sni => r[i].conf = Sni)
               /\ chain[i].name = x /\ conf = Sni => r[i].conf = Sni
    <3>1. CASE chain[i].name = x
      <4>1. r[i] = New(chain[i]) /\ chain[i] \in NamedEntry /\ i \in DOMAIN chain
        BY <1>1, <1>2, <2>3, <3>1
      <4>2. /\ r[i].name = x /\ r[i].until = clock + DnsTimeout
            /\ r[i].conf = conf \/ r[i].conf = chain[i].conf
            /\ (conf = Sni \/ chain[i].conf = Sni) => r[i].conf = Sni
        BY <2>2, <3>1, <4>1
      <4>. QED BY <3>1, <4>1, <4>2
    <3>2. CASE chain[i].name # x
      BY <1>1, <2>3, <3>2
    <3>. QED BY <3>1, <3>2
  <2>6. \E i \in 1 .. n : r[i].name = x /\ (conf = Sni => r[i].conf = Sni)
    BY <1>5, <2>5
  <2>. QED BY <1>1, <2>4, <2>5, <2>6 DEF Confirms
<1>6. CASE ~\E i \in 1 .. n : chain[i].name = x
  <2>1. PICK e : e = [name |-> x, until |-> clock + DnsTimeout, conf |-> conf]
    OBVIOUS
  <2>2. e \in NamedEntry /\ e.name = x /\ e.until = clock + DnsTimeout /\ e.conf = conf
    BY <1>3, <2>1 DEF NamedEntry
  <2>3. r = <<e>> \o chain
    BY <1>1, <1>4, <1>6, <2>1 DEF AddCached
  <2>4. <<e>> \in Seq(NamedEntry) /\ Len(<<e>>) = 1 /\ <<e>>[1] = e
    BY <2>2
  <2>5. /\ r \in Seq(NamedEntry) /\ Len(r) = 1 + n
        /\ \A i \in 1 .. (1 + n) : r[i] = IF i <= 1 THEN <<e>>[i] ELSE chain[i - 1]
    BY <1>1, <2>3, <2>4, ConcatProperties
  <2>6. DOMAIN r = 1 .. (1 + n)
    BY <2>5, LenProperties
  <2>7. 1 \in 1 .. (1 + n) /\ r[1] = e
    BY <2>4, <2>5
  <2>8. \A j \in 1 .. n : j + 1 \in 1 .. (1 + n) /\ r[j + 1] = chain[j]
    <3>1. ASSUME NEW j \in 1 .. n PROVE j + 1 \in 1 .. (1 + n) /\ ~(j + 1 <= 1) /\ (j + 1) - 1 = j
      OBVIOUS
    <3>. QED BY <2>5, <3>1
  <2>9. \A i \in 1 .. (1 + n) : i = 1 \/ \E j \in 1 .. n : i = j + 1
    <3>1. ASSUME NEW i \in 1 .. (1 + n), i # 1 PROVE i - 1 \in 1 .. n /\ i = (i - 1) + 1
      BY <3>1
    <3>. QED BY <3>1
  <2>10. ASSUME NEW i \in 1 .. (1 + n)
         PROVE  \/ r[i].name # x /\ \E j \in DOMAIN chain : r[i] = chain[j]
                \/ r[i].name = x /\ r[i].until = clock + DnsTimeout /\ r[i].conf = conf
    <3>1. CASE i = 1
      BY <2>2, <2>7, <3>1
    <3>2. ASSUME NEW j \in 1 .. n, i = j + 1 PROVE r[i] = chain[j] /\ chain[j].name # x
      BY <1>6, <2>8, <3>2
    <3>. QED BY <1>1, <2>9, <3>1, <3>2
  <2>11. \A j \in DOMAIN chain : \E i \in DOMAIN r : r[i] = chain[j]
    BY <1>1, <2>6, <2>8
  <2>12. r[1].name = x /\ (conf = Sni => r[1].conf = Sni) /\ 1 \in DOMAIN r
    BY <2>2, <2>6, <2>7
  <2>13. ASSUME NEW j \in DOMAIN chain
         PROVE  \E i \in DOMAIN r : r[i].name = chain[j].name /\ (chain[j].conf = Sni => r[i].conf = Sni)
    BY <2>11
  <2>14. ASSUME NEW i \in DOMAIN r
         PROVE  \/ r[i].name # x /\ \E j \in DOMAIN chain : r[i] = chain[j]
                \/ /\ r[i].name = x /\ r[i].until = clock + DnsTimeout
                   /\ r[i].conf = conf \/ \E j \in DOMAIN chain : chain[j].name = x /\ chain[j].conf = r[i].conf
    BY <2>6, <2>10
  <2>. QED BY <2>5, <2>12, <2>13, <2>14 DEF Confirms
<1>. QED BY <1>1, <1>5, <1>6

(* What a flow's host and its application may be.                          *)
Values(k) == IF k = "host" THEN Name ELSE App

(* The types of the state.                                                 *)
DnsTypes ==
  /\ cached \in [Ip -> Seq(NamedEntry)]
  /\ own \in [Kinds -> [Flow -> OwnEntry \cup {NoName}]]
  /\ count \in [Kinds -> Nat]
  /\ sniff \in Sniffing \cup {NoName}
  /\ row \in Row \cup {NoName}
  /\ sweep \subseteq Kinds /\ clock \in 0 .. MaxClock /\ told \in 0 .. MaxTold
  /\ said \in [Kinds -> [Flow -> Telling \cup {NoName}]]
  /\ heard \in [Ip -> [Name -> [at : Int, sni : Int]]]

(* The counters are the sizes of the caches.                               *)
Owners(k) == {f \in Flow : own[k][f] # NoName}
Counted == \A k \in Kinds : count[k] = Cardinality(Owners(k)) /\ count[k] <= HostMax

(* The entry that is being overwritten is the only torn one.               *)
Copying(k, f) == sniff # NoName /\ sniff.at = "copy" /\ sniff.kind = k /\ sniff.flow = f
Written ==
  /\ sniff # NoName => sniff.value \in Values(sniff.kind)
  /\ \A k \in Kinds, f \in Flow :
       /\ Copying(k, f) => own[k][f] # NoName /\ own[k][f].value = Torn
       /\ own[k][f] # NoName /\ ~Copying(k, f) => own[k][f].value \in Values(k)

(* What was told of a flow with room for it is there as long as it counts, *)
(* and what is there was told.                                             *)
Until(k, f) == IF Copying(k, f) THEN sniff.until ELSE own[k][f].until
OwnsKept ==
  \A k \in Kinds, f \in Flow :
    /\ own[k][f] # NoName =>
         /\ said[k][f] # NoName
         /\ own[k][f].until <= said[k][f].at + HostTimeout
         /\ Until(k, f) = said[k][f].at + HostTimeout
    /\ said[k][f] # NoName => said[k][f].at <= clock
    /\ said[k][f] # NoName /\ said[k][f].room /\ said[k][f].at + HostTimeout >= clock =>
         own[k][f] # NoName

(* An entry under an address lives as long as what was told last, and a    *)
(* host that a first record told of lately is there as such.               *)
Listed ==
  \A a \in Ip :
    /\ \A i \in DOMAIN cached[a] :
         LET e == cached[a][i] IN /\ e.until = heard[a][e.name].at + DnsTimeout
                                  /\ e.conf = Sni => heard[a][e.name].sni >= 0
    /\ \A x \in Name :
         /\ heard[a][x].sni <= heard[a][x].at /\ heard[a][x].at <= clock
         /\ heard[a][x].sni \in Nat \/ heard[a][x].sni = -DnsTimeout
         /\ heard[a][x].sni >= 0 /\ heard[a][x].sni + DnsTimeout > clock =>
              \E i \in DOMAIN cached[a] : cached[a][i].name = x /\ cached[a][i].conf = Sni

(* How far a row has come.                                                 *)
Sound(k) == /\ own[k][row.flow] # NoName /\ own[k][row.flow].value \in Values(k)
            /\ ~Copying(k, row.flow)
RowInv ==
  /\ sweep # {} => row = NoName
  /\ row # NoName =>
       /\ row.at = "host" => row.from = "none"
       /\ row.at = "ip" => row.from = "none"
       /\ row.at \in {"host", "ip"} \/ row.from # "own" => row.owed = NoName
       /\ row.from # "ip" => row.name = NoName
       /\ row.from = "ip" => row.name \in Name /\ row.name \in row.right
       /\ row.l7 => row.at = "store"
       /\ row.from = "own" /\ ~row.raced => Sound("host")
       /\ row.l7 /\ ~row.raced => Sound("app")
       /\ row.at = "store" /\ ~row.l7 /\ ~row.raced =>
            IF row.from = "none" THEN row.app = "Unknown" ELSE row.app = AppOf(maps, RowName)

StoredInv ==
  /\ \E file \in MapFiles : maps = Loaded(file)
  /\ stored # NoName /\ ~stored.raced =>
       /\ stored.name # Torn /\ stored.app # Torn
       /\ ~stored.l7 /\ stored.name \in Name => stored.app = AppOf(maps, stored.name)

(* The inductive invariant.                                                *)
DnsInv == /\ DnsTypes /\ Counted /\ Written /\ OwnsKept /\ Listed
          /\ RowInv /\ HeldNamesStay /\ StoredInv

(* The value for nothing is no record.                                     *)
LEMMA NoEntry ==
  /\ \A e \in OwnEntry : e # NoName
  /\ \A s \in Sniffing : s # NoName
  /\ \A r \in Row : r # NoName
  /\ \A s \in Telling : s # NoName
BY DnsMapConstants

(* The limits and timeouts are numbers.                                    *)
LEMMA DnsNumbers ==
  /\ HostMax \in Nat /\ HostMax > 0 /\ HostTimeout \in Nat /\ HostTimeout > 0
  /\ DnsTimeout \in Nat /\ DnsTimeout > 0 /\ MaxTold \in Nat /\ MaxClock \in Nat
<1>1. /\ HostMax \in Nat \ {0} /\ HostTimeout \in Nat \ {0}
      /\ DnsTimeout \in Nat \ {0} /\ MaxTold \in Nat /\ MaxClock \in Nat
  BY DnsMapConstants
<1>. QED BY <1>1

(* Some owners are freed, or a new one is added.                           *)
LEMMA OwnersLess ==
  ASSUME NEW k \in Kinds, NEW S \in SUBSET Owners(k)
  PROVE  /\ IsFiniteSet(Owners(k)) /\ Cardinality(Owners(k)) \in Nat
         /\ Cardinality(S) \in Nat /\ Cardinality(S) <= Cardinality(Owners(k))
         /\ Cardinality(Owners(k) \ S) = Cardinality(Owners(k)) - Cardinality(S)
<1>1. IsFiniteSet(Owners(k))
  <2>1. Owners(k) \subseteq Flow
    BY DEF Owners
  <2>. QED BY <2>1, FS_Subset, DnsMapConstants
<1>2. Cardinality(Owners(k)) \in Nat
  BY <1>1, FS_CardinalityType
<1>3. IsFiniteSet(S) /\ Cardinality(S) <= Cardinality(Owners(k)) /\ Owners(k) \cap S = S
  BY <1>1, FS_Subset
<1>4. Cardinality(S) \in Nat
  BY <1>3, FS_CardinalityType
<1>5. Cardinality(Owners(k) \ S) = Cardinality(Owners(k)) - Cardinality(Owners(k) \cap S)
  BY <1>1, FS_Difference
<1>. QED BY <1>1, <1>2, <1>3, <1>4, <1>5

(* It holds when the daemon starts.                                        *)
LEMMA DnsInitInv == DnsInit => DnsInv
<1> SUFFICES ASSUME DnsInit PROVE DnsInv
  OBVIOUS
<1>1. DnsTypes
  <2>1. 0 \in 0 .. MaxClock /\ 0 \in 0 .. MaxTold
    BY DnsNumbers
  <2>2. -DnsTimeout \in Int
    BY DnsNumbers
  <2>3. heard \in [Ip -> [Name -> [at : Int, sni : Int]]]
    BY <2>2 DEF DnsInit
  <2>. QED BY <2>1, <2>3 DEF DnsInit, DnsTypes
<1>2. Counted
  <2>1. \A k \in Kinds : Owners(k) = {}
    BY DEF DnsInit, Owners
  <2>2. \A k \in Kinds : count[k] = 0
    BY DEF DnsInit
  <2>3. Cardinality({}) = 0 /\ 0 <= HostMax
    BY FS_EmptySet, DnsNumbers
  <2>. QED BY <2>1, <2>2, <2>3 DEF Counted
<1>3. Written /\ OwnsKept
  BY DEF DnsInit, Written, OwnsKept, Copying
<1>4. Listed
  <2> SUFFICES ASSUME NEW a \in Ip, NEW x \in Name
               PROVE  heard[a][x].at = -DnsTimeout /\ heard[a][x].sni = -DnsTimeout
                      /\ heard[a][x].at <= clock
                      /\ ~(heard[a][x].sni >= 0) /\ DOMAIN cached[a] = {}
    BY DnsNumbers DEF Listed, DnsInit
  <2>. QED BY DnsNumbers DEF DnsInit
<1>5. RowInv /\ HeldNamesStay /\ StoredInv
  BY DEF DnsInit, RowInv, HeldNamesStay, StoredInv
<1>. QED BY <1>1, <1>2, <1>3, <1>4, <1>5 DEF DnsInv

(* The steps of the main thread that build a row leave the caches alone.   *)
LEMMA RowFrame ==
  ASSUME DnsInv, row' \in Row \cup {NoName},
         UNCHANGED <<cached, own, count, sniff, sweep, maps, clock, told, said, heard>>
  PROVE  DnsTypes' /\ Counted' /\ Written' /\ OwnsKept' /\ Listed'
<1>1. DnsTypes /\ Counted /\ Written /\ OwnsKept /\ Listed
  BY DEF DnsInv
<1>2. DnsTypes'
  BY <1>1 DEF DnsTypes
<1>3. Counted'
  BY <1>1 DEF Counted, Owners
<1>4. Written'
  BY <1>1 DEF Written, Copying
<1>5. OwnsKept'
  BY <1>1 DEF OwnsKept, Copying, Until
<1>6. Listed'
  BY <1>1 DEF Listed
<1>. QED BY <1>2, <1>3, <1>4, <1>5, <1>6

(* What a row is.                                                          *)
LEMMA RowIs ==
  ASSUME DnsTypes, row # NoName
  PROVE  /\ row \in Row /\ row.at \in {"host", "ip", "app", "store"} /\ row.flow \in Flow
         /\ row.from \in {"none", "own", "ip"} /\ row.ip \in Ip /\ row.name \in Name \cup {NoName}
         /\ row.l7 \in BOOLEAN /\ row.raced \in BOOLEAN
BY DEF DnsTypes, Row

(* A flow to the board itself is stored under its service.                 *)
LEMMA StoresLocalKeeps == ASSUME DnsInv, NEW f \in Flow, StoresLocal(f) PROVE DnsInv'
<1>1. row = NoName /\ row' = row /\ UNCHANGED <<cached, own, count, sniff, sweep, maps, clock, told, said, heard>>
  BY DEF StoresLocal
<1>2. stored'.name = "" /\ stored'.app = Service[f] /\ stored'.raced = FALSE /\ stored'.l7 = FALSE
  BY DEF StoresLocal
<1>3. Service[f] # Torn /\ "" # Torn /\ "" \notin Name
  <2>1. Service \in [Flow -> Mapped] /\ Torn \notin Name \cup AppName \cup {""} /\ "" \notin Name
    BY DnsMapConstants
  <2>. QED BY <2>1 DEF AppName
<1>4. StoredInv'
  <2>1. \E file \in MapFiles : maps' = Loaded(file)
    BY <1>1 DEF DnsInv, StoredInv
  <2>. QED BY <1>2, <1>3, <2>1 DEF StoredInv
<1>5. RowInv' /\ HeldNamesStay'
  BY <1>1 DEF RowInv, HeldNamesStay
<1>6. row' \in Row \cup {NoName}
  BY <1>1
<1>. QED BY <1>1, <1>4, <1>5, <1>6, RowFrame DEF DnsInv

(* flow_to_db_cb begins with a row.                                        *)
LEMMA BeginsKeeps == ASSUME DnsInv, NEW f \in Flow, Begins(f) PROVE DnsInv'
<1>1. /\ UNCHANGED <<cached, own, count, sniff, sweep, maps, clock, told, said, heard>>
      /\ stored' = NoName /\ sweep = {}
      /\ row' = [at |-> "host", flow |-> f, from |-> "none", ip |-> DstOf[f], name |-> NoName,
                 app |-> "Unknown", l7 |-> FALSE, raced |-> FALSE, owed |-> NoName, right |-> {}]
  BY DEF Begins
<1>2. DstOf[f] \in Ip
  BY DnsMapConstants
<1>3. row' \in Row
  BY <1>1, <1>2 DEF Row, AppName
<1>4. /\ row'.at = "host" /\ row'.from = "none" /\ row'.name = NoName /\ row'.l7 = FALSE /\ row'.owed = NoName
  BY <1>1
<1>5. RowInv' /\ HeldNamesStay'
  BY <1>1, <1>4 DEF RowInv, HeldNamesStay
<1>6. StoredInv'
  BY <1>1 DEF DnsInv, StoredInv
<1>. QED BY <1>1, <1>3, <1>5, <1>6, RowFrame DEF DnsInv

(* mapping_lookup_flow_host finds the own host of a connection when one    *)
(* is owed: OwnsKept says that it is there and not expired.                *)
LEMMA LooksHostKeeps == ASSUME DnsInv, LooksHost PROVE DnsInv'
<1> DEFINE f == row.flow
<1>1. /\ row # NoName /\ row.at = "host" /\ ~Writing("host")
      /\ UNCHANGED <<cached, own, count, sniff, stored, sweep, maps, clock, told, said, heard>>
  BY DEF LooksHost
<1>2. /\ DnsTypes /\ row \in Row /\ f \in Flow /\ row.from = "none" /\ sweep = {}
      /\ row.name = NoName /\ row.l7 = FALSE /\ "host" \in Kinds
  BY <1>1, RowIs DEF DnsInv, RowInv, Kinds
<1>3. PICK o : o = Owed("host", f)
  OBVIOUS
<1>4. ~Copying("host", f)
  BY <1>1 DEF Copying, Writing
<1>5. own["host"][f] \in OwnEntry \cup {NoName} /\ said["host"][f] \in Telling \cup {NoName}
  BY <1>2 DEF DnsTypes
<1>6. o \in Name \cup App \cup {NoName}
  BY <1>3, <1>5 DEF Owed, Telling
<1>7. ASSUME o # NoName PROVE Alive("host", f)
  <2>1. /\ said["host"][f] # NoName /\ said["host"][f].room /\ said["host"][f].at + HostTimeout > clock
    BY <1>3, <1>7 DEF Owed
  <2>2. said["host"][f].at \in Nat /\ clock \in Nat /\ HostTimeout \in Nat
    BY <1>2, <1>5, <2>1, DnsNumbers DEF Telling, DnsTypes
  <2>3. said["host"][f].at + HostTimeout >= clock
    BY <2>1, <2>2
  <2>4. own["host"][f] # NoName
    BY <1>2, <2>1, <2>3 DEF DnsInv, OwnsKept
  <2>5. Until("host", f) = said["host"][f].at + HostTimeout
    BY <1>2, <2>4 DEF DnsInv, OwnsKept
  <2>6. own["host"][f].until = said["host"][f].at + HostTimeout
    BY <1>4, <2>5 DEF Until
  <2>. QED BY <2>1, <2>4, <2>6 DEF Alive
<1>8. CASE Alive("host", f)
  <2>1. row' = [[row EXCEPT !.owed = o] EXCEPT !.at = "app", !.from = "own"]
    BY <1>3, <1>8 DEF LooksHost
  <2>2. /\ row' \in Row /\ row'.at = "app" /\ row'.from = "own" /\ row'.name = row.name
        /\ row'.l7 = row.l7 /\ row'.flow = f /\ row'.raced = row.raced
    BY <1>2, <1>6, <2>1 DEF Row
  <2>3. own["host"][f] # NoName /\ own["host"][f].value \in Values("host")
    BY <1>2, <1>4, <1>8 DEF Alive, DnsInv, Written
  <2>4. Sound("host")'
    BY <1>1, <1>4, <2>2, <2>3 DEF Sound, Copying
  <2>5. RowInv' /\ HeldNamesStay'
    BY <1>1, <1>2, <2>2, <2>4 DEF RowInv, HeldNamesStay
  <2>. QED BY <1>1, <2>2, <2>5, RowFrame DEF DnsInv, StoredInv
<1>9. CASE ~Alive("host", f)
  <2>1. row' = [[row EXCEPT !.owed = o] EXCEPT !.at = "ip"]
    BY <1>3, <1>9 DEF LooksHost
  <2>2. /\ row' \in Row /\ row'.at = "ip" /\ row'.from = "none" /\ row'.name = row.name
        /\ row'.l7 = row.l7 /\ row'.owed = o
    BY <1>2, <1>6, <2>1 DEF Row
  <2>3. o = NoName
    BY <1>7, <1>9
  <2>4. RowInv' /\ HeldNamesStay'
    BY <1>1, <1>2, <2>2, <2>3 DEF RowInv, HeldNamesStay
  <2>. QED BY <1>1, <2>2, <2>4, RowFrame DEF DnsInv, StoredInv
<1>. QED BY <1>8, <1>9

(* The best of the names that live is one the address was told lately, and *)
(* one a first record told if there is one.                                *)
LEMMA BestIsRight ==
  ASSUME DnsTypes, Listed, NEW a \in Ip, NEW i \in Best(cached[a])
  PROVE  i \in DOMAIN cached[a] /\ cached[a][i].name \in Name /\ cached[a][i].name \in Right(a)
<1>1. cached[a] \in Seq(NamedEntry)
  BY DEF DnsTypes
<1>2. PICK e \in NamedEntry : e = cached[a][i] /\ i \in DOMAIN cached[a]
  <2>1. i \in DOMAIN cached[a]
    BY DEF Best
  <2>. QED BY <1>1, <2>1, LenProperties, ElementOfSeq
<1>3. e.name \in Name /\ e.until \in Nat /\ e.conf \in {1, 2}
  BY DEF NamedEntry, Dns, Sni
<1>4. e.until > clock
  BY <1>2 DEF Best
<1>5. e.until = heard[a][e.name].at + DnsTimeout /\ (e.conf = Sni => heard[a][e.name].sni >= 0)
  BY <1>2 DEF Listed
<1>6. heard[a][e.name].at + DnsTimeout > clock
  BY <1>4, <1>5
<1>7. ASSUME NEW x \in Name, heard[a][x].sni + DnsTimeout > clock
      PROVE  e.conf = Sni
  <2>1. heard[a][x] \in [at : Int, sni : Int] /\ clock \in Nat
    BY DEF DnsTypes
  <2>2. heard[a][x].sni \in Int /\ heard[a][x].at \in Int /\ heard[a][x].sni <= heard[a][x].at
    BY <2>1 DEF Listed
  <2>3. heard[a][x].sni \in Nat \/ heard[a][x].sni = -DnsTimeout
    BY DEF Listed
  <2>4. heard[a][x].sni >= 0
    BY <1>7, <2>1, <2>2, <2>3, DnsNumbers
  <2>5. PICK j \in DOMAIN cached[a] : cached[a][j].name = x /\ cached[a][j].conf = Sni
    BY <1>7, <2>4 DEF Listed
  <2>6. cached[a][j].until = heard[a][x].at + DnsTimeout
    BY <2>5 DEF Listed
  <2>7. cached[a][j].until > clock
    BY <1>7, <2>1, <2>2, <2>6, DnsNumbers
  <2>8. \/ cached[a][j].conf < e.conf
        \/ cached[a][j].conf = e.conf
    BY <1>2, <2>5, <2>7 DEF Best
  <2>. QED BY <1>3, <2>5, <2>8 DEF Sni
<1>8. e.name \in Right(a)
  <2>1. (\E x \in Name : heard[a][x].sni + DnsTimeout > clock) => heard[a][e.name].sni >= 0
    BY <1>5, <1>7
  <2>. QED BY <1>3, <1>6, <2>1 DEF Right
<1>. QED BY <1>2, <1>3, <1>8

(* mapping_lookup_domain takes the best name of an address.                *)
LEMMA LooksIpKeeps == ASSUME DnsInv, LooksIp PROVE DnsInv'
<1>1. /\ row # NoName /\ row.at = "ip"
      /\ UNCHANGED <<cached, own, count, sniff, stored, sweep, maps, clock, told, said, heard>>
  BY DEF LooksIp
<1>2. /\ DnsTypes /\ Listed /\ row \in Row /\ row.flow \in Flow /\ row.from = "none" /\ sweep = {}
      /\ row.name = NoName /\ row.l7 = FALSE /\ row.ip \in Ip /\ row.owed = NoName
  BY <1>1, RowIs DEF DnsInv, RowInv
<1>3. PICK right \in SUBSET Name : right = Right(row.ip)
  BY DEF Right
<1>4. SrcOf[row.flow] \in Ip
  BY <1>2, DnsMapConstants
<1> DEFINE best == Best(cached[row.ip])
<1>5. CASE best # {}
  <2>1. PICK i \in best :
          row' = [[row EXCEPT !.right = right] EXCEPT !.at = "app", !.from = "ip", !.name = cached[row.ip][i].name]
    <3>1. row' = [[row EXCEPT !.right = right] EXCEPT !.at = "app", !.from = "ip",
                    !.name = cached[row.ip][CHOOSE i \in best : TRUE].name]
      BY <1>3, <1>5 DEF LooksIp
    <3>2. (CHOOSE i \in best : TRUE) \in best
      BY <1>5
    <3> HIDE DEF best
    <3>. QED BY <3>1, <3>2
  <2>2. PICK x \in Name : x = cached[row.ip][i].name /\ x \in right /\ i \in DOMAIN cached[row.ip]
    BY <1>2, <1>3, BestIsRight
  <2>3. /\ row' \in Row /\ row'.at = "app" /\ row'.from = "ip" /\ row'.name = x /\ row'.right = right
        /\ row'.l7 = FALSE /\ row'.owed = NoName /\ row'.ip = row.ip
    BY <1>2, <2>1, <2>2 DEF Row
  <2>4. RowInv'
    BY <1>1, <1>2, <2>2, <2>3 DEF RowInv
  <2>5. HeldNamesStay'
    BY <1>1, <2>2, <2>3 DEF HeldNamesStay
  <2>. QED BY <1>1, <2>3, <2>4, <2>5, RowFrame DEF DnsInv, StoredInv
<1>6. CASE best = {} /\ row.ip = SrcOf[row.flow]
  <2>1. row' = [[row EXCEPT !.right = right] EXCEPT !.at = "app"]
    BY <1>3, <1>6 DEF LooksIp
  <2>2. /\ row' \in Row /\ row'.at = "app" /\ row'.from = "none" /\ row'.name = NoName
        /\ row'.l7 = FALSE /\ row'.owed = NoName
    BY <1>2, <2>1 DEF Row
  <2>3. RowInv' /\ HeldNamesStay'
    BY <1>1, <1>2, <2>2 DEF RowInv, HeldNamesStay
  <2>. QED BY <1>1, <2>2, <2>3, RowFrame DEF DnsInv, StoredInv
<1>7. CASE best = {} /\ row.ip # SrcOf[row.flow]
  <2>1. row' = [[row EXCEPT !.right = right] EXCEPT !.ip = SrcOf[row.flow]]
    BY <1>3, <1>7 DEF LooksIp
  <2>2. /\ row' \in Row /\ row'.at = "ip" /\ row'.from = "none" /\ row'.name = NoName
        /\ row'.l7 = FALSE /\ row'.owed = NoName
    BY <1>1, <1>2, <1>4, <2>1 DEF Row
  <2>3. RowInv' /\ HeldNamesStay'
    BY <1>1, <1>2, <2>2 DEF RowInv, HeldNamesStay
  <2>. QED BY <1>1, <2>2, <2>3, RowFrame DEF DnsInv, StoredInv
<1>. QED BY <1>5, <1>6, <1>7

(* What a row's name is.                                                   *)
LEMMA RowNameIs ==
  ASSUME DnsInv, row # NoName, row.from # "none"
  PROVE  /\ RowName \in Name \cup App \cup {Torn}
         /\ ~row.raced => RowName \in Name
<1>1. /\ row.flow \in Flow /\ row.from \in {"own", "ip"} /\ "host" \in Kinds /\ row.raced \in BOOLEAN
  BY RowIs DEF DnsInv, Kinds
<1>2. CASE row.from = "ip"
  BY <1>2 DEF RowName, DnsInv, RowInv
<1>3. CASE row.from = "own"
  <2>1. RowName = IF own["host"][row.flow] = NoName THEN Torn ELSE own["host"][row.flow].value
    BY <1>3 DEF RowName, Shown
  <2>2. own["host"][row.flow] \in OwnEntry \cup {NoName}
    BY <1>1 DEF DnsInv, DnsTypes
  <2>3. ~row.raced => own["host"][row.flow] # NoName /\ own["host"][row.flow].value \in Name
    BY <1>3 DEF DnsInv, RowInv, Sound, Values
  <2>. QED BY <2>1, <2>2, <2>3 DEF OwnEntry
<1>. QED BY <1>1, <1>2, <1>3

(* The row's application: told of the connection, or that of its name.     *)
LEMMA LooksAppKeeps == ASSUME DnsInv, LooksApp PROVE DnsInv'
<1>1. /\ row # NoName /\ row.at = "app" /\ ~Writing("app")
      /\ UNCHANGED <<cached, own, count, sniff, stored, sweep, maps, clock, told, said, heard>>
  BY DEF LooksApp
<1>2. DnsTypes /\ row \in Row /\ row.flow \in Flow /\ sweep = {} /\ row.l7 = FALSE /\ "app" \in Kinds
  BY <1>1, RowIs DEF DnsInv, RowInv, Kinds
<1>3. PICK r : r = row'
  OBVIOUS
<1>4. /\ r \in Row /\ r.at = "store" /\ r.flow = row.flow /\ r.from = row.from /\ r.ip = row.ip
      /\ r.name = row.name /\ r.raced = row.raced /\ r.owed = row.owed /\ r.right = row.right
      /\ r.l7 <=> Alive("app", row.flow)
      /\ ~Alive("app", row.flow) => r.app = IF row.from = "none" THEN "Unknown" ELSE AppOf(maps, RowName)
  <2>1. CASE Alive("app", row.flow)
    <3>1. r = [row EXCEPT !.at = "store", !.l7 = TRUE]
      BY <1>3, <2>1 DEF LooksApp
    <3>. QED BY <1>2, <2>1, <3>1 DEF Row
  <2>2. CASE ~Alive("app", row.flow)
    <3>1. PICK v : v = IF row.from = "none" THEN "Unknown" ELSE AppOf(maps, RowName)
      OBVIOUS
    <3>2. r = [row EXCEPT !.at = "store", !.app = v]
      BY <1>3, <2>2, <3>1 DEF LooksApp
    <3>3. v \in AppName \cup {SecondLevel(n) : n \in Name \cup App \cup {Torn}}
      <4>1. CASE row.from = "none"
        BY <3>1, <4>1 DEF AppName
      <4>2. CASE row.from # "none"
        <5>1. PICK file \in MapFiles : maps = Loaded(file)
          BY DEF DnsInv, StoredInv
        <5>2. v \in AppName \cup {SecondLevel(RowName)}
          BY <3>1, <4>2, <5>1, AppOfAny
        <5>. QED BY <1>1, <4>2, <5>2, RowNameIs
      <4>. QED BY <4>1, <4>2
    <3>4. /\ r \in Row /\ r.at = "store" /\ r.flow = row.flow /\ r.from = row.from /\ r.ip = row.ip
          /\ r.name = row.name /\ r.raced = row.raced /\ r.owed = row.owed /\ r.right = row.right
          /\ r.l7 = FALSE /\ r.app = v
      BY <1>2, <3>2, <3>3 DEF Row
    <3>5. r.l7 <=> Alive("app", row.flow)
      BY <2>2, <3>4
    <3>. QED BY <2>2, <3>1, <3>4, <3>5
  <2>. QED BY <2>1, <2>2
<1>5. Shown("host")' = Shown("host")
  BY <1>1, <1>3, <1>4 DEF Shown
<1>6. RowName' = RowName
  BY <1>1, <1>3, <1>4, <1>5 DEF RowName
<1>7. Sound("host")' = Sound("host")
  BY <1>1, <1>3, <1>4 DEF Sound, Copying
<1>8. r.l7 => Sound("app")'
  <2> SUFFICES ASSUME Alive("app", row.flow) PROVE Sound("app")'
    BY <1>4
  <2>1. own["app"][row.flow] # NoName /\ ~Copying("app", row.flow)
    BY <1>1 DEF Alive, Copying, Writing
  <2>2. own["app"][row.flow].value \in Values("app")
    BY <1>2, <2>1 DEF DnsInv, Written
  <2>. QED BY <1>1, <1>3, <1>4, <2>1, <2>2 DEF Sound, Copying
<1>9. RowInv'
  <2>1. RowInv
    BY DEF DnsInv
  <2>2. sweep' # {} => row' = NoName
    BY <1>1, <1>2
  <2>3. /\ row'.at \in {"host", "ip"} \/ row'.from # "own" => row'.owed = NoName
        /\ row'.from # "ip" => row'.name = NoName
        /\ row'.from = "ip" => row'.name \in Name /\ row'.name \in row'.right
    BY <1>1, <1>3, <1>4, <2>1 DEF RowInv
  <2>4. row'.from = "own" /\ ~row'.raced => Sound("host")'
    BY <1>1, <1>3, <1>4, <1>7, <2>1 DEF RowInv
  <2>5. row'.at = "store" /\ ~row'.l7 /\ ~row'.raced =>
          IF row'.from = "none" THEN row'.app = "Unknown" ELSE row'.app = AppOf(maps', RowName')
    BY <1>1, <1>3, <1>4, <1>6
  <2>. QED BY <1>3, <1>4, <1>8, <2>2, <2>3, <2>4, <2>5 DEF RowInv
<1>10. HeldNamesStay'
  BY <1>1, <1>3, <1>4 DEF DnsInv, HeldNamesStay
<1>. QED BY <1>1, <1>3, <1>4, <1>9, <1>10, RowFrame DEF DnsInv, StoredInv

(* database_store_flow reads what the pointers show: they are not torn     *)
(* unless the row raced.                                                   *)
LEMMA StoresRowKeeps == ASSUME DnsInv, StoresRow PROVE DnsInv'
<1>1. /\ row # NoName /\ row.at = "store" /\ row' = NoName
      /\ UNCHANGED <<cached, own, count, sniff, sweep, maps, clock, told, said, heard>>
      /\ stored'.name = RowName /\ stored'.raced = row.raced /\ stored'.l7 = row.l7
      /\ stored'.app = IF row.l7 THEN Shown("app") ELSE row.app
  BY DEF StoresRow
<1>2. row.flow \in Flow /\ row.from \in {"none", "own", "ip"} /\ row.l7 \in BOOLEAN /\ RowInv
  BY <1>1, RowIs DEF DnsInv
<1>3. PICK file \in MapFiles : maps = Loaded(file)
  BY DEF DnsInv, StoredInv
<1>4. Torn \notin Name \cup AppName /\ NoName # Torn /\ NoName \notin Name /\ (\A n \in Name : Torn # SecondLevel(n))
  BY DnsMapConstants
<1>5. ASSUME ~row.raced
      PROVE  /\ RowName # Torn
             /\ (IF row.l7 THEN Shown("app") ELSE row.app) # Torn
             /\ ~row.l7 /\ RowName \in Name => row.app = AppOf(maps, RowName)
  <2>1. row.from # "none" => RowName \in Name
    BY <1>1, <1>5, RowNameIs
  <2>2. row.from = "none" => RowName = NoName
    BY <1>1, <1>2 DEF RowName, RowInv
  <2>3. row.l7 => Shown("app") \in App
    BY <1>1, <1>2, <1>5 DEF RowInv, Sound, Shown, Values
  <2>4. ~row.l7 => IF row.from = "none" THEN row.app = "Unknown" ELSE row.app = AppOf(maps, RowName)
    BY <1>1, <1>2, <1>5 DEF RowInv
  <2>5. row.from # "none" => AppOf(maps, RowName) \in AppName \cup {SecondLevel(RowName)}
    BY <1>3, AppOfAny
  <2>6. "Unknown" \in AppName /\ App \subseteq AppName
    BY DEF AppName
  <2>. QED BY <1>2, <1>4, <2>1, <2>2, <2>3, <2>4, <2>5, <2>6
<1>6. StoredInv'
  BY <1>1, <1>3, <1>5 DEF StoredInv
<1>7. RowInv' /\ HeldNamesStay'
  BY <1>1 DEF RowInv, HeldNamesStay
<1>8. row' \in Row \cup {NoName}
  BY <1>1
<1>. QED BY <1>1, <1>6, <1>7, <1>8, RowFrame DEF DnsInv

(* An address is named: what was told is noted with its entry.             *)
LEMMA NamedKeeps ==
  ASSUME DnsTypes, Listed, NEW a \in Ip, NEW x \in Name, NEW conf \in {Dns, Sni},
         IsNamed(a, x, conf), clock' = clock
  PROVE  /\ cached' \in [Ip -> Seq(NamedEntry)] /\ heard' \in [Ip -> [Name -> [at : Int, sni : Int]]]
         /\ Listed'
         /\ \A b \in Ip : \A i \in DOMAIN cached[b] :
              \E j \in DOMAIN cached'[b] : cached'[b][j].name = cached[b][i].name
<1>1. clock \in Nat /\ clock \in Int /\ cached[a] \in Seq(NamedEntry) /\ DnsTimeout \in Nat
  BY DnsNumbers DEF DnsTypes
<1>2. PICK r : r = AddCached(cached[a], x, conf)
  OBVIOUS
<1>3. /\ r \in Seq(NamedEntry)
      /\ \A i \in DOMAIN r :
           \/ r[i].name # x /\ \E j \in DOMAIN cached[a] : r[i] = cached[a][j]
           \/ /\ r[i].name = x /\ r[i].until = clock + DnsTimeout
              /\ r[i].conf = conf \/ \E j \in DOMAIN cached[a] : cached[a][j].name = x /\ cached[a][j].conf = r[i].conf
      /\ \A j \in DOMAIN cached[a] :
           \E i \in DOMAIN r : r[i].name = cached[a][j].name /\ (cached[a][j].conf = Sni => r[i].conf = Sni)
      /\ \E i \in DOMAIN r : r[i].name = x /\ (conf = Sni => r[i].conf = Sni)
  <2>1. PICK c \in Seq(NamedEntry) : c = cached[a]
    BY <1>1
  <2>2. Confirms(c, x, conf, AddCached(c, x, conf))
    BY <1>1, AddCachedIs
  <2>. QED BY ONLY <1>2, <2>1, <2>2 DEF Confirms
<1>4. cached' = [cached EXCEPT ![a] = r]
  BY <1>2 DEF IsNamed
<1>5. /\ cached' \in [Ip -> Seq(NamedEntry)] /\ cached'[a] = r
      /\ \A b \in Ip : b # a => cached'[b] = cached[b]
  BY <1>3, <1>4 DEF DnsTypes
<1> DEFINE h == heard[a][x]
           s == IF conf = Sni THEN clock ELSE h.sni
<1>6. \A b \in Ip, y \in Name : /\ heard[b][y] \in [at : Int, sni : Int]
                                /\ heard[b][y].sni \in Int /\ heard[b][y].at \in Int
  BY DEF DnsTypes
<1>7. PICK v \in [at : Int, sni : Int] : v = [at |-> clock, sni |-> s]
  BY <1>1, <1>6
<1>8. heard' = [heard EXCEPT ![a][x] = v]
  BY <1>7 DEF IsNamed
<1>9. /\ heard' \in [Ip -> [Name -> [at : Int, sni : Int]]]
      /\ heard'[a][x] = v
      /\ \A b \in Ip, y \in Name : b # a \/ y # x => heard'[b][y] = heard[b][y]
  BY <1>8 DEF DnsTypes
<1>10. v.at = clock /\ v.sni = s /\ s \in Int
  BY <1>1, <1>6, <1>7
<1> HIDE DEF s, h
<1>11. /\ conf = Sni => s = clock
       /\ conf # Sni => s = heard[a][x].sni
  BY DEF s, h
<1>12. \A b \in Ip, y \in Name :
         /\ heard[b][y].sni <= heard[b][y].at /\ heard[b][y].at <= clock
         /\ heard[b][y].sni \in Nat \/ heard[b][y].sni = -DnsTimeout
  BY DEF Listed
<1>13. ASSUME NEW i \in DOMAIN r
       PROVE  r[i].until = heard'[a][r[i].name].at + DnsTimeout /\ (r[i].conf = Sni => heard'[a][r[i].name].sni >= 0)
  <2>1. CASE r[i].name # x /\ \E j \in DOMAIN cached[a] : r[i] = cached[a][j]
    <3>1. PICK j \in DOMAIN cached[a] : r[i] = cached[a][j]
      BY <2>1
    <3>2. /\ r[i].until = heard[a][r[i].name].at + DnsTimeout
          /\ r[i].conf = Sni => heard[a][r[i].name].sni >= 0
      BY <3>1 DEF Listed
    <3>3. r[i].name \in Name
      <4>1. DOMAIN r = 1 .. Len(r)
        BY <1>3, LenProperties
      <4>2. r[i] \in NamedEntry
        BY <1>3, <4>1, ElementOfSeq
      <4>. QED BY <4>2 DEF NamedEntry
    <3>4. heard'[a][r[i].name] = heard[a][r[i].name]
      BY <1>9, <2>1, <3>3
    <3>. QED BY <3>2, <3>4
  <2>2. CASE /\ r[i].name = x /\ r[i].until = clock + DnsTimeout
             /\ r[i].conf = conf \/ \E j \in DOMAIN cached[a] : cached[a][j].name = x /\ cached[a][j].conf = r[i].conf
    <3>1. r[i].until = heard'[a][r[i].name].at + DnsTimeout
      BY <1>9, <1>10, <2>2
    <3>2. ASSUME r[i].conf = Sni PROVE s >= 0
      <4>1. CASE conf = Sni
        BY <1>1, <1>11, <4>1
      <4>2. CASE conf # Sni
        <5>1. PICK j \in DOMAIN cached[a] : cached[a][j].name = x /\ cached[a][j].conf = Sni
          BY <2>2, <3>2, <4>2
        <5>2. heard[a][x].sni >= 0
          BY <5>1 DEF Listed
        <5>. QED BY <1>11, <4>2, <5>2
      <4>. QED BY <4>1, <4>2
    <3>. QED BY <1>9, <1>10, <2>2, <3>1, <3>2
  <2>. QED BY <1>3, <2>1, <2>2
<1>14. ASSUME NEW y \in Name
       PROVE  /\ heard'[a][y].sni <= heard'[a][y].at /\ heard'[a][y].at <= clock
              /\ heard'[a][y].sni \in Nat \/ heard'[a][y].sni = -DnsTimeout
              /\ heard'[a][y].sni >= 0 /\ heard'[a][y].sni + DnsTimeout > clock =>
                   \E i \in DOMAIN r : r[i].name = y /\ r[i].conf = Sni
  <2>1. heard[a][y].sni >= 0 /\ heard[a][y].sni + DnsTimeout > clock =>
          \E i \in DOMAIN r : r[i].name = y /\ r[i].conf = Sni
    <3>1. SUFFICES ASSUME heard[a][y].sni >= 0 /\ heard[a][y].sni + DnsTimeout > clock
                   PROVE  \E i \in DOMAIN r : r[i].name = y /\ r[i].conf = Sni
      OBVIOUS
    <3>2. PICK j \in DOMAIN cached[a] : cached[a][j].name = y /\ cached[a][j].conf = Sni
      BY <3>1 DEF Listed
    <3>. QED BY <1>3, <3>2
  <2>2. CASE y # x
    BY <1>9, <1>12, <2>1, <2>2
  <2>3. CASE y = x
    <3>1. heard'[a][y].at = clock /\ heard'[a][y].sni = s
      BY <1>9, <1>10, <2>3
    <3>2. CASE conf = Sni
      <4>1. s = clock
        BY <1>11, <3>2
      <4>2. \E i \in DOMAIN r : r[i].name = y /\ r[i].conf = Sni
        BY <1>3, <2>3, <3>2
      <4>. QED BY <1>1, <3>1, <4>1, <4>2
    <3>3. CASE conf # Sni
      <4>1. s = heard[a][y].sni
        BY <1>11, <2>3, <3>3
      <4>2. /\ heard[a][x].sni <= heard[a][x].at /\ heard[a][x].at <= clock
            /\ heard[a][x].sni \in Int /\ heard[a][x].at \in Int
        BY <1>6, <1>12
      <4>3. heard[a][x].sni <= clock
        BY <1>1, <4>2
      <4>4. s \in Int /\ s <= clock
        BY <1>1, <1>10, <2>3, <4>1, <4>2, <4>3
      <4>5. s \in Nat \/ s = -DnsTimeout
        BY <1>12, <2>3, <4>1
      <4>6. s >= 0 /\ s + DnsTimeout > clock => \E i \in DOMAIN r : r[i].name = y /\ r[i].conf = Sni
        BY <2>1, <2>3, <4>1
      <4>. QED BY <1>1, <3>1, <4>4, <4>5, <4>6
    <3>. QED BY <3>2, <3>3
  <2>. QED BY <2>2, <2>3
<1>15. Listed'
  <2> SUFFICES ASSUME NEW b \in Ip
               PROVE  /\ \A i \in DOMAIN cached'[b] :
                           /\ cached'[b][i].until = heard'[b][cached'[b][i].name].at + DnsTimeout
                           /\ cached'[b][i].conf = Sni => heard'[b][cached'[b][i].name].sni >= 0
                      /\ \A y \in Name :
                           /\ heard'[b][y].sni <= heard'[b][y].at /\ heard'[b][y].at <= clock
                           /\ heard'[b][y].sni \in Nat \/ heard'[b][y].sni = -DnsTimeout
                           /\ heard'[b][y].sni >= 0 /\ heard'[b][y].sni + DnsTimeout > clock =>
                                \E i \in DOMAIN cached'[b] : cached'[b][i].name = y /\ cached'[b][i].conf = Sni
    BY DEF Listed
  <2>1. CASE b = a
    BY <1>5, <1>13, <1>14, <2>1
  <2>2. CASE b # a
    <3>1. cached'[b] = cached[b] /\ \A y \in Name : heard'[b][y] = heard[b][y]
      BY <1>5, <1>9, <2>2
    <3>2. \A i \in DOMAIN cached[b] : cached[b][i].name \in Name
      <4>1. cached[b] \in Seq(NamedEntry)
        BY DEF DnsTypes
      <4>2. DOMAIN cached[b] = 1 .. Len(cached[b])
        BY <4>1, LenProperties
      <4>3. \A i \in 1 .. Len(cached[b]) : cached[b][i] \in NamedEntry
        BY <4>1, ElementOfSeq
      <4>. QED BY <4>2, <4>3 DEF NamedEntry
    <3>. QED BY <3>1, <3>2 DEF Listed
  <2>. QED BY <2>1, <2>2
<1>16. ASSUME NEW b \in Ip, NEW i \in DOMAIN cached[b]
       PROVE  \E j \in DOMAIN cached'[b] : cached'[b][j].name = cached[b][i].name
  <2>1. CASE b = a
    <3>1. PICK j \in DOMAIN r : r[j].name = cached[a][i].name
      BY <1>3, <1>16, <2>1
    <3>. QED BY <1>5, <2>1, <3>1
  <2>2. CASE b # a
    BY <1>5, <1>16, <2>2
  <2>. QED BY <2>1, <2>2
<1>. QED BY <1>5, <1>9, <1>15, <1>16

(* The capture thread tells of an address, and begins with a flow.         *)
LEMMA CaptureKeeps == ASSUME DnsInv, Capture PROVE DnsInv'
<1>1. /\ sniff = NoName /\ told < MaxTold /\ told' = told + 1
      /\ UNCHANGED <<own, count, row, stored, sweep, maps, clock, said>>
  BY DEF Capture
<1>2. DnsTypes /\ Listed
  BY DEF DnsInv
<1> DEFINE Goal ==
             /\ cached' \in [Ip -> Seq(NamedEntry)] /\ heard' \in [Ip -> [Name -> [at : Int, sni : Int]]]
             /\ Listed'
             /\ \A b \in Ip : \A i \in DOMAIN cached[b] :
                  \E j \in DOMAIN cached'[b] : cached'[b][j].name = cached[b][i].name
             /\ sniff' = NoName \/ (sniff' \in Sniffing /\ sniff'.at = "own" /\ sniff'.value \in Values(sniff'.kind))
<1>3. Goal
  <2>1. ASSUME NEW a \in Ip, NEW x \in Name, SeesAnswer(a, x) PROVE Goal
    <3>1. IsNamed(a, x, Dns) /\ sniff' = NoName /\ Dns \in {Dns, Sni}
      BY <1>1, <2>1 DEF SeesAnswer
    <3>. QED BY <1>1, <1>2, <3>1, NamedKeeps
  <2>2. ASSUME NEW f \in Flow, NEW x \in Name, SeesHost(f, x) PROVE Goal
    <3>1. IsNamed(DstOf[f], x, Sni) /\ DstOf[f] \in Ip /\ Sni \in {Dns, Sni}
      BY <2>2, DnsMapConstants DEF SeesHost
    <3>2. sniff' = [at |-> "own", kind |-> "host", flow |-> f, value |-> x, until |-> 0]
      BY <2>2 DEF SeesHost, Says
    <3>3. sniff' \in Sniffing /\ sniff'.at = "own" /\ sniff'.value \in Values(sniff'.kind)
      BY <3>2 DEF Sniffing, Values, Kinds
    <3>. QED BY <1>1, <1>2, <3>1, <3>3, NamedKeeps
  <2>3. ASSUME NEW f \in Flow, NEW v \in App, SeesApp(f, v) PROVE Goal
    <3>1. cached' = cached /\ heard' = heard
          /\ sniff' = [at |-> "own", kind |-> "app", flow |-> f, value |-> v, until |-> 0]
      BY <2>3 DEF SeesApp, Says
    <3>2. sniff' \in Sniffing /\ sniff'.at = "own" /\ sniff'.value \in Values(sniff'.kind)
      BY <3>1 DEF Sniffing, Values, Kinds
    <3>3. Listed'
      BY <1>1, <1>2, <3>1 DEF Listed
    <3>4. cached' \in [Ip -> Seq(NamedEntry)] /\ heard' \in [Ip -> [Name -> [at : Int, sni : Int]]]
      BY <1>2, <3>1 DEF DnsTypes
    <3>. QED BY <3>1, <3>2, <3>3, <3>4
  <2>. QED BY <2>1, <2>2, <2>3 DEF Capture
<1>4. DnsTypes'
  <2>1. told' \in 0 .. MaxTold
    BY <1>1, <1>2, DnsNumbers DEF DnsTypes
  <2>. QED BY <1>1, <1>2, <1>3, <2>1 DEF DnsTypes
<1>5. \A k \in Kinds, f \in Flow : ~Copying(k, f) /\ ~Copying(k, f)'
  BY <1>1, <1>3 DEF Copying
<1>6. Counted'
  BY <1>1 DEF DnsInv, Counted, Owners
<1>7. Written'
  BY <1>1, <1>3, <1>5 DEF DnsInv, Written
<1>8. OwnsKept'
  BY <1>1, <1>5 DEF DnsInv, OwnsKept, Until
<1>9. RowInv'
  <2>1. row # NoName => row.flow \in Flow /\ "host" \in Kinds /\ "app" \in Kinds
    BY <1>2, RowIs DEF Kinds
  <2>2. row # NoName /\ Sound("host") => Sound("host")'
    BY <1>1, <1>5, <2>1 DEF Sound
  <2>3. row # NoName /\ Sound("app") => Sound("app")'
    BY <1>1, <1>5, <2>1 DEF Sound
  <2>4. RowName' = RowName
    BY <1>1 DEF RowName, Shown
  <2>. QED BY <1>1, <2>2, <2>3, <2>4 DEF DnsInv, RowInv
<1>10. HeldNamesStay'
  <2> SUFFICES ASSUME row # NoName, row.from = "ip"
               PROVE  \E j \in DOMAIN cached'[row.ip] : cached'[row.ip][j].name = row.name
    BY <1>1 DEF HeldNamesStay
  <2>1. row.ip \in Ip
    BY <1>2, RowIs
  <2>2. PICK i \in DOMAIN cached[row.ip] : cached[row.ip][i].name = row.name
    BY DEF DnsInv, HeldNamesStay
  <2>. QED BY <1>3, <2>1, <2>2
<1>11. StoredInv'
  BY <1>1 DEF DnsInv, StoredInv
<1>. QED BY <1>3, <1>4, <1>6, <1>7, <1>8, <1>9, <1>10, <1>11 DEF DnsInv

(* A row that read an entry which is written or freed is told so; of any   *)
(* other row the entries it read stay.                                     *)
LEMMA RowRaces ==
  ASSUME DnsInv, UNCHANGED <<cached, maps, stored, sweep>>,
         row' = row \/ (row # NoName /\ row' = [row EXCEPT !.raced = TRUE]),
         row # NoName /\ row' = row /\ row.from = "own" /\ ~row.raced =>
           own'["host"][row.flow] = own["host"][row.flow] /\ ~Copying("host", row.flow)',
         row # NoName /\ row' = row /\ row.l7 /\ ~row.raced =>
           own'["app"][row.flow] = own["app"][row.flow] /\ ~Copying("app", row.flow)'
  PROVE  row' \in Row \cup {NoName} /\ RowInv' /\ HeldNamesStay' /\ StoredInv'
<1>1. RowInv /\ HeldNamesStay /\ StoredInv /\ row \in Row \cup {NoName}
  BY DEF DnsInv, DnsTypes
<1>2. StoredInv'
  BY <1>1 DEF StoredInv
<1>3. CASE row' = row
  <2>1. row # NoName /\ row.from = "own" /\ ~row.raced => Sound("host")'
    BY <1>1, <1>3 DEF RowInv, Sound
  <2>2. row # NoName /\ row.l7 /\ ~row.raced => Sound("app")'
    BY <1>1, <1>3 DEF RowInv, Sound
  <2>3. row # NoName /\ ~row.raced => RowName' = RowName
    BY <1>1, <1>3 DEF RowName, Shown
  <2>4. RowInv'
    BY <1>1, <1>3, <2>1, <2>2, <2>3 DEF RowInv
  <2>5. HeldNamesStay'
    BY <1>1, <1>3 DEF HeldNamesStay
  <2>. QED BY <1>1, <1>2, <1>3, <2>4, <2>5
<1>4. CASE row # NoName /\ row' = [row EXCEPT !.raced = TRUE]
  <2>1. row \in Row
    BY <1>1, <1>4
  <2>2. /\ row' \in Row /\ row'.raced = TRUE /\ row'.at = row.at /\ row'.from = row.from /\ row'.l7 = row.l7
        /\ row'.owed = row.owed /\ row'.name = row.name /\ row'.right = row.right /\ row'.ip = row.ip
    BY <1>4, <2>1 DEF Row
  <2>3. RowInv'
    BY <1>1, <1>4, <2>2 DEF RowInv
  <2>4. HeldNamesStay'
    BY <1>1, <1>4, <2>2 DEF HeldNamesStay
  <2>. QED BY <1>2, <2>2, <2>3, <2>4
<1>. QED BY <1>3, <1>4

(* What is left of a cache when entries are freed.                         *)
LEMMA WithoutIs ==
  ASSUME DnsTypes, NEW k \in Kinds, NEW S
  PROVE  /\ Without(k, S) \in [Kinds -> [Flow -> OwnEntry \cup {NoName}]]
         /\ \A g \in Flow : Without(k, S)[k][g] = IF g \in S THEN NoName ELSE own[k][g]
         /\ \A j \in Kinds : j # k => Without(k, S)[j] = own[j]
<1>1. own \in [Kinds -> [Flow -> OwnEntry \cup {NoName}]]
  BY DEF DnsTypes
<1>2. PICK t : t = [f \in Flow |-> IF f \in S THEN NoName ELSE own[k][f]]
  OBVIOUS
<1>3. t \in [Flow -> OwnEntry \cup {NoName}]
  BY <1>1, <1>2
<1>4. Without(k, S) = [own EXCEPT ![k] = t]
  BY <1>2 DEF Without
<1>. QED BY <1>1, <1>2, <1>3, <1>4

(* An entry that counts is not expired.                                    *)
LEMMA CountsIsAlive ==
  ASSUME DnsTypes, OwnsKept, NEW k \in Kinds, NEW g \in Flow, own[k][g] # NoName, ~Copying(k, g)
  PROVE  g \in Expired(k) <=> ~(said[k][g].at + HostTimeout >= clock)
<1>1. said[k][g] # NoName /\ Until(k, g) = said[k][g].at + HostTimeout
  BY DEF OwnsKept
<1>2. own[k][g].until = said[k][g].at + HostTimeout
  BY <1>1 DEF Until
<1>3. said[k][g] \in Telling
  BY <1>1 DEF DnsTypes
<1>4. said[k][g].at \in Nat /\ clock \in Nat /\ HostTimeout \in Nat
  BY <1>3, DnsNumbers DEF DnsTypes, Telling
<1>5. own[k][g].until < clock <=> ~(said[k][g].at + HostTimeout >= clock)
  BY <1>2, <1>4
<1>. QED BY <1>5 DEF Expired

(* The capture thread copies the value into an entry it overwrites.        *)
LEMMA CopiesKeeps == ASSUME DnsInv, Copies PROVE DnsInv'
<1>1. /\ sniff # NoName /\ sniff.at = "copy" /\ sniff' = NoName
      /\ UNCHANGED <<cached, count, row, stored, sweep, maps, clock, told, said, heard>>
  BY DEF Copies
<1>2. DnsTypes /\ Counted /\ Written /\ OwnsKept /\ Listed /\ RowInv
  BY DEF DnsInv
<1>3. PICK k \in Kinds, f \in Flow : k = sniff.kind /\ f = sniff.flow
  BY <1>1, <1>2 DEF DnsTypes, Sniffing
<1>4. PICK v \in Values(k), u \in Nat : v = sniff.value /\ u = sniff.until
  <2>1. sniff.value \in Values(k)
    BY <1>1, <1>2, <1>3 DEF Written
  <2>2. sniff.until \in Nat
    BY <1>1, <1>2 DEF DnsTypes, Sniffing
  <2>. QED BY <2>1, <2>2
<1>5. PICK e : e = [value |-> v, until |-> u]
  OBVIOUS
<1>6. e \in OwnEntry /\ e # NoName /\ e.value = v /\ e.until = u
  <2>1. v \in Name \cup App \cup {Torn}
    BY DEF Values
  <2>2. e \in OwnEntry
    BY <1>5, <2>1 DEF OwnEntry
  <2>. QED BY <1>5, <2>2, NoEntry
<1>7. own' = [own EXCEPT ![k][f] = e]
  BY <1>3, <1>4, <1>5 DEF Copies
<1>8. /\ own' \in [Kinds -> [Flow -> OwnEntry \cup {NoName}]] /\ own'[k][f] = e
      /\ \A j \in Kinds, g \in Flow : j # k \/ g # f => own'[j][g] = own[j][g]
  BY <1>2, <1>6, <1>7 DEF DnsTypes
<1>9. Copying(k, f) /\ \A j \in Kinds, g \in Flow : j # k \/ g # f => ~Copying(j, g)
  BY <1>1, <1>3 DEF Copying
<1>10. \A j \in Kinds, g \in Flow : ~Copying(j, g)'
  BY <1>1 DEF Copying
<1>11. own[k][f] # NoName
  BY <1>2, <1>9 DEF Written
<1>12. Counted'
  <2>1. \A j \in Kinds, g \in Flow : own'[j][g] # NoName <=> own[j][g] # NoName
    BY <1>6, <1>8, <1>11
  <2>2. \A j \in Kinds : Owners(j)' = Owners(j)
    BY <2>1 DEF Owners
  <2>. QED BY <1>1, <1>2, <2>2 DEF Counted
<1>13. Written'
  <2>1. ASSUME NEW j \in Kinds, NEW g \in Flow, own'[j][g] # NoName
        PROVE  own'[j][g].value \in Values(j)
    <3>1. CASE j = k /\ g = f
      BY <1>6, <1>8, <3>1
    <3>2. CASE j # k \/ g # f
      BY <1>2, <1>8, <1>9, <2>1, <3>2 DEF Written
    <3>. QED BY <3>1, <3>2
  <2>. QED BY <1>1, <1>10, <2>1 DEF Written
<1>14. OwnsKept'
  <2> SUFFICES ASSUME NEW j \in Kinds, NEW g \in Flow
               PROVE  /\ own'[j][g] # NoName =>
                           /\ said[j][g] # NoName
                           /\ own'[j][g].until <= said[j][g].at + HostTimeout
                           /\ own'[j][g].until = said[j][g].at + HostTimeout
                      /\ said[j][g] # NoName => said[j][g].at <= clock
                      /\ said[j][g] # NoName /\ said[j][g].room /\ said[j][g].at + HostTimeout >= clock =>
                           own'[j][g] # NoName
    BY <1>1, <1>10 DEF OwnsKept, Until
  <2>1. CASE j = k /\ g = f
    <3>1. said[k][f] # NoName /\ u = said[k][f].at + HostTimeout /\ said[k][f].at <= clock
      BY <1>2, <1>4, <1>9, <1>11 DEF OwnsKept, Until
    <3>2. u <= u
      OBVIOUS
    <3>. QED BY <1>6, <1>8, <2>1, <3>1, <3>2
  <2>2. CASE j # k \/ g # f
    <3>1. own'[j][g] = own[j][g] /\ ~Copying(j, g)
      BY <1>8, <1>9, <2>2
    <3>. QED BY <1>2, <3>1 DEF OwnsKept, Until
  <2>. QED BY <2>1, <2>2
<1>15. Listed'
  BY <1>1, <1>2 DEF Listed
<1>16. RowInv' /\ HeldNamesStay' /\ StoredInv' /\ row' \in Row \cup {NoName}
  <2>1. row # NoName => row.flow \in Flow /\ "host" \in Kinds /\ "app" \in Kinds
    BY <1>2, RowIs DEF Kinds
  <2>2. row # NoName /\ row.from = "own" /\ ~row.raced => own'["host"][row.flow] = own["host"][row.flow]
    BY <1>2, <1>8, <1>9, <2>1 DEF RowInv, Sound
  <2>3. row # NoName /\ row.l7 /\ ~row.raced => own'["app"][row.flow] = own["app"][row.flow]
    BY <1>2, <1>8, <1>9, <2>1 DEF RowInv, Sound
  <2>. QED BY <1>1, <1>10, <2>1, <2>2, <2>3, RowRaces
<1>17. DnsTypes'
  BY <1>1, <1>2, <1>8, <1>16 DEF DnsTypes
<1>. QED BY <1>12, <1>13, <1>14, <1>15, <1>16, <1>17 DEF DnsInv

(* There is no room when a full cache has nothing more to free.            *)
LEMMA FullIsFull ==
  ASSUME DnsInv, NEW k \in Kinds, NEW f \in Flow, own[k][f] = NoName, \A g \in Flow : ~Copying(k, g),
         count[k] - Cardinality(MakesRoom(k)) >= HostMax
  PROVE  ~Room(k, f)
<1>1. DnsTypes /\ Counted /\ OwnsKept
  BY DEF DnsInv
<1>2. Expired(k) \in SUBSET Owners(k)
  BY DEF Expired, Owners
<1>3. count[k] = Cardinality(Owners(k)) /\ count[k] <= HostMax /\ count[k] \in Nat
  BY <1>1 DEF Counted, DnsTypes
<1>4. {} \in SUBSET Owners(k) /\ Cardinality({}) = 0
  BY FS_EmptySet
<1>5. MakesRoom(k) \in SUBSET Owners(k)
  BY <1>2, <1>4 DEF MakesRoom
<1>6. Cardinality(MakesRoom(k)) \in Nat
  BY <1>5, OwnersLess
<1>7. count[k] >= HostMax
  BY <1>3, <1>6, DnsNumbers
<1>8. MakesRoom(k) = Expired(k)
  BY <1>7 DEF MakesRoom
<1> DEFINE left  == Owners(k) \ Expired(k)
           lately == {g \in Flow \ {f} : said[k][g] # NoName /\ said[k][g].at + HostTimeout >= clock}
<1>9. Cardinality(left) >= HostMax
  <2>1. Cardinality(left) = Cardinality(Owners(k)) - Cardinality(Expired(k))
    BY <1>2, OwnersLess
  <2>. QED BY <1>3, <1>8, <2>1
<1>10. left \subseteq lately
  <2> SUFFICES ASSUME NEW g \in left PROVE g \in lately
    OBVIOUS
  <2>1. g \in Flow /\ own[k][g] # NoName /\ g \notin Expired(k) /\ g # f
    BY DEF Owners
  <2>2. said[k][g].at + HostTimeout >= clock
    BY <1>1, <2>1, CountsIsAlive
  <2>3. said[k][g] # NoName
    BY <1>1, <2>1 DEF OwnsKept
  <2>. QED BY <2>1, <2>2, <2>3
<1>11. IsFiniteSet(lately)
  <2>1. lately \subseteq Flow
    OBVIOUS
  <2>. QED BY <2>1, FS_Subset, DnsMapConstants
<1>12. Cardinality(left) <= Cardinality(lately) /\ Cardinality(lately) \in Nat
  BY <1>10, <1>11, FS_Subset, FS_CardinalityType
<1>13. Cardinality(left) \in Nat
  BY <1>10, <1>11, FS_Subset, FS_CardinalityType
<1> HIDE DEF left
<1>14. ~(Cardinality(lately) < HostMax)
  BY <1>9, <1>12, <1>13, DnsNumbers
<1>. QED BY <1>14 DEF Room

(* The capture thread adds an entry, or begins to overwrite one.           *)
LEMMA AddsKeeps == ASSUME DnsInv, Adds PROVE DnsInv'
<1>1. /\ sniff # NoName /\ sniff.at = "own"
      /\ UNCHANGED <<cached, stored, sweep, maps, clock, told, heard>>
  BY DEF Adds
<1>2. DnsTypes /\ Counted /\ Written /\ OwnsKept /\ Listed /\ RowInv /\ sniff \in Sniffing
  BY <1>1 DEF DnsInv, DnsTypes
<1>3. PICK k \in Kinds, f \in Flow : k = sniff.kind /\ f = sniff.flow
  BY <1>2 DEF Sniffing
<1>4. PICK v \in Values(k) : v = sniff.value
  BY <1>1, <1>2, <1>3 DEF Written
<1>5. v \in Name \cup App
  BY DEF Values
<1>6. PICK n \in Nat : n = clock + HostTimeout /\ clock \in Nat /\ HostTimeout \in Nat
  BY <1>2, DnsNumbers DEF DnsTypes
<1>7. \A j \in Kinds, g \in Flow : ~Copying(j, g)
  BY <1>1 DEF Copying
<1>8. PICK s : s = [value |-> v, at |-> clock, room |-> Room(k, f)]
  OBVIOUS
<1>9. s \in Telling /\ s # NoName /\ s.at = clock /\ (s.room <=> Room(k, f))
  <2>1. Room(k, f) \in BOOLEAN
    BY DEF Room
  <2>2. s \in Telling /\ s.at = clock /\ s.room = Room(k, f)
    BY <1>5, <1>6, <1>8, <2>1 DEF Telling
  <2>. QED BY <2>2, NoEntry
<1>10. said' = [said EXCEPT ![k][f] = s]
  BY <1>3, <1>4, <1>8 DEF Adds
<1>11. /\ said' \in [Kinds -> [Flow -> Telling \cup {NoName}]] /\ said'[k][f] = s
       /\ \A j \in Kinds, g \in Flow : j # k \/ g # f => said'[j][g] = said[j][g]
  BY <1>2, <1>9, <1>10 DEF DnsTypes
<1>12. Listed'
  BY <1>1, <1>2 DEF Listed
<1>13. CASE own[k][f] # NoName /\ Overwrites(k, f)
  <2>1. /\ own' = [own EXCEPT ![k][f].value = Torn] /\ count' = count
        /\ sniff' = [sniff EXCEPT !.at = "copy", !.until = n]
        /\ row' = IF Holds(k, f) THEN [row EXCEPT !.raced = TRUE] ELSE row
    BY <1>6, <1>13 DEF Overwrites
  <2>2. own[k][f] \in OwnEntry
    BY <1>2, <1>13 DEF DnsTypes
  <2>3. PICK e \in OwnEntry : e = [own[k][f] EXCEPT !.value = Torn]
    BY <2>2 DEF OwnEntry
  <2>4. e.value = Torn /\ e.until = own[k][f].until /\ e # NoName
    BY <2>2, <2>3, NoEntry DEF OwnEntry
  <2>5. own' = [own EXCEPT ![k][f] = e]
    BY <2>1, <2>3
  <2>6. /\ own' \in [Kinds -> [Flow -> OwnEntry \cup {NoName}]] /\ own'[k][f] = e
        /\ \A j \in Kinds, g \in Flow : j # k \/ g # f => own'[j][g] = own[j][g]
    BY <1>2, <2>5 DEF DnsTypes
  <2>7. /\ sniff' \in Sniffing /\ sniff' # NoName /\ sniff'.at = "copy" /\ sniff'.until = n
        /\ sniff'.kind = k /\ sniff'.flow = f /\ sniff'.value = v
    <3>1. /\ sniff' \in Sniffing /\ sniff'.at = "copy" /\ sniff'.until = n
          /\ sniff'.kind = k /\ sniff'.flow = f /\ sniff'.value = v
      BY <1>2, <1>3, <1>4, <2>1 DEF Sniffing
    <3>. QED BY <3>1, NoEntry
  <2>8. \A j \in Kinds, g \in Flow : Copying(j, g)' <=> (j = k /\ g = f)
    BY <2>7 DEF Copying
  <2>9. Counted'
    <3>1. \A j \in Kinds, g \in Flow : own'[j][g] # NoName <=> own[j][g] # NoName
      BY <1>13, <2>4, <2>6
    <3>2. \A j \in Kinds : Owners(j)' = Owners(j)
      BY <3>1 DEF Owners
    <3>. QED BY <1>2, <2>1, <3>2 DEF Counted
  <2>10. Written'
    <3>1. ASSUME NEW j \in Kinds, NEW g \in Flow
          PROVE  /\ Copying(j, g)' => own'[j][g] # NoName /\ own'[j][g].value = Torn
                 /\ own'[j][g] # NoName /\ ~Copying(j, g)' => own'[j][g].value \in Values(j)
      <4>1. CASE j = k /\ g = f
        BY <2>4, <2>6, <2>8, <4>1
      <4>2. CASE j # k \/ g # f
        BY <1>2, <1>7, <2>6, <2>8, <4>2 DEF Written
      <4>. QED BY <4>1, <4>2
    <3>. QED BY <2>7, <3>1 DEF Written
  <2>11. OwnsKept'
    <3> SUFFICES ASSUME NEW j \in Kinds, NEW g \in Flow
                 PROVE  /\ own'[j][g] # NoName =>
                             /\ said'[j][g] # NoName
                             /\ own'[j][g].until <= said'[j][g].at + HostTimeout
                             /\ Until(j, g)' = said'[j][g].at + HostTimeout
                        /\ said'[j][g] # NoName => said'[j][g].at <= clock
                        /\ said'[j][g] # NoName /\ said'[j][g].room /\ said'[j][g].at + HostTimeout >= clock =>
                             own'[j][g] # NoName
      BY <1>1 DEF OwnsKept
    <3>1. CASE j = k /\ g = f
      <4>1. Until(k, f)' = n
        BY <2>7, <2>8 DEF Until
      <4>2. /\ own[k][f].until <= said[k][f].at + HostTimeout
            /\ said[k][f] # NoName /\ said[k][f].at <= clock
        BY <1>2, <1>13 DEF OwnsKept
      <4>3. said[k][f].at \in Nat /\ own[k][f].until \in Nat
        BY <1>2, <2>2, <4>2 DEF DnsTypes, Telling, OwnEntry
      <4>4. own[k][f].until <= n
        BY <1>6, <4>2, <4>3
      <4>5. clock <= clock /\ s.at + HostTimeout = n
        BY <1>6, <1>9
      <4>. QED BY <1>9, <1>11, <2>4, <2>6, <3>1, <4>1, <4>4, <4>5
    <3>2. CASE j # k \/ g # f
      <4>1. own'[j][g] = own[j][g] /\ said'[j][g] = said[j][g] /\ Until(j, g)' = own[j][g].until
            /\ Until(j, g) = own[j][g].until
        BY <1>7, <1>11, <2>6, <2>8, <3>2 DEF Until
      <4>. QED BY <1>2, <4>1 DEF OwnsKept
    <3>. QED BY <3>1, <3>2
  <2>12. RowInv' /\ HeldNamesStay' /\ StoredInv' /\ row' \in Row \cup {NoName}
    <3>1. row # NoName => row.flow \in Flow /\ "host" \in Kinds /\ "app" \in Kinds /\ row.raced \in BOOLEAN
      BY <1>2, RowIs DEF Kinds
    <3>2. row # NoName /\ row' = row /\ ~row.raced => ~Holds(k, f)
      <4>1. SUFFICES ASSUME row # NoName, ~row.raced, Holds(k, f) PROVE row' # row
        OBVIOUS
      <4>2. row \in Row /\ row' = [row EXCEPT !.raced = TRUE]
        BY <1>2, <2>1, <4>1, RowIs
      <4>3. row'.raced = TRUE
        BY <4>2 DEF Row
      <4>. QED BY <4>1, <4>3
    <3>3. row # NoName /\ row' = row /\ row.from = "own" /\ ~row.raced => k # "host" \/ row.flow # f
      BY <3>2 DEF Holds
    <3>4. row # NoName /\ row' = row /\ row.l7 /\ ~row.raced => k # "app" \/ row.flow # f
      BY <3>2 DEF Holds
    <3>5. row # NoName /\ row' = row /\ row.from = "own" /\ ~row.raced =>
            own'["host"][row.flow] = own["host"][row.flow] /\ ~Copying("host", row.flow)'
      BY <2>6, <2>8, <3>1, <3>3
    <3>6. row # NoName /\ row' = row /\ row.l7 /\ ~row.raced =>
            own'["app"][row.flow] = own["app"][row.flow] /\ ~Copying("app", row.flow)'
      BY <2>6, <2>8, <3>1, <3>4
    <3>7. row' = row \/ (row # NoName /\ row' = [row EXCEPT !.raced = TRUE])
      BY <2>1 DEF Holds
    <3>. QED BY <1>1, <3>5, <3>6, <3>7, RowRaces
  <2>13. DnsTypes'
    BY <1>1, <1>2, <1>11, <2>1, <2>6, <2>7, <2>12 DEF DnsTypes
  <2>. QED BY <1>12, <2>9, <2>10, <2>11, <2>12, <2>13 DEF DnsInv
<1>14. CASE own[k][f] = NoName
  <2>1. PICK S : S = MakesRoom(k)
    OBVIOUS
  <2>2. PICK isFull \in BOOLEAN : isFull <=> count[k] - Cardinality(S) >= HostMax
    OBVIOUS
  <2>3. PICK e : e = [value |-> v, until |-> n]
    OBVIOUS
  <2>4. PICK w : w = Without(k, S)
    OBVIOUS
  <2>5. /\ own' = IF isFull THEN w ELSE [w EXCEPT ![k][f] = e]
        /\ count' = [count EXCEPT ![k] = count[k] - Cardinality(S) + IF isFull THEN 0 ELSE 1]
        /\ row' = Freed(k, S) /\ sniff' = NoName
    BY <1>3, <1>4, <1>6, <1>14, <2>1, <2>2, <2>3, <2>4 DEF Adds
  <2>6. S \in SUBSET Owners(k)
    <3>1. Expired(k) \in SUBSET Owners(k)
      BY DEF Expired, Owners
    <3>. QED BY <2>1, <3>1 DEF MakesRoom
  <2>7. e \in OwnEntry /\ e # NoName /\ e.value = v /\ e.until = n
    <3>1. e \in OwnEntry /\ e.value = v /\ e.until = n
      BY <1>5, <2>3 DEF OwnEntry
    <3>. QED BY <3>1, NoEntry
  <2>8. /\ w \in [Kinds -> [Flow -> OwnEntry \cup {NoName}]]
        /\ \A g \in Flow : w[k][g] = IF g \in S THEN NoName ELSE own[k][g]
        /\ \A j \in Kinds : j # k => w[j] = own[j]
    BY <1>2, <2>4, WithoutIs
  <2>9. own' \in [Kinds -> [Flow -> OwnEntry \cup {NoName}]]
    BY <2>5, <2>7, <2>8
  <2>10. /\ \A g \in Flow : g \in S => own'[k][g] = NoName
         /\ \A g \in Flow : g \notin S /\ g # f => own'[k][g] = own[k][g]
         /\ own'[k][f] = IF isFull THEN NoName ELSE e
         /\ \A j \in Kinds, g \in Flow : j # k => own'[j][g] = own[j][g]
    <3>1. f \notin S
      BY <1>14, <2>6 DEF Owners
    <3>2. CASE isFull
      BY <1>14, <2>5, <2>8, <3>1, <3>2
    <3>3. CASE ~isFull
      <4>1. own' = [w EXCEPT ![k][f] = e]
        BY <2>5, <3>3
      <4>2. /\ own'[k][f] = e /\ \A g \in Flow : g # f => own'[k][g] = w[k][g]
            /\ \A j \in Kinds : j # k => own'[j] = w[j]
        BY <2>8, <4>1
      <4>. QED BY <2>8, <3>1, <3>3, <4>2
    <3>. QED BY <3>2, <3>3
  <2>11. \A j \in Kinds, g \in Flow : ~Copying(j, g)'
    BY <2>5 DEF Copying
  <2>12. Counted' /\ count' \in [Kinds -> Nat]
    <3>1. PICK m \in Nat, c \in Nat, o \in Nat :
            m = Cardinality(S) /\ c = count[k] /\ o = Cardinality(Owners(k) \ S)
      <4>1. count[k] \in Nat /\ Cardinality(S) \in Nat
        BY <1>2, <2>6, OwnersLess DEF DnsTypes
      <4>2. IsFiniteSet(Owners(k) \ S)
        BY <2>6, OwnersLess, FS_Subset
      <4>. QED BY <4>1, <4>2, FS_CardinalityType
    <3>2. c = Cardinality(Owners(k)) /\ c <= HostMax /\ o = c - m
      BY <1>2, <2>6, <3>1, OwnersLess DEF Counted
    <3>3. Owners(k)' = IF isFull THEN Owners(k) \ S ELSE (Owners(k) \ S) \cup {f}
      <4>1. \A g \in Flow : own'[k][g] # NoName <=>
              IF g = f THEN ~isFull ELSE g \notin S /\ own[k][g] # NoName
        BY <2>7, <2>10
      <4>2. f \notin Owners(k)
        BY <1>14 DEF Owners
      <4>. QED BY <4>1, <4>2 DEF Owners
    <3>4. Cardinality((Owners(k) \ S) \cup {f}) = o + 1
      <4>1. IsFiniteSet(Owners(k) \ S) /\ f \notin Owners(k) \ S
        <5>1. IsFiniteSet(Owners(k))
          BY <2>6, OwnersLess
        <5>. QED BY <1>14, <5>1, FS_Subset DEF Owners
      <4>. QED BY <3>1, <4>1, FS_AddElement
    <3>5. count'[k] = c - m + (IF isFull THEN 0 ELSE 1) /\ \A j \in Kinds : j # k => count'[j] = count[j]
      BY <1>2, <2>5, <3>1 DEF DnsTypes
    <3>6. count'[k] = Cardinality(Owners(k)') /\ count'[k] <= HostMax /\ count'[k] \in Nat
      <4>1. CASE isFull
        <5>1. count'[k] = o
          BY <3>2, <3>5, <4>1
        <5>2. Owners(k)' = Owners(k) \ S
          BY <3>3, <4>1
        <5>3. o <= HostMax
          BY <3>1, <3>2, DnsNumbers
        <5>. QED BY <3>1, <5>1, <5>2, <5>3
      <4>2. CASE ~isFull
        <5>1. count'[k] = o + 1
          BY <3>2, <3>5, <4>2
        <5>2. Owners(k)' = (Owners(k) \ S) \cup {f}
          BY <3>3, <4>2
        <5>3. o + 1 <= HostMax
          <6>1. ~(c - m >= HostMax)
            BY <2>2, <3>1, <4>2
          <6>. QED BY <3>2, <6>1, DnsNumbers
        <5>. QED BY <3>4, <5>1, <5>2, <5>3
      <4>. QED BY <4>1, <4>2
    <3>7. \A j \in Kinds : j # k => Owners(j)' = Owners(j)
      BY <2>10 DEF Owners
    <3>8. Counted'
      BY <1>2, <3>5, <3>6, <3>7 DEF Counted
    <3>9. count' \in [Kinds -> Nat]
      <4>1. \A j \in Kinds : count'[j] \in Nat
        BY <1>2, <3>5, <3>6 DEF DnsTypes
      <4>2. PICK c2 : c2 = c - m + (IF isFull THEN 0 ELSE 1)
        OBVIOUS
      <4>3. count' = [count EXCEPT ![k] = c2]
        BY <2>5, <3>1, <4>2
      <4>. QED BY <1>2, <4>1, <4>3 DEF DnsTypes
    <3>. QED BY <3>8, <3>9
  <2>13. Written'
    <3>1. ASSUME NEW j \in Kinds, NEW g \in Flow, own'[j][g] # NoName
          PROVE  own'[j][g].value \in Values(j)
      <4>1. CASE j = k /\ g = f
        BY <2>7, <2>10, <3>1, <4>1
      <4>2. CASE j # k \/ g # f
        <5>1. own'[j][g] = own[j][g]
          BY <2>10, <3>1, <4>2
        <5>. QED BY <1>2, <1>7, <3>1, <5>1 DEF Written
      <4>. QED BY <4>1, <4>2
    <3>. QED BY <2>5, <2>11, <3>1 DEF Written
  <2>14. OwnsKept'
    <3> SUFFICES ASSUME NEW j \in Kinds, NEW g \in Flow
                 PROVE  /\ own'[j][g] # NoName =>
                             /\ said'[j][g] # NoName
                             /\ own'[j][g].until <= said'[j][g].at + HostTimeout
                             /\ own'[j][g].until = said'[j][g].at + HostTimeout
                        /\ said'[j][g] # NoName => said'[j][g].at <= clock
                        /\ said'[j][g] # NoName /\ said'[j][g].room /\ said'[j][g].at + HostTimeout >= clock =>
                             own'[j][g] # NoName
      BY <1>1, <2>11 DEF OwnsKept, Until
    <3>1. CASE j = k /\ g = f
      <4>1. isFull => ~Room(k, f)
        <5>1. SUFFICES ASSUME isFull PROVE ~Room(k, f)
          OBVIOUS
        <5>2. count[k] - Cardinality(MakesRoom(k)) >= HostMax
          BY <2>1, <2>2, <5>1
        <5>. QED BY <1>7, <1>14, <5>2, FullIsFull
      <4>2. clock <= clock /\ s.at + HostTimeout = n /\ n <= n
        BY <1>6, <1>9
      <4>. QED BY <1>9, <1>11, <2>7, <2>10, <3>1, <4>1, <4>2
    <3>2. CASE j # k \/ g # f
      <4>1. said'[j][g] = said[j][g] /\ ~Copying(j, g) /\ Until(j, g) = own[j][g].until
        BY <1>7, <1>11, <3>2 DEF Until
      <4>2. own'[j][g] # NoName => own'[j][g] = own[j][g]
        BY <2>10, <3>2
      <4>3. own'[j][g] = NoName => own[j][g] = NoName \/ (j = k /\ g \in S)
        BY <2>10, <3>2
      <4>4. ASSUME j = k, g \in S PROVE ~(said[j][g].at + HostTimeout >= clock)
        <5>1. g \in Expired(k) /\ own[k][g] # NoName
          BY <2>1, <2>6, <4>4 DEF MakesRoom, Owners
        <5>. QED BY <1>2, <1>7, <4>4, <5>1, CountsIsAlive
      <4>5. /\ own[j][g] # NoName => /\ said[j][g] # NoName
                                    /\ own[j][g].until <= said[j][g].at + HostTimeout
                                    /\ own[j][g].until = said[j][g].at + HostTimeout
            /\ said[j][g] # NoName => said[j][g].at <= clock
            /\ said[j][g] # NoName /\ said[j][g].room /\ said[j][g].at + HostTimeout >= clock =>
                 own[j][g] # NoName
        BY <1>2, <4>1 DEF OwnsKept
      <4>. QED BY <4>1, <4>2, <4>3, <4>4, <4>5
    <3>. QED BY <3>1, <3>2
  <2>15. RowInv' /\ HeldNamesStay' /\ StoredInv' /\ row' \in Row \cup {NoName}
    <3>1. row # NoName => row.flow \in Flow /\ "host" \in Kinds /\ "app" \in Kinds /\ row.raced \in BOOLEAN
      BY <1>2, RowIs DEF Kinds
    <3>2. row # NoName /\ row' = row /\ ~row.raced => \A g \in S : ~Holds(k, g)
      <4>1. SUFFICES ASSUME row # NoName, ~row.raced, NEW g \in S, Holds(k, g) PROVE row' # row
        OBVIOUS
      <4>2. row \in Row /\ row' = [row EXCEPT !.raced = TRUE]
        BY <1>2, <2>5, <4>1, RowIs DEF Freed
      <4>3. row'.raced = TRUE
        BY <4>2 DEF Row
      <4>. QED BY <4>1, <4>3
    <3>3. row # NoName /\ row' = row /\ row.from = "own" /\ ~row.raced =>
            own'["host"][row.flow] = own["host"][row.flow]
      <4>1. SUFFICES ASSUME row # NoName, row' = row, row.from = "own", ~row.raced
                     PROVE  own'["host"][row.flow] = own["host"][row.flow]
        OBVIOUS
      <4>2. own["host"][row.flow] # NoName
        BY <1>2, <4>1 DEF RowInv, Sound
      <4>3. k = "host" => row.flow # f /\ row.flow \notin S
        BY <1>14, <3>2, <4>1, <4>2 DEF Holds
      <4>. QED BY <2>10, <3>1, <4>1, <4>3
    <3>4. row # NoName /\ row' = row /\ row.l7 /\ ~row.raced =>
            own'["app"][row.flow] = own["app"][row.flow]
      <4>1. SUFFICES ASSUME row # NoName, row' = row, row.l7, ~row.raced
                     PROVE  own'["app"][row.flow] = own["app"][row.flow]
        OBVIOUS
      <4>2. own["app"][row.flow] # NoName
        BY <1>2, <4>1 DEF RowInv, Sound
      <4>3. k = "app" => row.flow # f /\ row.flow \notin S
        BY <1>14, <3>2, <4>1, <4>2 DEF Holds
      <4>. QED BY <2>10, <3>1, <4>1, <4>3
    <3>5. row' = row \/ (row # NoName /\ row' = [row EXCEPT !.raced = TRUE])
      BY <2>5 DEF Freed, Holds
    <3>. QED BY <1>1, <2>11, <3>1, <3>3, <3>4, <3>5, RowRaces
  <2>16. DnsTypes'
    BY <1>1, <1>2, <1>11, <2>5, <2>9, <2>12, <2>15 DEF DnsTypes
  <2>. QED BY <1>12, <2>12, <2>13, <2>14, <2>15, <2>16 DEF DnsInv
<1>. QED BY <1>3, <1>13, <1>14 DEF Adds

(* The main thread drops the names that are expired, when it has no row.   *)
LEMMA SweepBeginsKeeps == ASSUME DnsInv, SweepBegins PROVE DnsInv'
<1>1. /\ row = NoName /\ row' = row
      /\ cached' = [a \in Ip |-> Unexpired(cached[a])] /\ sweep' = Kinds
      /\ UNCHANGED <<own, count, sniff, stored, maps, clock, told, said, heard>>
  BY DEF SweepBegins
<1>2. DnsTypes /\ Counted /\ Written /\ OwnsKept /\ Listed
  BY DEF DnsInv
<1>3. clock \in Nat
  BY <1>2, DnsNumbers DEF DnsTypes
<1>4. ASSUME NEW a \in Ip
      PROVE  /\ cached'[a] \in Seq(NamedEntry)
             /\ \A i \in DOMAIN cached'[a] : \E j \in DOMAIN cached[a] : cached'[a][i] = cached[a][j]
             /\ \A j \in DOMAIN cached[a] : cached[a][j].until >= clock =>
                  \E i \in DOMAIN cached'[a] : cached'[a][i] = cached[a][j]
  <2>1. PICK chain \in Seq(NamedEntry) : chain = cached[a]
    BY <1>2 DEF DnsTypes
  <2>2. cached'[a] = Unexpired(chain)
    BY <1>1, <2>1
  <2>3. /\ Unexpired(chain) \in Seq(NamedEntry)
        /\ \A i \in DOMAIN Unexpired(chain) : \E j \in DOMAIN chain : Unexpired(chain)[i] = chain[j]
        /\ \A j \in DOMAIN chain : chain[j].until >= clock =>
             \E i \in DOMAIN Unexpired(chain) : Unexpired(chain)[i] = chain[j]
    BY <1>3, UnexpiredIs
  <2>. QED BY ONLY <2>1, <2>2, <2>3
<1>5. cached' \in [Ip -> Seq(NamedEntry)]
  BY <1>1, <1>4
<1>6. DnsTypes'
  BY <1>1, <1>2, <1>5 DEF DnsTypes
<1>7. Counted' /\ Written' /\ OwnsKept'
  BY <1>1, <1>2 DEF Counted, Owners, Written, Copying, OwnsKept, Until
<1>8. Listed'
  <2>1. ASSUME NEW a \in Ip, NEW i \in DOMAIN cached'[a]
        PROVE  /\ cached'[a][i].until = heard[a][cached'[a][i].name].at + DnsTimeout
               /\ cached'[a][i].conf = Sni => heard[a][cached'[a][i].name].sni >= 0
    <3>1. PICK j \in DOMAIN cached[a] : cached'[a][i] = cached[a][j]
      BY <1>4, <2>1
    <3>. QED BY <1>2, <3>1 DEF Listed
  <2>2. ASSUME NEW a \in Ip, NEW x \in Name, heard[a][x].sni >= 0, heard[a][x].sni + DnsTimeout > clock
        PROVE  \E i \in DOMAIN cached'[a] : cached'[a][i].name = x /\ cached'[a][i].conf = Sni
    <3>1. PICK j \in DOMAIN cached[a] : cached[a][j].name = x /\ cached[a][j].conf = Sni
      BY <1>2, <2>2 DEF Listed
    <3>2. cached[a][j].until = heard[a][x].at + DnsTimeout
      BY <1>2, <3>1 DEF Listed
    <3>3. heard[a][x] \in [at : Int, sni : Int] /\ heard[a][x].sni <= heard[a][x].at
      BY <1>2 DEF DnsTypes, Listed
    <3>4. heard[a][x].sni \in Int /\ heard[a][x].at \in Int
      BY <3>3
    <3>5. cached[a][j].until >= clock
      BY <1>3, <2>2, <3>2, <3>3, <3>4, DnsNumbers
    <3>. QED BY <1>4, <3>1, <3>5
  <2>3. ASSUME NEW a \in Ip, NEW x \in Name
        PROVE  /\ heard[a][x].sni <= heard[a][x].at /\ heard[a][x].at <= clock
               /\ heard[a][x].sni \in Nat \/ heard[a][x].sni = -DnsTimeout
    BY <1>2 DEF Listed
  <2>4. heard' = heard /\ clock' = clock
    BY <1>1
  <2> SUFFICES ASSUME NEW a \in Ip
               PROVE  /\ \A i \in DOMAIN cached'[a] :
                           /\ cached'[a][i].until = heard'[a][cached'[a][i].name].at + DnsTimeout
                           /\ cached'[a][i].conf = Sni => heard'[a][cached'[a][i].name].sni >= 0
                      /\ \A x \in Name :
                           /\ heard'[a][x].sni <= heard'[a][x].at /\ heard'[a][x].at <= clock'
                           /\ heard'[a][x].sni \in Nat \/ heard'[a][x].sni = -DnsTimeout
                           /\ heard'[a][x].sni >= 0 /\ heard'[a][x].sni + DnsTimeout > clock' =>
                                \E i \in DOMAIN cached'[a] : cached'[a][i].name = x /\ cached'[a][i].conf = Sni
    BY DEF Listed
  <2>. QED BY <2>1, <2>2, <2>3, <2>4
<1>9. RowInv' /\ HeldNamesStay' /\ StoredInv'
  BY <1>1 DEF DnsInv, RowInv, HeldNamesStay, StoredInv
<1>. QED BY <1>6, <1>7, <1>8, <1>9 DEF DnsInv

(* It frees what is expired in a cache by connection; it has no row then.  *)
LEMMA SweepsKeeps == ASSUME DnsInv, NEW k \in Kinds, Sweeps(k) PROVE DnsInv'
<1>1. /\ sweep # {} /\ ~Writing(k) /\ own' = Without(k, Expired(k))
      /\ count' = [count EXCEPT ![k] = count[k] - Cardinality(Expired(k))] /\ sweep' = sweep \ {k}
      /\ UNCHANGED <<cached, sniff, row, stored, maps, clock, told, said, heard>>
  BY DEF Sweeps
<1>2. DnsTypes /\ Counted /\ Written /\ OwnsKept /\ Listed /\ RowInv
  BY DEF DnsInv
<1>3. row = NoName
  BY <1>1, <1>2 DEF RowInv
<1>4. PICK S : S = Expired(k)
  OBVIOUS
<1>5. S \in SUBSET Owners(k)
  BY <1>4 DEF Expired, Owners
<1>6. \A g \in Flow : ~Copying(k, g)
  BY <1>1 DEF Writing, Copying
<1>7. /\ own' \in [Kinds -> [Flow -> OwnEntry \cup {NoName}]]
      /\ \A g \in Flow : own'[k][g] = IF g \in S THEN NoName ELSE own[k][g]
      /\ \A j \in Kinds : j # k => own'[j] = own[j]
  <2>1. own' = Without(k, S)
    BY <1>1, <1>4
  <2>. QED BY <1>2, <2>1, WithoutIs
<1>8. \A j \in Kinds, g \in Flow : Copying(j, g)' <=> Copying(j, g)
  BY <1>1 DEF Copying
<1>9. Counted' /\ count' \in [Kinds -> Nat]
  <2>1. PICK m \in Nat, c \in Nat, o \in Nat :
          m = Cardinality(S) /\ c = count[k] /\ o = Cardinality(Owners(k) \ S)
    <3>1. count[k] \in Nat /\ Cardinality(S) \in Nat
      BY <1>2, <1>5, OwnersLess DEF DnsTypes
    <3>2. IsFiniteSet(Owners(k) \ S)
      BY <1>5, OwnersLess, FS_Subset
    <3>. QED BY <3>1, <3>2, FS_CardinalityType
  <2>2. c = Cardinality(Owners(k)) /\ c <= HostMax /\ o = c - m
    BY <1>2, <1>5, <2>1, OwnersLess DEF Counted
  <2>3. Owners(k)' = Owners(k) \ S
    BY <1>7 DEF Owners
  <2>4. count' = [count EXCEPT ![k] = o]
    BY <1>1, <1>4, <2>1, <2>2
  <2>5. count'[k] = o /\ (\A j \in Kinds : j # k => count'[j] = count[j]) /\ count' \in [Kinds -> Nat]
    BY <1>2, <2>4 DEF DnsTypes
  <2>6. o <= HostMax
    BY <2>1, <2>2, DnsNumbers
  <2>7. \A j \in Kinds : j # k => Owners(j)' = Owners(j)
    BY <1>7 DEF Owners
  <2>. QED BY <1>2, <2>1, <2>3, <2>5, <2>6, <2>7 DEF Counted
<1>10. Written'
  <2> SUFFICES ASSUME NEW j \in Kinds, NEW g \in Flow
               PROVE  /\ Copying(j, g) => own'[j][g] # NoName /\ own'[j][g].value = Torn
                      /\ own'[j][g] # NoName /\ ~Copying(j, g) => own'[j][g].value \in Values(j)
    BY <1>1, <1>2, <1>8 DEF Written
  <2>1. CASE j = k
    BY <1>2, <1>6, <1>7, <2>1 DEF Written
  <2>2. CASE j # k
    BY <1>2, <1>7, <2>2 DEF Written
  <2>. QED BY <2>1, <2>2
<1>11. OwnsKept'
  <2> SUFFICES ASSUME NEW j \in Kinds, NEW g \in Flow
               PROVE  /\ own'[j][g] # NoName =>
                           /\ said[j][g] # NoName
                           /\ own'[j][g].until <= said[j][g].at + HostTimeout
                           /\ (IF Copying(j, g) THEN sniff.until ELSE own'[j][g].until) = said[j][g].at + HostTimeout
                      /\ said[j][g] # NoName => said[j][g].at <= clock
                      /\ said[j][g] # NoName /\ said[j][g].room /\ said[j][g].at + HostTimeout >= clock =>
                           own'[j][g] # NoName
    BY <1>1, <1>8 DEF OwnsKept, Until
  <2>1. /\ own[j][g] # NoName => /\ said[j][g] # NoName
                                 /\ own[j][g].until <= said[j][g].at + HostTimeout
                                 /\ (IF Copying(j, g) THEN sniff.until ELSE own[j][g].until) = said[j][g].at + HostTimeout
        /\ said[j][g] # NoName => said[j][g].at <= clock
        /\ said[j][g] # NoName /\ said[j][g].room /\ said[j][g].at + HostTimeout >= clock =>
             own[j][g] # NoName
    BY <1>2 DEF OwnsKept, Until
  <2>2. own'[j][g] = own[j][g] \/ (own'[j][g] = NoName /\ j = k /\ g \in S)
    BY <1>7
  <2>3. ASSUME j = k, g \in S PROVE ~(said[j][g].at + HostTimeout >= clock)
    <3>1. g \in Expired(k) /\ own[k][g] # NoName
      BY <1>4, <1>5, <2>3 DEF Owners
    <3>. QED BY <1>2, <1>6, <2>3, <3>1, CountsIsAlive
  <2>. QED BY <2>1, <2>2, <2>3
<1>12. Listed'
  BY <1>1, <1>2 DEF Listed
<1>13. RowInv' /\ HeldNamesStay' /\ StoredInv'
  BY <1>1, <1>3 DEF DnsInv, RowInv, HeldNamesStay, StoredInv
<1>14. DnsTypes'
  BY <1>1, <1>2, <1>7, <1>9 DEF DnsTypes
<1>. QED BY <1>9, <1>10, <1>11, <1>12, <1>13, <1>14 DEF DnsInv

(* Time passes: what was told counts no longer than before.                *)
LEMMA ClockTicksKeeps == ASSUME DnsInv, ClockTicks PROVE DnsInv'
<1>1. /\ clock < MaxClock /\ clock' = clock + 1
      /\ UNCHANGED <<cached, own, count, sniff, row, stored, sweep, maps, told, said, heard>>
  BY DEF ClockTicks
<1>2. DnsTypes /\ Counted /\ Written /\ OwnsKept /\ Listed
  BY DEF DnsInv
<1>3. clock \in Nat /\ clock' \in Nat /\ clock' \in 0 .. MaxClock
  BY <1>1, <1>2, DnsNumbers DEF DnsTypes
<1>4. DnsTypes'
  BY <1>1, <1>2, <1>3 DEF DnsTypes
<1>5. Counted' /\ Written'
  BY <1>1, <1>2 DEF Counted, Owners, Written, Copying
<1>6. \A x \in Int : (x <= clock => x <= clock') /\ (x >= clock' => x >= clock) /\ (x > clock' => x > clock)
  BY <1>1, <1>3
<1>7. OwnsKept'
  <2> SUFFICES ASSUME NEW j \in Kinds, NEW g \in Flow
               PROVE  /\ said[j][g] # NoName => said[j][g].at <= clock'
                      /\ said[j][g] # NoName /\ said[j][g].at + HostTimeout >= clock' =>
                           said[j][g].at + HostTimeout >= clock
    BY <1>1, <1>2 DEF OwnsKept, Copying, Until
  <2>1. said[j][g] # NoName => said[j][g].at \in Int /\ said[j][g].at + HostTimeout \in Int /\ said[j][g].at <= clock
    BY <1>2, DnsNumbers DEF DnsTypes, Telling, OwnsKept
  <2>. QED BY <1>6, <2>1
<1>8. Listed'
  <2> SUFFICES ASSUME NEW a \in Ip, NEW x \in Name
               PROVE  /\ heard[a][x].at <= clock'
                      /\ heard[a][x].sni + DnsTimeout > clock' => heard[a][x].sni + DnsTimeout > clock
    BY <1>1, <1>2 DEF Listed
  <2>1. heard[a][x] \in [at : Int, sni : Int] /\ heard[a][x].at <= clock
    BY <1>2 DEF DnsTypes, Listed
  <2>2. heard[a][x].at \in Int /\ heard[a][x].sni + DnsTimeout \in Int
    BY <2>1, DnsNumbers
  <2>. QED BY <1>6, <2>1, <2>2
<1>9. RowInv'
  <2>1. row # NoName => RowName' = RowName
    BY <1>1 DEF RowName, Shown
  <2>2. row # NoName => (Sound("host") => Sound("host")') /\ (Sound("app") => Sound("app")')
    BY <1>1 DEF Sound, Copying
  <2>. QED BY <1>1, <2>1, <2>2 DEF DnsInv, RowInv
<1>10. HeldNamesStay' /\ StoredInv'
  BY <1>1 DEF DnsInv, HeldNamesStay, StoredInv
<1>. QED BY <1>4, <1>5, <1>7, <1>8, <1>9, <1>10 DEF DnsInv

(* A step that changes nothing keeps it.                                   *)
LEMMA DnsInvStutters == ASSUME DnsInv, UNCHANGED dnsVars PROVE DnsInv'
<1>1. UNCHANGED <<cached, own, count, sniff, row, stored, sweep, maps, clock, told, said, heard>>
  BY DEF dnsVars
<1>2. DnsTypes' /\ Counted' /\ Written' /\ OwnsKept' /\ Listed'
  <2>1. row' \in Row \cup {NoName}
    BY <1>1 DEF DnsInv, DnsTypes
  <2>. QED BY <1>1, <2>1, RowFrame
<1>3. RowInv'
  <2>1. row # NoName => RowName' = RowName
    BY <1>1 DEF RowName, Shown
  <2>2. row # NoName => (Sound("host") => Sound("host")') /\ (Sound("app") => Sound("app")')
    BY <1>1 DEF Sound, Copying
  <2>. QED BY <1>1, <2>1, <2>2 DEF DnsInv, RowInv
<1>4. HeldNamesStay' /\ StoredInv'
  BY <1>1 DEF DnsInv, HeldNamesStay, StoredInv
<1>. QED BY <1>2, <1>3, <1>4 DEF DnsInv

(* Every step of the two threads keeps it.                                 *)
LEMMA DnsInvInductive == ASSUME DnsInv, [DnsNext]_dnsVars PROVE DnsInv'
<1>1. CASE Capture
  BY <1>1, CaptureKeeps
<1>2. CASE Adds
  BY <1>2, AddsKeeps
<1>3. CASE Copies
  BY <1>3, CopiesKeeps
<1>4. ASSUME NEW f \in Flow, StoresLocal(f) \/ Begins(f) PROVE DnsInv'
  BY <1>4, StoresLocalKeeps, BeginsKeeps
<1>5. CASE LooksHost
  BY <1>5, LooksHostKeeps
<1>6. CASE LooksIp
  BY <1>6, LooksIpKeeps
<1>7. CASE LooksApp
  BY <1>7, LooksAppKeeps
<1>8. CASE StoresRow
  BY <1>8, StoresRowKeeps
<1>9. CASE SweepBegins
  BY <1>9, SweepBeginsKeeps
<1>10. ASSUME NEW k \in Kinds, Sweeps(k) PROVE DnsInv'
  BY <1>10, SweepsKeeps
<1>11. CASE ClockTicks
  BY <1>11, ClockTicksKeeps
<1>12. CASE UNCHANGED dnsVars
  BY <1>12, DnsInvStutters
<1>. QED BY <1>1, <1>2, <1>3, <1>4, <1>5, <1>6, <1>7, <1>8, <1>9, <1>10, <1>11, <1>12 DEF DnsNext

(* It holds in every state of every behaviour.                             *)
LEMMA DnsInvAlways == DnsSpec => []DnsInv
BY DnsInitInv, DnsInvInductive, PTL DEF DnsSpec

(* The application a row is stored with: AppOf of the list that was loaded *)
(* is the first line of the highest priority in the file.                  *)
LEMMA InvGivesNamedRight == ASSUME DnsInv PROVE RowsAreNamedRight
<1>1. DnsTypes /\ RowInv /\ StoredInv /\ HeldNamesStay
  BY DEF DnsInv
<1>2. OwnHostWins
  BY <1>1 DEF OwnHostWins, RowInv, Named
<1>3. IpNamesAreBest
  BY <1>1 DEF IpNamesAreBest, RowInv, Named
<1>4. AppIsOfItsName
  <2> SUFFICES ASSUME stored # NoName, ~stored.raced
               PROVE  /\ stored.name # Torn /\ stored.app # Torn
                      /\ (~stored.l7 /\ stored.name \in Name) =>
                           \E file \in MapFiles :
                             /\ maps = Loaded(file)
                             /\ (\E i \in DOMAIN file : stored.name \in file[i].names) =>
                                  stored.app = FirstOfHighest(file, stored.name)
    BY DEF AppIsOfItsName
  <2>1. PICK file \in MapFiles : maps = Loaded(file)
    BY <1>1 DEF StoredInv
  <2>2. PICK x : x = stored.name
    OBVIOUS
  <2>3. /\ stored.name # Torn /\ stored.app # Torn
        /\ ~stored.l7 /\ x \in Name => stored.app = AppOf(Loaded(file), x)
    BY <1>1, <2>1, <2>2 DEF StoredInv
  <2>4. x \in Name /\ (\E i \in DOMAIN file : x \in file[i].names) =>
          AppOf(Loaded(file), x) = FirstOfHighest(file, x)
    BY AppOfLoaded
  <2>. QED BY <2>1, <2>2, <2>3, <2>4
<1>. QED BY <1>1, <1>2, <1>3, <1>4 DEF RowsAreNamedRight

(* Whatever the capture thread learns while flow_to_db_cb looks a row up,  *)
(* with any number of connections, addresses and names and with caches of  *)
(* any size: an own host that was told in time wins, a name of the cache   *)
(* of addresses is among the right ones and stays until the row is stored, *)
(* and the application is the one app-mapping.txt gives that name.         *)
THEOREM NamedRight == DnsSpec => []RowsAreNamedRight
BY DnsInvAlways, InvGivesNamedRight, PTL

(* The invariant has the types and the sizes.                              *)
LEMMA InvGivesDnsTypes == ASSUME DnsInv PROVE DnsTypeOK
<1>1. DnsTypes /\ Counted
  BY DEF DnsInv
<1>2. \A k \in Kinds, f \in Flow : own[k][f] # NoName => own[k][f].value \in Name \cup App \cup {Torn}
  BY <1>1 DEF DnsTypes, OwnEntry
<1>3. \A k \in Kinds : count[k] = Cardinality({f \in Flow : own[k][f] # NoName}) /\ count[k] <= HostMax
  BY <1>1 DEF Counted, Owners
<1>. QED BY <1>1, <1>2, <1>3 DEF DnsTypeOK, DnsTypes

(* The types, and that flow_host_count and flow_app_count are the sizes of *)
(* their caches and at most FLOW_HOST_MAX, whichever thread frees or adds. *)
THEOREM DnsTyped == DnsSpec => []DnsTypeOK
BY DnsInvAlways, InvGivesDnsTypes, PTL

-----------------------------------------------------------------------------
(***************************************************************************)
(* The types of the visits: what is collected and written is no visit that *)
(* ends before it starts, and the events fit into their table.             *)
(***************************************************************************)
(* What the types need of the visit that the main thread is about to end   *)
(* and of those it has collected.                                          *)
VisitTypes ==
  /\ VisitTypeOK
  /\ \A d \in taking : visitStart[d] <= tick /\ Len(events) < EventMax
  /\ \A i \in 1 .. Len(events) : events[i].start <= events[i].end
  /\ running \in BOOLEAN /\ heardSoFar \in Nat

LEMMA VisitTypesBegin == VisitInit => VisitTypes
<1>. SUFFICES ASSUME VisitInit PROVE VisitTypes
  OBVIOUS
<1>1. LastTime \in Nat /\ EventMax \in Nat /\ EventMax > 0
  BY VisitConstants
<1>2. events = <<>> /\ Len(events) = 0 /\ taking = {} /\ Cardinality(taking) = 0
  BY FS_EmptySet, EmptySeq DEF VisitInit
<1>3. wpNow \in VisitTime
  BY <1>1 DEF VisitInit, VisitTime
<1>4. /\ inVisit \in [Device -> BOOLEAN] /\ isAp \in [Device -> BOOLEAN]
      /\ visitStart \in [Device -> VisitTime \cup {Never}]
      /\ lastSeen \in [Device -> VisitTime \cup {Never}]
  BY DEF VisitInit
<1>5. main = "sleep" /\ scan = {} /\ DOMAIN devRows = {} /\ visitRows = {} /\ running = TRUE /\ heardSoFar = 0
  BY DEF VisitInit
<1>6. VisitTypeOK
  BY <1>1, <1>2, <1>3, <1>4, <1>5 DEF VisitTypeOK
<1>. QED BY <1>2, <1>5, <1>6 DEF VisitTypes

(* A set whose elements are all the same has at most one.                  *)
LEMMA AtMostOne ==
  ASSUME NEW S, \A x, y \in S : x = y
  PROVE  Cardinality(S) <= 1
<1>1. CASE S = {}
  BY <1>1, FS_EmptySet
<1>2. CASE S # {}
  <2>1. PICK x \in S : TRUE
    BY <1>2
  <2>2. S = {x}
    BY <2>1
  <2>. QED BY <2>2, FS_Singleton
<1>. QED BY <1>1, <1>2

(* A step of either thread keeps the types.                                *)
LEMMA VisitTypesStep == VisitInv /\ VisitInv' /\ VisitTypes /\ [VisitNext]_visitVars => VisitTypes'
<1>. SUFFICES ASSUME VisitInv, VisitInv', VisitTypes, [VisitNext]_visitVars PROVE VisitTypes'
  OBVIOUS
<1>1. VisitTypeOK /\ running \in BOOLEAN /\ heardSoFar \in Nat
  BY DEF VisitTypes
<1>2. LastTime \in Nat /\ EventMax \in Nat /\ EventMax > 0 /\ SessionGap \in Nat /\ LastTime' = LastTime
  BY VisitConstants
<1>3. /\ wpNow \in Nat /\ wpNow <= LastTime /\ tick \in Int /\ tick <= wpNow
      /\ inVisit \in [Device -> BOOLEAN] /\ isAp \in [Device -> BOOLEAN]
      /\ visitStart \in [Device -> VisitTime \cup {Never}]
      /\ lastSeen \in [Device -> VisitTime \cup {Never}]
      /\ hearing # <<>> => hearing[1].dev \in Device /\ hearing[1].at \in VisitTime
  <2>1. wpNow \in Nat /\ tick \in Int /\ tick <= wpNow
        /\ (hearing # <<>> => hearing[1] \in HeardFrame /\ hearing[1].at <= wpNow)
    BY DEF VisitInv, DeviceTableInv, TableTyped
  <2>2. wpNow \in 0 .. LastTime
    BY <1>1 DEF VisitTypeOK, VisitTime
  <2>3. hearing # <<>> => hearing[1].dev \in Device /\ hearing[1].at \in 0 .. LastTime
    <3>1. hearing # <<>> => hearing[1].dev \in Device /\ hearing[1].at \in Nat
      BY <2>1 DEF HeardFrame
    <3>. QED BY <1>2, <2>1, <2>2, <3>1
  <2>. QED BY <1>1, <1>2, <2>1, <2>2, <2>3 DEF VisitTypeOK, VisitTime
<1>4. Cardinality(taking') <= 1
  <2>1. \A d, e \in taking' : d = e
    BY DEF VisitInv, DeviceTableInv, TableTyped
  <2>. QED BY <2>1, AtMostOne
<1>5. /\ events \in Seq(VisitMade) /\ events' \in Seq(VisitMade) /\ Len(events) \in Nat
      /\ visitRows \subseteq VisitMade /\ visitRows' \subseteq VisitMade
      /\ main \in {"device", "visit"} => events # <<>>
  <2>1. events \in Seq(VisitMade) /\ events' \in Seq(VisitMade)
        /\ visitRows \subseteq VisitMade /\ visitRows' \subseteq VisitMade
        /\ (main \in {"device", "visit"} => events # <<>>)
    BY DEF VisitInv, RowsInv, RowsTyped
  <2>. QED BY <2>1, LenProperties
<1>6. /\ Len(events) <= EventMax /\ \A i \in 1 .. Len(events) : events[i].start <= events[i].end
      /\ \A d \in taking : visitStart[d] <= tick /\ Len(events) < EventMax
      /\ scan \subseteq Device /\ DOMAIN devRows \subseteq Device
      /\ \A v \in visitRows : v.start <= v.end
      /\ main \in {"sleep", "scan", "device", "visit", "prune"}
  BY DEF VisitTypes, VisitTypeOK
<1>7. \A v \in VisitMade : v.dev \in Device
  BY DEF VisitMade
<1>. DEFINE TableKept == /\ wpNow' \in VisitTime
                         /\ inVisit' \in [Device -> BOOLEAN] /\ isAp' \in [Device -> BOOLEAN]
                         /\ visitStart' \in [Device -> VisitTime \cup {Never}]
                         /\ lastSeen' \in [Device -> VisitTime \cup {Never}]
            EventsKept == /\ Len(events') <= EventMax
                          /\ \A i \in 1 .. Len(events') : events'[i].start <= events'[i].end
                          /\ \A d \in taking' : visitStart'[d] <= tick' /\ Len(events') < EventMax
            RowsKept == /\ DOMAIN devRows' \subseteq Device
                        /\ \A v \in visitRows' : v.start <= v.end
            RoundKept == /\ main' \in {"sleep", "scan", "device", "visit", "prune"}
                         /\ scan' \subseteq Device /\ running' \in BOOLEAN /\ heardSoFar' \in Nat
<1>8. ASSUME TableKept, EventsKept, RowsKept, RoundKept PROVE VisitTypes'
  <2>1. \A v \in visitRows' : v.dev \in Device /\ v.start <= v.end
    BY <1>5, <1>7, <1>8
  <2>2. VisitTypeOK'
    BY <1>4, <1>8, <2>1 DEF VisitTypeOK, VisitTime
  <2>. QED BY <1>8, <2>2 DEF VisitTypes
<1>9. wpNow \in VisitTime /\ wpNow \in VisitTime \cup {Never}
  BY <1>1 DEF VisitTypeOK
<1>10. UNCHANGED <<wpNow, devices>> => TableKept
  BY <1>3, <1>9 DEF devices, VisitTime
<1>11. UNCHANGED <<visitStart, tick, taking, events>> => EventsKept
  BY <1>6
<1>12. UNCHANGED wpDb => RowsKept
  BY <1>6 DEF wpDb
<1>13. UNCHANGED <<main, scan, running>> /\ heardSoFar' \in Nat => RoundKept
  BY <1>1, <1>6
<1>. HIDE DEF TableKept, EventsKept, RowsKept, RoundKept
<1>14. ASSUME NEW d \in Device, NEW ap \in BOOLEAN, Hears(d, ap) PROVE VisitTypes'
  <2>1. /\ isAp' = [isAp EXCEPT ![d] = @ \/ ap] /\ wpNow' = wpNow
        /\ \/ /\ lastSeen[d] = Never /\ inVisit' = [inVisit EXCEPT ![d] = TRUE]
              /\ visitStart' = [visitStart EXCEPT ![d] = wpNow]
              /\ lastSeen' = [lastSeen EXCEPT ![d] = wpNow]
           \/ UNCHANGED <<inVisit, visitStart, lastSeen>>
    BY <1>14 DEF Hears
  <2>2. isAp' \in [Device -> BOOLEAN]
    BY <1>3, <2>1
  <2>3. /\ inVisit' \in [Device -> BOOLEAN] /\ visitStart' \in [Device -> VisitTime \cup {Never}]
        /\ lastSeen' \in [Device -> VisitTime \cup {Never}]
    BY <1>3, <1>9, <2>1
  <2>4. TableKept
    BY <1>9, <2>1, <2>2, <2>3 DEF TableKept, VisitTime
  <2>5. UNCHANGED <<tick, taking, events, main, scan, running, devRows, visitRows>> /\ heardSoFar' = heardSoFar + 1
    BY <1>14 DEF Hears, rounds, wpDb
  <2>6. \A x \in taking : visitStart'[x] = visitStart[x]
    <3>1. \A x \in taking : x \in Device /\ lastSeen[x] # Never
      BY DEF VisitInv, DeviceTableInv, TableTyped, TakenIsSilent, LastIsLatest
    <3>. QED BY <1>3, <2>1, <3>1
  <2>7. EventsKept
    BY <1>6, <2>5, <2>6 DEF EventsKept
  <2>8. RowsKept /\ RoundKept
    BY <1>1, <1>12, <1>13, <2>5 DEF wpDb
  <2>. QED BY <1>8, <2>4, <2>7, <2>8
<1>15. CASE NotesTime
  <2>1. /\ hearing # <<>> /\ lastSeen' = [lastSeen EXCEPT ![hearing[1].dev] = hearing[1].at]
        /\ UNCHANGED <<wpNow, inVisit, visitStart, isAp, heardSoFar, main, tick, taking, events, scan,
                       wpDb, running>>
    BY <1>15 DEF NotesTime, rounds
  <2>2. lastSeen' \in [Device -> VisitTime \cup {Never}]
    BY <1>3, <2>1
  <2>3. TableKept
    BY <1>3, <1>9, <2>1, <2>2 DEF TableKept, VisitTime
  <2>. QED BY <1>1, <1>8, <1>11, <1>12, <1>13, <2>1, <2>3
<1>16. CASE NotesVisit
  <2>. DEFINE d == hearing[1].dev
  <2>1. /\ hearing # <<>> /\ inVisit' = [inVisit EXCEPT ![d] = TRUE]
        /\ visitStart' = (IF inVisit[d] THEN visitStart ELSE [visitStart EXCEPT ![d] = hearing[1].at])
        /\ UNCHANGED <<wpNow, lastSeen, isAp, heardSoFar, main, tick, taking, events, scan, wpDb, running>>
    BY <1>16 DEF NotesVisit, rounds
  <2>2. d \in Device /\ hearing[1].at \in VisitTime
    BY <1>3, <2>1
  <2>. HIDE DEF d
  <2>3. inVisit' \in [Device -> BOOLEAN] /\ visitStart' \in [Device -> VisitTime \cup {Never}]
    BY <1>3, <2>1, <2>2
  <2>4. TableKept
    BY <1>3, <1>9, <2>1, <2>3 DEF TableKept, VisitTime
  <2>5. \A x \in taking : visitStart'[x] = visitStart[x]
    <3>1. \A x \in taking : x \in Device /\ inVisit[x]
      BY DEF VisitInv, DeviceTableInv, TableTyped, TakenIsSilent
    <3>. QED BY <1>3, <2>1, <2>2, <3>1
  <2>6. EventsKept
    BY <1>6, <2>1, <2>5 DEF EventsKept
  <2>. QED BY <1>1, <1>8, <1>12, <1>13, <2>1, <2>4, <2>6
<1>17. CASE Wakes
  <2>1. /\ UNCHANGED <<wpNow, devices, heardSoFar, taking, wpDb, running>> /\ main = "sleep"
        /\ \/ main' = "scan" /\ scan' = Device /\ events' = <<>>
           \/ main' = "prune" /\ UNCHANGED <<scan, events>>
    BY <1>17 DEF Wakes
  <2>2. taking' = {}
    BY <2>1 DEF VisitInv, DeviceTableInv, TableTyped
  <2>3. EventsKept
    <3>1. CASE events' = <<>>
      <4>1. Len(events') = 0
        BY <3>1, EmptySeq
      <4>. QED BY <1>2, <2>2, <4>1 DEF EventsKept
    <3>2. CASE events' = events
      BY <1>6, <2>2, <3>2 DEF EventsKept
    <3>. QED BY <2>1, <3>1, <3>2
  <2>4. RoundKept
    BY <1>1, <1>6, <2>1 DEF RoundKept
  <2>. QED BY <1>8, <1>10, <1>12, <2>1, <2>3, <2>4
<1>18. ASSUME NEW d \in Device, Looks(d) PROVE VisitTypes'
  <2>1. /\ scan' = scan \ {d} /\ taking' = (IF IsOver(d) THEN {d} ELSE {})
        /\ UNCHANGED <<wpNow, devices, heardSoFar, main, tick, events, wpDb, running>>
    BY <1>18 DEF Looks
  <2>2. ASSUME IsOver(d) PROVE visitStart[d] <= tick /\ Len(events) < EventMax
    <3>1. inVisit[d] /\ tick - lastSeen[d] > SessionGap /\ Len(events) < EventMax
      BY <2>2 DEF IsOver
    <3>2. visitStart[d] <= lastSeen[d] /\ visitStart[d] \in Int /\ lastSeen[d] \in Int
      BY <3>1 DEF VisitInv, DeviceTableInv, TableTyped, LastIsLatest
    <3>. QED BY <1>2, <1>3, <3>1, <3>2
  <2>3. EventsKept
    <3>1. visitStart' = visitStart
      BY <2>1 DEF devices
    <3>. QED BY <1>6, <2>1, <2>2, <3>1 DEF EventsKept
  <2>4. RoundKept
    BY <1>1, <1>6, <2>1 DEF RoundKept
  <2>. QED BY <1>8, <1>10, <1>12, <2>1, <2>3, <2>4
<1>19. ASSUME NEW d \in Device, Takes(d) PROVE VisitTypes'
  <2>1. /\ taking = {d} /\ events' = Append(events, Visit(d, visitStart[d], tick))
        /\ inVisit' = [inVisit EXCEPT ![d] = FALSE] /\ taking' = {}
        /\ UNCHANGED <<wpNow, visitStart, lastSeen, isAp, heardSoFar, main, scan, wpDb, running>>
    BY <1>19 DEF Takes
  <2>2. visitStart[d] <= tick /\ Len(events) < EventMax
    BY <1>6, <2>1
  <2>3. Visit(d, visitStart[d], tick) \in VisitMade
    <3>1. visitStart[d] \in Int
      BY DEF VisitInv, DeviceTableInv, TableTyped
    <3>. QED BY <1>3, <3>1 DEF Visit, VisitMade
  <2>4. /\ Len(events') = Len(events) + 1
        /\ \A i \in 1 .. Len(events) : events'[i] = events[i]
        /\ events'[Len(events) + 1] = Visit(d, visitStart[d], tick)
    BY <1>5, <2>1, <2>3, AppendProperties
  <2>5. ASSUME NEW i \in 1 .. Len(events') PROVE events'[i].start <= events'[i].end
    <3>1. CASE i \in 1 .. Len(events)
      BY <1>6, <2>4, <3>1
    <3>2. CASE i = Len(events) + 1
      <4>1. events'[i] = Visit(d, visitStart[d], tick)
        <5>1. events'[Len(events) + 1] = Visit(d, visitStart[d], tick)
          BY <2>4
        <5>. QED BY ONLY <5>1, <3>2
      <4>2. events'[i].start = visitStart[d] /\ events'[i].end = tick
        BY <4>1 DEF Visit
      <4>. QED BY <2>2, <4>2
    <3>. QED BY <1>5, <2>4, <3>1, <3>2
  <2>6. EventsKept
    BY <1>2, <1>5, <2>1, <2>2, <2>4, <2>5 DEF EventsKept
  <2>7. inVisit' \in [Device -> BOOLEAN]
    BY <1>3, <2>1
  <2>8. TableKept
    BY <1>3, <1>9, <2>1, <2>7 DEF TableKept, VisitTime
  <2>. QED BY <1>1, <1>8, <1>12, <1>13, <2>1, <2>6, <2>8
<1>20. CASE Collected
  <2>1. /\ main' \in {"prune", "device"}
        /\ UNCHANGED <<wpNow, devices, heardSoFar, tick, scan, taking, events, wpDb, running>>
    BY <1>20 DEF Collected
  <2>2. RoundKept
    BY <1>1, <1>6, <2>1 DEF RoundKept
  <2>3. visitStart' = visitStart
    BY <2>1 DEF devices
  <2>. QED BY <1>8, <1>10, <1>11, <1>12, <2>1, <2>2, <2>3
<1>21. CASE StoresDevice
  <2>1. /\ main = "device" /\ main' = "visit"
        /\ UNCHANGED <<wpNow, devices, heardSoFar, tick, scan, taking, events, visitRows, running>>
        /\ DOMAIN devRows' \in {DOMAIN devRows, DOMAIN devRows \cup {Head(events).dev}}
    BY <1>21 DEF StoresDevice, rounds
  <2>2. Head(events).dev \in Device
    <3>1. events # <<>>
      BY <1>5, <2>1
    <3>2. Head(events) \in VisitMade
      BY <1>5, <3>1, HeadTailProperties
    <3>. QED BY <1>7, <3>2
  <2>3. RowsKept
    BY <1>6, <2>1, <2>2 DEF RowsKept
  <2>4. RoundKept
    BY <1>1, <1>6, <2>1 DEF RoundKept
  <2>5. visitStart' = visitStart
    BY <2>1 DEF devices
  <2>. QED BY <1>8, <1>10, <1>11, <2>1, <2>3, <2>4, <2>5
<1>22. CASE StoresVisit
  <2>1. /\ main = "visit" /\ events' = Tail(events) /\ main' \in {"prune", "device"}
        /\ visitRows' \subseteq visitRows \cup {Head(events)} /\ DOMAIN devRows' = DOMAIN devRows
        /\ UNCHANGED <<wpNow, devices, heardSoFar, tick, scan, taking, running>>
    BY <1>22 DEF StoresVisit
  <2>2. events # <<>> /\ taking = {}
    BY <1>5, <2>1 DEF VisitInv, DeviceTableInv, TableTyped
  <2>3. PICK n \in Nat : n = Len(events) /\ n > 0
    BY <1>5, <2>2, EmptySeq
  <2>4. Head(events) = events[1] /\ Len(events') = n - 1
        /\ \A i \in 1 .. (n - 1) : events'[i] = events[i + 1]
    BY <1>5, <2>1, <2>2, <2>3, HeadTailProperties
  <2>5. Head(events).start <= Head(events).end
    BY <1>6, <2>3, <2>4
  <2>6. EventsKept
    BY <1>2, <1>6, <2>1, <2>2, <2>3, <2>4 DEF EventsKept
  <2>7. RowsKept
    BY <1>6, <2>1, <2>5 DEF RowsKept
  <2>8. RoundKept
    BY <1>1, <1>6, <2>1 DEF RoundKept
  <2>. QED BY <1>8, <1>10, <2>1, <2>6, <2>7, <2>8
<1>23. CASE Prunes
  <2>1. /\ main = "prune" /\ main' = "sleep" /\ scan' = {}
        /\ visitRows' \subseteq visitRows /\ DOMAIN devRows' \subseteq DOMAIN devRows
        /\ UNCHANGED <<wpNow, devices, heardSoFar, taking, events, running>>
    BY <1>23 DEF Prunes, KeptVisits, PrunedDevices, wpDb
  <2>2. taking = {}
    BY <2>1 DEF VisitInv, DeviceTableInv, TableTyped
  <2>3. EventsKept
    BY <1>6, <2>1, <2>2 DEF EventsKept
  <2>4. RowsKept
    BY <1>6, <2>1 DEF RowsKept
  <2>5. RoundKept
    BY <1>1, <2>1 DEF RoundKept
  <2>. QED BY <1>8, <1>10, <2>1, <2>3, <2>4, <2>5
<1>24. CASE VisitsStop
  <2>1. /\ running' = FALSE
        /\ UNCHANGED <<wpNow, devices, visitStart, heardSoFar, main, tick, scan, taking, events, wpDb>>
    BY <1>24 DEF VisitsStop, rounds, devices
  <2>2. RoundKept
    BY <1>1, <1>6, <2>1 DEF RoundKept
  <2>. QED BY <1>8, <1>10, <1>11, <1>12, <2>1, <2>2
<1>25. CASE ClockAdvances
  <2>1. /\ wpNow < LastTime /\ wpNow' = wpNow + 1
        /\ UNCHANGED <<inVisit, visitStart, lastSeen, isAp, heardSoFar, main, tick, scan, taking,
                       events, wpDb, running>>
    BY <1>25 DEF ClockAdvances, rounds, devices
  <2>2. wpNow' \in VisitTime
    BY <1>2, <1>3, <2>1 DEF VisitTime
  <2>3. TableKept
    BY <1>3, <2>1, <2>2 DEF TableKept, VisitTime
  <2>. QED BY <1>1, <1>8, <1>11, <1>12, <1>13, <2>1, <2>3
<1>26. CASE UNCHANGED visitVars
  <2>1. UNCHANGED <<wpNow, devices, visitStart, heardSoFar, main, tick, scan, taking, events, wpDb, running>>
    BY <1>26 DEF visitVars, rounds, devices
  <2>. QED BY <1>1, <1>8, <1>10, <1>11, <1>12, <1>13, <2>1
<1>. QED BY <1>14, <1>15, <1>16, <1>17, <1>18, <1>19, <1>20, <1>21, <1>22, <1>23, <1>24, <1>25, <1>26
     DEF VisitNext

(* The types of the table and of the database: no more visits are          *)
(* collected than EVENT_MAX, and none ends before it starts.               *)
THEOREM VisitsTyped == VisitSpec => []VisitTypeOK
<1>1. VisitTypes => VisitTypeOK
  BY DEF VisitTypes
<1>. QED BY <1>1, VisitsBegin, VisitsStep, VisitTypesBegin, VisitTypesStep, PTL DEF VisitSpec

-----------------------------------------------------------------------------
(***************************************************************************)
(* The types of the thumbnail cache and its limits: what the manifest of a *)
(* cache at rest adds up to.                                               *)
(***************************************************************************)
(* The sums of the entries, of which the last is the total.                *)
Sums(m, f) ==
  /\ f \in [0 .. Len(m) -> Nat] /\ f[0] = 0
  /\ \A i \in 1 .. Len(m) : f[i] = f[i - 1] + Bytes[m[i].key]

LEMMA SumsExist ==
  ASSUME NEW n \in Nat, NEW b \in [1 .. n -> Nat]
  PROVE  \E f \in [0 .. n -> Nat] : f[0] = 0 /\ \A i \in 1 .. n : f[i] = f[i - 1] + b[i]
<1>. DEFINE Good(k) == \E f \in [0 .. k -> Nat] : f[0] = 0 /\ \A i \in 1 .. k : f[i] = f[i - 1] + b[i]
            Bad == {k \in 0 .. n : ~Good(k)}
<1>1. Good(0)
  <2>. DEFINE f == [i \in 0 .. 0 |-> 0]
  <2>1. f \in [0 .. 0 -> Nat] /\ f[0] = 0 /\ 1 .. 0 = {}
    OBVIOUS
  <2>. QED BY <2>1
<1>2. ASSUME NEW k \in Nat, k + 1 \in 1 .. n, Good(k) PROVE Good(k + 1)
  <2>1. PICK f \in [0 .. k -> Nat] : f[0] = 0 /\ \A i \in 1 .. k : f[i] = f[i - 1] + b[i]
    BY <1>2
  <2>2. k \in 0 .. k /\ f[k] \in Nat /\ b[k + 1] \in Nat
    BY <1>2
  <2>3. PICK v \in Nat : v = f[k] + b[k + 1]
    BY <2>2
  <2>. DEFINE g == [i \in 0 .. (k + 1) |-> IF i = k + 1 THEN v ELSE f[i]]
  <2>4. g \in [0 .. (k + 1) -> Nat]
    <3>1. ASSUME NEW i \in 0 .. (k + 1), i # k + 1 PROVE f[i] \in Nat
      <4>1. i \in 0 .. k
        BY <3>1
      <4>. QED BY <4>1
    <3>. QED BY <3>1
  <2>5. g[k + 1] = v /\ \A i \in 0 .. k : g[i] = f[i]
    <3>1. \A i \in 0 .. k : i \in 0 .. (k + 1) /\ i # k + 1
      OBVIOUS
    <3>2. k + 1 \in 0 .. (k + 1)
      OBVIOUS
    <3>. QED BY <3>1, <3>2
  <2>. HIDE DEF g
  <2>6. ASSUME NEW i \in 1 .. (k + 1) PROVE g[i] = g[i - 1] + b[i]
    <3>1. CASE i = k + 1
      <4>1. i - 1 = k
        BY <3>1
      <4>. QED BY <2>2, <2>3, <2>5, <3>1, <4>1
    <3>2. CASE i # k + 1
      <4>1. i \in 1 .. k /\ i \in 0 .. k /\ i - 1 \in 0 .. k
        BY <3>2
      <4>. QED BY <2>1, <2>5, <4>1
    <3>. QED BY <3>1, <3>2
  <2>7. g[0] = 0
    <3>1. 0 \in 0 .. k
      OBVIOUS
    <3>. QED BY <2>1, <2>5, <3>1
  <2>. QED BY <2>4, <2>6, <2>7
<1>. HIDE DEF Good
<1>3. Bad = {}
  <2>. SUFFICES ASSUME Bad # {} PROVE FALSE
    OBVIOUS
  <2>1. PICK k \in Bad : \A j \in Bad : k <= j
    <3>1. Bad \in SUBSET Nat
      OBVIOUS
    <3>. QED BY <3>1, LeastNumber
  <2>2. k \in 0 .. n /\ ~Good(k) /\ k # 0
    BY <1>1, <2>1
  <2>3. k - 1 \in Nat /\ k - 1 \in 0 .. n /\ (k - 1) + 1 = k /\ k \in 1 .. n /\ ~(k <= k - 1)
    BY <2>2
  <2>4. Good(k - 1)
    BY <2>1, <2>3
  <2>5. Good((k - 1) + 1)
    BY <1>2, <2>3, <2>4
  <2>. QED BY <2>2, <2>3, <2>5
<1>4. Good(n)
  <2>1. n \in 0 .. n
    OBVIOUS
  <2>. QED BY <1>3, <2>1
<1>. QED BY <1>4 DEF Good

LEMMA TotalIs ==
  ASSUME NEW m \in Seq(ThumbEntry)
  PROVE  \E f : Sums(m, f) /\ Total(m) = f[Len(m)]
<1>1. PICK n \in Nat : n = Len(m)
  OBVIOUS
<1> DEFINE By(g) == g = [i \in 0 .. Len(m) |->
                           IF i = 0 THEN 0 ELSE g[i - 1] + Bytes[m[i].key]]
           G == CHOOSE g : By(g)
<1>2. Total(m) = G[n]
  BY <1>1 DEF Total
<1>3. ASSUME NEW i \in 1 .. n PROVE Bytes[m[i].key] \in Nat
  <2>1. m[i] \in ThumbEntry
    BY <1>1
  <2>2. m[i].key \in Thumb
    BY <2>1 DEF ThumbEntry
  <2>. QED BY <2>2, ThumbConstants
<1>4. PICK b \in [1 .. n -> Nat] : \A i \in 1 .. n : b[i] = Bytes[m[i].key]
  <2>1. [i \in 1 .. n |-> Bytes[m[i].key]] \in [1 .. n -> Nat]
    BY <1>3
  <2>. QED BY <2>1
<1>5. PICK f \in [0 .. n -> Nat] : f[0] = 0 /\ \A i \in 1 .. n : f[i] = f[i - 1] + b[i]
  BY SumsExist
<1>6. ASSUME NEW i \in 1 .. n PROVE f[i] = f[i - 1] + Bytes[m[i].key]
  BY <1>4, <1>5
<1>7. By(f)
  <2>1. ASSUME NEW i \in 0 .. n PROVE f[i] = IF i = 0 THEN 0 ELSE f[i - 1] + Bytes[m[i].key]
    <3>1. CASE i = 0
      BY <1>5, <3>1
    <3>2. CASE i # 0
      <4>1. i \in 1 .. n
        BY <3>2
      <4>. QED BY <1>6, <3>2, <4>1
    <3>. QED BY <3>1, <3>2
  <2>. QED BY <1>1, <1>5, <2>1
<1>8. By(G)
  <2> HIDE DEF By
  <2>. QED BY <1>7
<1> HIDE DEF G
<1>9. /\ \A i \in 0 .. n : G[i] = IF i = 0 THEN 0 ELSE G[i - 1] + Bytes[m[i].key]
      /\ G = [i \in 0 .. n |-> G[i]]
  BY <1>1, <1>8
<1> HIDE DEF By
<1>10. G[0] = 0 /\ \A i \in 1 .. n : G[i] = G[i - 1] + Bytes[m[i].key]
  <2>1. 0 \in 0 .. n /\ \A i \in 1 .. n : i \in 0 .. n /\ i # 0
    BY <1>1
  <2>. QED BY <1>9, <2>1
<1>11. \A i \in 0 .. n : G[i] \in Nat
  <2>. DEFINE Bad == {i \in 0 .. n : G[i] \notin Nat}
  <2>. SUFFICES ASSUME Bad # {} PROVE FALSE
    OBVIOUS
  <2>1. PICK k \in Bad : \A j \in Bad : k <= j
    <3>1. Bad \in SUBSET Nat
      OBVIOUS
    <3>. QED BY <3>1, LeastNumber
  <2>2. k \in 0 .. n /\ G[k] \notin Nat /\ k # 0
    BY <1>10, <2>1
  <2>3. k \in 1 .. n /\ k - 1 \in 0 .. n /\ ~(k <= k - 1)
    BY <2>2
  <2>4. G[k - 1] \in Nat
    BY <2>1, <2>3
  <2>5. PICK c \in Nat : c = Bytes[m[k].key]
    BY <1>3, <2>3
  <2>6. G[k] = G[k - 1] + Bytes[m[k].key]
    BY <1>10, <2>3
  <2>7. G[k] = G[k - 1] + c
    BY ONLY <2>5, <2>6
  <2>. QED BY ONLY <2>2, <2>4, <2>7, c \in Nat
<1>12. G \in [0 .. n -> Nat]
  BY <1>9, <1>11
<1>. QED BY <1>1, <1>2, <1>10, <1>12 DEF Sums

(* The times do not count.                                                 *)
LEMMA TotalSame ==
  ASSUME NEW m \in Seq(ThumbEntry), NEW w \in Seq(ThumbEntry), Len(w) = Len(m),
         \A i \in 1 .. Len(m) : w[i].key = m[i].key
  PROVE  Total(w) = Total(m)
<1>1. PICK n \in Nat : n = Len(m)
  OBVIOUS
<1>2. PICK f : Sums(m, f) /\ Total(m) = f[n]
  BY <1>1, TotalIs
<1>3. PICK g : Sums(w, g) /\ Total(w) = g[n]
  BY <1>1, TotalIs
<1>4. /\ f[0] = 0 /\ g[0] = 0
      /\ \A i \in 1 .. n : f[i] = f[i - 1] + Bytes[m[i].key] /\ g[i] = g[i - 1] + Bytes[m[i].key]
  BY <1>1, <1>2, <1>3 DEF Sums
<1>. DEFINE Other == {i \in 0 .. n : g[i] # f[i]}
<1>5. Other = {}
  <2>. SUFFICES ASSUME Other # {} PROVE FALSE
    OBVIOUS
  <2>1. PICK k \in Other : \A j \in Other : k <= j
    <3>1. Other \in SUBSET Nat
      OBVIOUS
    <3>. QED BY <3>1, LeastNumber
  <2>2. k \in 0 .. n /\ g[k] # f[k] /\ k # 0
    BY <1>4, <2>1
  <2>3. k \in 1 .. n /\ k - 1 \in 0 .. n /\ ~(k <= k - 1)
    BY <2>2
  <2>4. g[k - 1] = f[k - 1]
    BY <2>1, <2>3
  <2>. QED BY <1>4, <2>2, <2>3, <2>4
<1>6. n \in 0 .. n
  BY <1>1
<1>. QED BY <1>2, <1>3, <1>5, <1>6

(* Without one of its entries a manifest adds up to no more.               *)
LEMMA TotalLess ==
  ASSUME NEW m \in Seq(ThumbEntry), NEW w \in Seq(ThumbEntry), Len(w) = Len(m) - 1,
         NEW p \in 1 .. Len(m),
         \A i \in 1 .. (Len(m) - 1) : w[i] = IF i < p THEN m[i] ELSE m[i + 1]
  PROVE  Total(w) <= Total(m)
<1>1. PICK n \in Nat : n = Len(m)
  OBVIOUS
<1>2. n \in Nat /\ n >= 1 /\ p \in 1 .. n /\ Len(w) = n - 1 /\ p \in Nat
  BY <1>1
<1>3. PICK f : Sums(m, f) /\ Total(m) = f[n]
  BY <1>1, TotalIs
<1>4. PICK g : Sums(w, g) /\ Total(w) = g[n - 1]
  BY <1>2, TotalIs
<1>5. /\ f \in [0 .. n -> Nat] /\ f[0] = 0
      /\ \A i \in 1 .. n : f[i] = f[i - 1] + Bytes[m[i].key]
  BY <1>1, <1>3 DEF Sums
<1>6. /\ g \in [0 .. (n - 1) -> Nat] /\ g[0] = 0
      /\ \A i \in 1 .. (n - 1) : g[i] = g[i - 1] + Bytes[w[i].key]
  BY <1>2, <1>4 DEF Sums
<1>7. ASSUME NEW i \in 1 .. n PROVE Bytes[m[i].key] \in Nat
  <2>1. m[i] \in ThumbEntry
    BY <1>1
  <2>2. m[i].key \in Thumb
    BY <2>1 DEF ThumbEntry
  <2>. QED BY <2>2, ThumbConstants
<1>8. \A i \in 1 .. n : f[i] \in Nat /\ f[i - 1] \in Nat /\ f[i - 1] <= f[i]
  <2>. TAKE i \in 1 .. n
  <2>1. i \in 0 .. n /\ i - 1 \in 0 .. n
    BY <1>2
  <2>2. f[i] \in Nat /\ f[i - 1] \in Nat
    BY <1>5, <2>1
  <2>3. Bytes[m[i].key] \in Nat /\ f[i] = f[i - 1] + Bytes[m[i].key]
    BY <1>5, <1>7
  <2>. QED BY <2>2, <2>3
<1>. DEFINE at(i) == IF i < p THEN i ELSE i + 1
            Bad == {i \in 0 .. (n - 1) : ~(g[i] <= f[at(i)])}
<1>9. Bad = {}
  <2>. SUFFICES ASSUME Bad # {} PROVE FALSE
    OBVIOUS
  <2>1. PICK k \in Bad : \A j \in Bad : k <= j
    <3>1. Bad \in SUBSET Nat
      OBVIOUS
    <3>. QED BY <3>1, LeastNumber
  <2>2. k \in 0 .. (n - 1) /\ ~(g[k] <= f[at(k)])
    BY <2>1
  <2>3. k # 0
    <3>. SUFFICES ASSUME k = 0 PROVE FALSE
      OBVIOUS
    <3>1. at(k) = 0
      BY <1>2
    <3>. HIDE DEF at
    <3>. QED BY <1>5, <1>6, <2>2, <3>1
  <2>4. k \in 1 .. (n - 1) /\ k \in Nat /\ k - 1 \in 0 .. (n - 1) /\ ~(k <= k - 1)
    BY <1>2, <2>2, <2>3
  <2>5. g[k - 1] <= f[at(k - 1)]
    BY <2>1, <2>4
  <2>6. g[k - 1] \in Nat /\ g[k] = g[k - 1] + Bytes[w[k].key]
    BY <1>6, <2>4
  <2>7. at(k) \in 1 .. n /\ at(k - 1) \in 0 .. n /\ w[k] = m[at(k)]
    BY <1>1, <1>2, <2>4
  <2>8. at(k) = at(k - 1) + 1 \/ at(k) = at(k - 1) + 2
    BY <1>2, <2>4
  <2>. HIDE DEF at
  <2>9. f[at(k)] = f[at(k) - 1] + Bytes[m[at(k)].key]
    BY <1>5, <2>7
  <2>10. f[at(k - 1)] <= f[at(k) - 1]
    <3>1. CASE at(k) = at(k - 1) + 1
      <4>1. at(k) - 1 = at(k - 1) /\ f[at(k - 1)] \in Nat
        BY <1>5, <2>7, <3>1
      <4>. QED BY <4>1
    <3>2. CASE at(k) = at(k - 1) + 2
      <4>1. at(k) - 1 \in 1 .. n /\ (at(k) - 1) - 1 = at(k - 1)
        <5>1. PICK x \in Int, y \in Int : x = at(k) /\ y = at(k - 1)
          BY <2>7
        <5>2. x \in 1 .. n /\ y \in 0 .. n /\ x = y + 2
          BY <2>7, <3>2, <5>1
        <5>3. x - 1 \in 1 .. n /\ (x - 1) - 1 = y
          BY <5>2
        <5>. QED BY ONLY <5>1, <5>3
      <4>2. f[(at(k) - 1) - 1] <= f[at(k) - 1]
        BY <1>8, <4>1
      <4>. QED BY ONLY <4>1, <4>2
    <3>. QED BY <2>8, <3>1, <3>2
  <2>11. f[at(k - 1)] \in Nat /\ f[at(k) - 1] \in Nat
    BY <1>5, <1>8, <2>7
  <2>12. Bytes[m[at(k)].key] \in Nat
    BY <1>7, <2>7
  <2>13. PICK b \in Nat : b = Bytes[m[at(k)].key]
    BY <2>12
  <2>14. f[at(k)] = f[at(k) - 1] + b
    BY ONLY <2>9, <2>13
  <2>15. w[k] = m[at(k)] /\ g[k] = g[k - 1] + Bytes[w[k].key]
    BY <2>6, <2>7
  <2>16. g[k] = g[k - 1] + b
    BY ONLY <2>13, <2>15
  <2>. QED BY <2>2, <2>5, <2>6, <2>10, <2>11, <2>14, <2>16
<1>10. n - 1 \in 0 .. (n - 1)
  BY <1>2
<1>11. g[n - 1] <= f[at(n - 1)]
  BY <1>9, <1>10
<1>12. f[at(n - 1)] <= f[n]
  <2>1. at(n - 1) = n - 1 \/ at(n - 1) = n
    OBVIOUS
  <2>. HIDE DEF at
  <2>2. n \in 1 .. n
    BY <1>2
  <2>3. f[n] \in Nat /\ f[n - 1] <= f[n]
    BY <1>8, <2>2
  <2>. QED BY <2>1, <2>3
<1>13. g[n - 1] \in Nat /\ f[at(n - 1)] \in Nat /\ f[n] \in Nat
  <2>1. at(n - 1) \in 0 .. n /\ n \in 0 .. n
    BY <1>2
  <2>. HIDE DEF at
  <2>. QED BY <1>5, <1>6, <1>10, <2>1
<1>. HIDE DEF at
<1>. QED BY <1>3, <1>4, <1>11, <1>12, <1>13

LEMMA TotalIsNat == ASSUME NEW m \in Seq(ThumbEntry) PROVE Total(m) \in Nat
<1>1. PICK f : Sums(m, f) /\ Total(m) = f[Len(m)]
  BY TotalIs
<1>2. Len(m) \in 0 .. Len(m)
  OBVIOUS
<1>. QED BY <1>1, <1>2 DEF Sums

(* A use of a cached thumbnail and the loss of one leave what fits.        *)
LEMMA NotedFits ==
  ASSUME NEW m, IsManifest(m), NEW k \in KeysOf(m), NEW t \in Nat, FitsIn(m)
  PROVE  FitsIn(Noted(m, k, t))
<1>. DEFINE new == [key |-> k, time |-> t]
            w == Noted(m, k, t)
<1>1. Len(m) \in Nat /\ DOMAIN m = 1 .. Len(m) /\ m \in Seq(ThumbEntry) /\ k \in Thumb
  BY KeysAre DEF IsManifest
<1>2. new \in ThumbEntry /\ new.key = k
  BY <1>1 DEF ThumbEntry
<1>3. w = [i \in 1 .. Len(m) |-> IF m[i].key = k THEN new ELSE m[i]]
  BY <1>1 DEF Noted
<1>. HIDE DEF w, new
<1>4. w \in Seq(ThumbEntry) /\ Len(w) = Len(m)
  BY <1>1, <1>2, <1>3
<1>5. \A i \in 1 .. Len(m) : w[i].key = m[i].key
  <2>1. \A i \in 1 .. Len(m) : w[i] = IF m[i].key = k THEN new ELSE m[i]
    BY <1>3
  <2>. QED BY <1>2, <2>1
<1>6. Total(w) = Total(m)
  BY <1>1, <1>4, <1>5, TotalSame
<1>. QED BY <1>4, <1>6 DEF FitsIn, w

LEMMA LessFits ==
  ASSUME NEW m, IsManifest(m), NEW k \in Thumb, FitsIn(m)
  PROVE  FitsIn(Less(m, k))
<1>1. CASE k \notin KeysOf(m)
  BY <1>1 DEF Less
<1>2. CASE k \in KeysOf(m)
  <2>. DEFINE w == Less(m, k)
  <2>1. PICK p \in 1 .. Len(m) :
          /\ w \in Seq(ThumbEntry) /\ Len(w) = Len(m) - 1
          /\ \A i \in 1 .. (Len(m) - 1) : w[i] = IF i < p THEN m[i] ELSE m[i + 1]
    BY <1>2, LessAt
  <2>. HIDE DEF w
  <2>2. m \in Seq(ThumbEntry) /\ Len(m) \in Nat
    BY DEF IsManifest
  <2>3. Total(w) <= Total(m)
    BY <2>1, <2>2, TotalLess
  <2>4. Total(w) \in Nat /\ Total(m) \in Nat /\ MaxBytes \in Nat /\ MaxFiles \in Nat
    BY <2>1, <2>2, TotalIsNat, ThumbConstants
  <2>. QED BY <2>1, <2>2, <2>3, <2>4 DEF FitsIn, w
<1>. QED BY <1>1, <1>2

(* Whenever no function runs the manifest fits, unless the app was killed; *)
(* remove makes it smaller.                                                *)
ThumbLimits ==
  "kill" \notin faults =>
    /\ call = NoFileHere => FitsIn(manifest)
    /\ CallAt("discard") => FitsIn(call.m)

LEMMA ThumbLimitsBegin == ThumbInit => ThumbLimits
<1>1. ThumbInit => Len(manifest) = 0 /\ call = NoFileHere
  BY DEF ThumbInit
<1>. QED BY <1>1 DEF ThumbLimits, FitsIn, CallAt

LEMMA ThumbLimitsStep == ThumbInv /\ ThumbLimits /\ [ThumbNext]_thumbVars => ThumbLimits'
<1>. SUFFICES ASSUME ThumbInv, ThumbLimits, [ThumbNext]_thumbVars PROVE ThumbLimits'
  OBVIOUS
<1>1. ThumbTyped /\ Together /\ IsManifest(manifest) /\ (call # NoFileHere => call \in ThumbCall)
  BY DEF ThumbInv, ThumbTyped
<1>2. ASSUME NEW k \in Thumb, NEW t \in 1 .. MaxCalls, Gets(k, t) PROVE ThumbLimits'
  <2>1. call = NoFileHere /\ call' = NoFileHere /\ ("kill" \notin faults' => "kill" \notin faults)
    BY <1>2 DEF Gets, CalledAt
  <2>2. manifest' = manifest \/ (k \in KeysOf(manifest) /\ manifest' = Noted(manifest, k, t))
    BY <1>2 DEF Gets
  <2>3. t \in Nat
    BY ThumbConstants
  <2>4. FitsIn(manifest) => FitsIn(manifest')
    BY <1>1, <2>2, <2>3, NotedFits
  <2>5. "kill" \notin faults' => FitsIn(manifest')
    BY <2>1, <2>4 DEF ThumbLimits
  <2>. QED BY <2>1, <2>5 DEF ThumbLimits, CallAt, FitsIn
<1>3. ASSUME NEW k \in Thumb, NEW t \in 1 .. MaxCalls, Puts(k, t) PROVE ThumbLimits'
  <2>1. call' \in ThumbCall /\ call'.at = "copy"
    <3>1. t \in Nat /\ manifest \in Seq(ThumbEntry)
      BY <1>1, ThumbConstants DEF IsManifest
    <3>. QED BY <1>3, <3>1 DEF Puts, ThumbCall
  <2>2. call' # NoFileHere
    BY <2>1, ThumbConstants
  <2>. QED BY <2>1, <2>2 DEF ThumbLimits, CallAt
<1>4. CASE CopiesFile
  <2>1. /\ call \in [at : {"copy", "save", "clean"}, key : Thumb, time : Nat, m : Seq(ThumbEntry),
                     evicted : BOOLEAN]
    BY <1>1, <1>4, CallIs DEF CopiesFile, CallAt
  <2>2. call' = [call EXCEPT !.at = "save"]
    BY <1>4 DEF CopiesFile
  <2>3. call' \in ThumbCall /\ call'.at = "save"
    BY <2>1, <2>2 DEF ThumbCall
  <2>4. call' # NoFileHere
    BY <2>3, ThumbConstants
  <2>. QED BY <2>3, <2>4 DEF ThumbLimits, CallAt
<1>5. CASE Saves
  <2>1. /\ call \in [at : {"copy", "save", "clean"}, key : Thumb, time : Nat, m : Seq(ThumbEntry),
                     evicted : BOOLEAN]
    BY <1>1, <1>5, CallIs DEF Saves, CallAt
  <2>2. call' = [call EXCEPT !.at = "clean", !.m = Noted(@, call.key, call.time)]
    BY <1>5 DEF Saves
  <2>3. Noted(call.m, call.key, call.time) \in Seq(ThumbEntry)
    <3>1. IsManifest(call.m)
      BY <1>1, <1>5, CallIs DEF Saves, CallAt
    <3>. QED BY <2>1, <3>1, NotedIs DEF IsManifest
  <2>4. call' \in ThumbCall /\ call'.at = "clean"
    BY <2>1, <2>2, <2>3 DEF ThumbCall
  <2>5. call' # NoFileHere
    BY <2>4, ThumbConstants
  <2>. QED BY <2>4, <2>5 DEF ThumbLimits, CallAt
<1>6. CASE Cleans
  <2>. DEFINE k == call.m[Victim(call.m)].key
  <2>1. /\ call \in [at : {"copy", "save", "clean"}, key : Thumb, time : Nat, m : Seq(ThumbEntry),
                     evicted : BOOLEAN] /\ call.at = "clean"
    BY <1>1, <1>6, CallIs DEF Cleans, CallAt
  <2>2. call' = [call EXCEPT !.m = Less(@, k), !.evicted = TRUE]
    BY <1>6 DEF Cleans
  <2>3. call'.at = "clean"
    BY <2>1, <2>2
  <2>4. call' # NoFileHere
    <3>1. ThumbInv'
      BY <1>6, CleansKeeps
    <3>2. DOMAIN call' = {"at", "key", "time", "m", "evicted"}
      BY <2>1, <2>2
    <3>3. IsManifest(call.m) /\ ~FitsIn(call.m)
      BY <1>1, <1>6, CallIs DEF Cleans, CallAt
    <3>4. k \in Thumb
      <4>1. Len(call.m) \in Nat /\ call.m \in Seq(ThumbEntry) /\ Len(call.m) > 0
        BY <3>3 DEF IsManifest, FitsIn
      <4>2. Victim(call.m) \in 1 .. Len(call.m)
        BY <3>3, <4>1, VictimIs
      <4>3. call.m[Victim(call.m)] \in ThumbEntry
        BY <4>1, <4>2
      <4>. QED BY <4>3 DEF ThumbEntry
    <3>5. Less(call.m, k) \in Seq(ThumbEntry)
      BY <3>3, <3>4, LessIs DEF IsManifest
    <3>. HIDE DEF k
    <3>6. call' \in ThumbCall
      BY <2>1, <2>2, <3>5 DEF ThumbCall
    <3>. QED BY <3>6, ThumbConstants
  <2>. QED BY <2>3, <2>4 DEF ThumbLimits, CallAt
<1>7. CASE PutReturns
  <2>1. call' = NoFileHere /\ FitsIn(call.m) /\ manifest' = call.m /\ UNCHANGED faults
    BY <1>1, <1>7 DEF PutReturns, Together
  <2>2. FitsIn(manifest')
    BY <2>1
  <2>. QED BY <2>1, <2>2 DEF ThumbLimits, CallAt, FitsIn
<1>8. ASSUME NEW k \in Thumb, Discards(k) PROVE ThumbLimits'
  <2>1. call = NoFileHere /\ call' = [at |-> "discard", key |-> k, m |-> Less(manifest, k)]
        /\ UNCHANGED <<manifest, faults>>
    BY <1>8 DEF Discards
  <2>2. Less(manifest, k) \in Seq(ThumbEntry)
    BY <1>1, LessIs DEF IsManifest
  <2>3. call' \in ThumbCall
    BY <2>1, <2>2 DEF ThumbCall
  <2>4. call' # NoFileHere /\ call'.m = Less(manifest, k)
    BY <2>1, <2>3, ThumbConstants
  <2>5. FitsIn(manifest) => FitsIn(call'.m)
    BY <1>1, <2>4, LessFits
  <2>6. "kill" \notin faults' => FitsIn(call'.m)
    BY <2>1, <2>5 DEF ThumbLimits
  <2>. QED BY <2>4, <2>6 DEF ThumbLimits, CallAt, FitsIn
<1>9. CASE Discarded
  <2>1. CallAt("discard") /\ call' = NoFileHere /\ manifest' = call.m /\ UNCHANGED faults
    BY <1>9 DEF Discarded
  <2>2. "kill" \notin faults' => FitsIn(manifest')
    BY <2>1 DEF ThumbLimits
  <2>. QED BY <2>1, <2>2 DEF ThumbLimits, CallAt, FitsIn
<1>10. CASE AppIsKilled
  <2>1. "kill" \in faults'
    BY <1>10 DEF AppIsKilled
  <2>. QED BY <2>1 DEF ThumbLimits
<1>11. CASE UNCHANGED thumbVars
  BY <1>11 DEF thumbVars, ThumbLimits, CallAt, FitsIn
<1>. QED BY <1>2, <1>3, <1>4, <1>5, <1>6, <1>7, <1>8, <1>9, <1>10, <1>11 DEF ThumbNext

(* The keys of a manifest are as many as its entries.                      *)
LEMMA KeysCount ==
  ASSUME NEW m, IsManifest(m)
  PROVE  Cardinality(KeysOf(m)) = Len(m)
<1>1. PICK n \in Nat : n = Len(m)
  BY DEF IsManifest
<1>2. DOMAIN m = 1 .. n /\ \A i, j \in 1 .. n : m[i].key = m[j].key => i = j
  BY <1>1 DEF IsManifest, OneOfEach
<1>. DEFINE f == [i \in 1 .. n |-> m[i].key]
<1>3. f \in Bijection(1 .. n, KeysOf(m))
  <2>1. f \in [1 .. n -> KeysOf(m)]
    BY <1>2 DEF KeysOf
  <2>2. \A i, j \in 1 .. n : f[i] = f[j] => i = j
    BY <1>2
  <2>3. \A x \in KeysOf(m) : \E i \in 1 .. n : f[i] = x
    <3>. SUFFICES ASSUME NEW x \in KeysOf(m) PROVE \E i \in 1 .. n : f[i] = x
      OBVIOUS
    <3>1. PICK i \in 1 .. n : m[i].key = x
      BY <1>2 DEF KeysOf
    <3>2. f[i] = x
      BY <3>1
    <3>. QED BY <3>2
  <2>. HIDE DEF f
  <2>. QED BY <2>1, <2>2, <2>3 DEF Bijection, Injection, Surjection, IsInjective
<1>4. IsFiniteSet(1 .. n) /\ Cardinality(1 .. n) = n
  <2>1. PICK a \in Int : a = 1
    OBVIOUS
  <2>2. n \in Int
    BY <1>1
  <2>3. IsFiniteSet(a .. n) /\ Cardinality(a .. n) = IF a > n THEN 0 ELSE n - a + 1
    BY ONLY <2>2, FS_Interval
  <2>. QED BY <1>1, <2>1, <2>3
<1>5. ExistsBijection(1 .. n, KeysOf(m))
  BY <1>3 DEF ExistsBijection
<1>. QED BY <1>1, <1>4, <1>5, FS_Bijection

(* The type of the cache and its limits, for any limits and thumbnails:    *)
(* whenever no function runs, the manifest lists each thumbnail once and   *)
(* they are neither too many nor too large, unless the app was killed or   *)
(* there is only one.                                                      *)
THEOREM ThumbsTyped == ThumbSpec => []ThumbTypeOK
<1>. DEFINE Good == ThumbInv /\ ThumbLimits
<1>1. ThumbInit => Good
  BY ThumbStarts, ThumbLimitsBegin
<1>2. Good /\ [ThumbNext]_thumbVars => Good'
  BY ThumbLimitsStep, ThumbKeeps
<1>3. Good => ThumbTypeOK
  <2>. SUFFICES ASSUME Good PROVE ThumbTypeOK
    OBVIOUS
  <2>1. ThumbTyped /\ IsManifest(manifest) /\ ThumbLimits
    BY DEF ThumbInv, ThumbTyped
  <2>2. KeysOf(manifest) \subseteq Thumb /\ Cardinality(KeysOf(manifest)) = Len(manifest)
    BY <2>1, KeysAre, KeysCount
  <2>3. ASSUME FitsIn(manifest)
        PROVE  (Len(manifest) <= MaxFiles /\ Total(manifest) <= MaxBytes) \/ Len(manifest) = 1
    <3>1. Len(manifest) \in Nat /\ manifest \in Seq(ThumbEntry)
      BY <2>1 DEF IsManifest
    <3>2. CASE Len(manifest) = 0
      <4>1. PICK f : Sums(manifest, f) /\ Total(manifest) = f[Len(manifest)]
        BY <3>1, TotalIs
      <4>2. Total(manifest) = 0
        BY <3>2, <4>1 DEF Sums
      <4>3. 0 <= MaxFiles /\ 0 <= MaxBytes
        BY ThumbConstants
      <4>. QED BY <3>2, <4>2, <4>3
    <3>3. CASE Len(manifest) # 0
      <4>. PICK l \in Nat : l = Len(manifest)
        BY <3>1
      <4>1. Len(manifest) <= 1 => Len(manifest) = 1
        BY <3>3
      <4>. HIDE DEF Good
      <4>. QED BY <2>3, <4>1 DEF FitsIn
    <3>. QED BY <3>2, <3>3
  <2>. QED BY <2>1, <2>2, <2>3 DEF ThumbTypeOK, ThumbTyped, ThumbLimits
<1>. HIDE DEF Good
<1>. QED BY <1>1, <1>2, <1>3, PTL DEF ThumbSpec
=============================================================================
