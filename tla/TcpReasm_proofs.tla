-------------------------- MODULE TcpReasm_proofs --------------------------
(* The reassembly of first records for every number of connections, tuples *)
(* and streams, every record, segmentation and order of arrival.           *)
EXTENDS TcpReasm, TLAPS, WellFoundedInduction, FiniteSetTheorems

LEMMA LeastNumber ==
  ASSUME NEW S \in SUBSET Nat, S # {}
  PROVE  \E i \in S : \A j \in S : i <= j
<1>1. \E i \in S : \A j \in S : ~ (<<j, i>> \in OpToRel(<, Nat))
  BY NatLessThanWellFounded, WFMin
<1>2. PICK i \in S : \A j \in S : ~ (<<j, i>> \in OpToRel(<, Nat))
  BY <1>1
<1>3. ASSUME NEW j \in S PROVE i <= j
  <2>1. ~ (<<j, i>> \in OpToRel(<, Nat))
    BY <1>2
  <2>2. ~ (j < i)
    BY <2>1 DEF OpToRel
  <2>3. QED BY <2>2
<1>4. QED BY <1>3

-----------------------------------------------------------------------------
(* Sequence numbers: a difference tells how far a block is from the first. *)
LEMMA SeqMinusRange ==
  ASSUME NEW a \in 0 .. (SeqSpace - 1), NEW b \in 0 .. (SeqSpace - 1)
  PROVE  SeqMinus(a, b) \in 0 .. (SeqSpace - 1)
BY ReasmConstants DEF SeqMinus

LEMMA SeqOffset ==
  ASSUME NEW c \in Conn, NEW i \in 0 .. Length[c]
  PROVE  /\ Seq(c, i) \in 0 .. (SeqSpace - 1) /\ Seq(c, 0) \in 0 .. (SeqSpace - 1)
         /\ SeqMinus(Seq(c, i), Seq(c, 0)) = i
         /\ Seq(c, i) = Seq(c, 0) => i = 0
<1>1. /\ Isn[c] \in 0 .. (SeqSpace - 1) /\ Length[c] \in 0 .. (SeqSpace - MaxLen)
      /\ SeqSpace \in Nat /\ MaxLen \in Nat /\ MaxLen > 0
  BY ReasmConstants
<1> DEFINE n == Isn[c]
<1>2. n \in 0 .. (SeqSpace - 1) /\ i \in 0 .. (SeqSpace - 1)
  BY <1>1
<1>3. QED BY <1>1, <1>2 DEF Seq, SeqPlus, SeqMinus

-----------------------------------------------------------------------------
(* How one stream changes.                                                 *)

LEMMA StreamFields ==
  ASSUME NEW s \in Stream
  PROVE  /\ s.have \in BOOLEAN /\ s.base \in 0 .. (SeqSpace - 1) /\ s.buf \in Buffer
         /\ s.used \in 0 .. MaxLen /\ s.pending \in SUBSET Piece
         /\ s.done \in BOOLEAN /\ s.l7 \in BOOLEAN /\ s.seen \in Nat
BY DEF Stream, Off

LEMMA PieceFields ==
  ASSUME NEW p \in Piece
  PROVE  p.off \in 0 .. MaxLen /\ p.end \in 0 .. MaxLen /\ p.data \in Buffer
BY DEF Piece, Off

LEMMA EmptyIsBuffer == EmptyBuffer \in Buffer
BY DEF EmptyBuffer, Buffer

(* The prefix of a stream and the pieces that wait are apart, and a stream *)
(* without a base has seen nothing.                                        *)
StreamOK(s) ==
  /\ s \in Stream
  /\ \A p \in s.pending : s.used < p.off /\ p.off < p.end
  /\ ~ s.have => s.used = 0 /\ s.pending = {} /\ ~ s.done

(* The stream has block i, in its prefix or in a piece.                    *)
Has(s, i) == i < s.used \/ \E p \in s.pending : p.off <= i /\ i < p.end

(* What the stream has are the blocks of connection c.                     *)
Contents(c, s) ==
  /\ \A i \in 0 .. (s.used - 1) : s.buf[i] = <<c, i>>
  /\ \A p \in s.pending : \A i \in p.off .. (p.end - 1) : p.data[i] = <<c, i>>

(* What remains of a stream that does not change but for buf, used and     *)
(* pending.                                                                *)
SameRest(r, s) == /\ r.have = s.have /\ r.base = s.base /\ r.done = s.done
                  /\ r.l7 = s.l7 /\ r.seen = s.seen

LEMMA FirstOfIsOne ==
  ASSUME NEW C \in SUBSET Piece, C # {}
  PROVE  FirstOf(C) \in C
<1> DEFINE offs == {p.off : p \in C}
<1>1. offs \in SUBSET Nat /\ offs # {} /\ MaxLen \in Nat
  BY PieceFields, ReasmConstants
<1>2. PICK o \in offs : \A x \in offs : o <= x
  BY <1>1, LeastNumber
<1> DEFINE D == {p \in C : p.off = o}
           rest == {MaxLen - p.end : p \in D}
<1>3. rest \in SUBSET Nat /\ rest # {}
  <2>1. D # {}
    OBVIOUS
  <2>2. \A p \in D : MaxLen - p.end \in Nat
    BY <1>1, PieceFields
  <2>3. QED BY <2>1, <2>2
<1>4. PICK r \in rest : \A x \in rest : r <= x
  BY <1>3, LeastNumber
<1>5. PICK p \in D : r = MaxLen - p.end
  OBVIOUS
<1>6. ASSUME NEW q \in C
      PROVE  p.off < q.off \/ (p.off = q.off /\ p.end >= q.end)
  <2>1. p.off = o /\ o <= q.off /\ o \in Nat /\ q.off \in Nat
    BY <1>1, <1>2
  <2>2. p.end \in Nat /\ q.end \in Nat
    BY <1>1, PieceFields
  <2>3. CASE q.off = o
    <3>1. MaxLen - p.end <= MaxLen - q.end
      BY <1>4, <1>5, <2>3
    <3>2. QED BY <1>1, <2>1, <2>2, <2>3, <3>1
  <2>4. QED BY <2>1, <2>3
<1>7. QED BY <1>6 DEF FirstOf

LEMMA ReachStops ==
  ASSUME NEW P \in SUBSET Piece, NEW u \in 0 .. MaxLen
  PROVE  /\ Reach(P, u) \in u .. MaxLen /\ Cover(P, Reach(P, u)) = {}
         /\ \A w \in u .. (Reach(P, u) - 1) : Cover(P, w) # {}
<1> DEFINE V == {v \in u .. MaxLen : Cover(P, v) = {}}
<1>1. MaxLen \in Nat /\ u \in Nat
  BY ReasmConstants
<1>2. Cover(P, MaxLen) = {}
  BY <1>1, PieceFields DEF Cover
<1>3. V \in SUBSET Nat /\ V # {}
  BY <1>1, <1>2
<1>4. PICK v \in V : \A x \in V : v <= x
  BY <1>3, LeastNumber
<1>5. \A w \in u .. (v - 1) : Cover(P, w) # {}
  <2>1. SUFFICES ASSUME NEW w \in u .. (v - 1), Cover(P, w) = {} PROVE FALSE
    OBVIOUS
  <2>2. w \in V /\ w < v
    BY <1>1, <1>3, <2>1
  <2>3. QED BY <1>1, <1>3, <1>4, <2>2
<1>6. \E x \in u .. MaxLen :
        Cover(P, x) = {} /\ \A w \in u .. (x - 1) : Cover(P, w) # {}
  BY <1>4, <1>5
<1> HIDE DEF V
<1>7. QED BY <1>6 DEF Reach

LEMMA MergedFields ==
  ASSUME NEW s \in Stream
  PROVE  LET m == Merged(s) IN
         /\ m \in Stream /\ SameRest(m, s) /\ s.used <= m.used
         /\ \A p \in m.pending : p \in s.pending /\ m.used < p.off
         /\ \A i \in 0 .. (MaxLen - 1) : Has(s, i) => Has(m, i)
         /\ \A i \in 0 .. (s.used - 1) : m.buf[i] = s.buf[i]
         /\ \A i \in s.used .. (m.used - 1) :
              \E p \in s.pending : p.off <= i /\ i < p.end /\ m.buf[i] = p.data[i]
<1> DEFINE u == Reach(s.pending, s.used)
           buf == [i \in 0 .. (MaxLen - 1) |->
                     IF s.used <= i /\ i < u
                     THEN FirstOf(Cover(s.pending, i)).data[i] ELSE s.buf[i]]
           pending == {p \in s.pending : p.off > u}
<1>1. /\ s.pending \in SUBSET Piece /\ s.used \in 0 .. MaxLen /\ s.buf \in Buffer
      /\ MaxLen \in Nat
  BY StreamFields, ReasmConstants
<1>2. /\ u \in s.used .. MaxLen /\ Cover(s.pending, u) = {}
      /\ \A w \in s.used .. (u - 1) : Cover(s.pending, w) # {}
  BY <1>1, ReachStops
<1> HIDE DEF u
<1>3. ASSUME NEW i \in 0 .. (MaxLen - 1), s.used <= i, i < u
      PROVE  FirstOf(Cover(s.pending, i)) \in Cover(s.pending, i)
  <2>1. i \in s.used .. (u - 1)
    BY <1>1, <1>2, <1>3
  <2>2. Cover(s.pending, i) # {} /\ Cover(s.pending, i) \in SUBSET Piece
    BY <1>1, <1>2, <2>1 DEF Cover
  <2>3. QED BY <2>2, FirstOfIsOne
<1>4. buf \in Buffer
  <2>1. ASSUME NEW i \in 0 .. (MaxLen - 1) PROVE buf[i] \in Block \cup {Nil}
    <3>1. CASE s.used <= i /\ i < u
      <4>1. FirstOf(Cover(s.pending, i)) \in Piece
        BY <1>1, <1>3, <3>1 DEF Cover
      <4>2. FirstOf(Cover(s.pending, i)).data \in Buffer
        BY <4>1, PieceFields
      <4>3. FirstOf(Cover(s.pending, i)).data[i] \in Block \cup {Nil}
        BY <4>2 DEF Buffer
      <4>4. QED BY <3>1, <4>3
    <3>2. CASE ~ (s.used <= i /\ i < u)
      BY <1>1, <3>2 DEF Buffer
    <3>3. QED BY <3>1, <3>2
  <2>2. QED BY <2>1 DEF Buffer
<1>5. Merged(s) = [s EXCEPT !.buf = buf, !.used = u, !.pending = pending]
  BY DEF Merged, u
<1>6. \A i \in 0 .. (MaxLen - 1) :
        buf[i] = IF s.used <= i /\ i < u
                 THEN FirstOf(Cover(s.pending, i)).data[i] ELSE s.buf[i]
  OBVIOUS
<1>7. \A p \in pending : p \in s.pending /\ p.off > u
  OBVIOUS
<1>8. ASSUME NEW i \in 0 .. (MaxLen - 1), Has(s, i)
      PROVE  i < u \/ \E p \in pending : p.off <= i /\ i < p.end
  <2>1. CASE i < s.used
    BY <1>1, <1>2, <2>1
  <2>2. CASE ~ (i < s.used)
    <3>1. PICK p \in s.pending : p.off <= i /\ i < p.end
      BY <1>8, <2>2 DEF Has
    <3>2. p.off \in Nat /\ p.end \in Nat /\ u \in Nat
      BY <1>1, <1>2, PieceFields
    <3>3. CASE i < u
      BY <3>3
    <3>4. CASE ~ (i < u)
      <4>1. p.off > u
        BY <1>2, <3>1, <3>2, <3>4 DEF Cover
      <4>2. QED BY <3>1, <4>1
    <3>5. QED BY <3>3, <3>4
  <2>3. QED BY <2>1, <2>2
<1>9. pending \in SUBSET Piece /\ u \in Off
  BY <1>1, <1>2 DEF Off
<1> HIDE DEF buf, pending
<1>10. /\ Merged(s) \in Stream /\ SameRest(Merged(s), s)
       /\ Merged(s).buf = buf /\ Merged(s).used = u /\ Merged(s).pending = pending
  BY <1>4, <1>5, <1>9 DEF Stream, SameRest
<1>11. \A i \in 0 .. (s.used - 1) : buf[i] = s.buf[i]
  BY <1>1, <1>6
<1>12. ASSUME NEW i \in s.used .. (u - 1)
       PROVE  \E p \in s.pending : p.off <= i /\ i < p.end /\ buf[i] = p.data[i]
  <2>1. i \in 0 .. (MaxLen - 1) /\ s.used <= i /\ i < u
    BY <1>1, <1>2
  <2>2. QED BY <1>3, <1>6, <2>1 DEF Cover
<1>13. s.used <= u
  BY <1>1, <1>2
<1>14. QED BY <1>7, <1>8, <1>10, <1>11, <1>12, <1>13 DEF Has

LEMMA ExtendedFields ==
  ASSUME NEW s \in Stream, NEW p \in Piece, p.off <= s.used, s.used < p.end
  PROVE  LET m == Extended(s, p) IN
         /\ m \in Stream /\ SameRest(m, s) /\ s.used < m.used /\ p.end <= m.used
         /\ \A q \in m.pending : q \in s.pending /\ m.used < q.off
         /\ \A i \in 0 .. (MaxLen - 1) :
              Has(s, i) \/ (p.off <= i /\ i < p.end) => Has(m, i)
         /\ \A i \in 0 .. (s.used - 1) : m.buf[i] = s.buf[i]
         /\ \A i \in s.used .. (p.end - 1) : m.buf[i] = p.data[i]
         /\ \A i \in p.end .. (m.used - 1) :
              \E q \in s.pending : q.off <= i /\ i < q.end /\ m.buf[i] = q.data[i]
<1> DEFINE buf == [i \in 0 .. (MaxLen - 1) |->
                     IF s.used <= i /\ i < p.end THEN p.data[i] ELSE s.buf[i]]
           r == [s EXCEPT !.buf = buf, !.used = p.end]
           m == Merged(r)
<1>1. /\ s.used \in 0 .. MaxLen /\ s.buf \in Buffer /\ MaxLen \in Nat
      /\ p.off \in 0 .. MaxLen /\ p.end \in 0 .. MaxLen /\ p.data \in Buffer
      /\ s.pending \in SUBSET Piece
  BY StreamFields, PieceFields, ReasmConstants
<1>2. buf \in Buffer
  <2>1. \A i \in 0 .. (MaxLen - 1) : buf[i] \in Block \cup {Nil}
    BY <1>1 DEF Buffer
  <2>2. QED BY <2>1 DEF Buffer
<1>3. \A i \in 0 .. (MaxLen - 1) :
        buf[i] = IF s.used <= i /\ i < p.end THEN p.data[i] ELSE s.buf[i]
  OBVIOUS
<1>4. Extended(s, p) = m
  BY DEF Extended
<1> HIDE DEF buf
<1>5. /\ r \in Stream /\ SameRest(r, s) /\ r.buf = buf /\ r.used = p.end
      /\ r.pending = s.pending
  BY <1>1, <1>2 DEF Stream, Off, SameRest
<1> HIDE DEF r
<1>6. /\ m \in Stream /\ SameRest(m, r) /\ p.end <= m.used
      /\ \A q \in m.pending : q \in s.pending /\ m.used < q.off
      /\ \A i \in 0 .. (MaxLen - 1) : Has(r, i) => Has(m, i)
      /\ \A i \in 0 .. (p.end - 1) : m.buf[i] = buf[i]
      /\ \A i \in p.end .. (m.used - 1) :
           \E q \in s.pending : q.off <= i /\ i < q.end /\ m.buf[i] = q.data[i]
  BY <1>5, MergedFields
<1> HIDE DEF m
<1>7. SameRest(m, s) /\ s.used < m.used
  <2>1. m.used \in 0 .. MaxLen
    BY <1>6, StreamFields
  <2>2. QED BY <1>1, <1>5, <1>6, <2>1 DEF SameRest
<1>8. ASSUME NEW i \in 0 .. (MaxLen - 1), Has(s, i) \/ (p.off <= i /\ i < p.end)
      PROVE  Has(m, i)
  <2>1. Has(r, i)
    BY <1>1, <1>5, <1>8 DEF Has
  <2>2. QED BY <1>6, <2>1
<1>9. \A i \in 0 .. (s.used - 1) : m.buf[i] = s.buf[i]
  <2>1. ASSUME NEW i \in 0 .. (s.used - 1)
        PROVE  /\ i \in 0 .. (p.end - 1) /\ i \in 0 .. (MaxLen - 1)
               /\ ~ (s.used <= i)
    BY <1>1
  <2>2. QED BY <1>3, <1>6, <2>1
<1>10. \A i \in s.used .. (p.end - 1) : m.buf[i] = p.data[i]
  <2>1. ASSUME NEW i \in s.used .. (p.end - 1)
        PROVE  /\ i \in 0 .. (p.end - 1) /\ i \in 0 .. (MaxLen - 1)
               /\ s.used <= i /\ i < p.end
    BY <1>1
  <2>2. QED BY <1>3, <1>6, <2>1
<1>11. QED BY <1>4, <1>6, <1>7, <1>8, <1>9, <1>10

LEMMA PostponedFields ==
  ASSUME NEW s \in Stream, NEW p \in Piece
  PROVE  LET m == Postponed(s, p) IN
         /\ m \in Stream /\ SameRest(m, s) /\ m.used = s.used /\ m.buf = s.buf
         /\ s.pending \subseteq m.pending /\ m.pending \subseteq s.pending \cup {p}
         /\ \A i \in 0 .. (MaxLen - 1) :
              Has(s, i) \/ (p.off <= i /\ i < p.end) => Has(m, i)
<1>1. s.pending \in SUBSET Piece
  BY StreamFields
<1>2. CASE \E q \in s.pending : q.off = p.off /\ q.end >= p.end
  <2>1. Postponed(s, p) = s
    BY <1>2 DEF Postponed
  <2>2. PICK q \in s.pending : q.off = p.off /\ q.end >= p.end
    BY <1>2
  <2>3. p.end \in Nat /\ q.end \in Nat
    BY <1>1, PieceFields
  <2>4. \A i \in 0 .. (MaxLen - 1) : p.off <= i /\ i < p.end => q.off <= i /\ i < q.end
    BY <2>2, <2>3
  <2>5. QED BY <2>1, <2>4 DEF SameRest, Has
<1>3. CASE ~ \E q \in s.pending : q.off = p.off /\ q.end >= p.end
  <2> DEFINE m == [s EXCEPT !.pending = s.pending \cup {p}]
  <2>1. Postponed(s, p) = m
    BY <1>3 DEF Postponed
  <2>2. /\ m \in Stream /\ SameRest(m, s) /\ m.used = s.used /\ m.buf = s.buf
        /\ m.pending = s.pending \cup {p}
    BY <1>1 DEF Stream, SameRest
  <2> HIDE DEF m
  <2>3. QED BY <2>1, <2>2 DEF Has
<1>4. QED BY <1>2, <1>3

LEMMA PlacedFields ==
  ASSUME NEW off \in 0 .. (MaxLen - 1), NEW len \in Nat \ {0},
         NEW payload \in [0 .. (len - 1) -> Block]
  PROVE  LET p == Placed(off, len, payload) IN
         /\ p \in Piece /\ p.off = off /\ off < p.end
         /\ p.end = IF off + len < MaxLen THEN off + len ELSE MaxLen
         /\ \A i \in off .. (p.end - 1) : p.data[i] = payload[i - off]
<1> DEFINE end  == IF off + len < MaxLen THEN off + len ELSE MaxLen
           data == [i \in 0 .. (MaxLen - 1) |->
                      IF off <= i /\ i < end THEN payload[i - off] ELSE Nil]
<1>1. MaxLen \in Nat /\ end \in 0 .. MaxLen /\ off < end /\ end <= off + len
  BY ReasmConstants
<1>2. Placed(off, len, payload) = [off |-> off, end |-> end, data |-> data]
  BY DEF Placed
<1> HIDE DEF end
<1>3. data \in Buffer
  <2>1. ASSUME NEW i \in 0 .. (MaxLen - 1), off <= i, i < end
        PROVE  payload[i - off] \in Block
    BY <1>1, <2>1
  <2>2. \A i \in 0 .. (MaxLen - 1) : data[i] \in Block \cup {Nil}
    BY <2>1
  <2>3. QED BY <2>2 DEF Buffer
<1>4. \A i \in off .. (end - 1) : data[i] = payload[i - off]
  BY <1>1
<1> HIDE DEF data
<1>5. QED BY <1>1, <1>2, <1>3, <1>4 DEF Piece, Off, end

LEMMA BasedFields ==
  ASSUME NEW s, StreamOK(s), NEW seq \in 0 .. (SeqSpace - 1)
  PROVE  LET b == Based(s, seq) IN
         /\ b \in Stream /\ b.have /\ b.base = (IF s.have THEN s.base ELSE seq)
         /\ b.used = s.used /\ b.buf = s.buf /\ b.pending = s.pending
         /\ b.done = s.done /\ b.l7 = s.l7 /\ b.seen = s.seen
<1>1. s \in Stream
  BY DEF StreamOK
<1>2. CASE s.have
  BY <1>1, <1>2 DEF Based
<1>3. CASE ~ s.have
  <2>1. Based(s, seq) = [s EXCEPT !.have = TRUE, !.base = seq]
    BY <1>3 DEF Based
  <2>2. QED BY <1>1, <1>3, <2>1 DEF Stream
<1>4. QED BY <1>2, <1>3

(* A segment: the stream stays in order, and if it is a segment of the     *)
(* connection whose blocks the stream has, they are in the stream.         *)
LEMMA FedFields ==
  ASSUME NEW s, StreamOK(s), NEW seq \in 0 .. (SeqSpace - 1),
         NEW len \in Nat \ {0}, NEW payload \in [0 .. (len - 1) -> Block]
  PROVE  LET f == Fed(s, seq, len, payload) IN
         /\ StreamOK(f) /\ f.have /\ f.base = (IF s.have THEN s.base ELSE seq)
         /\ f.done = s.done /\ f.l7 = s.l7 /\ s.used <= f.used
         /\ \A c \in Conn : \A i \in 0 .. Length[c] :
              /\ seq = Seq(c, i) /\ f.base = Seq(c, 0) /\ Contents(c, s)
              /\ i + len <= Length[c] /\ payload = Payload(c, i, len)
              => /\ Contents(c, f)
                 /\ \A j \in 0 .. (MaxLen - 1) :
                      Has(s, j) \/ j \in i .. (i + len - 1) => Has(f, j)
<1> DEFINE b   == Based(s, seq)
           off == SeqMinus(seq, b.base)
           p   == Placed(off, len, payload)
           f   == Fed(s, seq, len, payload)
<1> SUFFICES
      /\ StreamOK(f) /\ f.have /\ f.base = (IF s.have THEN s.base ELSE seq)
      /\ f.done = s.done /\ f.l7 = s.l7 /\ s.used <= f.used
      /\ \A c \in Conn : \A i \in 0 .. Length[c] :
           /\ seq = Seq(c, i) /\ f.base = Seq(c, 0) /\ Contents(c, s)
           /\ i + len <= Length[c] /\ payload = Payload(c, i, len)
           => /\ Contents(c, f)
              /\ \A j \in 0 .. (MaxLen - 1) :
                   Has(s, j) \/ j \in i .. (i + len - 1) => Has(f, j)
  OBVIOUS
<1>1. /\ b \in Stream /\ b.have /\ b.base = (IF s.have THEN s.base ELSE seq)
      /\ b.used = s.used /\ b.buf = s.buf /\ b.pending = s.pending
      /\ b.done = s.done /\ b.l7 = s.l7
  BY BasedFields
<1>2. f = IF off >= MaxLen \/ p.end <= b.used THEN b
          ELSE IF off > b.used THEN Postponed(b, p) ELSE Extended(b, p)
  BY DEF Fed
<1> HIDE DEF b, f
<1>3. b.base \in 0 .. (SeqSpace - 1) /\ b.used \in 0 .. MaxLen /\ MaxLen \in Nat
  BY <1>1, StreamFields, ReasmConstants
<1>4. off \in 0 .. (SeqSpace - 1)
  BY <1>3, SeqMinusRange
<1>5. \A q \in b.pending : b.used < q.off /\ q.off < q.end
  BY <1>1 DEF StreamOK
<1>6. \A c \in Conn : Contents(c, s) <=> Contents(c, b)
  BY <1>1 DEF Contents
<1>7. \A j : Has(s, j) <=> Has(b, j)
  BY <1>1 DEF Has
<1>8. ASSUME NEW c \in Conn, NEW i \in 0 .. Length[c],
             seq = Seq(c, i), f.base = Seq(c, 0), f.base = b.base
      PROVE  off = i
  BY <1>8, SeqOffset
<1> HIDE DEF off
<1>9. ASSUME off < MaxLen
      PROVE  /\ p \in Piece /\ p.off = off /\ off < p.end
             /\ p.end = IF off + len < MaxLen THEN off + len ELSE MaxLen
             /\ \A j \in off .. (p.end - 1) : p.data[j] = payload[j - off]
             /\ p.end \in 0 .. MaxLen
  <2>1. off \in 0 .. (MaxLen - 1)
    BY <1>3, <1>4, <1>9
  <2>2. QED BY <2>1, PlacedFields, PieceFields
<1> HIDE DEF p
(* The blocks of the segment are those of the connection.                  *)
<1>10. ASSUME NEW c \in Conn, NEW i \in 0 .. Length[c], off = i, off < MaxLen,
              i + len <= Length[c], payload = Payload(c, i, len)
       PROVE  /\ \A j \in off .. (p.end - 1) : p.data[j] = <<c, j>>
              /\ \A j \in 0 .. (MaxLen - 1) :
                   j \in i .. (i + len - 1) => p.off <= j /\ j < p.end
  <2>1. ASSUME NEW j \in off .. (p.end - 1) PROVE p.data[j] = <<c, j>>
    <3>1. j - off \in 0 .. (len - 1) /\ j \in Int /\ off \in Int /\ i + (j - off) = j
      BY <1>3, <1>4, <1>9, <1>10
    <3>2. payload[j - off] = <<c, i + (j - off)>>
      BY <1>10, <3>1 DEF Payload
    <3>3. QED BY <1>9, <1>10, <3>1, <3>2
  <2>2. \A j \in 0 .. (MaxLen - 1) :
          j \in i .. (i + len - 1) => p.off <= j /\ j < p.end
    BY <1>3, <1>4, <1>9, <1>10
  <2>3. QED BY <2>1, <2>2
<1>11. CASE off >= MaxLen
  <2>1. f = b
    BY <1>2, <1>11
  <2>2. StreamOK(f)
    BY <1>1, <1>5, <2>1 DEF StreamOK
  <2>3. ASSUME NEW c \in Conn, NEW i \in 0 .. Length[c], NEW j \in 0 .. (MaxLen - 1),
               seq = Seq(c, i), f.base = Seq(c, 0)
        PROVE  ~ (j \in i .. (i + len - 1))
    BY <1>3, <1>4, <1>8, <1>11, <2>1, <2>3
  <2>4. ASSUME NEW c \in Conn, NEW i \in 0 .. Length[c],
               seq = Seq(c, i), f.base = Seq(c, 0), Contents(c, s)
        PROVE  /\ Contents(c, f)
               /\ \A j \in 0 .. (MaxLen - 1) :
                    Has(s, j) \/ j \in i .. (i + len - 1) => Has(f, j)
    BY <1>6, <1>7, <2>1, <2>3, <2>4
  <2>5. QED BY <1>1, <1>3, <2>1, <2>2, <2>4
<1>12. CASE off < MaxLen /\ p.end <= b.used
  <2>1. f = b
    BY <1>2, <1>12
  <2>2. StreamOK(f)
    BY <1>1, <1>5, <2>1 DEF StreamOK
  <2>3. ASSUME NEW c \in Conn, NEW i \in 0 .. Length[c], NEW j \in 0 .. (MaxLen - 1),
               seq = Seq(c, i), f.base = Seq(c, 0), i + len <= Length[c],
               payload = Payload(c, i, len), j \in i .. (i + len - 1)
        PROVE  Has(f, j)
    <3>1. j < p.end
      BY <1>8, <1>10, <1>12, <2>1, <2>3
    <3>2. j < b.used
      BY <1>3, <1>9, <1>12, <3>1
    <3>3. QED BY <2>1, <3>2 DEF Has
  <2>4. QED BY <1>1, <1>3, <1>6, <1>7, <2>1, <2>2, <2>3
<1>13. CASE off < MaxLen /\ ~ (p.end <= b.used) /\ off > b.used
  <2>1. f = Postponed(b, p)
    BY <1>2, <1>3, <1>4, <1>13
  <2>2. /\ f \in Stream /\ SameRest(f, b) /\ f.used = b.used /\ f.buf = b.buf
        /\ f.pending \subseteq b.pending \cup {p}
        /\ \A j \in 0 .. (MaxLen - 1) :
             Has(b, j) \/ (p.off <= j /\ j < p.end) => Has(f, j)
    BY <1>1, <1>9, <1>13, <2>1, PostponedFields
  <2>3. StreamOK(f)
    BY <1>1, <1>3, <1>4, <1>5, <1>9, <1>13, <2>2 DEF StreamOK, SameRest
  <2>4. ASSUME NEW c \in Conn, NEW i \in 0 .. Length[c],
               seq = Seq(c, i), f.base = Seq(c, 0), Contents(c, s),
               i + len <= Length[c], payload = Payload(c, i, len)
        PROVE  /\ Contents(c, f)
               /\ \A j \in 0 .. (MaxLen - 1) :
                    Has(s, j) \/ j \in i .. (i + len - 1) => Has(f, j)
    <3>1. off = i
      BY <1>8, <2>2, <2>4 DEF SameRest
    <3>2. Contents(c, f)
      <4>1. Contents(c, b)
        BY <1>6, <2>4
      <4>2. p.off = off /\ \A j \in off .. (p.end - 1) : p.data[j] = <<c, j>>
        BY <1>9, <1>10, <1>13, <2>4, <3>1
      <4>. QED BY <2>2, <4>1, <4>2 DEF Contents
    <3>3. QED BY <1>7, <1>10, <1>13, <2>2, <2>4, <3>1, <3>2
  <2>5. QED BY <1>1, <1>3, <2>2, <2>3, <2>4 DEF SameRest
<1>14. CASE off < MaxLen /\ ~ (p.end <= b.used) /\ ~ (off > b.used)
  <2>1. f = Extended(b, p)
    BY <1>2, <1>3, <1>4, <1>14
  <2>2. p \in Piece /\ p.off <= b.used /\ b.used < p.end
    BY <1>3, <1>4, <1>9, <1>14
  <2>3. /\ f \in Stream /\ SameRest(f, b) /\ b.used < f.used /\ p.end <= f.used
        /\ \A q \in f.pending : q \in b.pending /\ f.used < q.off
        /\ \A j \in 0 .. (MaxLen - 1) :
             Has(b, j) \/ (p.off <= j /\ j < p.end) => Has(f, j)
        /\ \A j \in 0 .. (b.used - 1) : f.buf[j] = b.buf[j]
        /\ \A j \in b.used .. (p.end - 1) : f.buf[j] = p.data[j]
        /\ \A j \in p.end .. (f.used - 1) :
             \E q \in b.pending : q.off <= j /\ j < q.end /\ f.buf[j] = q.data[j]
    BY <1>1, <2>1, <2>2, ExtendedFields
  <2>4. StreamOK(f)
    BY <1>1, <1>5, <2>3 DEF StreamOK, SameRest
  <2>5. b.used <= f.used
    BY <1>3, <2>3, StreamFields
  <2>6. ASSUME NEW c \in Conn, NEW i \in 0 .. Length[c],
               seq = Seq(c, i), f.base = Seq(c, 0), Contents(c, s),
               i + len <= Length[c], payload = Payload(c, i, len)
        PROVE  /\ Contents(c, f)
               /\ \A j \in 0 .. (MaxLen - 1) :
                    Has(s, j) \/ j \in i .. (i + len - 1) => Has(f, j)
    <3>1. off = i
      BY <1>8, <2>3, <2>6 DEF SameRest
    <3>2. Contents(c, b)
      BY <1>6, <2>6
    <3>3. ASSUME NEW j \in 0 .. (f.used - 1) PROVE f.buf[j] = <<c, j>>
      <4>1. f.used \in 0 .. MaxLen /\ p.end \in 0 .. MaxLen
        BY <1>9, <1>14, <2>3, StreamFields
      <4>2. CASE j < b.used
        BY <1>3, <2>3, <3>2, <4>2 DEF Contents
      <4>3. CASE b.used <= j /\ j < p.end
        <5>1. j \in b.used .. (p.end - 1) /\ j \in off .. (p.end - 1)
          BY <1>3, <1>4, <1>9, <1>14, <4>1, <4>3
        <5>2. QED BY <1>10, <1>14, <2>3, <2>6, <3>1, <5>1
      <4>4. CASE p.end <= j
        <5>1. PICK q \in b.pending : q.off <= j /\ j < q.end /\ f.buf[j] = q.data[j]
          BY <2>3, <4>1, <4>4
        <5>2. q.off \in Nat /\ q.end \in Nat
          BY <1>1, <1>3, StreamFields, PieceFields
        <5>3. j \in q.off .. (q.end - 1)
          BY <5>1, <5>2
        <5>4. QED BY <3>2, <5>1, <5>3 DEF Contents
      <4>5. QED BY <1>3, <4>1, <4>2, <4>3, <4>4
    <3>4. Contents(c, f)
      BY <2>3, <3>2, <3>3 DEF Contents
    <3>5. QED BY <1>7, <1>10, <1>14, <2>3, <2>6, <3>1, <3>4
  <2>7. QED BY <1>1, <1>3, <2>3, <2>4, <2>5, <2>6 DEF SameRest
<1>15. QED BY <1>3, <1>4, <1>9, <1>11, <1>12, <1>13, <1>14

LEMMA ConsumedFields ==
  ASSUME NEW s \in Stream
  PROVE  LET r == Consumed(s) IN
         /\ r \in Stream /\ r.used = 0 /\ r.pending = {} /\ r.done
         /\ r.have = s.have /\ r.base = s.base /\ r.l7 = s.l7
<1> DEFINE r == [s EXCEPT !.done = TRUE, !.buf = EmptyBuffer, !.used = 0,
                          !.pending = {}]
<1>1. Consumed(s) = r
  BY DEF Consumed
<1>2. EmptyBuffer \in Buffer /\ 0 \in Off /\ {} \in SUBSET Piece
  BY EmptyIsBuffer, ReasmConstants DEF Off
<1>3. /\ r \in Stream /\ r.used = 0 /\ r.pending = {} /\ r.done
      /\ r.have = s.have /\ r.base = s.base /\ r.l7 = s.l7
  BY <1>2 DEF Stream
<1>4. QED BY <1>1, <1>3

(* Every record to be parsed fits into the buffer.                         *)
NeedsFit == \A c \in Hello : Need[c] <= MaxLen

LEMMA ParsedFields ==
  ASSUME NEW s, StreamOK(s), s.have, NEW k
  PROVE  LET r == Parsed(k, s) IN
         /\ StreamOK(r) /\ r.have /\ r.base = s.base /\ r.l7 = s.l7
         /\ r = s \/ (r.used = 0 /\ r.pending = {})
         /\ NeedsFit => r.used < MaxLen
         /\ \A c \in Hello : Contents(c, s) /\ s.used < Need[c] /\ Need[c] <= MaxLen
                            => r = s
<1> DEFINE r == Parsed(k, s)
<1>1. s \in Stream /\ s.used \in 0 .. MaxLen /\ MaxLen \in Nat /\ MaxLen > 0
  BY StreamFields, ReasmConstants DEF StreamOK
<1>2. /\ Consumed(s) \in Stream /\ Consumed(s).used = 0 /\ Consumed(s).pending = {}
      /\ Consumed(s).have /\ Consumed(s).base = s.base /\ Consumed(s).l7 = s.l7
  BY <1>1, ConsumedFields
<1>3. r = s \/ r = Consumed(s)
  BY DEF Parsed
<1>4. \A c \in Conn : Need[c] \in Nat /\ Need[c] > 0
  BY ReasmConstants
<1>5. ASSUME StartsHello(s)
      PROVE  /\ \E d \in Hello : s.buf[0] = <<d, 0>> /\ RecordLen(s) = Need[d]
             /\ s.used > 0
  BY <1>5 DEF StartsHello, RecordLen
<1>6. ASSUME NeedsFit, s.used >= MaxLen PROVE r = Consumed(s)
  <2>1. s.used # 0 /\ s.used >= MaxLen
    BY <1>1, <1>6
  <2>2. StartsHello(s) => s.used >= RecordLen(s)
    BY <1>1, <1>4, <1>5, <1>6, ReasmConstants DEF NeedsFit
  <2>3. QED BY <2>1, <2>2 DEF Parsed
<1>7. ASSUME NEW c \in Hello, Contents(c, s), s.used < Need[c], Need[c] <= MaxLen
      PROVE  r = s
  <2>1. s.used > 0 => s.buf[0] = <<c, 0>>
    BY <1>1, <1>7 DEF Contents
  <2>2. \A d \in Conn : s.used > 0 /\ s.buf[0] = <<d, 0>> => d = c
    BY <2>1
  <2>3. StartsHello(s) => RecordLen(s) = Need[c]
    BY <1>5, <2>2, ReasmConstants
  <2>4. HostOf(s) = {}
    <3>1. SUFFICES ASSUME NEW d \in HostOf(s) PROVE FALSE
      OBVIOUS
    <3>2. /\ d \in Hello /\ d \in Conn /\ s.used >= Need[d]
          /\ \A i \in 0 .. (Need[d] - 1) : s.buf[i] = <<d, i>>
      BY <3>1, ReasmConstants DEF HostOf
    <3>3. Need[d] \in Nat /\ Need[d] > 0
      BY <1>4, <3>2
    <3>4. s.used > 0 /\ s.buf[0] = <<d, 0>>
      BY <1>1, <3>2, <3>3
    <3>5. d = c
      BY <2>2, <3>2, <3>4
    <3>6. QED BY <1>1, <1>7, <3>2, <3>3, <3>5
  <2>5. ~ (s.used >= MaxLen) /\ ~ (s.used >= Need[c])
    BY <1>1, <1>4, <1>7, ReasmConstants
  <2>6. QED BY <2>3, <2>4, <2>5 DEF Parsed
<1> HIDE DEF r
<1>8. StreamOK(r) /\ r.have /\ r.base = s.base /\ r.l7 = s.l7
  BY <1>2, <1>3 DEF StreamOK
<1>9. NeedsFit => r.used < MaxLen
  BY <1>1, <1>2, <1>3, <1>6
<1>10. /\ StreamOK(r) /\ r.have /\ r.base = s.base /\ r.l7 = s.l7
       /\ r = s \/ (r.used = 0 /\ r.pending = {})
       /\ NeedsFit => r.used < MaxLen
       /\ \A c \in Hello : Contents(c, s) /\ s.used < Need[c] /\ Need[c] <= MaxLen
                          => r = s
  BY <1>2, <1>3, <1>7, <1>8, <1>9
<1>11. QED BY <1>10 DEF r

(* What the capture thread does with a segment of a stream.                *)
LEMMA HandledFields ==
  ASSUME NEW s, StreamOK(s), NEW seq \in 0 .. (SeqSpace - 1), NEW k,
         NEW len \in Nat \ {0}, NEW payload \in [0 .. (len - 1) -> Block]
  PROVE  LET h == Handled(k, s, seq, len, payload) IN
         /\ StreamOK(h.to) /\ h.hosts \in SUBSET Hello
         /\ NeedsFit /\ s.used < MaxLen => h.to.used < MaxLen
         /\ \A c \in Conn : \A i \in 0 .. Length[c] :
              /\ seq = Seq(c, i) /\ h.to.have /\ h.to.base = Seq(c, 0)
              /\ Contents(c, s)
              /\ i + len <= Length[c] /\ payload = Payload(c, i, len)
              => /\ Contents(c, h.to)
                 /\ c \in Hello /\ Need[c] <= MaxLen /\ k # "L7" /\ ~ s.done =>
                      \/ c \in h.hosts
                      \/ /\ ~ h.to.done /\ h.to.used < Need[c]
                         /\ \A j \in 0 .. (MaxLen - 1) :
                              Has(s, j) \/ j \in i .. (i + len - 1) => Has(h.to, j)
<1> DEFINE h == Handled(k, s, seq, len, payload)
           f == Fed(s, seq, len, payload)
<1> SUFFICES
      /\ StreamOK(h.to) /\ h.hosts \in SUBSET Hello
      /\ NeedsFit /\ s.used < MaxLen => h.to.used < MaxLen
      /\ \A c \in Conn : \A i \in 0 .. Length[c] :
           /\ seq = Seq(c, i) /\ h.to.have /\ h.to.base = Seq(c, 0)
           /\ Contents(c, s)
           /\ i + len <= Length[c] /\ payload = Payload(c, i, len)
           => /\ Contents(c, h.to)
              /\ c \in Hello /\ Need[c] <= MaxLen /\ k # "L7" /\ ~ s.done =>
                   \/ c \in h.hosts
                   \/ /\ ~ h.to.done /\ h.to.used < Need[c]
                      /\ \A j \in 0 .. (MaxLen - 1) :
                           Has(s, j) \/ j \in i .. (i + len - 1) => Has(h.to, j)
  OBVIOUS
<1>1. s \in Stream /\ s.used \in 0 .. MaxLen
  BY StreamFields DEF StreamOK
<1>2. CASE k = "L7"
  <2> DEFINE r == [s EXCEPT !.l7 = TRUE]
  <2>1. /\ h.to = r
        /\ h.hosts = IF s.l7 THEN {} ELSE {c \in Hello : payload[0] = <<c, 0>>}
    BY <1>2 DEF Handled
  <2>2. /\ r \in Stream /\ r.have = s.have /\ r.base = s.base /\ r.buf = s.buf
        /\ r.used = s.used /\ r.pending = s.pending /\ r.done = s.done
    BY <1>1 DEF Stream
  <2> HIDE DEF h, r
  <2>3. StreamOK(h.to)
    BY <2>1, <2>2 DEF StreamOK
  <2>4. h.hosts \in SUBSET Hello
    BY <2>1
  <2>5. \A c \in Conn : Contents(c, s) => Contents(c, h.to)
    BY <2>1, <2>2 DEF Contents
  <2>6. QED BY <1>2, <2>1, <2>2, <2>3, <2>4, <2>5
<1>3. CASE k # "L7" /\ s.done
  <2>1. h = [to |-> s, hosts |-> {}]
    BY <1>3 DEF Handled
  <2>2. h.to = s /\ h.hosts = {}
    BY <2>1
  <2>3. s.have
    BY <1>3 DEF StreamOK
  <2> HIDE DEF h
  <2>4. QED BY <1>3, <2>2, <2>3
<1>4. CASE k # "L7" /\ ~ s.done
  <2>1. h = [to |-> Parsed(k, f), hosts |-> HostOf(f)]
    BY <1>4 DEF Handled
  <2>2. h.to = Parsed(k, f) /\ h.hosts = HostOf(f)
    BY <2>1
  <2>3. /\ StreamOK(f) /\ f.have /\ f.base = (IF s.have THEN s.base ELSE seq)
        /\ f.done = s.done
        /\ \A c \in Conn : \A i \in 0 .. Length[c] :
             /\ seq = Seq(c, i) /\ f.base = Seq(c, 0) /\ Contents(c, s)
             /\ i + len <= Length[c] /\ payload = Payload(c, i, len)
             => /\ Contents(c, f)
                /\ \A j \in 0 .. (MaxLen - 1) :
                     Has(s, j) \/ j \in i .. (i + len - 1) => Has(f, j)
    BY FedFields
  <2> HIDE DEF h, f
  <2>4. /\ StreamOK(h.to) /\ h.to.have /\ h.to.base = f.base
        /\ h.to = f \/ (h.to.used = 0 /\ h.to.pending = {})
        /\ NeedsFit => h.to.used < MaxLen
        /\ \A c \in Hello : Contents(c, f) /\ f.used < Need[c] /\ Need[c] <= MaxLen
                           => h.to = f
    BY <2>2, <2>3, ParsedFields
  <2>5. h.hosts \in SUBSET Hello
    BY <2>2 DEF HostOf
  <2>6. ASSUME NEW c \in Conn, NEW i \in 0 .. Length[c],
               seq = Seq(c, i), h.to.base = Seq(c, 0), Contents(c, s),
               i + len <= Length[c], payload = Payload(c, i, len)
        PROVE  /\ Contents(c, h.to)
               /\ c \in Hello /\ Need[c] <= MaxLen =>
                    \/ c \in h.hosts
                    \/ /\ ~ h.to.done /\ h.to.used < Need[c]
                       /\ \A j \in 0 .. (MaxLen - 1) :
                            Has(s, j) \/ j \in i .. (i + len - 1) => Has(h.to, j)
    <3>1. /\ Contents(c, f)
          /\ \A j \in 0 .. (MaxLen - 1) :
               Has(s, j) \/ j \in i .. (i + len - 1) => Has(f, j)
      BY <2>3, <2>4, <2>6
    <3>2. Contents(c, h.to)
      BY <2>4, <3>1 DEF Contents
    <3>3. ASSUME c \in Hello, Need[c] <= MaxLen, c \notin h.hosts
          PROVE  h.to = f /\ f.used < Need[c]
      <4>1. /\ Need[c] \in Nat /\ f.used \in Nat
        BY <2>3, StreamFields, ReasmConstants DEF StreamOK
      <4>2. f.used < Need[c]
        <5>1. SUFFICES ASSUME f.used >= Need[c] PROVE FALSE
          BY <4>1
        <5>2. \A n \in 0 .. (Need[c] - 1) : f.buf[n] = <<c, n>>
          BY <3>1, <4>1, <5>1 DEF Contents
        <5>3. QED BY <2>2, <3>3, <5>1, <5>2 DEF HostOf
      <4>3. QED BY <2>4, <3>1, <3>3, <4>2
    <3>4. QED BY <1>4, <2>3, <3>1, <3>2, <3>3
  <2>7. QED BY <1>4, <2>3, <2>4, <2>5, <2>6
<1>5. QED BY <1>2, <1>3, <1>4

LEMMA HandledBase ==
  ASSUME NEW s, StreamOK(s), NEW seq \in 0 .. (SeqSpace - 1), NEW k,
         NEW len \in Nat \ {0}, NEW payload \in [0 .. (len - 1) -> Block]
  PROVE  LET r == Handled(k, s, seq, len, payload).to IN
         /\ s.have => r.have /\ r.base = s.base
         /\ ~ s.have /\ r.have => r.base = seq
<1> DEFINE h == Handled(k, s, seq, len, payload)
           f == Fed(s, seq, len, payload)
           x == [s EXCEPT !.l7 = TRUE]
<1>1. s \in Stream
  BY DEF StreamOK
<1>2. x.have = s.have /\ x.base = s.base
  BY <1>1 DEF Stream
<1>3. StreamOK(f) /\ f.have /\ f.base = (IF s.have THEN s.base ELSE seq)
  BY FedFields
<1>4. Parsed(k, f).have /\ Parsed(k, f).base = f.base
  BY <1>3, ParsedFields
<1>5. s.done => s.have
  BY DEF StreamOK
<1>6. \/ k = "L7" /\ h.to = x
      \/ s.done /\ h.to = s
      \/ h.to = Parsed(k, f)
  BY DEF Handled
<1> HIDE DEF h, f, x
<1>7. QED BY <1>2, <1>3, <1>4, <1>5, <1>6 DEF h

-----------------------------------------------------------------------------
(* The stream table.                                                       *)

TableOK ==
  /\ stream \in [Tuple -> Stream \cup {Nil}] /\ now \in Nat
  /\ \A t \in Streams : StreamOK(stream[t])

(* All that counts of a stream but when it was seen.                       *)
SameData(r, s) ==
  /\ r.have = s.have /\ r.base = s.base /\ r.buf = s.buf /\ r.used = s.used
  /\ r.pending = s.pending /\ r.done = s.done /\ r.l7 = s.l7

LEMMA NewStreamFields ==
  ASSUME now \in Nat
  PROVE  /\ StreamOK(NewStream) /\ ~ NewStream.have /\ ~ NewStream.done
         /\ NewStream.used = 0 /\ NewStream.pending = {}
<1>1. /\ EmptyBuffer \in Buffer /\ 0 \in Off /\ {} \in SUBSET Piece
      /\ 0 \in 0 .. (SeqSpace - 1)
  BY EmptyIsBuffer, ReasmConstants DEF Off
<1>2. NewStream \in Stream
  BY <1>1 DEF NewStream, Stream
<1>3. QED BY <1>2 DEF NewStream, StreamOK

LEMMA AgedFields ==
  ASSUME TableOK
  PROVE  /\ AgedStreams \in [Tuple -> Stream \cup {Nil}]
         /\ \A u \in Tuple : AgedStreams[u] = stream[u] \/ AgedStreams[u] = Nil
BY DEF AgedStreams, TableOK

LEMMA TablesFields ==
  ASSUME TableOK, NEW t \in Tuple, NEW T \in Tables(t)
  PROVE  /\ T \in [Tuple -> Stream \cup {Nil}]
         /\ \A u \in Tuple : u # t => T[u] = stream[u] \/ T[u] = Nil
         /\ T[t] # Nil /\ StreamOK(T[t])
         /\ stream[t] # Nil => SameData(T[t], stream[t])
         /\ stream[t] = Nil => T[t] = NewStream
<1>1. /\ stream \in [Tuple -> Stream \cup {Nil}] /\ now \in Nat
      /\ StreamOK(NewStream) /\ NewStream \in Stream
  BY NewStreamFields DEF TableOK, StreamOK
<1>2. CASE stream[t] # Nil
  <2> DEFINE s == stream[t]
             r == [s EXCEPT !.seen = now]
  <2>1. T = [stream EXCEPT ![t] = r]
    BY <1>2 DEF Tables
  <2>2. s \in Stream /\ StreamOK(s)
    BY <1>1, <1>2 DEF TableOK, Streams
  <2>3. r \in Stream /\ SameData(r, s)
    BY <1>1, <2>2 DEF Stream, SameData
  <2> HIDE DEF r
  <2>4. StreamOK(r)
    BY <2>2, <2>3 DEF StreamOK, SameData
  <2>5. T[t] = r /\ T \in [Tuple -> Stream \cup {Nil}]
        /\ \A u \in Tuple : u # t => T[u] = stream[u]
    BY <1>1, <2>1, <2>3
  <2>6. QED BY <1>2, <2>3, <2>4, <2>5, NilIsNoStream
<1>3. CASE stream[t] = Nil
  <2>1. PICK B \in {stream, AgedStreams} \cup {[AgedStreams EXCEPT ![u] = Nil] : u \in Oldest(AgedStreams)} :
          T = [B EXCEPT ![t] = NewStream]
    <3>1. \/ T = [stream EXCEPT ![t] = NewStream]
          \/ T = [AgedStreams EXCEPT ![t] = NewStream]
          \/ \E u \in Oldest(AgedStreams) : T = [AgedStreams EXCEPT ![u] = Nil, ![t] = NewStream]
      BY <1>3 DEF Tables
    <3>2. ASSUME NEW u \in Oldest(AgedStreams),
                 T = [AgedStreams EXCEPT ![u] = Nil, ![t] = NewStream]
          PROVE  T = [[AgedStreams EXCEPT ![u] = Nil] EXCEPT ![t] = NewStream]
      BY <3>2
    <3>3. QED BY <3>1, <3>2
  <2>2. /\ B \in [Tuple -> Stream \cup {Nil}]
        /\ \A u \in Tuple : B[u] = stream[u] \/ B[u] = Nil
    BY <1>1, <2>1, AgedFields DEF Oldest
  <2>3. /\ T \in [Tuple -> Stream \cup {Nil}] /\ T[t] = NewStream
        /\ \A u \in Tuple : u # t => T[u] = B[u]
    BY <1>1, <2>1, <2>2
  <2>4. QED BY <1>1, <1>3, <2>2, <2>3, NilIsNoStream
<1>4. QED BY <1>2, <1>3

(* The table does not grow beyond its bound.                               *)
Used(B) == {u \in Tuple : B[u] # Nil}

LEMMA UsedIsFinite ==
  ASSUME IsFiniteSet(Tuple), NEW B
  PROVE  IsFiniteSet(Used(B)) /\ Cardinality(Used(B)) \in Nat
<1>1. Used(B) \in SUBSET Tuple
  BY DEF Used
<1>2. QED BY <1>1, FS_Subset, FS_CardinalityType

LEMMA PutWithinBound ==
  ASSUME IsFiniteSet(Tuple), TableOK, NEW t \in Tuple,
         NEW B \in [Tuple -> Stream \cup {Nil}],
         Cardinality(Used(B)) < StreamMax
  PROVE  Cardinality(Used([B EXCEPT ![t] = NewStream])) <= StreamMax
<1>1. NewStream # Nil
  BY NewStreamFields, NilIsNoStream DEF TableOK, StreamOK
<1>2. Used([B EXCEPT ![t] = NewStream]) = Used(B) \cup {t}
  BY <1>1 DEF Used
<1>3. IsFiniteSet(Used(B)) /\ Cardinality(Used(B)) \in Nat
  BY UsedIsFinite
<1>4. Cardinality(Used(B) \cup {t}) =
        IF t \in Used(B) THEN Cardinality(Used(B)) ELSE Cardinality(Used(B)) + 1
  BY <1>3, FS_AddElement
<1> DEFINE n == Cardinality(Used(B))
<1>5. n \in Nat /\ n < StreamMax /\ StreamMax \in Nat
  BY <1>3, ReasmConstants
<1>6. Cardinality(Used(B) \cup {t}) = n \/ Cardinality(Used(B) \cup {t}) = n + 1
  BY <1>4
<1> HIDE DEF n
<1>7. Cardinality(Used(B) \cup {t}) <= StreamMax
  BY <1>5, <1>6
<1>8. QED BY <1>2, <1>7

LEMMA TablesWithinBound ==
  ASSUME IsFiniteSet(Tuple), TableOK, Cardinality(Streams) <= StreamMax,
         NEW t \in Tuple, NEW T \in Tables(t)
  PROVE  Cardinality(Used(T)) <= StreamMax
<1>1. /\ stream \in [Tuple -> Stream \cup {Nil}]
      /\ AgedStreams \in [Tuple -> Stream \cup {Nil}]
      /\ Streams = Used(stream) /\ StreamMax \in Nat
  BY AgedFields, ReasmConstants DEF TableOK, Streams, Used
<1>2. CASE stream[t] # Nil
  <2>1. Used(T) = Used(stream)
    BY <1>1, <1>2, TablesFields DEF Used, Tables
  <2>2. QED BY <1>1, <2>1
<1>3. CASE stream[t] = Nil /\ ~Full(stream)
  <2>1. T = [stream EXCEPT ![t] = NewStream]
    BY <1>3 DEF Tables
  <2>2. Cardinality(Used(stream)) < StreamMax
    BY <1>1, <1>3, UsedIsFinite DEF Full, Used
  <2>3. QED BY <1>1, <2>1, <2>2, PutWithinBound
<1>4. CASE stream[t] = Nil /\ Full(stream) /\ ~Full(AgedStreams)
  <2>1. T = [AgedStreams EXCEPT ![t] = NewStream]
    BY <1>4 DEF Tables
  <2>2. Cardinality(Used(AgedStreams)) < StreamMax
    BY <1>1, <1>4, UsedIsFinite DEF Full, Used
  <2>3. QED BY <1>1, <2>1, <2>2, PutWithinBound
<1>5. CASE stream[t] = Nil /\ Full(stream) /\ Full(AgedStreams)
  <2>1. PICK u \in Oldest(AgedStreams) : T = [AgedStreams EXCEPT ![u] = Nil, ![t] = NewStream]
    BY <1>5 DEF Tables
  <2> DEFINE B == [AgedStreams EXCEPT ![u] = Nil]
  <2>2. u \in Used(AgedStreams) /\ B \in [Tuple -> Stream \cup {Nil}]
    BY <1>1 DEF Oldest, Used
  <2>3. Used(B) = Used(AgedStreams) \ {u}
    BY <1>1, <2>2 DEF Used
  <2>4. Used(AgedStreams) \in SUBSET Used(stream)
    BY <1>1, AgedFields DEF Used
  <2>5. /\ Cardinality(Used(AgedStreams)) <= Cardinality(Used(stream))
        /\ Cardinality(Used(AgedStreams)) \in Nat /\ Cardinality(Used(stream)) \in Nat
    BY <2>4, UsedIsFinite, FS_Subset
  <2>6. Cardinality(Used(AgedStreams) \ {u}) = Cardinality(Used(AgedStreams)) - 1
    BY <2>2, UsedIsFinite, FS_RemoveElement
  <2>7. Cardinality(Used(B)) < StreamMax
    <3> DEFINE a == Cardinality(Used(AgedStreams))
               n == Cardinality(Used(stream))
    <3>1. a \in Nat /\ n \in Nat /\ a <= n /\ n <= StreamMax /\ StreamMax \in Nat
      BY <1>1, <2>5
    <3>2. Cardinality(Used(B)) = a - 1
      BY <2>3, <2>6
    <3> HIDE DEF a, n, B
    <3>3. QED BY <3>1, <3>2
  <2>8. T = [B EXCEPT ![t] = NewStream]
    BY <2>1
  <2> HIDE DEF B
  <2>9. QED BY <2>2, <2>7, <2>8, PutWithinBound
<1>6. QED BY <1>2, <1>3, <1>4, <1>5

-----------------------------------------------------------------------------
(* The types, for every program and traffic.                               *)

TypeInv ==
  /\ phase \in [Conn -> {"new", "open", "closed"}]
  /\ now \in 0 .. MaxTime
  /\ TableOK
  /\ found \subseteq Conn
  /\ got \in [Conn -> SUBSET Nat]
  /\ IsFiniteSet(Tuple) => Cardinality(Streams) <= StreamMax
  /\ NeedsFit => FullIsReleased

(* The new table of a step: T of Tables(t) with r for the stream of t.     *)
LEMMA TableStep ==
  ASSUME TypeInv, NEW t \in Tuple, NEW T \in Tables(t), NEW r, StreamOK(r),
         NeedsFit /\ T[t].used < MaxLen => r.used < MaxLen,
         stream' = [T EXCEPT ![t] = r], now' = now
  PROVE  /\ TableOK' /\ (NeedsFit => FullIsReleased)'
         /\ (IsFiniteSet(Tuple) => Cardinality(Streams) <= StreamMax)'
         /\ stream'[t] = r /\ stream'[t] # Nil
         /\ \A u \in Tuple : u # t => stream'[u] = stream[u] \/ stream'[u] = Nil
<1>1. /\ T \in [Tuple -> Stream \cup {Nil}] /\ T[t] # Nil
      /\ \A u \in Tuple : u # t => T[u] = stream[u] \/ T[u] = Nil
      /\ stream[t] # Nil => SameData(T[t], stream[t])
      /\ stream[t] = Nil => T[t] = NewStream
  BY TablesFields DEF TypeInv
<1>2. r \in Stream /\ r # Nil
  BY NilIsNoStream DEF StreamOK
<1>3. /\ stream' \in [Tuple -> Stream \cup {Nil}] /\ stream'[t] = r
      /\ \A u \in Tuple : u # t => stream'[u] = T[u]
  BY <1>1, <1>2
<1>4. ASSUME NEW u \in Tuple, stream'[u] # Nil
      PROVE  StreamOK(stream'[u])
  BY <1>1, <1>3, <1>4 DEF TypeInv, TableOK, Streams
<1>5. TableOK'
  BY <1>3, <1>4 DEF TableOK, Streams, TypeInv, StreamOK, Stream, Piece, Off, Buffer, Block
<1>6. ASSUME NeedsFit, NEW u \in Tuple, stream'[u] # Nil
      PROVE  stream'[u].used < MaxLen
  <2>1. \A v \in Streams : stream[v].used < MaxLen
    BY <1>6 DEF TypeInv, FullIsReleased
  <2>2. T[t].used < MaxLen
    <3>1. CASE stream[t] # Nil
      BY <1>1, <2>1, <3>1 DEF Streams, SameData
    <3>2. CASE stream[t] = Nil
      BY <1>1, <3>2, NewStreamFields, ReasmConstants DEF TypeInv, TableOK
    <3>3. QED BY <3>1, <3>2
  <2>3. QED BY <1>1, <1>3, <1>6, <2>1, <2>2 DEF Streams
<1>7. (NeedsFit => FullIsReleased)'
  BY <1>6 DEF FullIsReleased, Streams, NeedsFit
<1>8. ASSUME IsFiniteSet(Tuple) PROVE Cardinality(Streams') <= StreamMax
  <2>1. Used(T) = Streams'
    BY <1>1, <1>2, <1>3 DEF Used, Streams
  <2>2. QED BY <1>8, <2>1, TablesWithinBound DEF TypeInv
<1>9. QED BY <1>1, <1>2, <1>3, <1>5, <1>7, <1>8

LEMMA WithIsnFields ==
  ASSUME NEW s, StreamOK(s), NEW c \in Conn
  PROVE  LET r == WithIsn(s, Isn[c]) IN
         /\ StreamOK(r) /\ r.have /\ r.used = s.used
         /\ s.have => r = s
         /\ ~ s.have => r.base = Seq(c, 0) /\ r.pending = {} /\ ~ r.done
<1>1. s \in Stream /\ SeqPlus(Isn[c], 1) = Seq(c, 0)
      /\ Seq(c, 0) \in 0 .. (SeqSpace - 1)
  BY SeqOffset, ReasmConstants DEF StreamOK, Seq
<1>2. CASE s.have
  BY <1>2 DEF WithIsn
<1>3. CASE ~ s.have
  <2> DEFINE r == [s EXCEPT !.have = TRUE, !.base = Seq(c, 0)]
  <2>1. WithIsn(s, Isn[c]) = r
    BY <1>1, <1>3 DEF WithIsn
  <2>2. /\ r \in Stream /\ r.have /\ r.base = Seq(c, 0) /\ r.used = s.used
        /\ r.pending = s.pending /\ r.done = s.done
    BY <1>1 DEF Stream
  <2> HIDE DEF r
  <2>3. QED BY <1>3, <2>1, <2>2 DEF StreamOK
<1>4. QED BY <1>2, <1>3

LEMMA KeptIsTyped ==
  ASSUME TypeInv, NEW T
  PROVE  /\ Kept(T) \in [Conn -> SUBSET Nat]
         /\ \A c \in Conn : Kept(T)[c] = IF T[TupleOf[c]] = Nil THEN {} ELSE got[c]
BY DEF TypeInv, Kept

LEMMA PayloadIsBlocks ==
  ASSUME NEW c \in Conn, NEW i \in Nat, NEW len \in Nat
  PROVE  Payload(c, i, len) \in [0 .. (len - 1) -> Block]
BY DEF Payload, Block

(* The segments of CaptureData and of a padded CaptureAck.                 *)
LEMMA DataStep ==
  ASSUME TypeInv, NEW c \in Conn, CaptureData(c)
  PROVE  \E i \in 0 .. (Length[c] - 1), len \in 1 .. MaxSeg, T \in Tables(TupleOf[c]) :
           LET t == TupleOf[c]
               h == Handled(Kind[t], T[t], Seq(c, i), len, Payload(c, i, len))
           IN /\ i + len <= Length[c] /\ stream' = [T EXCEPT ![t] = h.to]
              /\ found' = found \cup h.hosts
              /\ got' = [Kept(T) EXCEPT ![c] =
                           IF h.to.have /\ h.to.base = Seq(c, 0)
                           THEN @ \cup i .. (i + len - 1) ELSE {}]
BY DEF CaptureData, Capture

LEMMA InitTypeInv == ReasmInit => TypeInv
<1> SUFFICES ASSUME ReasmInit PROVE TypeInv
  OBVIOUS
<1> USE DEF ReasmInit
<1>1. Streams = {}
  BY DEF Streams
<1>2. TableOK
  BY <1>1 DEF TableOK
<1>3. Cardinality(Streams) <= StreamMax
  BY <1>1, FS_EmptySet, ReasmConstants
<1>4. FullIsReleased
  BY <1>1 DEF FullIsReleased
<1>5. QED BY <1>2, <1>3, <1>4, ReasmConstants DEF TypeInv

LEMMA TypeInvInductive ==
  ASSUME TypeInv, [ReasmNext]_reasmVars
  PROVE  TypeInv'
<1>1. CASE UNCHANGED reasmVars
  BY <1>1 DEF reasmVars, TypeInv, TableOK, Streams, StreamOK, Stream, Piece, Off, Buffer,
              Block, FullIsReleased, NeedsFit
<1> DEFINE SameTable == /\ TableOK' /\ (NeedsFit => FullIsReleased)'
                        /\ (IsFiniteSet(Tuple) => Cardinality(Streams) <= StreamMax)'
<1>2. ASSUME stream' = stream, now' \in Nat PROVE SameTable
  BY <1>2 DEF TypeInv, TableOK, Streams, StreamOK, Stream, Piece, Off, Buffer,
              Block, FullIsReleased, NeedsFit
<1> HIDE DEF SameTable
<1>3. ASSUME NEW c \in Conn, OpenConn(c) \/ CloseConn(c) PROVE TypeInv'
  <2>1. SameTable
    BY <1>2, <1>3 DEF OpenConn, CloseConn, TypeInv, TableOK
  <2>2. phase' \in [Conn -> {"new", "open", "closed"}]
    BY <1>3 DEF OpenConn, CloseConn, TypeInv
  <2>3. QED BY <1>3, <2>1, <2>2 DEF OpenConn, CloseConn, TypeInv, SameTable
<1>4. ASSUME NEW c \in Conn, CaptureSyn(c) PROVE TypeInv'
  <2> DEFINE t == TupleOf[c]
  <2>1. t \in Tuple
    BY ReasmConstants
  <2>2. PICK T \in Tables(t) :
          /\ stream' = [T EXCEPT ![t] = WithIsn(T[t], Isn[c])] /\ got' = Kept(T)
          /\ UNCHANGED <<phase, now, found>>
    BY <1>4 DEF CaptureSyn
  <2>3. StreamOK(T[t])
    BY <2>1, TablesFields DEF TypeInv
  <2>4. StreamOK(WithIsn(T[t], Isn[c])) /\ WithIsn(T[t], Isn[c]).used = T[t].used
    BY <2>3, WithIsnFields
  <2>5. SameTable
    BY <2>1, <2>2, <2>4, TableStep DEF SameTable
  <2>6. QED BY <2>2, <2>5, KeptIsTyped DEF TypeInv, SameTable
<1>5. ASSUME NEW c \in Conn, CaptureData(c) PROVE TypeInv'
  <2> DEFINE t == TupleOf[c]
             h(i, len, T) == Handled(Kind[t], T[t], Seq(c, i), len, Payload(c, i, len))
  <2>1. t \in Tuple
    BY ReasmConstants
  <2>2. PICK i \in 0 .. (Length[c] - 1), len \in 1 .. MaxSeg, T \in Tables(t) :
          /\ stream' = [T EXCEPT ![t] = h(i, len, T).to]
          /\ found' = found \cup h(i, len, T).hosts
          /\ got' = [Kept(T) EXCEPT ![c] =
                       IF h(i, len, T).to.have /\ h(i, len, T).to.base = Seq(c, 0)
                       THEN @ \cup i .. (i + len - 1) ELSE {}]
    BY <1>5, DataStep
  <2>3. UNCHANGED <<phase, now>>
    BY <1>5 DEF CaptureData
  <2>4. StreamOK(T[t])
    BY <2>1, TablesFields DEF TypeInv
  <2>5. /\ i \in Nat /\ i \in 0 .. Length[c] /\ len \in Nat \ {0}
        /\ Seq(c, i) \in 0 .. (SeqSpace - 1)
        /\ Payload(c, i, len) \in [0 .. (len - 1) -> Block]
    <3>1. Length[c] \in Nat /\ MaxSeg \in Nat
      BY ReasmConstants
    <3>2. i \in Nat /\ i \in 0 .. Length[c] /\ len \in Nat /\ len # 0
      BY <3>1
    <3>3. QED BY <3>2, SeqOffset, PayloadIsBlocks
  <2> DEFINE r == h(i, len, T)
  <2>6. /\ StreamOK(r.to) /\ r.hosts \in SUBSET Hello
        /\ NeedsFit /\ T[t].used < MaxLen => r.to.used < MaxLen
    BY <2>4, <2>5, HandledFields
  <2> HIDE DEF h
  <2>7. SameTable
    BY <2>1, <2>2, <2>3, <2>6, TableStep DEF SameTable
  <2>8. got' \in [Conn -> SUBSET Nat]
    BY <2>2, <2>5, KeptIsTyped
  <2>9. found' \subseteq Conn
    BY <2>2, <2>6, ReasmConstants DEF TypeInv
  <2>10. QED BY <2>3, <2>7, <2>8, <2>9 DEF TypeInv, SameTable
<1>6. ASSUME NEW c \in Conn, CaptureAck(c) PROVE TypeInv'
  <2> DEFINE t == TupleOf[c]
  <2>1. t \in Tuple
    BY ReasmConstants
  <2>2. UNCHANGED <<phase, now>>
    BY <1>6 DEF CaptureAck
  <2>3. CASE c \notin Padded
    <3>1. stream' \in Tables(t) /\ got' = Kept(stream') /\ found' = found
      BY <1>6, <2>3 DEF CaptureAck
    <3>2. /\ stream' \in [Tuple -> Stream \cup {Nil}] /\ StreamOK(stream'[t])
          /\ stream' = [stream' EXCEPT ![t] = stream'[t]]
      BY <2>1, <3>1, TablesFields DEF TypeInv
    <3> DEFINE T == stream'
               r == stream'[t]
    <3>3. /\ T \in Tables(t) /\ StreamOK(r) /\ stream' = [T EXCEPT ![t] = r]
          /\ T[t].used < MaxLen => r.used < MaxLen
      BY <3>1, <3>2
    <3> HIDE DEF T, r
    <3>4. SameTable
      BY <2>1, <2>2, <3>3, TableStep DEF SameTable
    <3>5. QED BY <2>2, <3>1, <3>4, KeptIsTyped DEF TypeInv, SameTable
  <2>4. CASE c \in Padded
    <3> DEFINE q == [j \in {0} |-> Pad]
               h(i, T) == Handled(Kind[t], T[t], Seq(c, i), 1, q)
    <3>1. PICK i \in 0 .. Length[c], T \in Tables(t) :
            /\ stream' = [T EXCEPT ![t] = h(i, T).to]
            /\ found' = found \cup h(i, T).hosts /\ got' = Kept(T)
      BY <1>6, <2>4 DEF CaptureAck
    <3>2. StreamOK(T[t])
      BY <2>1, TablesFields DEF TypeInv
    <3>3. /\ Seq(c, i) \in 0 .. (SeqSpace - 1)
          /\ q \in [0 .. (1 - 1) -> Block] /\ 1 \in Nat \ {0}
      BY SeqOffset DEF Block
    <3> HIDE DEF q
    <3> DEFINE r == h(i, T)
    <3>4. /\ StreamOK(r.to) /\ r.hosts \in SUBSET Hello
          /\ NeedsFit /\ T[t].used < MaxLen => r.to.used < MaxLen
      BY <3>2, <3>3, HandledFields
    <3> HIDE DEF h
    <3>5. SameTable
      BY <2>1, <2>2, <3>1, <3>4, TableStep DEF SameTable
    <3>6. found' \subseteq Conn
      BY <3>1, <3>4, ReasmConstants DEF TypeInv
    <3>7. QED BY <2>2, <3>1, <3>5, <3>6, KeptIsTyped DEF TypeInv, SameTable
  <2>5. QED BY <2>3, <2>4
<1>7. CASE Tick
  <2>1. now' \in 0 .. MaxTime /\ now' \in Nat
    BY <1>7, ReasmConstants DEF Tick, TypeInv
  <2>2. SameTable
    BY <1>2, <1>7, <2>1 DEF Tick
  <2>3. QED BY <1>7, <2>1, <2>2 DEF Tick, TypeInv, SameTable
<1>8. QED BY <1>1, <1>3, <1>4, <1>5, <1>6, <1>7 DEF ReasmNext

-----------------------------------------------------------------------------
(* What streams have of connections: no segment is padded, and no          *)
(* connection begins with a number another one of its tuple has used.      *)

OneOpen ==
  \A c, d \in Conn : phase[c] = "open" /\ phase[d] = "open"
                     /\ TupleOf[c] = TupleOf[d] => c = d

(* The base of a stream is a number of a connection that was opened.       *)
BaseInv ==
  \A t \in Streams : stream[t].have =>
    \E d \in Conn : /\ TupleOf[d] = t /\ phase[d] # "new"
                    /\ \E i \in 0 .. Length[d] : stream[t].base = Seq(d, i)

GotInv == \A c \in Conn : got[c] # {} => Follows(c)

(* The stream of an open connection whose host is not known waits for it,  *)
(* and it has every block that it was shown.                               *)
Waits(c, s) ==
  /\ ~ s.done /\ s.used < Need[c]
  /\ \A j \in got[c] : j < MaxLen => Has(s, j)

WaitInv ==
  \A c \in Hello :
    /\ phase[c] = "open" /\ Follows(c) /\ Kind[TupleOf[c]] # "L7"
    /\ Need[c] <= MaxLen /\ c \notin found
    => Waits(c, stream[TupleOf[c]])

LinkInv == OneOpen /\ BaseInv /\ GotInv /\ PrefixIsStream /\ WaitInv /\ RecordIsFound

LEMMA PrefixIsContents ==
  PrefixIsStream <=>
    \A c \in Conn : phase[c] = "open" /\ Follows(c) => Contents(c, stream[TupleOf[c]])
BY DEF PrefixIsStream, Contents

(* A packet of connection c that leaves T of Tables(t) with r for t.       *)
LEMMA CaptureKeepsLinks ==
  ASSUME TypeInv, LinkInv, NEW c \in Conn, phase[c] = "open",
         NEW T \in Tables(TupleOf[c]), NEW r, StreamOK(r),
         stream' = [T EXCEPT ![TupleOf[c]] = r], UNCHANGED <<phase, now>>,
         found \subseteq found',
         T[TupleOf[c]].have => r.have /\ r.base = T[TupleOf[c]].base,
         ~ T[TupleOf[c]].have /\ r.have => \E i \in 0 .. Length[c] : r.base = Seq(c, i),
         \A d \in Conn : d # c => got'[d] = Kept(T)[d],
         got'[c] # {} => r.have /\ r.base = Seq(c, 0),
         r.have /\ r.base = Seq(c, 0) => Contents(c, r),
         /\ r.have /\ r.base = Seq(c, 0) /\ c \in Hello /\ Kind[TupleOf[c]] # "L7"
         /\ Need[c] <= MaxLen /\ c \notin found'
         => /\ ~ r.done /\ r.used < Need[c]
            /\ \A j \in got'[c] : j < MaxLen => Has(r, j)
  PROVE  LinkInv'
<1> DEFINE t == TupleOf[c]
<1> USE DEF LinkInv
<1>1. /\ t \in Tuple /\ TableOK /\ r # Nil
      /\ T \in [Tuple -> Stream \cup {Nil}]
      /\ \A u \in Tuple : u # t => T[u] = stream[u] \/ T[u] = Nil
      /\ T[t] # Nil
      /\ stream[t] # Nil => SameData(T[t], stream[t])
      /\ stream[t] = Nil => ~ T[t].have
  BY TablesFields, NewStreamFields, ReasmConstants, NilIsNoStream
     DEF TypeInv, TableOK, StreamOK
<1>2. /\ stream'[t] = r
      /\ \A u \in Tuple : u # t => stream'[u] = stream[u] \/ stream'[u] = Nil
      /\ \A u \in Tuple : u # t => stream'[u] = T[u]
  BY <1>1
<1>3. OneOpen'
  BY DEF OneOpen
<1>4. BaseInv'
  <2>1. ASSUME NEW u \in Tuple, stream'[u] # Nil, stream'[u].have
        PROVE  \E d \in Conn : /\ TupleOf[d] = u /\ phase[d] # "new"
                               /\ \E i \in 0 .. Length[d] : stream'[u].base = Seq(d, i)
    <3>1. CASE u # t
      BY <1>2, <2>1, <3>1 DEF BaseInv, Streams
    <3>2. CASE u = t /\ T[t].have
      <4>1. stream[t] # Nil /\ stream[t].have /\ r.base = stream[t].base
        BY <1>1, <3>2 DEF SameData
      <4>2. QED BY <1>1, <1>2, <3>2, <4>1 DEF BaseInv, Streams
    <3>3. CASE u = t /\ ~ T[t].have
      <4>1. \E i \in 0 .. Length[c] : r.base = Seq(c, i)
        BY <1>2, <2>1, <3>3
      <4>2. QED BY <1>2, <3>3, <4>1
    <3>4. QED BY <3>1, <3>2, <3>3
  <2>2. QED BY <2>1 DEF BaseInv, Streams, Seq, SeqPlus
<1>5. ASSUME NEW d \in Conn, d # c
      PROVE  /\ got'[d] # {} => got'[d] = got[d] /\ Follows(d)'
             /\ got'[d] \subseteq got[d]
  <2>1. got'[d] = IF T[TupleOf[d]] = Nil THEN {} ELSE got[d]
    BY <1>5, KeptIsTyped
  <2>2. SUFFICES ASSUME got'[d] # {} PROVE Follows(d)'
    BY <2>1
  <2>3. got[d] # {} /\ T[TupleOf[d]] # Nil /\ Follows(d) /\ TupleOf[d] \in Tuple
    BY <2>1, <2>2, ReasmConstants DEF GotInv
  <2>4. CASE TupleOf[d] # t
    BY <1>1, <1>2, <2>3, <2>4 DEF Follows, Seq, SeqPlus
  <2>5. CASE TupleOf[d] = t
    <3>1. T[t].have /\ T[t].base = Seq(d, 0)
      BY <1>1, <2>3, <2>5 DEF Follows, SameData
    <3>2. QED BY <1>1, <1>2, <2>5, <3>1 DEF Follows, Seq, SeqPlus
  <2>6. QED BY <2>4, <2>5
<1>6. Follows(c)' <=> r.have /\ r.base = Seq(c, 0)
  BY <1>1, <1>2 DEF Follows, Seq, SeqPlus
<1>7. GotInv'
  BY <1>5, <1>6 DEF GotInv
<1>8. ASSUME NEW d \in Conn, d # c, phase[d] = "open"
      PROVE  /\ TupleOf[d] \in Tuple /\ TupleOf[d] # t
             /\ Follows(d)' => Follows(d) /\ stream'[TupleOf[d]] = stream[TupleOf[d]]
  <2>1. TupleOf[d] \in Tuple /\ TupleOf[d] # t
    BY <1>8, ReasmConstants DEF OneOpen
  <2>2. QED BY <1>2, <2>1 DEF Follows, Seq, SeqPlus
<1>9. PrefixIsStream'
  <2>1. ASSUME NEW d \in Conn, phase[d] = "open", Follows(d)'
        PROVE  Contents(d, stream'[TupleOf[d]])
    <3>1. CASE d = c
      BY <1>2, <1>6, <2>1, <3>1
    <3>2. CASE d # c
      BY <1>8, <2>1, <3>2, PrefixIsContents
    <3>3. QED BY <3>1, <3>2
  <2>2. QED BY <2>1 DEF PrefixIsStream, Contents
<1>10. WaitInv'
  <2>1. ASSUME NEW d \in Hello, phase[d] = "open", Follows(d)',
               Kind[TupleOf[d]] # "L7", Need[d] <= MaxLen, d \notin found'
        PROVE  /\ ~ stream'[TupleOf[d]].done /\ stream'[TupleOf[d]].used < Need[d]
               /\ \A j \in got'[d] : j < MaxLen => Has(stream'[TupleOf[d]], j)
    <3>1. CASE d = c
      BY <1>2, <1>6, <2>1, <3>1
    <3>2. CASE d # c
      <4>1. d \in Conn /\ d \notin found
        BY <2>1, ReasmConstants
      <4>2. Follows(d) /\ stream'[TupleOf[d]] = stream[TupleOf[d]]
        BY <1>8, <2>1, <3>2, <4>1
      <4>3. Waits(d, stream[TupleOf[d]])
        BY <2>1, <4>1, <4>2 DEF WaitInv
      <4>4. got'[d] \subseteq got[d]
        BY <1>5, <3>2, <4>1
      <4>5. QED BY <4>2, <4>3, <4>4 DEF Waits
    <3>3. QED BY <3>1, <3>2
  <2>2. QED BY <2>1 DEF WaitInv, Waits, Has
<1>11. RecordIsFound'
  <2>1. ASSUME NEW d \in Hello, Kind[TupleOf[d]] # "L7", Need[d] <= MaxLen,
               0 .. (Need[d] - 1) \subseteq got'[d]
        PROVE  d \in found'
    <3>1. d \in Conn /\ Need[d] \in Nat /\ Need[d] > 0
      BY ReasmConstants
    <3>2. CASE d = c
      <4>1. SUFFICES ASSUME c \notin found' PROVE FALSE
        BY <3>2
      <4>2. 0 \in got'[c]
        BY <2>1, <3>1, <3>2
      <4>3. /\ ~ r.done /\ r.used < Need[c]
            /\ \A j \in got'[c] : j < MaxLen => Has(r, j)
        BY <2>1, <3>2, <4>1, <4>2
      <4>4. /\ r.used \in Nat /\ MaxLen \in Nat /\ r.pending \in SUBSET Piece
        BY StreamFields, ReasmConstants DEF StreamOK
      <4>5. Has(r, r.used)
        <5>1. r.used \in 0 .. (Need[c] - 1) /\ r.used < MaxLen
          BY <2>1, <3>1, <3>2, <4>3, <4>4
        <5>2. QED BY <2>1, <3>2, <4>3, <5>1
      <4>6. PICK p \in r.pending : p.off <= r.used
        BY <4>4, <4>5 DEF Has
      <4>7. r.used < p.off /\ p.off \in Nat
        BY <4>4, <4>6, PieceFields DEF StreamOK
      <4>8. QED BY <4>4, <4>6, <4>7
    <3>3. CASE d # c
      BY <1>5, <2>1, <3>1, <3>3 DEF RecordIsFound
    <3>4. QED BY <3>2, <3>3
  <2>2. QED BY <2>1 DEF RecordIsFound
<1>12. QED BY <1>3, <1>4, <1>7, <1>9, <1>10, <1>11

(* The stream that stream_find_or_create returns knows what it knew.       *)
LEMMA FoundStream ==
  ASSUME TypeInv, LinkInv, NEW c \in Conn, phase[c] = "open",
         NEW T \in Tables(TupleOf[c])
  PROVE  LET s == T[TupleOf[c]] IN
         /\ TupleOf[c] \in Tuple /\ StreamOK(s) /\ Kept(T)[c] = got[c]
         /\ ~ s.have => s.used = 0 /\ s.pending = {} /\ ~ s.done /\ got[c] = {}
         /\ got[c] # {} => s.have /\ s.base = Seq(c, 0)
         /\ s.have /\ s.base = Seq(c, 0) => Contents(c, s)
         /\ s.have /\ s.base = Seq(c, 0) /\ c \in Hello /\ Kind[TupleOf[c]] # "L7"
            /\ Need[c] <= MaxLen /\ c \notin found
            => /\ ~ s.done /\ s.used < Need[c]
               /\ \A j \in got[c] : j < MaxLen => Has(s, j)
<1> DEFINE t == TupleOf[c]
           s == T[t]
<1> USE DEF LinkInv
<1>1. /\ t \in Tuple /\ StreamOK(s) /\ s # Nil
      /\ stream[t] # Nil => SameData(s, stream[t])
      /\ stream[t] = Nil => ~ s.have
  BY TablesFields, NewStreamFields, ReasmConstants DEF TypeInv, TableOK
<1>2. Kept(T)[c] = got[c]
  BY <1>1, KeptIsTyped
<1>3. Follows(c) <=> s.have /\ s.base = Seq(c, 0)
  BY <1>1 DEF Follows, SameData
<1>4. got[c] # {} => s.have /\ s.base = Seq(c, 0)
  BY <1>3 DEF GotInv
<1>5. ASSUME s.have, s.base = Seq(c, 0)
      PROVE  stream[t] # Nil /\ SameData(s, stream[t]) /\ Follows(c)
  BY <1>1, <1>3, <1>5
<1>6. s.have /\ s.base = Seq(c, 0) => Contents(c, s)
  BY <1>5, PrefixIsContents DEF Contents, SameData
<1>7. ASSUME s.have, s.base = Seq(c, 0), c \in Hello, Kind[t] # "L7",
             Need[c] <= MaxLen, c \notin found
      PROVE  /\ ~ s.done /\ s.used < Need[c]
             /\ \A j \in got[c] : j < MaxLen => Has(s, j)
  <2>1. SameData(s, stream[t]) /\ Waits(c, stream[t])
    BY <1>5, <1>7 DEF WaitInv
  <2>2. QED BY <2>1 DEF Waits, Has, SameData
<1>8. ~ s.have => s.used = 0 /\ s.pending = {} /\ ~ s.done /\ got[c] = {}
  BY <1>1, <1>4 DEF StreamOK
<1>9. QED BY <1>1, <1>2, <1>4, <1>6, <1>7, <1>8

LEMMA SynKeepsLinks ==
  ASSUME TypeInv, LinkInv, NEW c \in Conn, CaptureSyn(c)
  PROVE  LinkInv'
<1> DEFINE t == TupleOf[c]
<1>1. phase[c] = "open" /\ UNCHANGED <<phase, now, found>>
  BY DEF CaptureSyn
<1>2. PICK T \in Tables(t) : stream' = [T EXCEPT ![t] = WithIsn(T[t], Isn[c])]
                             /\ got' = Kept(T)
  BY DEF CaptureSyn
<1> DEFINE s == T[t]
           r == WithIsn(s, Isn[c])
<1>3. /\ StreamOK(s) /\ Kept(T)[c] = got[c]
      /\ ~ s.have => s.used = 0 /\ got[c] = {}
      /\ got[c] # {} => s.have /\ s.base = Seq(c, 0)
      /\ s.have /\ s.base = Seq(c, 0) => Contents(c, s)
      /\ s.have /\ s.base = Seq(c, 0) /\ c \in Hello /\ Kind[t] # "L7"
         /\ Need[c] <= MaxLen /\ c \notin found
         => /\ ~ s.done /\ s.used < Need[c]
            /\ \A j \in got[c] : j < MaxLen => Has(s, j)
  BY <1>1, FoundStream
<1>4. /\ StreamOK(r) /\ r.have /\ r.used = s.used
      /\ s.have => r = s
      /\ ~ s.have => r.base = Seq(c, 0) /\ r.pending = {} /\ ~ r.done
  BY <1>3, WithIsnFields
<1> HIDE DEF r
<1>5. ~ s.have => Contents(c, r)
  BY <1>3, <1>4 DEF Contents
<1>6. 0 \in 0 .. Length[c] /\ Need[c] \in Nat \ {0}
  BY ReasmConstants
<1>7. stream' = [T EXCEPT ![t] = r]
  BY <1>2 DEF r
<1>8. /\ s.have => r.have /\ r.base = s.base
      /\ ~ s.have /\ r.have => \E i \in 0 .. Length[c] : r.base = Seq(c, i)
      /\ \A d \in Conn : d # c => got'[d] = Kept(T)[d]
      /\ got'[c] # {} => r.have /\ r.base = Seq(c, 0)
      /\ r.have /\ r.base = Seq(c, 0) => Contents(c, r)
  BY <1>2, <1>3, <1>4, <1>5, <1>6
<1>9. r.have /\ r.base = Seq(c, 0) /\ c \in Hello /\ Kind[t] # "L7"
      /\ Need[c] <= MaxLen /\ c \notin found'
      => /\ ~ r.done /\ r.used < Need[c]
         /\ \A j \in got'[c] : j < MaxLen => Has(r, j)
  <2>1. CASE s.have
    BY <1>1, <1>2, <1>3, <1>4, <2>1
  <2>2. CASE ~ s.have
    BY <1>2, <1>3, <1>4, <1>6, <2>2
  <2>3. QED BY <2>1, <2>2
<1>10. found \subseteq found'
  BY <1>1
<1> HIDE DEF s
<1>11. QED BY <1>1, <1>4, <1>7, <1>8, <1>9, <1>10, CaptureKeepsLinks DEF s

LEMMA AckKeepsLinks ==
  ASSUME TypeInv, LinkInv, NEW c \in Conn, CaptureAck(c), c \notin Padded
  PROVE  LinkInv'
<1> DEFINE t == TupleOf[c]
           T == stream'
           s == T[t]
<1>1. phase[c] = "open" /\ UNCHANGED <<phase, now>>
  BY DEF CaptureAck
<1>2. T \in Tables(t) /\ got' = Kept(T) /\ found' = found
  BY DEF CaptureAck
<1> HIDE DEF T
<1>3. /\ t \in Tuple /\ StreamOK(s) /\ Kept(T)[c] = got[c]
      /\ got[c] # {} => s.have /\ s.base = Seq(c, 0)
      /\ s.have /\ s.base = Seq(c, 0) => Contents(c, s)
      /\ s.have /\ s.base = Seq(c, 0) /\ c \in Hello /\ Kind[t] # "L7"
         /\ Need[c] <= MaxLen /\ c \notin found
         => /\ ~ s.done /\ s.used < Need[c]
            /\ \A j \in got[c] : j < MaxLen => Has(s, j)
  BY <1>1, <1>2, FoundStream
<1>4. stream' = [T EXCEPT ![t] = s]
  <2>1. T \in [Tuple -> Stream \cup {Nil}]
    BY <1>2, <1>3, TablesFields DEF TypeInv
  <2>2. T = [T EXCEPT ![t] = s]
    BY <1>3, <2>1
  <2>3. QED BY <2>2 DEF T
<1>5. got'[c] = got[c] /\ \A d \in Conn : d # c => got'[d] = Kept(T)[d]
  BY <1>2, <1>3
<1> HIDE DEF s
<1>6. QED BY <1>1, <1>2, <1>3, <1>4, <1>5, CaptureKeepsLinks DEF s

LEMMA DataKeepsLinks ==
  ASSUME TypeInv, LinkInv, NEW c \in Conn, CaptureData(c)
  PROVE  LinkInv'
<1> DEFINE t == TupleOf[c]
           h(i, len, T) == Handled(Kind[t], T[t], Seq(c, i), len, Payload(c, i, len))
<1>1. phase[c] = "open" /\ UNCHANGED <<phase, now>>
  BY DEF CaptureData
<1>2. PICK i \in 0 .. (Length[c] - 1), len \in 1 .. MaxSeg, T \in Tables(t) :
        /\ i + len <= Length[c] /\ stream' = [T EXCEPT ![t] = h(i, len, T).to]
        /\ found' = found \cup h(i, len, T).hosts
        /\ got' = [Kept(T) EXCEPT ![c] =
                     IF h(i, len, T).to.have /\ h(i, len, T).to.base = Seq(c, 0)
                     THEN @ \cup i .. (i + len - 1) ELSE {}]
  BY DataStep
<1> DEFINE s == T[t]
           q == Seq(c, i)
           w == Payload(c, i, len)
           a == Handled(Kind[t], s, q, len, w)
           r == a.to
<1>3. /\ t \in Tuple /\ StreamOK(s) /\ Kept(T)[c] = got[c]
      /\ ~ s.have => s.used = 0 /\ s.pending = {} /\ ~ s.done /\ got[c] = {}
      /\ s.have /\ s.base = Seq(c, 0) => Contents(c, s)
      /\ s.have /\ s.base = Seq(c, 0) /\ c \in Hello /\ Kind[t] # "L7"
         /\ Need[c] <= MaxLen /\ c \notin found
         => /\ ~ s.done /\ s.used < Need[c]
            /\ \A j \in got[c] : j < MaxLen => Has(s, j)
  BY <1>1, FoundStream
<1>4. /\ i \in Nat /\ i \in 0 .. Length[c] /\ len \in Nat \ {0}
      /\ Seq(c, i) \in 0 .. (SeqSpace - 1)
      /\ Payload(c, i, len) \in [0 .. (len - 1) -> Block]
  <2>1. Length[c] \in Nat /\ MaxSeg \in Nat
    BY ReasmConstants
  <2>2. i \in Nat /\ i \in 0 .. Length[c] /\ len \in Nat /\ len # 0
    BY <2>1
  <2>3. QED BY <2>2, SeqOffset, PayloadIsBlocks
<1>5. /\ StreamOK(r)
      /\ r.have => r.base = IF s.have THEN s.base ELSE q
      /\ s.have => r.have
  <2>1. StreamOK(s) /\ q \in 0 .. (SeqSpace - 1) /\ len \in Nat \ {0}
        /\ w \in [0 .. (len - 1) -> Block]
    BY <1>3, <1>4
  <2> DEFINE k == Kind[t]
  <2> HIDE DEF s, q, w, k
  <2>2. StreamOK(Handled(k, s, q, len, w).to)
    BY <2>1, HandledFields
  <2>3. LET x == Handled(k, s, q, len, w).to IN
        /\ s.have => x.have /\ x.base = s.base
        /\ ~ s.have /\ x.have => x.base = q
    BY <2>1, HandledBase
  <2>4. QED BY <2>2, <2>3 DEF k
<1>6. r.have /\ r.base = Seq(c, 0) /\ Contents(c, s)
      => /\ Contents(c, r)
         /\ c \in Hello /\ Need[c] <= MaxLen /\ Kind[t] # "L7" /\ ~ s.done =>
              \/ c \in a.hosts
              \/ /\ ~ r.done /\ r.used < Need[c]
                 /\ \A j \in 0 .. (MaxLen - 1) :
                      Has(s, j) \/ j \in i .. (i + len - 1) => Has(r, j)
  <2>1. /\ StreamOK(s) /\ q \in 0 .. (SeqSpace - 1) /\ len \in Nat \ {0}
        /\ w \in [0 .. (len - 1) -> Block] /\ q = Seq(c, i)
        /\ w = Payload(c, i, len) /\ i + len <= Length[c] /\ i \in 0 .. Length[c]
    BY <1>2, <1>3, <1>4
  <2> HIDE DEF s, q, w
  <2>2. QED BY <2>1, HandledFields
<1>7. /\ stream' = [T EXCEPT ![t] = r] /\ found' = found \cup a.hosts
      /\ \A d \in Conn : d # c => got'[d] = Kept(T)[d]
      /\ got'[c] = IF r.have /\ r.base = Seq(c, 0)
                   THEN got[c] \cup i .. (i + len - 1) ELSE {}
  BY <1>2, <1>3, KeptIsTyped
<1> HIDE DEF h
<1>8. r.have /\ r.base = Seq(c, 0) => Contents(c, s)
  <2>1. ~ s.have => Contents(c, s)
    BY <1>3 DEF Contents
  <2>2. QED BY <1>3, <1>5, <2>1
<1>9. ASSUME r.have, r.base = Seq(c, 0), c \in Hello, Kind[t] # "L7",
             Need[c] <= MaxLen, c \notin found'
      PROVE  /\ ~ r.done /\ r.used < Need[c]
             /\ \A j \in got'[c] : j < MaxLen => Has(r, j)
  <2>1. c \notin found /\ c \notin a.hosts
    BY <1>7, <1>9
  <2>2. /\ ~ s.done
        /\ \A j \in got[c] : j < MaxLen => Has(s, j)
    BY <1>3, <1>5, <1>9, <2>1
  <2>3. /\ ~ r.done /\ r.used < Need[c]
        /\ \A j \in 0 .. (MaxLen - 1) :
             Has(s, j) \/ j \in i .. (i + len - 1) => Has(r, j)
    BY <1>6, <1>8, <1>9, <2>1, <2>2
  <2>4. ASSUME NEW j \in got'[c], j < MaxLen PROVE Has(r, j)
    <3>1. j \in got[c] \/ j \in i .. (i + len - 1)
      BY <1>7, <1>9, <2>4
    <3>2. j \in Nat
      BY <1>4, <3>1 DEF TypeInv
    <3>3. j \in 0 .. (MaxLen - 1)
      BY <2>4, <3>2, ReasmConstants
    <3>4. QED BY <2>2, <2>3, <2>4, <3>1, <3>3
  <2>5. QED BY <2>3, <2>4
<1> HIDE DEF a
<1>10. /\ s.have => r.have /\ r.base = s.base
       /\ ~ s.have /\ r.have => \E k \in 0 .. Length[c] : r.base = Seq(c, k)
       /\ got'[c] # {} => r.have /\ r.base = Seq(c, 0)
       /\ r.have /\ r.base = Seq(c, 0) => Contents(c, r)
       /\ found \subseteq found'
  BY <1>4, <1>5, <1>6, <1>7, <1>8
<1> HIDE DEF s
<1> DEFINE R == r
<1> HIDE DEF R
<1>11. QED BY <1>1, <1>5, <1>7, <1>9, <1>10, CaptureKeepsLinks DEF s

(* A connection that opens finds no stream that could be taken for its own. *)
LEMMA OpenKeepsLinks ==
  ASSUME FarApart, TypeInv, LinkInv, NEW c \in Conn, OpenConn(c)
  PROVE  LinkInv'
<1> USE DEF LinkInv
<1>1. /\ phase[c] = "new" /\ phase' = [phase EXCEPT ![c] = "open"]
      /\ UNCHANGED <<stream, now, found, got>>
      /\ \A d \in Conn : TupleOf[d] = TupleOf[c] => phase[d] # "open"
      /\ phase \in [Conn -> {"new", "open", "closed"}]
  BY DEF OpenConn, TypeInv
<1>2. /\ phase'[c] = "open" /\ \A d \in Conn : d # c => phase'[d] = phase[d]
      /\ \A d \in Conn : phase[d] # "new" => phase'[d] # "new"
      /\ \A d \in Conn : Follows(d)' <=> Follows(d)
  BY <1>1 DEF Follows, Seq, SeqPlus
<1>3. ~ Follows(c)
  <2>1. SUFFICES ASSUME Follows(c) PROVE FALSE
    OBVIOUS
  <2>2. /\ TupleOf[c] \in Streams /\ stream[TupleOf[c]].have
        /\ stream[TupleOf[c]].base = Seq(c, 0)
    BY <2>1, ReasmConstants DEF Follows, Streams
  <2>3. PICK d \in Conn : /\ TupleOf[d] = TupleOf[c] /\ phase[d] # "new"
                          /\ \E i \in 0 .. Length[d] : Seq(c, 0) = Seq(d, i)
    BY <2>2 DEF BaseInv
  <2>4. d # c
    BY <1>1, <2>3
  <2>5. QED BY <2>3, <2>4 DEF FarApart
<1>4. OneOpen'
  BY <1>1, <1>2 DEF OneOpen
<1>5. BaseInv'
  BY <1>1, <1>2 DEF BaseInv, Streams, Seq, SeqPlus
<1>6. GotInv'
  BY <1>1, <1>2 DEF GotInv
<1>7. PrefixIsStream'
  BY <1>1, <1>2, <1>3 DEF PrefixIsStream
<1>8. WaitInv'
  <2>1. ASSUME NEW d \in Hello, phase'[d] = "open", Follows(d)',
               Kind[TupleOf[d]] # "L7", Need[d] <= MaxLen, d \notin found'
        PROVE  Waits(d, stream[TupleOf[d]])
    <3>1. d \in Conn /\ d # c
      BY <1>2, <1>3, <2>1, ReasmConstants
    <3>2. QED BY <1>1, <1>2, <2>1, <3>1 DEF WaitInv
  <2>2. QED BY <1>1, <2>1 DEF WaitInv, Waits, Has
<1>9. RecordIsFound'
  BY <1>1 DEF RecordIsFound
<1>10. QED BY <1>4, <1>5, <1>6, <1>7, <1>8, <1>9

(* A step that opens no connection and leaves the table.                   *)
LEMMA QuietKeepsLinks ==
  ASSUME LinkInv, UNCHANGED <<stream, found, got>>,
         \A d \in Conn : phase'[d] = "open" => phase[d] = "open",
         \A d \in Conn : phase[d] # "new" => phase'[d] # "new"
  PROVE  LinkInv'
<1> USE DEF LinkInv
<1>1. \A d \in Conn : Follows(d)' <=> Follows(d)
  BY DEF Follows, Seq, SeqPlus
<1>2. OneOpen'
  BY DEF OneOpen
<1>3. BaseInv'
  BY DEF BaseInv, Streams, Seq, SeqPlus
<1>4. GotInv'
  BY <1>1 DEF GotInv
<1>5. PrefixIsStream'
  BY <1>1 DEF PrefixIsStream
<1>6. WaitInv'
  BY <1>1, ReasmConstants DEF WaitInv, Waits, Has
<1>7. RecordIsFound'
  BY DEF RecordIsFound
<1>8. QED BY <1>2, <1>3, <1>4, <1>5, <1>6, <1>7

LEMMA InitLinkInv == ReasmInit => LinkInv
<1> SUFFICES ASSUME ReasmInit PROVE LinkInv
  OBVIOUS
<1> USE DEF ReasmInit
<1>1. Streams = {} /\ \A c \in Conn : got[c] = {} /\ phase[c] = "new"
  BY DEF Streams
<1>2. OneOpen /\ BaseInv /\ GotInv /\ PrefixIsStream
  BY <1>1 DEF OneOpen, BaseInv, GotInv, PrefixIsStream
<1>3. WaitInv
  BY <1>1, ReasmConstants DEF WaitInv
<1>4. RecordIsFound
  <2>1. ASSUME NEW c \in Hello PROVE ~ (0 .. (Need[c] - 1) \subseteq got[c])
    <3>1. Need[c] \in Nat \ {0} /\ got[c] = {}
      BY <1>1, ReasmConstants
    <3>2. 0 \in 0 .. (Need[c] - 1)
      BY <3>1
    <3>3. QED BY <3>1, <3>2
  <2>2. QED BY <2>1 DEF RecordIsFound
<1>5. QED BY <1>2, <1>3, <1>4 DEF LinkInv

LEMMA LinkInvInductive ==
  ASSUME Padded = {}, FarApart, TypeInv, LinkInv, [ReasmNext]_reasmVars
  PROVE  LinkInv'
<1>1. CASE UNCHANGED reasmVars
  BY <1>1, QuietKeepsLinks DEF reasmVars
<1>2. CASE Tick
  BY <1>2, QuietKeepsLinks DEF Tick
<1>3. ASSUME NEW c \in Conn, OpenConn(c) PROVE LinkInv'
  BY <1>3, OpenKeepsLinks
<1>4. ASSUME NEW c \in Conn, CloseConn(c) PROVE LinkInv'
  BY <1>4, QuietKeepsLinks DEF CloseConn, TypeInv
<1>5. ASSUME NEW c \in Conn, CaptureSyn(c) PROVE LinkInv'
  BY <1>5, SynKeepsLinks
<1>6. ASSUME NEW c \in Conn, CaptureData(c) PROVE LinkInv'
  BY <1>6, DataKeepsLinks
<1>7. ASSUME NEW c \in Conn, CaptureAck(c) PROVE LinkInv'
  BY <1>7, AckKeepsLinks
<1>8. QED BY <1>1, <1>2, <1>3, <1>4, <1>5, <1>6, <1>7 DEF ReasmNext

-----------------------------------------------------------------------------
(* The theorems.                                                           *)

(* The table and its streams keep their types and the table its bound      *)
(* STREAM_MAX, whatever is captured and however it is cut.                 *)
THEOREM StreamTypes ==
  ASSUME IsFiniteSet(Tuple)
  PROVE  ReasmSpec => []ReasmTypeOK
<1>1. ReasmInit => TypeInv
  BY InitTypeInv
<1>2. TypeInv /\ [ReasmNext]_reasmVars => TypeInv'
  BY TypeInvInductive
<1>3. TypeInv => ReasmTypeOK
  BY DEF TypeInv, ReasmTypeOK, TableOK, StreamOK
<1>4. QED BY <1>1, <1>2, <1>3, PTL DEF ReasmSpec

(* If records are not longer than REASM_MAX_LEN, no stream keeps a full    *)
(* buffer: process_transport parses it or gives it up.                     *)
THEOREM NoFullBuffer ==
  ASSUME NeedsFit
  PROVE  ReasmSpec => []FullIsReleased
<1>1. ReasmInit => TypeInv
  BY InitTypeInv
<1>2. TypeInv /\ [ReasmNext]_reasmVars => TypeInv'
  BY TypeInvInductive
<1>3. TypeInv => FullIsReleased
  BY DEF TypeInv
<1>4. QED BY <1>1, <1>2, <1>3, PTL DEF ReasmSpec

(* Without padded frames, and if a tuple is not reused with numbers its    *)
(* earlier connection used, the prefix and the pieces that wait are what   *)
(* the client sent: no loss, repetition, overlap, reordering or            *)
(* wrap-around of the sequence numbers mixes them up.                      *)
THEOREM PrefixIsSent ==
  ASSUME Padded = {}, FarApart
  PROVE  ReasmSpec => []PrefixIsStream
<1>1. ReasmInit => TypeInv /\ LinkInv
  BY InitTypeInv, InitLinkInv
<1>2. TypeInv /\ LinkInv /\ [ReasmNext]_reasmVars => TypeInv' /\ LinkInv'
  BY TypeInvInductive, LinkInvInductive
<1>3. LinkInv => PrefixIsStream
  BY DEF LinkInv
<1>4. QED BY <1>1, <1>2, <1>3, PTL DEF ReasmSpec

(* Under the same assumptions the host is known as soon as every block of  *)
(* the first record was shown, in whatever order and pieces.               *)
THEOREM HostIsFound ==
  ASSUME Padded = {}, FarApart
  PROVE  ReasmSpec => []RecordIsFound
<1>1. ReasmInit => TypeInv /\ LinkInv
  BY InitTypeInv, InitLinkInv
<1>2. TypeInv /\ LinkInv /\ [ReasmNext]_reasmVars => TypeInv' /\ LinkInv'
  BY TypeInvInductive, LinkInvInductive
<1>3. LinkInv => RecordIsFound
  BY DEF LinkInv
<1>4. QED BY <1>1, <1>2, <1>3, PTL DEF ReasmSpec
=============================================================================
