------------------------------ MODULE TcpReasm ------------------------------
(***************************************************************************)
(* The capture thread of apptraffic: from the packets a client sends to a  *)
(* server port it rebuilds the first record of the connection (the TLS     *)
(* ClientHello, the head of an HTTP request, the first segment of another  *)
(* protocol) to learn the host's name.  pcap shows what it shows: packets  *)
(* may be missed, repeated, cut differently and out of order, and capture  *)
(* may start in the middle of a connection.  One unit is a block of bytes; *)
(* the block i of connection c is <<c, i>>.                                *)
(***************************************************************************)
EXTENDS Integers, FiniteSets

CONSTANTS
  Conn,        \* the connections clients make
  Tuple,       \* addresses and ports, one stream each
  TupleOf,     \* the tuple of each connection
  Kind,        \* TLS, HTTP or L7, by the server port of the tuple
  Isn,         \* the client's initial sequence number
  SeqSpace,    \* 2^32: sequence numbers wrap around
  Length,      \* how much the client sends
  Need,        \* how much of it is the first record
  Hello,       \* the connections that begin with a record to be parsed
  Padded,      \* those whose empty segments are padded to 60-byte frames
  MaxSeg,      \* the longest segment
  MaxLen,      \* REASM_MAX_LEN
  StreamMax,   \* STREAM_MAX
  StreamIdle,  \* STREAM_IDLE
  MaxTime,     \* bound: the clock
  Pad, Nil    \* a block of padding; no stream

ASSUME ReasmConstants ==
  /\ TupleOf \in [Conn -> Tuple] /\ Kind \in [Tuple -> {"TLS", "HTTP", "L7"}]
  /\ MaxLen \in Nat \ {0} /\ MaxSeg \in Nat \ {0}
  /\ SeqSpace \in Nat \ {0} /\ MaxLen < SeqSpace
  /\ Isn \in [Conn -> 0 .. (SeqSpace - 1)]
  /\ Length \in [Conn -> 0 .. (SeqSpace - MaxLen)]
  /\ Need \in [Conn -> Nat \ {0}]
  /\ Hello \subseteq Conn /\ Padded \subseteq Conn
  /\ StreamMax \in Nat \ {0} /\ StreamIdle \in Nat /\ MaxTime \in Nat

Block == (Conn \X Nat) \cup {Pad}
Off   == 0 .. MaxLen
Buffer == [0 .. (MaxLen - 1) -> Block \cup {Nil}]

(* Arithmetic on uint32_t: sums and differences of two numbers below       *)
(* SeqSpace, modulo SeqSpace.                                              *)
SeqPlus(a, b)  == IF a + b < SeqSpace THEN a + b ELSE a + b - SeqSpace
SeqMinus(a, b) == IF a >= b THEN a - b ELSE a - b + SeqSpace

(* The sequence number of block i of a connection; its SYN takes one.      *)
Seq(c, i) == SeqPlus(Isn[c], 1 + i)

(* No connection begins with a number that another connection of its       *)
(* tuple has used: the proofs assume it, the runs satisfy it.              *)
FarApart ==
  \A c, d \in Conn : c # d /\ TupleOf[c] = TupleOf[d] =>
    \A i \in 0 .. Length[d] : Seq(c, 0) # Seq(d, i)

(* A piece of a stream: the blocks at the offsets off .. end - 1; and      *)
(* struct stream with its tcp_reasm: base, the prefix buf[0 .. used - 1],  *)
(* the pieces behind a gap.                                                *)
Piece  == [off : Off, end : Off, data : Buffer]
Stream == [have : BOOLEAN, base : 0 .. (SeqSpace - 1), buf : Buffer,
           used : Off, pending : SUBSET Piece, done : BOOLEAN,
           l7 : BOOLEAN, seen : Nat]
ASSUME NilIsNoStream == Nil \notin Stream

VARIABLES
  phase,   \* whether a connection is new, open or closed
  stream,  \* stream_hash: the stream of each tuple
  now,     \* time(NULL)
  found,   \* history: the connections whose host was reported
  got      \* history: the blocks of a connection that were fed to its
           \* stream since its base is the connection's

reasmVars == <<phase, stream, now, found, got>>

EmptyBuffer == [i \in 0 .. (MaxLen - 1) |-> Nil]
NewStream ==
  [have |-> FALSE, base |-> 0, buf |-> EmptyBuffer, used |-> 0,
   pending |-> {}, done |-> FALSE, l7 |-> FALSE, seen |-> now]

Streams == {t \in Tuple : stream[t] # Nil}

ReasmInit ==
  /\ phase = [c \in Conn |-> "new"]
  /\ stream = [t \in Tuple |-> Nil]
  /\ now = 0
  /\ found = {}
  /\ got = [c \in Conn |-> {}]

-----------------------------------------------------------------------------
(* tcp_reasm: how one stream changes.                                      *)

(* tcp_reasm_mark_consumed.                                                *)
Consumed(s) == [s EXCEPT !.done = TRUE, !.buf = EmptyBuffer, !.used = 0,
                         !.pending = {}]

(* tcp_reasm_set_isn.                                                      *)
WithIsn(s, isn) ==
  IF s.have THEN s
  ELSE [s EXCEPT !.have = TRUE, !.base = SeqPlus(isn, 1)]

(* merge_pending: the prefix grows until no piece touches its end; a block *)
(* comes from the first piece of the list (by offset, then the longer and  *)
(* younger one) that has it.                                               *)
Cover(P, i) == {p \in P : p.off <= i /\ i < p.end}
Reach(P, u) ==
  CHOOSE v \in u .. MaxLen :
    Cover(P, v) = {} /\ \A w \in u .. (v - 1) : Cover(P, w) # {}
FirstOf(C) ==
  CHOOSE p \in C : \A q \in C : p.off < q.off \/ (p.off = q.off
                                                   /\ p.end >= q.end)

(* Mutant: the piece that closes the gap stays where it is.                *)
NotMerged(s) == s

Merged(s) ==
  LET u == Reach(s.pending, s.used) IN
  [s EXCEPT !.buf = [i \in 0 .. (MaxLen - 1) |->
                       IF s.used <= i /\ i < u
                       THEN FirstOf(Cover(s.pending, i)).data[i]
                       ELSE s.buf[i]],
            !.used = u,
            !.pending = {p \in s.pending : p.off > u}]

(* Mutant: the new part is taken from the start of the segment.            *)
ExtendedFromStart(s, p) ==
  Merged([s EXCEPT !.buf = [i \in 0 .. (MaxLen - 1) |->
                              IF s.used <= i /\ i < p.end
                              THEN p.data[p.off + i - s.used] ELSE s.buf[i]],
                   !.used = p.end])

(* The prefix grows by the part of p that it does not have yet.            *)
Extended(s, p) ==
  Merged([s EXCEPT !.buf = [i \in 0 .. (MaxLen - 1) |->
                              IF s.used <= i /\ i < p.end
                              THEN p.data[i] ELSE s.buf[i]],
                   !.used = p.end])

(* Mutant: a second piece at the same offset is dropped, longer or not.    *)
PostponedOnce(s, p) ==
  IF \E q \in s.pending : q.off = p.off THEN s
  ELSE [s EXCEPT !.pending = @ \cup {p}]

(* add_pending drops a repeated piece.                                     *)
Postponed(s, p) ==
  IF \E q \in s.pending : q.off = p.off /\ q.end >= p.end THEN s
  ELSE [s EXCEPT !.pending = @ \cup {p}]

(* tcp_reasm_feed: without a SYN the first segment is taken for the start  *)
(* of the stream; what lies beyond MaxLen is cut off.                      *)
Based(s, seq) == IF s.have THEN s ELSE [s EXCEPT !.have = TRUE, !.base = seq]
Placed(off, len, payload) ==
  LET end == IF off + len < MaxLen THEN off + len ELSE MaxLen IN
  [off |-> off, end |-> end,
   data |-> [i \in 0 .. (MaxLen - 1) |->
               IF off <= i /\ i < end THEN payload[i - off] ELSE Nil]]

Fed(s, seq, len, payload) ==
  LET b   == Based(s, seq)
      off == SeqMinus(seq, b.base)
      p   == Placed(off, len, payload)
  IN IF off >= MaxLen \/ p.end <= b.used THEN b
     ELSE IF off > b.used THEN Postponed(b, p) ELSE Extended(b, p)

-----------------------------------------------------------------------------
(* The stream table.                                                       *)

(* stream_age: done and idle streams go.                                   *)
AgedStreams == [t \in Tuple |->
           IF stream[t] # Nil /\ (stream[t].done
                                   \/ now - stream[t].seen > StreamIdle)
           THEN Nil ELSE stream[t]]

Full(T) == Cardinality({t \in Tuple : T[t] # Nil}) >= StreamMax
Oldest(T) == {t \in Tuple : T[t] # Nil /\ \A u \in Tuple :
                T[u] # Nil => T[t].seen <= T[u].seen}

(* stream_find_or_create: the tables it may leave, with a stream for t.    *)
Tables(t) ==
  IF stream[t] # Nil THEN {[stream EXCEPT ![t].seen = now]}
  ELSE IF ~Full(stream) THEN {[stream EXCEPT ![t] = NewStream]}
  ELSE IF ~Full(AgedStreams) THEN {[AgedStreams EXCEPT ![t] = NewStream]}
  ELSE {[AgedStreams EXCEPT ![u] = Nil, ![t] = NewStream] : u \in Oldest(AgedStreams)}

(* What the history keeps when the table becomes T.                        *)
Kept(T) == [c \in Conn |-> IF T[TupleOf[c]] = Nil THEN {} ELSE got[c]]

-----------------------------------------------------------------------------
(* process_transport: what the capture thread does with a packet.          *)

(* The host can be read once the whole record is there.                    *)
HostOf(s) == {c \in Hello : /\ s.used >= Need[c]
                            /\ \A i \in 0 .. (Need[c] - 1) :
                                 s.buf[i] = <<c, i>>}

(* The prefix starts with the first byte of a TLS handshake record, of     *)
(* which it says how long it is.                                           *)
StartsHello(s) == s.used > 0 /\ \E c \in Hello : s.buf[0] = <<c, 0>>
RecordLen(s)   == Need[CHOOSE c \in Hello : s.buf[0] = <<c, 0>>]

(* Mutant: waits for a record however much there is.                       *)
ParsedPatiently(k, s) ==
  IF s.used > 0 /\ HostOf(s) # {} THEN Consumed(s) ELSE s

(* After a feed: is the record complete, or is it hopeless?                *)
Parsed(k, s) ==
  IF s.used = 0 THEN s
  ELSE IF k = "TLS"
  THEN IF StartsHello(s)
       THEN IF s.used >= RecordLen(s) THEN Consumed(s) ELSE s
       ELSE IF s.used >= MaxLen THEN Consumed(s) ELSE s
  ELSE IF HostOf(s) # {} \/ s.used >= MaxLen THEN Consumed(s) ELSE s

(* A segment with payload in stream s of kind k: the stream afterwards and *)
(* the connections whose host is reported.                                 *)
Handled(k, s, seq, len, payload) ==
  IF k = "L7"
  THEN [to    |-> [s EXCEPT !.l7 = TRUE],
        hosts |-> IF s.l7 THEN {} ELSE {c \in Hello : payload[0] = <<c, 0>>}]
  ELSE IF s.done THEN [to |-> s, hosts |-> {}]
  ELSE LET f == Fed(s, seq, len, payload) IN
       [to |-> Parsed(k, f), hosts |-> HostOf(f)]

OpenConn(c) ==
  /\ phase[c] = "new"
  /\ \A d \in Conn : TupleOf[d] = TupleOf[c] => phase[d] # "open"
  /\ phase' = [phase EXCEPT ![c] = "open"]
  /\ UNCHANGED <<stream, now, found, got>>

CloseConn(c) ==
  /\ phase[c] = "open"
  /\ phase' = [phase EXCEPT ![c] = "closed"]
  /\ UNCHANGED <<stream, now, found, got>>

Tick ==
  /\ now < MaxTime
  /\ now' = now + 1
  /\ UNCHANGED <<phase, stream, found, got>>

CaptureSyn(c) ==
  /\ phase[c] = "open"
  /\ \E T \in Tables(TupleOf[c]) :
       /\ stream' = [T EXCEPT ![TupleOf[c]] = WithIsn(@, Isn[c])]
       /\ got' = Kept(T)
  /\ UNCHANGED <<phase, now, found>>

(* The len blocks of connection c at offset i.                             *)
Payload(c, i, len) == [j \in 0 .. (len - 1) |-> <<c, i + j>>]

(* A segment with them.                                                    *)
Capture(c, i, len) ==
  LET t == TupleOf[c] IN
  \E T \in Tables(t) :
    LET h == Handled(Kind[t], T[t], Seq(c, i), len, Payload(c, i, len)) IN
    /\ stream' = [T EXCEPT ![t] = h.to]
    /\ found' = found \cup h.hosts
    /\ got' = [Kept(T) EXCEPT ![c] =
                 IF h.to.have /\ h.to.base = Seq(c, 0)
                 THEN @ \cup i .. (i + len - 1) ELSE {}]

CaptureData(c) ==
  /\ phase[c] = "open"
  /\ \E i \in 0 .. (Length[c] - 1), len \in 1 .. MaxSeg :
       /\ i + len <= Length[c]
       /\ Capture(c, i, len)
  /\ UNCHANGED <<phase, now>>

(* An empty segment.  pcap_callback takes the length of the frame for that *)
(* of the packet, so that the padding of a short frame counts as payload.  *)
CaptureAck(c) ==
  /\ phase[c] = "open"
  /\ IF c \in Padded
     THEN /\ \E i \in 0 .. Length[c] :
               LET t == TupleOf[c] IN
               \E T \in Tables(t) :
                 LET h == Handled(Kind[t], T[t], Seq(c, i), 1, [j \in {0} |-> Pad])
                 IN /\ stream' = [T EXCEPT ![t] = h.to]
                    /\ found' = found \cup h.hosts
                    /\ got' = Kept(T)
     ELSE /\ stream' \in Tables(TupleOf[c])
          /\ got' = Kept(stream')
          /\ UNCHANGED found
  /\ UNCHANGED <<phase, now>>

ReasmNext ==
  \/ \E c \in Conn : \/ OpenConn(c) \/ CloseConn(c)
                     \/ CaptureSyn(c) \/ CaptureData(c) \/ CaptureAck(c)
  \/ Tick

ReasmSpec == ReasmInit /\ [][ReasmNext]_reasmVars

-----------------------------------------------------------------------------
(* The types; the pieces that wait lie behind a gap, and the table is      *)
(* within its bound.                                                       *)
ReasmTypeOK ==
  /\ phase \in [Conn -> {"new", "open", "closed"}]
  /\ now \in 0 .. MaxTime
  /\ stream \in [Tuple -> Stream \cup {Nil}]
  /\ found \subseteq Conn
  /\ got \in [Conn -> SUBSET Nat]
  /\ \A t \in Streams : \A p \in stream[t].pending :
       stream[t].used < p.off /\ p.off < p.end
  /\ Cardinality(Streams) <= StreamMax

(* The stream of the connection's tuple has the connection's base.         *)
Follows(c) == LET s == stream[TupleOf[c]] IN
              s # Nil /\ s.have /\ s.base = Seq(c, 0)

(* What the reassembler has of an open connection is what the client sent  *)
(* at that place, in the prefix and behind gaps.                           *)
PrefixIsStream ==
  \A c \in Conn : phase[c] = "open" /\ Follows(c) =>
    LET s == stream[TupleOf[c]] IN
    /\ \A i \in 0 .. (s.used - 1) : s.buf[i] = <<c, i>>
    /\ \A p \in s.pending : \A i \in p.off .. (p.end - 1) : p.data[i] = <<c, i>>

(* Once every block of the first record was shown to a stream that knows   *)
(* the start of the connection, in any order and any pieces, the host of   *)
(* the connection is known.                                                *)
RecordIsFound ==
  \A c \in Hello :
    /\ Kind[TupleOf[c]] # "L7"
    /\ Need[c] <= MaxLen /\ 0 .. (Need[c] - 1) \subseteq got[c]
    => c \in found

(* A full buffer is given up: no stream holds MaxLen bytes and waits.      *)
FullIsReleased ==
  \A t \in Streams : stream[t].used < MaxLen
=============================================================================
