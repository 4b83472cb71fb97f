------------------------------ MODULE Ip6Walk ------------------------------
(***************************************************************************)
(* handle_ipv6 and ipv6_walk (capture.c): from an IPv6 packet past its     *)
(* extension headers to the transport header.  The unit of length is four  *)
(* bytes; of each unit only the first two bytes count, and in a fragment   *)
(* header whether it tells of the first fragment.  The packet's own        *)
(* next-header field is part of the packet, although the code never reads  *)
(* it.                                                                     *)
(***************************************************************************)
EXTENDS Integers, Sequences

CONSTANTS
  Protocol,    \* the values of a next-header byte in this instance
  Transport,   \* those process_transport knows: TCP and UDP
  Options,     \* hop-by-hop, routing and the like: lengths in 8 bytes
  AuthHeader,  \* AH: its length is in 4 bytes
  FragHeader,  \* the fragment header
  MaxExtra,    \* bound: the second byte, a header's length
  MaxPayload,  \* bound: the length of what is captured
  Captures,    \* what is captured behind the fixed header
  WalkMax,     \* how many headers a walk passes (16)
  NoResult

Unit == [first : Protocol, second : 0 .. MaxExtra]

ASSUME WalkConstants ==
  /\ Transport \cup Options \cup {AuthHeader, FragHeader} \subseteq Protocol
  /\ WalkMax \in Nat \ {0} /\ MaxExtra \in Nat /\ MaxPayload \in Nat
  /\ \A c \in Captures : c \in Seq(Unit) /\ Len(c) <= MaxPayload

Packet == [next      : Protocol,              \* ip[6]
           announced : 0 .. (MaxPayload + 1), \* ip[4], ip[5]
           captured  : Captures]

VARIABLES
  packet,
  plen,      \* the length of the payload as handle_ipv6 sees it
  walk,      \* ipv6_walk: its off, nh and count
  result     \* what it returned, with the length handed on

walkVars == <<packet, plen, walk, result>>

-----------------------------------------------------------------------------
(* The payload is as long as the header says, but no longer than captured. *)
Payload(p) ==
  IF p.announced > Len(p.captured) THEN Len(p.captured) ELSE p.announced

(* handle_ipv6 up to the walk, which takes the first byte of the payload   *)
(* for the first next-header value.  An empty payload is not walked.       *)
WalkInit ==
  /\ packet \in Packet
  /\ plen = Payload(packet)
  /\ walk = [off |-> 0, count |-> 0,
             nh |-> IF packet.captured = <<>> THEN packet.next ELSE packet.captured[1].first]
  /\ result = NoResult

At(p, off) == p.captured[off + 1]

IsExtension(t) == t \in Options \cup {AuthHeader}

(* Mutant: AH counts its length like the other headers.                    *)
HeaderUnitsAlike(t, u) == (u.second + 1) * 2

HeaderUnits(t, u) == IF t = AuthHeader THEN u.second + 2 ELSE (u.second + 1) * 2

(* What is handed on: a protocol, where its header begins, and whether the *)
(* rest is a fragment.                                                     *)
Finds(t, off, frag) == [proto |-> t, off |-> off, frag |-> frag, rest |-> plen - off]

Nothing == [proto |-> NoResult, off |-> 0, frag |-> FALSE, rest |-> 0]

(* The fragment header must be whole and followed by TCP or UDP.           *)
Fragmented(p, off) ==
  IF off + 2 <= plen /\ At(p, off).first \in Transport
  THEN Finds(At(p, off).first, off + 2, TRUE) ELSE Nothing

InLoop == result = NoResult /\ walk.count < WalkMax /\ walk.off < plen

(* One round over an extension header, which must end within the payload.  *)
Passes ==
  /\ InLoop /\ IsExtension(walk.nh)
  /\ LET end == walk.off + HeaderUnits(walk.nh, At(packet, walk.off)) IN
     /\ walk' = [off |-> end, nh |-> At(packet, walk.off).first, count |-> walk.count + 1]
     /\ result' = IF end > plen THEN Nothing ELSE NoResult
  /\ UNCHANGED <<packet, plen>>

(* The round that ends the walk: the rest goes to the fragment table or to *)
(* process_transport, which drops other protocols than TCP and UDP.        *)
WalkEnds ==
  /\ InLoop /\ ~IsExtension(walk.nh)
  /\ result' = IF walk.nh = FragHeader THEN Fragmented(packet, walk.off)
               ELSE IF walk.nh \in Transport THEN Finds(walk.nh, walk.off, FALSE)
               ELSE Nothing
  /\ UNCHANGED <<packet, plen, walk>>

GivesUp ==
  /\ result = NoResult /\ ~InLoop
  /\ result' = Nothing
  /\ UNCHANGED <<packet, plen, walk>>

WalkNext == Passes \/ WalkEnds \/ GivesUp
WalkSpec == WalkInit /\ [][WalkNext]_walkVars

-----------------------------------------------------------------------------
(* The reference: the transport of a chain of headers of which the one at  *)
(* off has the type t, with the lengths of RFC 8200 and RFC 4302.          *)
EndOf(off, t) ==
  off + (IF t = AuthHeader THEN 2 ELSE 2 + At(packet, off).second) + At(packet, off).second

Reference[off \in 0 .. (MaxPayload + 2 * (MaxExtra + 1))] == [t \in Protocol |->
  IF off >= plen THEN Nothing
  ELSE IF IsExtension(t) THEN Reference[EndOf(off, t)][At(packet, off).first]
  ELSE IF t = FragHeader THEN Fragmented(packet, off)
  ELSE IF t \in Transport THEN Finds(t, off, FALSE) ELSE Nothing]

(* What the walk hands on lies in the payload: it ends neither behind what *)
(* was captured nor behind what was announced, whatever lengths the        *)
(* headers claim.                                                          *)
WalkStays ==
  result \notin {NoResult, Nothing} =>
    /\ result.rest >= 0
    /\ result.off + result.rest <= Len(packet.captured)
    /\ result.off + result.rest <= packet.announced

(* Apart from the type it starts with the walk is right: it finds the      *)
(* transport that the reference finds from there, if that lies behind      *)
(* fewer than WalkMax extension headers.                                   *)
WalkFollowsChain ==
  result # NoResult /\ packet.captured # <<>> =>
    \/ result = Reference[0][packet.captured[1].first]
    \/ result = Nothing /\ walk.count >= WalkMax

(* The transport of every packet is found: what the comment in ipv6_walk   *)
(* takes for granted, that p[0] is the first next-header value.            *)
TransportIsFound ==
  result # NoResult =>
    \/ result = Reference[0][packet.next]
    \/ result = Nothing /\ walk.count >= WalkMax

(* The walk ends where the chain of headers leads, inside the packet.      *)
WalkIsRight ==
  /\ WalkStays
  /\ WalkFollowsChain
=============================================================================
