------------------------------ MODULE WolProxy ------------------------------
(***************************************************************************)
(* The Wake-on-LAN relay (wol-proxy.c): it takes magic packets from the    *)
(* tunnel and sends them on as broadcasts of the LAN, once per sender and  *)
(* target within DUP_WINDOW_SECS.  What it sends comes back to its own     *)
(* socket through the loopback interface.  The LAN interface may           *)
(* have no address, sending may fail and the wall clock may be set back.   *)
(***************************************************************************)
EXTENDS Integers, FiniteSets, Sequences

CONSTANTS
  Source,      \* addresses of senders
  Mac, NoMac,  \* the machines to wake, and none
  Router,      \* the address of the router in the LAN, as a source
  Lan,         \* the broadcast address of the LAN
  Subnet,      \* other addresses of the LAN
  Elsewhere,   \* an address outside of it
  Override,    \* the address of -B, if it is given
  Allowed,     \* the sources the option -a may allow
  DupMax,      \* DUP_MAX
  DupWindow,   \* DUP_WINDOW_SECS
  MaxPackets,  \* bound: packets from outside
  MaxInbox,    \* bound: packets from outside that wait
  LastSecond   \* bound: the clock

ASSUME WolConstants ==
  /\ DupMax \in Nat \ {0} /\ DupWindow \in Nat \ {0} /\ Router \notin Source
  /\ Allowed \subseteq SUBSET (Source \cup {Router})
  /\ MaxPackets \in Nat /\ MaxInbox \in Nat /\ LastSecond \in Nat \ {0}

VARIABLES
  allow,     \* the sources that are allowed
  override,  \* whether -B is given
  loKnown,   \* lo_index > 0
  dupTab,    \* dup_tab
  time,      \* time(NULL)
  inbox,     \* the packets the socket holds
  arrived,   \* history: the number of packets from outside so far
  noted,     \* history: the packets dup_check recorded
  sent,      \* history: the packets that were sent
  ignored,   \* history: the pair of the last packet ignored as a duplicate
  setBack    \* history: the clock was set back

options == <<allow, override, loKnown>>
wolVars == <<options, dupTab, time, inbox, arrived, noted, sent, ignored, setBack>>

MagicPacket ==
  [src : Source \cup {Router}, mac : Mac, dst : {Lan, Elsewhere, Override} \cup Subnet,
   lo : BOOLEAN, magic : BOOLEAN]

(* run, up to its loop: an --allow that does not parse allows everybody,   *)
(* like the default.                                                       *)
WolInit ==
  /\ allow \in Allowed
  /\ override \in BOOLEAN /\ loKnown \in BOOLEAN
  /\ dupTab = [i \in 1 .. DupMax |-> [src |-> Router, mac |-> NoMac, seen |-> 0]]
  /\ time = 1 /\ inbox = <<>> /\ arrived = 0
  /\ noted = <<>> /\ sent = <<>> /\ ignored = <<>> /\ setBack = FALSE

-----------------------------------------------------------------------------
(* dup_check: an entry of the same sender and target is recent.  After     *)
(* the clock was set back the difference may be negative.                  *)
Duplicate(p) ==
  \E i \in 1 .. DupMax :
    /\ dupTab[i].seen # 0 /\ dupTab[i].src = p.src /\ dupTab[i].mac = p.mac
    /\ time - dupTab[i].seen < DupWindow

(* Mutant: the newest entry is replaced.                                   *)
OldestNewest ==
  CHOOSE i \in 1 .. DupMax : \A j \in 1 .. DupMax :
    dupTab[i].seen > dupTab[j].seen \/ (dupTab[i].seen = dupTab[j].seen /\ i <= j)

(* The entry that was seen first: empty ones, 0, are the oldest.           *)
Oldest ==
  CHOOSE i \in 1 .. DupMax : \A j \in 1 .. DupMax :
    dupTab[i].seen < dupTab[j].seen \/ (dupTab[i].seen = dupTab[j].seen /\ i <= j)

(* Where a packet is sent: the override, the broadcast address it was sent *)
(* to if that is one of the LAN, or the broadcast address of the LAN.      *)
Target(p) == IF override THEN Override
             ELSE IF p.dst \in Subnet \cup {Lan} THEN p.dst ELSE Lan

(* The kernel loops an own broadcast back through lo.                      *)
IsOwn(p) == p.lo /\ loKnown

(* A packet that is not looked at: an own one, one of a source that is not *)
(* allowed, or no magic packet.                                            *)
Drops(p) == IsOwn(p) \/ p.src \notin allow \/ ~p.magic

Note(p) == dupTab' = [dupTab EXCEPT ![Oldest] = [src |-> p.src, mac |-> p.mac, seen |-> time]]

(* One turn of the loop: the packet is dropped, ignored as a duplicate,    *)
(* noted and not sent as the interface has no address or sendto fails, or  *)
(* noted and sent.                                                         *)
Turns ==
  /\ inbox # <<>>
  /\ LET p == Head(inbox)
         note == [src |-> p.src, mac |-> p.mac, at |-> time]
     IN \/ Drops(p) /\ inbox' = Tail(inbox) /\ UNCHANGED <<dupTab, noted, sent, ignored>>
        \/ /\ ~Drops(p) /\ Duplicate(p)
           /\ ignored' = <<note>> /\ inbox' = Tail(inbox)
           /\ UNCHANGED <<dupTab, noted, sent>>
        \/ /\ ~Drops(p) /\ ~Duplicate(p)
           /\ Note(p) /\ noted' = Append(noted, note) /\ ignored' = <<>>
           /\ \/ inbox' = Tail(inbox) /\ UNCHANGED sent
              \/ /\ sent' = Append(sent, [pkt |-> note, to |-> Target(p)])
                 /\ inbox' = Append(Tail(inbox), [src |-> Router, mac |-> p.mac,
                               dst |-> Target(p), lo |-> TRUE, magic |-> TRUE])
  /\ UNCHANGED <<options, time, arrived, setBack>>

(* A packet from outside: never on lo.                                     *)
PacketArrives ==
  /\ arrived < MaxPackets /\ Len(inbox) < MaxInbox
  /\ \E s \in Source, m \in Mac, d \in {Lan, Elsewhere} \cup Subnet, g \in BOOLEAN :
       inbox' = Append(inbox, [src |-> s, mac |-> m, dst |-> d, lo |-> FALSE, magic |-> g])
  /\ arrived' = arrived + 1
  /\ UNCHANGED <<options, dupTab, time, noted, sent, ignored, setBack>>

TimePasses ==
  /\ time < LastSecond /\ time' = time + 1
  /\ UNCHANGED <<options, dupTab, inbox, arrived, noted, sent, ignored, setBack>>

ClockIsSet ==
  /\ ~setBack /\ time > 1
  /\ setBack' = TRUE /\ time' \in 1 .. (time - 1)
  /\ UNCHANGED <<options, dupTab, inbox, arrived, noted, sent, ignored>>

WolNext == Turns \/ PacketArrives \/ TimePasses \/ ClockIsSet
WolSpec == WolInit /\ [][WolNext]_wolVars

-----------------------------------------------------------------------------
(* Type invariant.                                                         *)
WolTypeOK ==
  /\ allow \subseteq Source \cup {Router} /\ {override, loKnown, setBack} \subseteq BOOLEAN
  /\ \A i \in 1 .. DupMax : dupTab[i].seen \in 0 .. LastSecond
  /\ \A i \in DOMAIN inbox : inbox[i] \in MagicPacket
  /\ \A i \in DOMAIN sent : sent[i].pkt.src \in allow /\ sent[i].to \in {Lan, Override} \cup Subnet
  /\ Len(sent) <= Len(noted) /\ time \in 1 .. LastSecond /\ arrived <= MaxPackets

Same(a, b) == a.src = b.src /\ a.mac = b.mac

(* A sender's packet for a machine is not noted, and so not sent, twice    *)
(* within the window, unless DUP_MAX other packets since the first one's   *)
(* second filled the table, or the clock was set back.                     *)
OncePerWindow ==
  ~setBack =>
    \A i, j \in DOMAIN noted :
      i < j /\ Same(noted[i], noted[j]) /\ noted[j].at - noted[i].at < DupWindow
        => Cardinality({k \in (1 .. j - 1) \ {i} : noted[k].at >= noted[i].at}) >= DupMax

(* A packet is ignored only if one of the same sender for the same machine *)
(* was noted within the window: nobody keeps another one's machine from    *)
(* being woken, and a machine can be woken again when the window is over.  *)
(* (After the clock was set back an older one may do: the age of an entry  *)
(* is then negative.)                                                      *)
IgnoredWasNoted ==
  ignored # <<>> =>
    \E i \in DOMAIN noted :
      /\ Same(noted[i], ignored[1])
      /\ setBack \/ ignored[1].at - noted[i].at < DupWindow

(* The relay does not answer itself: it sends no more packets than came    *)
(* from outside, as long as it knows the loopback interface.               *)
NoEcho == loKnown => Len(sent) <= arrived

(* A wish to wake a machine is relayed once: its copies within the window  *)
(* are not sent again, only copies are ignored, and what the relay sends   *)
(* does not come back as a wish.                                           *)
RelayedOnce ==
  /\ OncePerWindow
  /\ IgnoredWasNoted
  /\ NoEcho
=============================================================================
