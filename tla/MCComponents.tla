---------------------------- MODULE MCComponents ----------------------------
(***************************************************************************)
(* The components of which only safety is checked, next to each other:     *)
(* fragments, names and the IPv6 walk of apptraffic, the visits of         *)
(* wifi-probe, the thumbnail cache of the phone, accounts and directories  *)
(* of dav-bridge, the Wake-on-LAN relay and the voice recorder.  They      *)
(* share no state; a behaviour is one of them at work.                     *)
(***************************************************************************)
EXTENDS IpReasm, DnsMap, WifiVisits, ThumbCache, DavAdmin, WolProxy, VoiceRecord, MCIp6, MCDavOdd

CONSTANTS d1, d2, d3, k1, k2,       \* datagrams and their keys
          f1, f2, board, site, n1, n2,  \* flows, addresses, names
          t1, t2, t3,                   \* thumbnails
          r1, r2, mk1, mk2, user,       \* requests for one name or one path
          s1, s2, m1, router, lan, elsewhere, override1

(* Fragments: two datagrams, one of which has its key used again by a      *)
(* third one of another length.                                            *)
MCKeyOf  == [d \in Datagram |-> IF d = d2 THEN k2 ELSE k1]
MCLength == [d \in Datagram |-> IF d = d3 THEN 3 ELSE 2]

(* Names: a flow of the board to a site and one to the board itself; three *)
(* lines of the mapping, two of them of one priority; a LuCI behind the    *)
(* board's address.                                                        *)
MCSrc == [f \in Flow |-> board]
MCDst == [f \in Flow |-> IF f = f1 THEN site ELSE board]
MCService == [f \in Flow |-> "LuCI"]
MCLine(app, priority) == [names |-> {n1}, app |-> app, priority |-> priority]
MCMapFiles == {<<MCLine("A", 0), MCLine("B", 1), MCLine("C", 1)>>}
MCInterfaces == <<[addr |-> board, bcast |-> NoName]>>

(* Thumbnails: one of them as large as the cache.                          *)
MCBytes == [t \in Thumb |-> IF t = t3 THEN 3 ELSE 1]

(* Accounts and directories: everybody asks for the same.                  *)
MCUserOf == [r \in Register |-> user]
MCDirOf  == [m \in Mkdir |-> <<"a", "b">>]

VARIABLE program
componentVars == <<vars, dnsVars, visitVars, thumbVars, adminVars, wolVars, recVars,
                   walkVars, oddVars, program>>

(* A component that is not at work has one of its initial states only.     *)
Asleep ==
  /\ program = "record" \/ startRms = 0
  /\ program = "wol"    \/ (override /\ loKnown /\ allow = {s1})

ComponentsInit ==
  /\ program \in {"fragments", "names", "visits", "thumbs", "admin", "wol", "record", "walk",
                 "odd"}
  /\ Init /\ DnsInit /\ VisitInit /\ ThumbInit /\ AdminInit /\ WolInit /\ RecInit
  /\ Odd!Init /\ Asleep
  /\ IF program = "walk" THEN WalkInit
     ELSE /\ packet = NoResult /\ plen = 0 /\ result = NoResult
          /\ walk = [off |-> 0, nh |-> NoResult, count |-> 0]

ComponentsNext ==
  /\ UNCHANGED program
  /\ \/ /\ program = "fragments" /\ Next
        /\ UNCHANGED <<dnsVars, visitVars, thumbVars, adminVars, wolVars, recVars,
                       walkVars, oddVars>>
     \/ /\ program = "names" /\ DnsNext
        /\ UNCHANGED <<vars, visitVars, thumbVars, adminVars, wolVars, recVars,
                       walkVars, oddVars>>
     \/ /\ program = "visits" /\ VisitNext
        /\ UNCHANGED <<vars, dnsVars, thumbVars, adminVars, wolVars, recVars,
                       walkVars, oddVars>>
     \/ /\ program = "thumbs" /\ ThumbNext
        /\ UNCHANGED <<vars, dnsVars, visitVars, adminVars, wolVars, recVars,
                       walkVars, oddVars>>
     \/ /\ program = "admin" /\ AdminNext
        /\ UNCHANGED <<vars, dnsVars, visitVars, thumbVars, wolVars, recVars,
                       walkVars, oddVars>>
     \/ /\ program = "wol" /\ WolNext
        /\ UNCHANGED <<vars, dnsVars, visitVars, thumbVars, adminVars, recVars,
                       walkVars, oddVars>>
     \/ /\ program = "record" /\ RecNext
        /\ UNCHANGED <<vars, dnsVars, visitVars, thumbVars, adminVars, wolVars,
                       walkVars, oddVars>>
     \/ /\ program = "walk" /\ WalkNext
        /\ UNCHANGED <<vars, dnsVars, visitVars, thumbVars, adminVars, wolVars,
                       recVars, oddVars>>
     \/ /\ program = "odd" /\ Odd!Next
        /\ UNCHANGED <<vars, dnsVars, visitVars, thumbVars, adminVars, wolVars,
                       recVars, walkVars>>

ComponentsSpec == ComponentsInit /\ [][ComponentsNext]_componentVars

-----------------------------------------------------------------------------
(* Also where renames replace files, the directory is not synced, a body   *)
(* is too large and the part of a running upload is deleted, what the      *)
(* bridge publishes was verified.                                          *)
OddPublishedIsVerified == Odd!PublishedIsVerified

-----------------------------------------------------------------------------
(* The types of all the components, and the limits their tables respect.   *)
ComponentTypes ==
  /\ TypeOK
  /\ DnsTypeOK
  /\ VisitTypeOK
  /\ ThumbTypeOK
  /\ AdminTypeOK
  /\ WolTypeOK
  /\ RecTypeOK
=============================================================================
