------------------------------- MODULE DnsMap -------------------------------
(***************************************************************************)
(* The name caches of apptraffic.  The capture thread puts in what it      *)
(* sees: the names DNS answers and first records give to addresses, and    *)
(* the host or the application of a single connection.  At a commit the    *)
(* main thread looks a flow's names up, one lock at a time, keeps a        *)
(* pointer into the entry it found, and reads it when the row is stored.   *)
(* Expired entries are freed by the main thread, and in the caches by      *)
(* connection also by the capture thread when they are full.               *)
(***************************************************************************)
EXTENDS Integers, FiniteSets, Sequences

CONSTANTS
  Flow, SrcOf, DstOf,  \* the connections and their addresses
  Ip, Name,            \* IPv4 addresses, host names
  Literal,             \* the names that are written as an address
  App,                 \* what the signatures of l7.c find
  Mapped,              \* the applications the mapping and the services name
  MapFiles,            \* lists of [names, app, priority] of app-mapping.txt
  Interfaces,          \* getifaddrs: a list of [addr, bcast]
  MaxLocal,            \* MAX_LOCAL_ADDRS
  Service,             \* the service on each flow's destination port
  HostMax,             \* FLOW_HOST_MAX
  HostTimeout,         \* FLOW_HOST_TIMEOUT
  DnsTimeout,          \* dns_timeout
  SweepEvery,          \* how often the main loop expires entries
  MaxTold, MaxClock,   \* bounds: what the capture thread tells, the clock
  Torn,                \* a string read while it is written, or after free
  NoName

Kinds == {"host", "app"}
Dns   == 1          \* the confidence of a name
Sni   == 2

(* A line of app-mapping.txt, an entry of a cache by address and of one by *)
(* connection, the two threads at work, and what is remembered of a flow.  *)
SecondLevel(n) == <<"second level of", n>>
AppName    == App \cup Mapped \cup {"Unknown"}
Mapping    == [names : SUBSET Name, app : Mapped, priority : Int]
NamedEntry == [name : Name, until : Nat, conf : {Dns, Sni}]
OwnEntry   == [value : Name \cup App \cup {Torn}, until : Nat]
Sniffing   == [at : {"own", "copy"}, kind : Kinds, flow : Flow, value : Name \cup App,
               until : Nat]
Row        == [at : {"host", "ip", "app", "store"}, flow : Flow, from : {"none", "own", "ip"},
               ip : Ip, name : Name \cup {NoName}, l7 : BOOLEAN, raced : BOOLEAN,
               app : AppName \cup {SecondLevel(n) : n \in Name \cup App \cup {Torn}},
               owed : Name \cup App \cup {NoName}, right : SUBSET Name]
Telling    == [value : Name \cup App, at : Nat, room : BOOLEAN]

ASSUME DnsMapConstants ==
  /\ SrcOf \in [Flow -> Ip] /\ DstOf \in [Flow -> Ip] /\ IsFiniteSet(Flow)
  /\ HostMax \in Nat \ {0} /\ HostTimeout \in Nat \ {0}
  /\ DnsTimeout \in Nat \ {0} /\ SweepEvery \in Nat \ {0}
  /\ MaxTold \in Nat /\ MaxClock \in Nat
  /\ MapFiles \subseteq Seq(Mapping) /\ Service \in [Flow -> Mapped]
  /\ "" \notin Name /\ Torn \notin Name \cup AppName \cup {""}
  /\ \A n \in Name : Torn # SecondLevel(n)
  /\ NoName \notin Name \cup AppName \cup {"", Torn}
  /\ NoName \notin OwnEntry \cup Sniffing \cup Row \cup Telling

VARIABLES
  cached,   \* dns_hash: of each address its chain of names
  own,      \* flow_host_hash and flow_app_hash: of each flow its entry
  count,    \* flow_host_count, flow_app_count
  sniff,    \* the capture thread: idle (NoName) or within its calls
  row,      \* the main thread: idle (NoName) or the row it is building
  stored,   \* the row that was stored last, until the next one begins
  sweep,    \* mapping_expire_dns: what is still to be expired
  swept,    \* when the last sweep began
  maps,     \* app_mappings
  clock,    \* time(NULL)
  told,     \* bound: the number of tellings
  said,     \* history: what was told last of each flow, and if it had room
  heard     \* history: when each name was last told of each address, and
            \* whether by a first record

dnsVars == <<cached, own, count, sniff, row, stored, sweep, swept, maps,
             clock, told, said, heard>>

-----------------------------------------------------------------------------
(* mapping_load puts a line behind those of its priority or a higher one.  *)
Insert(list, m) ==
  LET before == {i \in DOMAIN list : list[i].priority >= m.priority}
      n == Cardinality(before)
  IN SubSeq(list, 1, n) \o <<m>> \o SubSeq(list, n + 1, Len(list))

Loaded(file) ==
  LET list[i \in 0 .. Len(file)] ==
        IF i = 0 THEN <<>> ELSE Insert(list[i - 1], file[i])
  IN list[Len(file)]

(* mapping_lookup_app: the first pattern that matches; else the second     *)
(* level of the name, but not of an address.                               *)
AppOf(list, n) ==
  LET hits == {i \in DOMAIN list : n \in list[i].names}
  IN IF hits # {} THEN list[CHOOSE i \in hits : \A j \in hits : i <= j].app
     ELSE IF n \in Literal THEN "Unknown" ELSE SecondLevel(n)

(* mapping_init_local: the first addresses are the board's own.            *)
Locals == {Interfaces[i].addr : i \in {j \in DOMAIN Interfaces : j <= MaxLocal}}
Bcasts == {Interfaces[i].bcast : i \in {j \in DOMAIN Interfaces : j <= MaxLocal}}
IsNoise(f) == SrcOf[f] \in Bcasts \/ DstOf[f] \in Bcasts

-----------------------------------------------------------------------------
(* Mutant: makes room by freeing what has expired, as the other caches do. *)
AddCachedSweeping(chain, n, conf) ==
  <<[name |-> n, until |-> clock + DnsTimeout, conf |-> conf]>>
  \o SelectSeq(chain, LAMBDA e : e.until >= clock /\ e.name # n)

(* expire_dns_entries: what is left of a chain, in its order.              *)
Unexpired(chain) ==
  LET kept[i \in 0 .. Len(chain)] ==
        IF i = 0 THEN <<>>
        ELSE IF chain[i].until >= clock THEN Append(kept[i - 1], chain[i]) ELSE kept[i - 1]
  IN kept[Len(chain)]

(* mapping_add_dns: a name the address has is confirmed, another is put    *)
(* before the chain.                                                       *)
AddCached(chain, n, conf) ==
  IF \E i \in DOMAIN chain : chain[i].name = n
  THEN [i \in DOMAIN chain |->
          IF chain[i].name = n
          THEN [chain[i] EXCEPT !.until = clock + DnsTimeout,
                                !.conf = IF conf > @ THEN conf ELSE @]
          ELSE chain[i]]
  ELSE <<[name |-> n, until |-> clock + DnsTimeout, conf |-> conf]>> \o chain

IsNamed(a, n, conf) ==
  /\ cached' = [cached EXCEPT ![a] = AddCached(@, n, conf)]
  /\ heard' = [heard EXCEPT ![a][n] =
                 [at |-> clock, sni |-> IF conf = Sni THEN clock ELSE @.sni]]

(* mapping_lookup_domain: of the names that live the most confident, of    *)
(* these the one told last, of these the first.                            *)
Best(chain) ==
  LET live == {i \in DOMAIN chain : chain[i].until > clock}
  IN {i \in live :
        \A j \in live :
          \/ chain[j].conf < chain[i].conf
          \/ chain[j].conf = chain[i].conf /\ chain[j].until < chain[i].until
          \/ chain[j].conf = chain[i].conf /\ chain[j].until = chain[i].until /\ i <= j}

-----------------------------------------------------------------------------
(* flow_host_expire and flow_app_expire.  A row may hold what is freed.    *)
Expired(k) == {f \in Flow : own[k][f] # NoName /\ own[k][f].until < clock}
Without(k, S) == [own EXCEPT ![k] = [f \in Flow |-> IF f \in S THEN NoName ELSE @[f]]]

Holds(k, f) == row # NoName /\ row.flow = f /\ (IF k = "host" THEN row.from = "own" ELSE row.l7)
Freed(k, S) == IF \E f \in S : Holds(k, f) THEN [row EXCEPT !.raced = TRUE] ELSE row

(* A full cache frees what has expired.                                    *)
MakesRoom(k) == IF count[k] >= HostMax THEN Expired(k) ELSE {}

(* The entry of a flow is overwritten in place, while it may be read.      *)
Overwrites(k, f) ==
  /\ own' = [own EXCEPT ![k][f].value = Torn]
  /\ sniff' = [sniff EXCEPT !.at = "copy", !.until = clock + HostTimeout]
  /\ row' = IF Holds(k, f) THEN [row EXCEPT !.raced = TRUE] ELSE row
  /\ UNCHANGED count

(* There is room for it if fewer than HostMax others were told of lately.  *)
Room(k, f) ==
  Cardinality({g \in Flow \ {f} : said[k][g] # NoName
                                  /\ said[k][g].at + HostTimeout >= clock}) < HostMax

(* mapping_add_flow_host and mapping_add_flow_app.                         *)
Adds ==
  /\ sniff # NoName /\ sniff.at = "own"
  /\ LET k == sniff.kind
         f == sniff.flow
         full == count[k] - Cardinality(MakesRoom(k)) >= HostMax
     IN \/ own[k][f] # NoName /\ Overwrites(k, f)
        \/ /\ own[k][f] = NoName
           /\ own' = IF full THEN Without(k, MakesRoom(k))
                     ELSE [Without(k, MakesRoom(k)) EXCEPT ![k][f] =
                             [value |-> sniff.value, until |-> clock + HostTimeout]]
           /\ count' = [count EXCEPT ![k] =
                          @ - Cardinality(MakesRoom(k)) + IF full THEN 0 ELSE 1]
           /\ row' = Freed(k, MakesRoom(k))
           /\ sniff' = NoName
  /\ said' = [said EXCEPT ![sniff.kind][sniff.flow] =
               [value |-> sniff.value, at |-> clock, room |-> Room(sniff.kind, sniff.flow)]]
  /\ UNCHANGED <<cached, stored, sweep, swept, maps, clock, told, heard>>

Copies ==
  /\ sniff # NoName /\ sniff.at = "copy"
  /\ own' = [own EXCEPT ![sniff.kind][sniff.flow] =
               [value |-> sniff.value, until |-> sniff.until]]
  /\ sniff' = NoName
  /\ UNCHANGED <<cached, count, row, stored, sweep, swept, maps, clock, told, said, heard>>

(* What the capture thread sees: an answer of DNS, the host of a           *)
(* connection's first record, or the application a signature tells.        *)
Says(k, f, v) == sniff' = [at |-> "own", kind |-> k, flow |-> f, value |-> v, until |-> 0]

SeesAnswer(a, n) ==
  /\ IsNamed(a, n, Dns)
  /\ UNCHANGED sniff

SeesHost(f, n) ==
  /\ IsNamed(DstOf[f], n, Sni)
  /\ Says("host", f, n)

SeesApp(f, v) ==
  /\ Says("app", f, v)
  /\ UNCHANGED <<cached, heard>>

Capture ==
  /\ sniff = NoName /\ told < MaxTold
  /\ told' = told + 1
  /\ \/ \E a \in Ip, n \in Name : SeesAnswer(a, n)
     \/ \E f \in Flow, n \in Name : SeesHost(f, n)
     \/ \E f \in Flow, v \in App : SeesApp(f, v)
  /\ UNCHANGED <<own, count, row, stored, sweep, swept, maps, clock, said>>

-----------------------------------------------------------------------------
(* flow_to_db_cb.  What is owed to the row is the host its own record told *)
(* in time, if there was room for it.                                      *)
Owed(k, f) ==
  LET s == said[k][f] IN
  IF s # NoName /\ s.room /\ s.at + HostTimeout > clock THEN s.value ELSE NoName

(* The names an address may be shown under: those told of it within        *)
(* dns_timeout, and if a first record named it in that time, only those    *)
(* that one ever did.                                                      *)
Right(a) ==
  LET lately == {n \in Name : heard[a][n].at + DnsTimeout > clock}
  IN IF \E n \in Name : heard[a][n].sni + DnsTimeout > clock
     THEN {n \in lately : heard[a][n].sni >= 0} ELSE lately

(* Noise is dropped, and a flow to the board itself has no domain.         *)
StoresLocal(f) ==
  /\ row = NoName /\ sweep = {} /\ ~IsNoise(f) /\ DstOf[f] \in Locals
  /\ stored' = [flow |-> f, name |-> "", app |-> Service[f], l7 |-> FALSE, raced |-> FALSE]
  /\ UNCHANGED <<cached, own, count, sniff, row, sweep, swept, maps, clock, told, said, heard>>

Begins(f) ==
  /\ row = NoName /\ sweep = {} /\ ~IsNoise(f) /\ DstOf[f] \notin Locals
  /\ stored' = NoName
  /\ row' = [at |-> "host", flow |-> f, from |-> "none", ip |-> DstOf[f], name |-> NoName,
             app |-> "Unknown", l7 |-> FALSE, raced |-> FALSE, owed |-> NoName, right |-> {}]
  /\ UNCHANGED <<cached, own, count, sniff, sweep, swept, maps, clock, told, said, heard>>

Alive(k, f) == own[k][f] # NoName /\ own[k][f].until > clock
Writing(k)  == sniff # NoName /\ sniff.at = "copy" /\ sniff.kind = k   \* its mutex is held

(* mapping_lookup_flow_host.                                               *)
LooksHost ==
  /\ row # NoName /\ row.at = "host" /\ ~Writing("host")
  /\ LET f == row.flow
         r == [row EXCEPT !.owed = Owed("host", f)] IN
     row' = IF Alive("host", f) THEN [r EXCEPT !.at = "app", !.from = "own"]
            ELSE [r EXCEPT !.at = "ip"]
  /\ UNCHANGED <<cached, own, count, sniff, stored, sweep, swept, maps, clock, told, said, heard>>

(* mapping_lookup_domain of the destination, then of the source; a name of *)
(* the cache is never written again, so the pointer stands for it.         *)
LooksIp ==
  /\ row # NoName /\ row.at = "ip"
  /\ LET best == Best(cached[row.ip])
         r == [row EXCEPT !.right = Right(row.ip)] IN
     row' = IF best # {}
            THEN [r EXCEPT !.at = "app", !.from = "ip",
                           !.name = cached[row.ip][CHOOSE i \in best : TRUE].name]
            ELSE IF row.ip = SrcOf[row.flow] THEN [r EXCEPT !.at = "app"]
            ELSE [r EXCEPT !.ip = SrcOf[row.flow]]
  /\ UNCHANGED <<cached, own, count, sniff, stored, sweep, swept, maps, clock, told, said, heard>>

(* What a pointer shows when it is read.                                   *)
Shown(k) == IF own[k][row.flow] = NoName THEN Torn ELSE own[k][row.flow].value
RowName  == IF row.from = "own" THEN Shown("host") ELSE row.name

(* mapping_lookup_flow_app, else mapping_lookup_app of the name.           *)
LooksApp ==
  /\ row # NoName /\ row.at = "app" /\ ~Writing("app")
  /\ row' = IF Alive("app", row.flow) THEN [row EXCEPT !.at = "store", !.l7 = TRUE]
            ELSE [row EXCEPT !.at = "store",
                             !.app = IF row.from = "none" THEN "Unknown"
                                     ELSE AppOf(maps, RowName)]
  /\ UNCHANGED <<cached, own, count, sniff, stored, sweep, swept, maps, clock, told, said, heard>>

(* database_store_flow reads what the pointers show now.                   *)
StoresRow ==
  /\ row # NoName /\ row.at = "store"
  /\ stored' = [flow |-> row.flow, name |-> RowName, raced |-> row.raced, l7 |-> row.l7,
                app |-> IF row.l7 THEN Shown("app") ELSE row.app]
  /\ row' = NoName
  /\ UNCHANGED <<cached, own, count, sniff, sweep, swept, maps, clock, told, said, heard>>

-----------------------------------------------------------------------------
(* mapping_expire_dns in the main loop: one cache after another.           *)
SweepBegins ==
  /\ row = NoName /\ sweep = {} /\ clock - swept >= SweepEvery
  /\ cached' = [a \in Ip |-> Unexpired(cached[a])]
  /\ sweep' = Kinds /\ swept' = clock
  /\ UNCHANGED <<own, count, sniff, row, stored, maps, clock, told, said, heard>>

(* Mutant: frees an entry and counts it still.                             *)
SweepsUncounted(k) ==
  /\ sweep # {} /\ k = (IF "host" \in sweep THEN "host" ELSE "app") /\ ~Writing(k)
  /\ own' = Without(k, Expired(k))
  /\ sweep' = sweep \ {k}
  /\ UNCHANGED <<cached, count, sniff, row, stored, swept, maps, clock, told, said, heard>>

Sweeps(k) ==
  /\ sweep # {} /\ k = (IF "host" \in sweep THEN "host" ELSE "app") /\ ~Writing(k)
  /\ own' = Without(k, Expired(k))
  /\ count' = [count EXCEPT ![k] = @ - Cardinality(Expired(k))]
  /\ sweep' = sweep \ {k}
  /\ UNCHANGED <<cached, sniff, row, stored, swept, maps, clock, told, said, heard>>

ClockTicks ==
  /\ clock < MaxClock
  /\ clock' = clock + 1
  /\ UNCHANGED <<cached, own, count, sniff, row, stored, sweep, swept, maps, told, said, heard>>

DnsInit ==
  /\ cached = [a \in Ip |-> <<>>]
  /\ own = [k \in Kinds |-> [f \in Flow |-> NoName]]
  /\ count = [k \in Kinds |-> 0]
  /\ sniff = NoName /\ row = NoName /\ stored = NoName
  /\ sweep = {} /\ swept = 0 /\ clock = 0 /\ told = 0
  /\ \E file \in MapFiles : maps = Loaded(file)
  /\ said = [k \in Kinds |-> [f \in Flow |-> NoName]]
  /\ heard = [a \in Ip |-> [n \in Name |-> [at |-> -DnsTimeout, sni |-> -DnsTimeout]]]

DnsNext ==
  \/ Capture \/ Adds \/ Copies
  \/ \E f \in Flow : StoresLocal(f) \/ Begins(f)
  \/ LooksHost \/ LooksIp \/ LooksApp \/ StoresRow
  \/ SweepBegins \/ \E k \in Kinds : Sweeps(k)
  \/ ClockTicks

DnsSpec == DnsInit /\ [][DnsNext]_dnsVars

-----------------------------------------------------------------------------
(* The types; each of the two counters is the size of its cache, which is  *)
(* never larger than FLOW_HOST_MAX, whichever thread frees or adds.        *)
DnsTypeOK ==
  /\ \A a \in Ip : cached[a] \in Seq(NamedEntry)
  /\ \A k \in Kinds, f \in Flow :
       own[k][f] # NoName => own[k][f].value \in Name \cup App \cup {Torn}
  /\ \A k \in Kinds : /\ count[k] = Cardinality({f \in Flow : own[k][f] # NoName})
                      /\ count[k] <= HostMax
  /\ sweep \subseteq Kinds /\ clock \in 0 .. MaxClock /\ told \in 0 .. MaxTold

Named == row # NoName /\ row.at \in {"app", "store"}

(* The host of a connection's own first record wins over every name its    *)
(* address was given, for FLOW_HOST_TIMEOUT after it was told, unless as   *)
(* many other connections were told of that there was no room: what the    *)
(* comment above flow_host_hash promises of shared addresses, with the     *)
(* look-up, the refresh, the sweep and the freeing in a full cache.        *)
OwnHostWins == Named /\ row.owed # NoName => row.from = "own"

(* A name from the cache of addresses was told of that address within      *)
(* dns_timeout, and no DNS answer hides a host that a first record named:  *)
(* if one named the address in that time, the row's name is such a host,   *)
(* however answers and records followed each other.                        *)
IpNamesAreBest == Named /\ row.from = "ip" => row.name \in row.right

(* The name a row took from the cache of addresses is in the cache until   *)
(* the row is stored, although the lock was given back: only the thread    *)
(* that reads it frees such entries, and a name is never written again.    *)
HeldNamesStay ==
  row # NoName /\ row.from = "ip" =>
    \E i \in DOMAIN cached[row.ip] : cached[row.ip][i].name = row.name

(* Unless its entry was written or freed while the row was built, a row's  *)
(* name was really told, and its application is that of the mapping with   *)
(* the highest priority, of several the first in the file, that matches    *)
(* the very name it is stored with.                                        *)
FirstOfHighest(file, n) ==
  LET hits == {i \in DOMAIN file : n \in file[i].names}
      top  == {i \in hits : \A j \in hits : file[j].priority <= file[i].priority}
  IN file[CHOOSE i \in top : \A j \in top : i <= j].app

AppIsOfItsName ==
  stored # NoName /\ ~stored.raced =>
    /\ stored.name # Torn /\ stored.app # Torn
    /\ (~stored.l7 /\ stored.name \in Name) =>
         \E file \in MapFiles :
           /\ maps = Loaded(file)
           /\ (\E i \in DOMAIN file : stored.name \in file[i].names) =>
                stored.app = FirstOfHighest(file, stored.name)

(* What the main thread writes into a row: the connection's own host       *)
(* before the names of its address, of these the most certain one, a name  *)
(* that is still there when the row is stored, and the application of that *)
(* name.                                                                   *)
RowsAreNamedRight ==
  /\ OwnHostWins
  /\ IpNamesAreBest
  /\ HeldNamesStay
  /\ AppIsOfItsName
=============================================================================
