------------------------------- MODULE Shcmd -------------------------------
(***************************************************************************)
(* The command daemon (shcmd.c): it loads its configuration line by line,  *)
(* answers one connection after the other and runs the configured commands *)
(* with the arguments of the request.  A command is a small group of       *)
(* processes that write to the pipe the daemon reads until end of file or  *)
(* a timeout.  A configuration line and a request are records of what the  *)
(* parser finds in them; a word of an argument vector is a text or the     *)
(* number of the argument that replaces it.                                *)
(***************************************************************************)
EXTENDS Integers, FiniteSets, Sequences, FiniteSetsExt

CONSTANTS
  Files,       \* configuration files: sequences of lines
  Requests,    \* what clients send
  Values,      \* the values of arguments
  Absent,      \* an argument, name or token that is absent or empty
  MaxEntries, MaxTokens, MaxAddrs, MaxCmdArgv, MaxArgs, \* as in the source
  DefaultArgs, \* max_args unless the file sets it
  ByteBits,    \* bits of a byte of an address: 8, or fewer in an instance
  AddrBytes,   \* bytes of an address
  MaxOut,      \* MAX_OUT, the output kept
  Room,        \* what the body of a reply has room for of it
  Widths,      \* the bytes commands write, by what each takes in JSON: itself,
               \* an escaped character, or \u and four digits
  Timeout,     \* the timeout of every command
  MaxServed,   \* bound: connections
  MaxWritten   \* bound: output a command writes

ASSUME ShcmdConstants ==
  /\ Absent \notin Values /\ Timeout \in Nat \ {0} /\ MaxOut \in Nat \ 0 .. 2
  /\ Room \in Nat /\ Widths \subseteq {1, 2, 6}
  /\ {MaxEntries, MaxTokens, MaxAddrs, MaxCmdArgv, MaxArgs} \subseteq Nat \ {0}
  /\ DefaultArgs \in 0 .. MaxArgs
  /\ ByteBits \in 1 .. 8 /\ AddrBytes \in Nat \ {0}
  /\ MaxServed \in Nat /\ MaxWritten \in Nat

(* What the lines of a file are: a command line has a word at least, and   *)
(* the lines below it describe the command it names.                       *)
ASSUME FilesAreRead ==
  \A f \in Files :
    /\ f \in Seq({f[i] : i \in DOMAIN f})
    /\ \A i \in DOMAIN f :
         /\ f[i].dir = "command" =>
              /\ f[i].argv \in Seq([hole : Nat]) /\ f[i].argv # <<>>
         /\ f[i].dir = "max_args" => f[i].n \in Int
         /\ f[i].dir \in {"arg", "danger"} =>
              \A j \in 1 .. (i - 1) :
                f[j].dir = "command" /\ (\A k \in (j + 1) .. (i - 1) : f[k].dir \notin {"command", "lost"})
                => f[i].under = f[j].name

(* The address of a range and that of a client are bytes.                  *)
Address == [1 .. AddrBytes -> 0 .. (2 ^ ByteBits - 1)]

ASSUME AddressesAreRead ==
  /\ \A f \in Files : \A i \in DOMAIN f : f[i].dir = "allow" => f[i].raw \in Address
  /\ \A r \in Requests : r.peer.raw \in Address

VARIABLES
  file,      \* the configuration file
  todo,      \* the lines of it that are not loaded yet
  conf,      \* cfg
  spc,       \* where the daemon is
  gStop,     \* g_stop
  req,       \* the request in progress
  served,    \* connections accepted so far
  late,      \* history: those accepted after the stop signal
  ran,       \* history: the last command: its entry, its arguments, its argv
  reply,     \* history: the last reply
  live,      \* the processes of the command: the leader and a helper
  writers,   \* those that hold the pipe
  away,      \* those that left the process group
  written,   \* output written so far,
  taken,     \* what of it is read,
  out,       \* res->out, the bytes kept: how many JSON writes each with
  elapsed,   \* time since the command was started
  cutOff,    \* res->truncated
  timedOut   \* res->timed_out

group   == <<live, writers, away, written>>
result  == <<taken, out, elapsed, cutOff, timedOut>>
shcmdVars == <<file, todo, conf, spc, gStop, req, served, late, ran, reply,
               group, result>>

NoSpec == [may |-> Values, required |-> FALSE, under |-> Absent]

(* cfg_defaults.                                                           *)
Defaults == [tokens |-> <<>>, addrs |-> <<>>, entries |-> <<>>, max |-> DefaultArgs]

ShcmdInit ==
  /\ file \in Files /\ todo = file /\ conf = Defaults
  /\ spc = "load" /\ gStop = FALSE /\ req = Absent
  /\ served = 0 /\ late = 0 /\ ran = Absent /\ reply = Absent
  /\ live = {} /\ writers = {} /\ away = {} /\ written = 0
  /\ taken = 0 /\ out = <<>> /\ elapsed = 0 /\ cutOff = FALSE /\ timedOut = FALSE

-----------------------------------------------------------------------------
(* A new entry: its words, but not more than the slots it has.             *)
NewEntry(l) ==
  [name |-> l.name, danger |-> Absent, args |-> [i \in 1 .. MaxArgs |-> NoSpec],
   argv |-> SubSeq(l.argv, 1, IF Len(l.argv) < MaxCmdArgv THEN Len(l.argv)
                              ELSE MaxCmdArgv)]

(* An `arg` or a `danger` line sets its part of an entry.                  *)
Described(e, l) ==
  IF l.dir = "danger" THEN [e EXCEPT !.danger = l.under]
  ELSE [e EXCEPT !.args[l.slot] =
          [may |-> l.may, required |-> l.required, under |-> l.under]]

(* It goes to the last command there is.                                   *)
Attached(c, l) == [c EXCEPT !.entries[Len(c.entries)] = Described(@, l)]

(* cfg_line: what a line does to the configuration; a line that is too     *)
(* long (cfg_load), malformed or one too many changes nothing.             *)
CfgLine(c, l) ==
  CASE l.dir = "token" /\ Len(c.tokens) < MaxTokens ->
         [c EXCEPT !.tokens = Append(@, l.tok)]
    [] l.dir = "max_args" ->
         [c EXCEPT !.max = IF l.n < 0 THEN 0 ELSE IF l.n > MaxArgs THEN MaxArgs ELSE l.n]
    [] l.dir = "allow" /\ Len(c.addrs) < MaxAddrs /\ l.bits \in 0 .. ByteBits * AddrBytes ->
         [c EXCEPT !.addrs = Append(@, [family |-> l.family, raw |-> l.raw, bits |-> l.bits])]
    [] l.dir = "command" /\ Len(c.entries) < MaxEntries ->
         [c EXCEPT !.entries = Append(@, NewEntry(l))]
    [] l.dir = "danger" /\ c.entries # <<>> -> Attached(c, l)
    [] l.dir = "arg" /\ c.entries # <<>> /\ l.slot \in 1 .. MaxArgs -> Attached(c, l)
    [] OTHER -> c

LoadLine ==
  /\ spc = "load" /\ todo # <<>>
  /\ conf' = CfgLine(conf, Head(todo)) /\ todo' = Tail(todo)
  /\ UNCHANGED <<file, spc, gStop, req, served, late, ran, reply, group, result>>

Listen ==
  /\ spc = "load" /\ todo = <<>>
  /\ spc' = "loop"
  /\ UNCHANGED <<file, todo, conf, gStop, req, served, late, ran, reply, group, result>>

-----------------------------------------------------------------------------
(* A rule matches: its whole bytes, then the masked rest.                  *)
InNet(r, p) ==
  LET whole == r.bits \div ByteBits
      rem   == r.bits % ByteBits
      mask  == 2 ^ (ByteBits - rem)
  IN /\ r.family = p.family
     /\ \A i \in 1 .. whole : p.raw[i] = r.raw[i]
     /\ rem # 0 => p.raw[whole + 1] \div mask = r.raw[whole + 1] \div mask

AddrAllowed(p) == conf.addrs = <<>> \/ \E i \in DOMAIN conf.addrs : InNet(conf.addrs[i], p)

(* The token of a request: the query, the header, then the form.           *)
TokenOf(r) ==
  IF r.query.k # Absent THEN r.query.k ELSE IF r.bearer # Absent THEN r.bearer ELSE r.form.k

TokenOk(t) == \E i \in DOMAIN conf.tokens : conf.tokens[i] = t

NameOf(r) == IF r.query.n # Absent THEN r.query.n ELSE r.form.n

(* entry_find: the first entry of that name, or nothing.                   *)
Found(r) ==
  {conf.entries[i] : i \in {j \in DOMAIN conf.entries :
     /\ conf.entries[j].name = NameOf(r)
     /\ \A k \in 1 .. (j - 1) : conf.entries[k].name # NameOf(r)}}

(* extra[]: the values of a, a1, ... that are there, without gaps.         *)
Extra(r) ==
  LET upTo[n \in 0 .. MaxArgs] == IF n = 0 THEN <<>>
                                  ELSE IF r.query.a[n] = Absent THEN upTo[n - 1]
                                  ELSE Append(upTo[n - 1], r.query.a[n])
  IN upTo[conf.max]

(* Mutant: the constraints are those of the parameters, not of the slots.  *)
FitsParams(e, r) ==
  \A i \in 1 .. MaxArgs :
    IF r.query.a[i] # Absent THEN r.query.a[i] \in e.args[i].may ELSE ~e.args[i].required

(* The arguments meet the constraints declared for the command.            *)
Fits(e, r) ==
  \A i \in 1 .. MaxArgs :
    IF i <= Len(Extra(r)) THEN Extra(r)[i] \in e.args[i].may ELSE ~e.args[i].required

Holes(e) == {e.argv[i].hole : i \in DOMAIN e.argv} \ {0}

(* The argument vector: values in their places, or behind the words.       *)
Argv(e, x) ==
  IF Holes(e) = {}
  THEN [i \in 1 .. Len(e.argv) + Len(x) |->
          IF i <= Len(e.argv) THEN Absent ELSE x[i - Len(e.argv)]]
  ELSE [i \in DOMAIN e.argv |-> IF e.argv[i].hole = 0 THEN Absent ELSE x[e.argv[i].hole]]

(* handle_client: the replies before a command runs, in their order.       *)
Verdicts(r) ==
  << <<~AddrAllowed(r.peer), 403>>, <<r.head = "large", 413>>,
     <<r.head \in {"error", "cut", "odd"}, 400>>, <<r.method = "other", 405>>,
     <<r.body = "large", 413>>, <<~TokenOk(TokenOf(r)), 401>>,
     <<r.path \in {"/", "/c", "/schema"}, 200>>, <<r.path # "/r", 404>>,
     <<NameOf(r) = Absent, 400>>, <<Found(r) = {}, 404>>,
     <<\E e \in Found(r) : ~Fits(e, r), 400>>,
     <<\E e \in Found(r) : \E h \in Holes(e) : h > Len(Extra(r)), 400>> >>

Applies(r) == {k \in DOMAIN Verdicts(r) : Verdicts(r)[k][1]}
Verdict(r) == IF Applies(r) = {} THEN 0 ELSE Min(Applies(r))

-----------------------------------------------------------------------------
(* The head of main's loop.                                                *)
Turn ==
  /\ spc = "loop"
  /\ spc' = IF gStop THEN "stopped" ELSE "calling"
  /\ UNCHANGED <<file, todo, conf, gStop, req, served, late, ran, reply, group, result>>

(* accept() is entered; it fails, or a signal ends it.                     *)
Blocks ==
  /\ spc = "calling"
  /\ spc' \in {"accept", "loop"}
  /\ UNCHANGED <<file, todo, conf, gStop, req, served, late, ran, reply, group, result>>

(* on_signal, without SA_RESTART.                                          *)
Signal ==
  /\ ~gStop /\ spc \notin {"load", "stopped"}
  /\ gStop' = TRUE
  /\ spc' = IF spc = "accept" THEN "loop" ELSE spc
  /\ UNCHANGED <<file, todo, conf, req, served, late, ran, reply, group, result>>

Accept(r) ==
  /\ spc = "accept" /\ served < MaxServed
  /\ spc' = "handle" /\ req' = r /\ served' = served + 1
  /\ late' = IF gStop THEN late + 1 ELSE late
  /\ ran' = Absent /\ reply' = Absent
  /\ UNCHANGED <<file, todo, conf, gStop, group, result>>

(* The request is refused, or answered without a command.                  *)
Refuse ==
  /\ spc = "handle" /\ Verdict(req) # 0
  /\ reply' = [code |-> Verdicts(req)[Verdict(req)][2], run |-> FALSE]
  /\ spc' = "loop"
  /\ UNCHANGED <<file, todo, conf, gStop, req, served, late, ran, group, result>>

(* run_argv starts the command: no process of an earlier one is watched    *)
(* any more.                                                               *)
StartCommand ==
  /\ spc = "handle" /\ Verdict(req) = 0
  /\ \E e \in Found(req) :
       ran' = [entry |-> e, extra |-> Extra(req), argv |-> Argv(e, Extra(req))]
  /\ spc' = "read"
  /\ live' = {"leader"} /\ writers' = {"leader"} /\ away' = {}
  /\ written' = 0 /\ taken' = 0 /\ out' = <<>> /\ elapsed' = 0
  /\ cutOff' = FALSE /\ timedOut' = FALSE
  /\ UNCHANGED <<file, todo, conf, gStop, req, served, late, reply>>

(* pipe or fork fails: the error message, of plain bytes, is the output.   *)
StartFails ==
  /\ spc = "handle" /\ Verdict(req) = 0
  /\ \E e \in Found(req) :
       ran' = [entry |-> e, extra |-> Extra(req), argv |-> Argv(e, Extra(req))]
  /\ spc' = "reply"
  /\ live' = {} /\ writers' = {} /\ away' = {}
  /\ written' = 2 /\ taken' = 2 /\ out' = <<1, 1>> /\ elapsed' = 0
  /\ cutOff' = FALSE /\ timedOut' = FALSE
  /\ UNCHANGED <<file, todo, conf, gStop, req, served, late, reply>>

watching == <<file, todo, conf, spc, gStop, req, served, late, ran, reply>>

(* What the processes of the command do.                                   *)
Writes(p) ==
  /\ p \in writers /\ spc \in {"read", "wait"} /\ written < MaxWritten
  /\ written' = written + 1
  /\ UNCHANGED <<watching, live, writers, away, result>>

Forks ==
  /\ "leader" \in live /\ spc = "read" /\ "helper" \notin live
  /\ live' = live \cup {"helper"}
  /\ writers' = IF "leader" \in writers THEN writers \cup {"helper"} ELSE writers
  /\ UNCHANGED <<watching, away, written, result>>

LeavesGroup ==
  /\ "helper" \in live \ away /\ spc = "read"
  /\ away' = away \cup {"helper"}
  /\ UNCHANGED <<watching, live, writers, written, result>>

ClosesPipe(p) ==
  /\ p \in writers /\ spc = "read"
  /\ writers' = writers \ {p}
  /\ UNCHANGED <<watching, live, away, written, result>>

Exits(p) ==
  /\ p \in live /\ spc \in {"read", "wait"}
  /\ live' = live \ {p} /\ writers' = writers \ {p} /\ away' = away \ {p}
  /\ UNCHANGED <<watching, written, result>>

Second ==
  /\ spc = "read" /\ elapsed < Timeout
  /\ elapsed' = elapsed + 1
  /\ UNCHANGED <<watching, group, taken, out, cutOff, timedOut>>

outside == <<file, todo, conf, gStop, req, served, late, ran>>

(* Mutant: only the leader is killed.                                      *)
TimesOutLeader ==
  /\ spc = "read" /\ elapsed = Timeout
  /\ timedOut' = TRUE /\ spc' = "wait"
  /\ live' = live \ {"leader"} /\ writers' = writers \ {"leader"}
  /\ UNCHANGED <<outside, reply, away, written, taken, out, elapsed, cutOff>>

(* Mutant: the group is not killed.                                        *)
TimesOutUnkilled ==
  /\ spc = "read" /\ elapsed = Timeout
  /\ timedOut' = TRUE /\ spc' = "wait"
  /\ UNCHANGED <<outside, reply, group, taken, out, elapsed, cutOff>>

(* The timeout: kill(-pid) ends the processes of the group.                *)
TimesOut ==
  /\ spc = "read" /\ elapsed = Timeout
  /\ timedOut' = TRUE /\ spc' = "wait"
  /\ live' = live \cap away /\ writers' = writers \cap away
  /\ UNCHANGED <<outside, reply, away, written, taken, out, elapsed, cutOff>>

(* Output is read: into the buffer, or thrown away if it is full.          *)
ReadsOutput ==
  /\ spc = "read" /\ elapsed < Timeout /\ taken < written
  /\ taken' = taken + 1
  /\ \/ Len(out) < MaxOut /\ \E w \in Widths : out' = Append(out, w)
     \/ Len(out) = MaxOut /\ UNCHANGED out
  /\ cutOff' = (cutOff \/ Len(out) + 1 >= MaxOut)
  /\ UNCHANGED <<watching, group, elapsed, timedOut>>

(* End of file: nobody holds the pipe any more.                            *)
EndOfFile ==
  /\ spc = "read" /\ elapsed < Timeout /\ taken = written /\ writers = {}
  /\ spc' = "wait"
  /\ UNCHANGED <<outside, reply, group, result>>

(* waitpid returns when the leader is gone, however long that takes.       *)
Reaped ==
  /\ spc = "wait" /\ "leader" \notin live
  /\ spc' = "reply"
  /\ UNCHANGED <<outside, reply, group, result>>

(* The length of the first n bytes kept, in JSON.                          *)
Escaped(n) ==
  n + Cardinality({i \in 1 .. n : out[i] = 2}) + 5 * Cardinality({i \in 1 .. n : out[i] = 6})

(* json_escape goes on while its place is more than eight bytes before the *)
(* end of a buffer of six bytes for each byte and one: what gets so far.   *)
Shown == Cardinality({n \in 0 .. (Len(out) - 1) : Escaped(n) + 8 < 6 * Len(out) + 1})

(* The reply: the body ends early if what was escaped has no room in it.   *)
Reply ==
  /\ spc = "reply"
  /\ reply' = [code |-> 200, run |-> TRUE, len |-> Shown, truncated |-> cutOff,
               timed_out |-> timedOut, whole |-> Escaped(Shown) <= Room]
  /\ spc' = "loop"
  /\ UNCHANGED <<outside, group, result>>

ShcmdStep == \/ LoadLine \/ Listen \/ Turn \/ Blocks \/ Refuse
             \/ StartCommand \/ StartFails
             \/ TimesOut \/ ReadsOutput \/ EndOfFile \/ Reaped \/ Reply

ShcmdNext ==
  \/ ShcmdStep
  \/ Signal \/ \E r \in Requests : Accept(r)
  \/ Forks \/ LeavesGroup \/ Second
  \/ \E p \in {"leader", "helper"} : Writes(p) \/ ClosesPipe(p) \/ Exits(p)

ShcmdSpec == ShcmdInit /\ [][ShcmdNext]_shcmdVars
ShcmdFairSpec == ShcmdSpec /\ WF_shcmdVars(ShcmdStep) /\ WF_shcmdVars(Second)

-----------------------------------------------------------------------------
Sensible == spc \in {"load", "loop", "calling", "accept", "handle", "read",
                     "wait", "reply", "stopped"}

(* Type invariant.                                                         *)
ShcmdTypeOK ==
  /\ Sensible /\ file \in Files /\ req \in Requests \cup {Absent}
  /\ Len(conf.entries) <= MaxEntries /\ Len(conf.addrs) <= MaxAddrs
  /\ Len(conf.tokens) <= MaxTokens /\ conf.max \in 0 .. MaxArgs
  /\ \A i \in DOMAIN conf.entries : Len(conf.entries[i].argv) \in 1 .. MaxCmdArgv
  /\ writers \subseteq live /\ away \subseteq live
  /\ Len(out) <= taken /\ taken <= written /\ Len(out) <= MaxOut /\ elapsed \in 0 .. Timeout

(* What a file says of a command is attached to that command, unless a     *)
(* command line of the file was not taken: the lines below such a line     *)
(* describe the command above it.                                          *)
LinesStayWithTheirCommand ==
  /\ \A i \in DOMAIN file : file[i].dir # "lost"
  /\ Cardinality({i \in DOMAIN file : file[i].dir = "command"}) <= MaxEntries
  => \A i \in DOMAIN conf.entries :
       LET e == conf.entries[i]
       IN /\ e.danger \in {Absent, e.name}
          /\ \A s \in 1 .. MaxArgs : e.args[s].under \in {Absent, e.name}

(* A rule of the file lets a client in exactly if their addresses agree in *)
(* the first `bits` bits: the comparison by bytes and a mask is the one    *)
(* of the prefixes.                                                        *)
Bits(raw) == [i \in 1 .. ByteBits * AddrBytes |->
  (raw[(i - 1) \div ByteBits + 1] \div 2 ^ (ByteBits - 1 - ((i - 1) % ByteBits))) % 2]

RulesArePrefixes ==
  \A i \in DOMAIN conf.addrs : \A r \in Requests :
    InNet(conf.addrs[i], r.peer) <=>
      /\ conf.addrs[i].family = r.peer.family
      /\ SubSeq(Bits(conf.addrs[i].raw), 1, conf.addrs[i].bits)
           = SubSeq(Bits(r.peer.raw), 1, conf.addrs[i].bits)

(* Without a configured token nobody learns more than that his request was *)
(* refused, not even which commands there are.                             *)
OnlyTokensAreTold ==
  reply # Absent /\ (reply.code \in {200, 404} \/ ran # Absent) => TokenOk(TokenOf(req))

(* The values a program is given meet the constraints of the places they   *)
(* are given in, and none that is required is missing.                     *)
ArgumentsMeetTheirSpec ==
  ran # Absent =>
    LET e == ran.entry
        Slot(i) == IF Holes(e) = {} THEN i - Len(e.argv) ELSE e.argv[i].hole
    IN /\ \A i \in DOMAIN ran.argv :
            ran.argv[i] # Absent => ran.argv[i] \in e.args[Slot(i)].may
       /\ \A s \in 1 .. MaxArgs : e.args[s].required => s <= Len(ran.extra)

(* The value of parameter a(N-1) goes to slot N, as /schema says, if the   *)
(* request leaves no gap between its parameters.                           *)
SlotsAreParameters ==
  ran # Absent /\ (\A i \in 1 .. (MaxArgs - 1) :
                   req.query.a[i + 1] # Absent => req.query.a[i] # Absent) =>
    \A s \in 1 .. MaxArgs :
      ran.extra # <<>> /\ s <= Len(ran.extra) => ran.extra[s] = req.query.a[s]

(* No process of the command's group outlives a reply that reports the     *)
(* timeout.                                                                *)
NoneOutlivesTheTimeout ==
  reply # Absent /\ reply.run => (reply.timed_out => live \subseteq away)

(* A reply that is whole JSON and reports neither a timeout nor truncation *)
(* holds all the output of the command, but for the last byte where every  *)
(* byte before it takes six in JSON: then the buffer of json_escape has no *)
(* room for another.  Of a single byte, so, nothing is left.               *)
LostOutputIsTold ==
  reply # Absent /\ reply.run =>
    (reply.whole /\ ~reply.truncated /\ ~reply.timed_out =>
       \/ reply.len = written
       \/ /\ reply.len = written - 1
          /\ \A i \in 1 .. (written - 1) : out[i] = 6)

(* After a stop signal at most one more connection is served: the one that *)
(* ends an accept() the signal came just before.                           *)
OneMoreAfterStop == late <= 1

(* A request is answered in bounded time, or the daemon waits for a        *)
(* program that closed its output and runs on: waitpid has no timeout.     *)
RequestsAreAnswered ==
  (spc \in {"handle", "read", "wait", "reply"}) ~>
    (reply # Absent \/ (spc = "wait" /\ "leader" \in live /\ ~timedOut))

(* What a request makes run is what the file allows: the lines describe    *)
(* the command they stand under, an address range is a prefix, only a      *)
(* token opens anything, and every argument meets the specification of its *)
(* place.                                                                  *)
RequestsAreChecked ==
  /\ LinesStayWithTheirCommand
  /\ RulesArePrefixes
  /\ OnlyTokensAreTold
  /\ ArgumentsMeetTheirSpec
  /\ SlotsAreParameters

(* What became of a command is told as it was: nothing of it runs on after *)
(* a timeout, lost output is admitted, and a stop is not put off by a      *)
(* second request.                                                         *)
RunsAreTold ==
  /\ NoneOutlivesTheTimeout
  /\ LostOutputIsTold
  /\ OneMoreAfterStop
=============================================================================
