# A verification of the board software

The repository holds the software of an OpenWrt board that serves as gateway,
private cloud, voice assistant and traffic monitor, and of a WeChat
mini-program that uses it. This directory models the parts of it in which
something is hard to get right and hard to test: what concurrent requests, two
threads, a power cut, packets in any order or a full table do to state that
outlives one function call. The modules are checked with TLC on small
instances, and the safety properties that matter most are proved with TLAPS for
every value of the constants.

`PROJECT.json` lists the components, the runs, the mutants that show that each
property can fail, the source lines of every definition, the findings, the
hazards and the theorems. To repeat a run: `tlc -config <file>.cfg <module>`,
with file and module as listed under "runs"; to repeat a proof:
`tlapm <module>.tla`.

A module names the operators after the functions and fields of the code and is
parameterised by the code's limits as CONSTANTS. Programs that share no state
are explored side by side in one run: the MC module adds a variable `program`
that is chosen once and says which of them is at work, so that the run is the
union of the separate explorations, not their product.

| module | what it is | checked in the run |
|---|---|---|
| `DavNames` | file names as dav-bridge builds them | `bridge` |
| `DavBridge` | its upload and delete handlers on a card that may lose power | `bridge`, `components` |
| `UploadStore` | what they promise: the abstract store | `bridge` (refinement), `services` |
| `DavAdmin` | its accounts and directories | `components` |
| `FlowAccounting` | apptraffic: from kernel counters to rows | `flow` |
| `DnsMap` | apptraffic: host and application of a row | `components` |
| `TcpReasm` | apptraffic: the first record of a TCP connection | `flow` |
| `IpReasm` | apptraffic: the IP fragment table | `components` |
| `Ip6Walk` | apptraffic: from an IPv6 packet to its transport header | `components` |
| `Shcmd` | the command daemon | `services` |
| `UploadClient` | the phone's upload queue, on `UploadStore` | `services` |
| `ThumbCache` | the phone's thumbnail cache | `components` |
| `VoiceTrigger` | voice: the wake-up daemon | `voice` |
| `VoiceMemory` | voice: rounds, extraction and profile | `voice` |
| `VoiceRecord` | voice: one recording with voice activity detection | `components` |
| `WolProxy` | the Wake-on-LAN relay | `components` |
| `WifiVisits` | wifi-probe: devices and visits | `components` |
| `MCBridges`, `MCFlows`, `MCComponents`, `MCServices`, `MCVoice` | programs side by side | |
| other `MC...` | single instances | |
| `DavBridge_proofs` | theorems about `DavBridge`, and that it implements `UploadStore` | |
| `FlowAccounting_proofs`, `TcpReasm_proofs`, `IpReasm_proofs` | theorems about these modules | |
| `Services_proofs` | theorems about `UploadStore`, `UploadClient` and `Shcmd` | |
| `Voice_proofs` | theorems about `VoiceTrigger` and `VoiceMemory` | |
| `Components_proofs` | theorems about `WolProxy`, `DavAdmin`, `ThumbCache`, `Ip6Walk`, `WifiVisits` and `DnsMap` | |
| `MCComponents_proofs` | theorems about `VoiceRecord`, and the types of `MCComponents` | |

## 1. Inventory

For each part: the state it keeps, its operations, what is hard about it and
what would make it correct. Section 2 describes those that are modelled;
`PROJECT.json` says of every part whether it is, and lists the hazards at their
lines.

**dav-bridge** (`src/dav-bridge`, C, one CGI process per request under
lighttpd). State: the directory tree on the SD card and the password file; no
memory survives a request. `op_upload` reserves `<name>.part` with `O_EXCL`,
streams the body into it, verifies size and MD5, flushes, and renames it to the
first free candidate name; `op_delete` removes a file and its derived siblings;
`op_mkdir`, `op_register`, `op_ls`. Hard: every system call interleaves with
other requests', processes are killed when clients go away, debris of killed
uploads is cleaned by age, power cuts. Correct: a 201 is true and stays true,
no file is replaced by another, nothing unverified or truncated is shown, a
name is used once.

**apptraffic** (`src/apptraffic`, C, a daemon with two threads).
- *Flow accounting* (`main.c`, main thread). State: a table of five-tuples with
  the bytes not yet stored and the counters last seen; the SQLite table
  `traffic` with a row per flow and 5-minute bucket. Operations: read the
  kernel's counters, expire, store, prune, checkpoint. Hard: five-tuples are
  reused, reads miss connections, a statement fails between two others, expiry
  and commit have different periods, restarts. Correct: every byte once.
- *First records* (`capture.c`, `tcp_reasm.c`, capture thread). State: a bounded
  table of streams, each with a base sequence number, a contiguous prefix and
  pieces behind gaps. Hard: loss, repetition, other cuts and order, wrap-around,
  capture from the middle, reuse of five-tuples, a full table. Correct: the
  prefix is what the client sent, and a complete record is recognised.
- *IP fragments* (`ipreasm.c`, fed by the capture thread and aged by the main
  thread without a lock). Correct: what is handed out has no hole and belongs
  to one key; nothing complete waits; nothing incomplete stays.
- *Host and app caches* (`dnsmap.c`): filled by the capture thread, read by the
  main thread when it builds a row. Hard: pointers into entries outlive the
  lock; bounded tables. Correct: a row gets the host of its own connection.
- *Parsers* (`proto.c`, `l7.c`, parts of `capture.c`), pure; *queries and command
  line* (`main.c`), read-only.

**shcmd** (`src/shcmd`, C, single-threaded HTTP server). Whitelisted commands
with bound arguments in a child with a pipe, a timeout and a process group.
Hard: a child that closes its output, floods it, or never ends. Correct: no
argument becomes two, no command outlives its request.

**voice** (`src/voice`, C). *Trigger*: a daemon that starts one conversation
process per wake word from UART or GPIO; state idle/listening, debouncing,
child. *Conversation and memory*: a ring of recent rounds, a profile extracted
from it every eight rounds and saved. *Recording*: frames of sound and a
detector of four counters. *Speech services, cryptography*: clients and
arithmetic. Hard: what arrives while a conversation runs; rounds
that leave the ring before they were extracted; failed extractions.

**wol-proxy** (`src/wol-proxy`, C): relays Wake-on-LAN packets; a table of recent
packets suppresses duplicates. Hard: a packet recorded but not sent, clock
changes, a full table. Correct: a wake-up is not swallowed for good.

**wifi-probe** (`src/wifi-probe`, C, two threads without a lock): a table of
devices and their visits, drained into SQLite. Hard: the race of observation
and end of visit; stores whose results are ignored. Correct: each visit stored
once.

**wechat-miniprogram** (`src/wechat-miniprogram`, JavaScript). *Upload queue*: two
nested retry loops around the bridge's upload. *Thumbnail cache*: manifest and
files with LRU eviction. Hard: an answer lost after the file was stored; a crash
between file and manifest. Correct: one photo, one file; manifest and files
agree; limits hold. Pages and session handling are presentation.

**LuCI applications**, **cloud-drive**, **kernel patch, docs**: configuration and
pages. They matter here through constants they set (the commit intervals
offered) and through lighttpd's one process per request.

How they interact: the mini-program uploads through lighttpd to dav-bridge
(HTTP, retried by the client); the LuCI pages start apptraffic, wifi-probe and
shcmd as commands or read their databases; apptraffic's two threads share the
fragment table and the caches of `dnsmap.c`; the voice trigger starts the voice
client as a child. The daemons do not talk to each other.

## 2. What is modelled

### 2.1 dav-bridge: `DavNames`, `DavBridge`, `UploadStore`

*State.* `pc[r]` is the next system call of request `r`; `n`, `tmp` and `buf` are
the loop counter, the reserved name and the stdio buffer of its process. The
file system is kept twice: `dir` and `cached` as the running kernel has them,
`ddir` and `durable` as the card has them. An inode is named by the upload that
created it, its content is a number of chunks and one bit, whether it differs
from the client's file.

*Actions.* One per system call that others can observe, in the order of the
code: `OpenExcl`, then after EEXIST `StatStale`, `UnlinkStale` and `Reopen`
(`remove_stale_part` is a stat and an unlink, which is where the race is);
`CopyChunk` for an `fwrite` that leaves any part of the data in the buffer;
`BodyEnds` with the size and MD5 comparison; `Fsync`, `Close`, `Publish` with
its three outcomes, `SyncDir` with the answer. Every early return is `Discard`:
close, unlink by name, error answer. `op_delete` is `StartDelete`,
`RemoveTarget`, one `RemoveDerived` for each sibling, `SyncDir`. The environment
kills processes, lets an hour pass for an inode nobody writes to, writes back,
and cuts the power: the running state becomes that of the card.

*Names.* Candidates and siblings are computed with the code's own rules, on
tokens around the last extension, since what matters is which names coincide:
`IMG.jpg` and `IMG.mp4` have the same derived files.

*The abstract store.* `UploadStore` has four variables: what is shown, what is on
the card, which uploads were acknowledged, which files were removed. A file
appears in one step under a free name; an acknowledgement means it is shown and
on the card. `ImplementsStore` is the refinement mapping: names ending in
`.part` are hidden, `acked` is the set of uploads answered 201.

*Abstracted.* The multipart scanner is a step that accepts or rejects; two
processes of one request (mod_cgi's own) are one. Calls in which no other
request can see a difference are joined. The journal of the file system commits
the directory as a whole and in order; single entries that reach the card
separately would need a model of that file system.

*Instances* (`bridge`). Calm: two uploads of one name (two chunks and one), a
delete, a kill, a power cut, two candidate names. Stale: the same with one
candidate name and a part that gets old, so that it is taken over and names run
out. Odd (`MCDavOdd`, in `components`): plain `rename`, a failing directory
fsync, too large a body and a delete that asks for a `.part`, all at once; even
then nothing unverified is published.

Bounds. Two names suffice for a conflict in both loops and for running out of
names; two chunks and a buffer of one distinguish nothing written, buffered, in
the page cache and on the card; one power cut stops whatever was running, and a
second one adds nothing for a request that is answered or dead, since none
starts again. The race needs three uploads and is found with exactly three.

Fairness, of the stale instance: weak fairness of each process's next step. A
process that can run is scheduled, and a client sends its body to the end or
goes away (both lead out of "copy"; lighttpd ends a CGI whose client is gone).
`StaleAnswered` says that a request that was started is answered or killed: the
loops over names end and no request waits for another.

### 2.2 apptraffic, flow accounting: `FlowAccounting`

*State.* The kernel has a live connection and counters per five-tuple
(`live`, `counter`). `table` is `flow_hash`: bytes not yet stored, counters at the
last reading, the dirty flag, the age. `db` and `card` are the rows of
`traffic.db` as the daemon and as a power cut see them. `pc` and `pending` are
the place in the main loop. `sent`, `shown`, `base`, `failed` and `lost` are history
variables; a five-tuple is `lost` when it is reused while its entry is held, or when
its entry expires after a failed statement that no later one made good.

*Actions.* The kernel's `Open`, `Send`, `Close`; `Read(S)`, a
`conntrack_update` that sees the connections S and expires old entries; the
commit visits each entry by `SkipFlow`, `DropNoise`, `StoreFlow` or
`StoreFails` (the INSERT or the UPDATE fails), so that packets, deaths and power
cuts fall between two of them; `PruneAndCommit`; `Sleep`; `Restart` and
`PowerCut`. One unit of time is one iteration of the loop.

*Instances* (`flow`). Failing: one five-tuple, three bytes, arbitrary reuse,
missed reads, failing statements, one power cut, three buckets, a commit interval
as long as fits. Lively (`Live!`): two five-tuples, one noise, a restart, and
fairness.

Bounds. Entries of different five-tuples do not affect each other, so one with
arbitrary reuse covers the arithmetic, and two are needed only for the order of
visits. Three bytes allow two connections and a third reading; retention of one
bucket out of three lets rows be young, at the edge and old. Directions behave
alike; one is instantiated.

Fairness, of the lively instance: `WF(Loop)`. The daemon's loop has no blocking call but the sleep;
a missed connection is missed at most `MaxMissed` times in a row. The times of
the model advance by one per iteration, so that a clock that is set back is not
covered.

`LiveEventuallyStored` includes the restart's outcome: bytes that waited are then
gone. That, and the double count after it, is what the code does
(`signal_handler` stores nothing, and the table is not persistent); the hazard
list says so, and no property hides it.

### 2.3 apptraffic, first records: `TcpReasm`

*State.* `stream` is the stream table by five-tuple: `have` and `base` (the
sequence number of the first byte), the prefix (`buf`, `used`), the pieces
behind gaps (`pending`), `done`, `l7`, last use. Content is the blocks the client
sent, so that "the right bytes" can be said; sequence numbers are modulo
`SeqSpace`, with 16 in place of 2^32 and a connection that wraps.

*Actions.* `CaptureSyn`, `CaptureData` and `CaptureAck` are a packet of the
client in `process_transport`: any segment of any length at any offset, any
number of times, or never. Each performs the whole handler: lookup or creation
of the stream with ageing and eviction (`Tables`), feeding (`Fed`: base, cut at
`MaxLen`, repetition, postponing, extension, merging), and the decision whether
the record is complete or hopeless (`Parsed`). `merge_pending` is not a loop
here: `Reach` is how far the prefix can grow and `FirstOf` which piece a block
comes from.

*Abstracted.* A record is what it says of its length and whose host it names;
the server's packets do not enter the streams; memory is not exhausted.

*Instance* (in `flow`). Two consecutive TLS connections of one five-tuple (the first
wraps), an HTTP and an SSH one, room for two streams of three blocks.

Bounds. Buffers of three blocks and segments of two give prefixes, repetitions,
overlaps of a piece with the prefix and with another piece, gaps and cuts at
the end; three five-tuples in a table of two give ageing and eviction.

### 2.4 apptraffic, IP fragments: `IpReasm`

*State.* `table` is `g_table`; `cur` is the capture thread between
`find_or_create` and the rest of `ipfrag_feed`; `ageAt` and `ageNow` are the main
thread within `ipfrag_age`; `out` is what was handed out last.

*Actions.* `Show` looks a fragment up (in the order of the slots, as the code
does, so that a free slot before the right one is taken), `AppendData` does the rest
of the feed; `AgeBegin` and `AgeSlot` age slot by slot in between. `Tick` lets
time pass only while ageing is on time, which is the main loop's schedule
(`main.c:1164`); the sleep and the work of one iteration are below the unit.

*Instance.* Three datagrams, two with one key and different lengths, two slots,
fragments of one or two blocks: a key that is used again, a full table, and a
gap all occur.

*Abstracted.* Lookup and append are atomic with respect to ageing; that the
`free` of a buffer and a copy into it can overlap in time is a data race below
these steps and is listed as a hazard. Datagrams fit `MaxLen`. Which fragments
reach the table is left open (the capture filter drops later fragments of
ports-only matches, `capture.c:543`).

### 2.5 apptraffic, names of a row: `DnsMap`

*State.* `cached` is `dns_hash` (per address a chain of names with confidence),
`own` and `count` the two caches by connection with their counters, `maps` the
application mapping as `mapping_load` sorts it. `sniff` is the capture thread
within its calls, `row` the main thread between lookups, `sweep` the main
thread within `mapping_expire_dns`.

*Actions.* `SeesAnswer`, `SeesHost`, `SeesApp` and `Capture` are a DNS answer and
a first record on their way into the caches, one lock at a time, with the sweep
of a full cache. `Begins`, `LooksHost`, `LooksIp`, `LooksApp` and `StoresRow`
are `flow_to_db_cb`: each lookup gives its lock back and keeps a pointer. An
entry that is overwritten or freed while it is held makes the row `raced`; what
is read then may be torn.

*Properties.* `RowsAreNamedRight`: a connection's own host wins over the names of
its address, of those the most certain wins, such a name is still there when
the row is stored, and the application is that of the stored name with the
highest priority. The pointers into the address cache are safe, because only
their reader frees such entries and names are never rewritten; the pointers
into the caches by connection are not, and the application part excepts raced
rows.

*Abstracted.* What a pattern matches is a set of names; addresses have no
structure. `Mapped` names the applications the file can give, `Torn` is what a
string shows that is written or freed while it is read.

### 2.6 apptraffic, IPv6 headers: `Ip6Walk`

`handle_ipv6` and `ipv6_walk` as a loop over units of four bytes, against
`Reference`, a recursive function that follows the chain as RFC 8200 has it.
`WalkIsRight`: nothing behind what was captured or announced is handed on, and
from the type it starts with the walk finds what the reference finds, if that
lies behind fewer than `WalkMax` headers. That it starts with the wrong type is
finding 6. The instance has every payload of up to two units, and all pairs of an
options or authentication header with what may follow them, up to a third
header, each announced as longer or shorter than what was captured.

### 2.7 dav-bridge, accounts and directories: `DavAdmin`

*State.* The lines of the password file, the directories, and where each request
is. *Actions.* `LooksUp`, `Hashes` and `Appends` are a registration (line 1272
looks up, 1223 appends, openssl runs in between); `AppendFails` cuts a line on
a full card, and the next account's line is glued to it (`Behind`); `Stats`,
`Makes` and `Made` are a mkdir, one directory at a time. Neither is synced;
`PowerFails` takes back what is not on the card.

*Properties.* `AnswersAreTrue` and `LoginStays`: whoever was told 201 can log in,
unless another registration of the name overlapped, the card was full or the
power cut; whoever can log in keeps the password through everything but a power
cut; a name or path is created once; a directory is there after 201 or 405.

### 2.8 shcmd: `Shcmd`

*State.* The lines still to be loaded (`todo`), the configuration (`conf`), the
request in progress, and the command's group: its processes (a leader and a
helper), who of them holds the pipe, who left the group, how far output was written
and read, and of the bytes kept (`out`) how many JSON writes each with: one, two
(`\n`) or six (`\u001b`).

*Actions.* `LoadLine` performs a directive with the limits of the tables; `Accept`
with `Verdict` is `handle_client` up to its answer, the refusals in the code's
order (address, request line, method, body, path, token, name, arguments);
`Extra`, `Fits` and `Argv` bind the arguments. `StartCommand`, `ReadsOutput`,
`EndOfFile`, `TimesOut` and `Reaped` are `run_argv`; the command itself forks,
writes, closes its output, leaves the group and exits as it likes. `Signal`
may come between the test of `g_stop` and `accept`. `Reply` escapes the output as
`json_escape` does: it stops when its place (`Escaped`) is less than nine bytes from
the end of a buffer of six bytes for each byte of output and one, so that not all
that was kept need be shown (`Shown`), and the body may have no room for it.

*Properties.* `RequestsAreChecked`: the `arg` and `danger` lines describe the
command they stand under (in files whose command lines are all taken), ranges
are prefixes, only a token opens anything, every argument meets the
specification of its place, and places are parameters when none is left out.
`RunsAreTold`: nothing of the group outlives a reported timeout, after a stop at
most one more connection is served, and lost output is admitted, with one exception
that the code forces: the last byte is lost, with `truncated` and `timed_out` both
false, where every byte before it takes six in JSON, so also the only byte of an
output of one (lines 650 and 1390). `LostOutputIsTold` names exactly these. `ServicesAnswer`:
each request is answered, or the daemon waits for a leader that closed its
output and runs on (line 809, `waitpid` without a timeout).

*Abstracted.* HTTP, percent and form decoding (the requests are what comes out of
it) and the constraints of arguments (sets of values). An address is two bytes
of two bits, so that prefixes end inside bytes, at their ends and behind.

*Instance.* Four files (`MCServices`): arguments with specifications; ranges, a
smaller `max_args` and a command defined twice; more tokens and ranges than fit
with an ignored line; more commands than fit and no token. Nine requests, two
connections, output of up to four bytes, of two and six in JSON, against room for
three, and a body with room for seven.

### 2.9 The phone: `UploadClient`, `ThumbCache`

*Upload queue.* `UploadClient` extends `UploadStore`, so the phone runs on what
the bridge promises, which `DavBridge` implements. Each try is an upload of its
own to the store. `Presses` and `TakesOff` are the button and the list;
`NextFile`, `Probes`, `Sends`, `BodyIsSent`, `Answer201`, `Refused`, `Killed`,
`NoConnection`, `NoAnswer`, `Derives` and `Ends` are a batch with its two nested
retry loops. The bridge stores and answers also when the phone has given up.

`PhoneAndStoreAgree`: a file on the card has one name; what the page shows as
done is stored (the progress alone had marked it done before the answer); no
file is acknowledged twice, so that a second copy is always one whose answer
was lost. Retries after a lost answer do make such copies (`uploader.js:16`),
against lines 2-5. Every batch ends (`ServicesAnswer`).

Instances: a photo that may have two names and a too large video (`services`); a photo and
two videos for finding 5. The path of a thumbnail is ignored by the code (line
208); derived files are `DavNames`' matter and not modelled on this side.

*Thumbnail cache.* `Gets`, `Puts`, `CopiesFile`, `Saves`, `Cleans`, `Unlinked`,
`Discards`: call by call on files and manifest, with the app killed between and
within calls. `CacheIsSound`: every file counts and will be evicted unless the
app was killed or an unlink failed; a path that is given is that of a whole
file. The exceptions are real: killed between copy and manifest, a file is
forgotten; after the clock was set back, `put` evicts the file whose path it
returns; a torn manifest forgets all files.

### 2.10 voice: `VoiceTrigger`, `VoiceMemory`, `VoiceRecord`

*Trigger.* The loop of `trigger_run`: reap, read the line byte by byte, read the
GPIO. Bytes, edges, the end of a conversation, signals and the clock come
between any two steps. Each byte carries, as a history, whether a conversation
ran when it arrived. `OneTalkAtATime`: no second conversation competes for the
sound card, other than one that outlived its daemon (at exit the child gets
three seconds and one SIGTERM, line 477), and no wake word said during a
conversation, even in part, starts the next one.

*Memory.* Two processes of a command each (`chat`, `ask`, `forget`), with the
ring of `llm.c`, the counters of `main.c` and the profile file with its shared
temporary file. A fact is the round it was told in. `MemoryIsKept` says, for every
length of the history, which round the window shows in each place, how many rounds
are overwritten before they are extracted, and that a power cut leaves a whole
profile. `FactsStay`: a fact leaves the card only when it is
forgotten or by the save of a process that started before it was there.

A history that fills the ring shows the last rounds (`WindowIsKnown`), and of a
period that fits it only rounds that were not spoken are overwritten
(`ExtractedInTime`). The shipped history of 3 in a ring of 8 (`llm.c:29`,
`voice.conf.example:23`) does neither: once full it is overwritten at its first
round but read on behind its last, so that from the sixth round to the eighth it
shows nothing of the conversation, and the extraction after the eighth finds
nothing (finding 7). `WindowIsKnown` says what is shown then: slots that are empty
or of an earlier conversation until the ring is full, and rounds that lie
`HistMax - limit` too far back afterwards; `Excess` is by how much the period
exceeds the history. The instance has no history, one of half the ring and one that
fills it; `voice_history` has the shipped numbers.

*Recording.* A frame is its energy. The detector skips, measures the base noise,
waits, and counts speech and silence; the recording trims with the detector's
counter. `RecordingIsRight`: it ends when the speaker falls silent, cuts no
word, is returned if it has a stretch of `min_speech_ms` and only if something was
loud, and is given up after the lead-in. What becomes of a shorter noise is left
open: `vad.c:20-22` and `vad.h:34` have it filtered, and the detector does go back to
waiting, but `saw_speech` stays set (`audio.c:226`), so that the code returns the
recording; no property says so, and none says otherwise. That no word is cut needs a trailing
silence of at least one frame (section 4).

*Abstracted.* The mock backend, truncation of long dialogs, name, city and job of
the profile; the sysfs edge file that is never written (`trigger.c:358`), so
edges are reported as `poll` finds them; playback.

### 2.11 `WolProxy` and `WifiVisits`

*Relay.* `Turns` is one round of `run`: size, source, loopback, target, duplicate,
then a lookup of the LAN address and `sendto`, either of which may fail after
the packet was noted. What it broadcasts comes back through the loopback
interface. `RelayedOnce`: not twice within the window unless `DUP_MAX` others
filled the table; only copies are ignored; no echo while the loopback's index
is known. That a noted packet was sent is false: the message at line 433 says
"will retry", but a sender's own retry within five seconds is ignored.

*Visits.* A step is a read or a write of `last_seen` or `in_visit`, for no lock
protects them. `Hears`, `NotesTime`, `NotesVisit` are an observation; `Looks`
and `Takes` the end of visits, `StoresDevice` and `StoresVisit` the database,
either of which may fail unnoticed; `Prunes` and `VisitsStop`. `VisitsFitTheFrames`:
every frame lies in a visit, no visit goes on through silence, visits of one
device are apart, counts agree with rows. The frames that meet exactly the end
of their visit (`device.c:109`), and failed stores, are excepted by name: there
the properties are false.

### 2.12 Runs

| run | programs | time | shows |
|---|---|---|---|
| `bridge` | calm and stale `DavBridge` | 0.5-2 min | parts are owned, a 201 is true and stays, what is shown was verified, nothing is replaced, the store is implemented, requests are answered |
| `flow` | failing and lively `FlowAccounting`, `TcpReasm` | 3 min | every byte is counted once and stored in the end; the prefix is the client's stream, records are found, buffers released |
| `components` | nine programs of which only safety is checked | 3 min | see 2.1 to 2.11 |
| `services` | `UploadClient` on `UploadStore`, `Shcmd` | 2 min | see 2.8 and 2.9, with liveness |
| `voice` | `VoiceTrigger`, `VoiceMemory` | 1 min | see 2.10, with liveness |
| `bridge_race`, `bridge_cut`, `flow_slowcommit`, `tcp_padded`, `upload`, `ip6`, `voice_history` | one each | | **violated**: section 3 |

The five passing runs check 40 properties; those of a component of which there
are several are conjunctions of named parts, each stated with its own comment
in the module, so that a violation can be narrowed down by listing the parts in
the configuration.

Bounds of the smaller programs: two actors of a kind where they compete
(requests, processes, devices, senders), three where a table of two must
overflow (thumbnails, packets), tables of one or two, clocks that exceed every
period once, and one of everything that can fail. `CHECK_DEADLOCK FALSE` is
said throughout, for every instance has a bounded environment and stops when it
is used up.

Fairness of the new programs. Phone: `PhoneStep`, each step of a batch, for
JavaScript callbacks come (every request has a timeout of its own). shcmd:
`ShcmdStep`, and `Second`, the clock its `poll` waits on; nothing is assumed of
the command. Trigger: its loop, and that each conversation ends (it does, by
`EveryVoiceEnds` and `MAX_FAIL`). Memory: the steps of each process.

## 3. Findings

1. **A fresh part is taken for debris** (`bridge_race`). `remove_stale_part` judges
   an inode by stat and unlinks a name. Two uploads judge the same old part
   stale; the first removes it and reserves the name; the second then removes
   the fresh part, reserves the name again, and the first upload's rename
   publishes the second's unfinished file under its own 201. It takes a killed
   upload, an hour, and two uploads of the same name at once.
2. **fsync before fclose** (`bridge_cut`). Up to one stdio buffer of the file's
   tail is not on the card when its final name is. `PublishedIsVerified` states,
   and the proof shows, exactly how much may be missing: `BufCap`.
3. **Bytes of short connections are dropped between commits** (`flow_slowcommit`).
   `flow_expire` frees entries that are still to be stored; the settings page
   offers commit intervals longer than the timeout of 300 s.
4. **Padding counts as payload** (`tcp_padded`). The length of a frame is taken for
   that of the packet, so six bytes of padding may become the start of a stream.
5. **A stored photo is sent again** (`upload`). While a video is compressed the
   progress is told with the number of finished files in place of the file's
   index (`uploader.js:218`), and the page sets another file, stored by an
   earlier press, from "done" back to "uploading". Shown with a photo and two
   videos: the first press stores the photo and is broken off by the video that
   is too large, the second sends the other video, the third the photo again.
6. **The IPv6 walk starts with the wrong byte** (`ip6`). The first byte behind the
   fixed header is taken for the type of the first header, which is in byte 6 of
   the fixed header (`capture.c:408-410`).

7. **The latest rounds are not in the window** (`voice_history`). `hist_add` overwrites
   the head of a full history and moves it on, and the readers go on from there
   modulo `HIST_MAX`: with fewer rounds than the ring has slots, as shipped, the round
   just written is not among those read (`llm.c:198-199`, 248 and 359). The fourth round
   of a conversation shows it.

`PROJECT.json` quotes, for each, the line of the repository that says otherwise.

Smaller disagreements that no run is made of, all visible in the modules: in
shcmd a missing `a` moves `a1` into slot 1, words beyond the eighth of a command
are dropped against `shcmd.c:186-190`, and a cut JSON body carries no
`truncated`, nor does a last byte that `json_escape` drops (2.8); in voice the
short noise that counts (2.10), the failed extraction that
resets the history, `ask` that never extracts and unchecked writes of the
profile; in the relay "will retry" (2.11); in dav-bridge an account answered
201 that is gone after a power cut, or glued to a cut line.

## 4. What is proved

All theorems hold for every value of the constants within the named
assumptions of the modules (`ConstantsOK`, `PathsOK`, `StoreConstants`,
`FlowConstants`, `ReasmConstants`, `IpReasmConstants`, `ShcmdConstants`,
`WolConstants` and so on), which say that numbers are numbers and that the
value for "nothing" is no other value; TLC evaluates them in every run. Two say
more. `FilesAreRead` (shcmd) says what the lines of a file are: a command has a
word, and an `arg` line names in `under` the command above it, so that a
property can tell whether it ended there. `FlowConstants` has
`MaxMissed <= FlowTimeout`: a connection that is alive is not missed for longer
than an entry lives. Further conditions are in the theorem.

**dav-bridge.** `BridgeTypes` (`TypeOK`) and `NeverOverwrites` (if renames do not
replace) need nothing more: stale parts, kills and races included.

`AckedFilesStay` and the refinement assume `Calm`: no part gets an hour old, no
upload asks for a name ending in `.part`, renames do not replace, the directory's
fsync works. Kills, deletes and any number of power cuts remain. The inductive
invariant `CalmInv` adds to the properties that an inode has at most one name,
in memory and on the card (`OneName`, or a power cut could bring back a second
one); that files under final names are whole (`FinalsAreWhole`, of both
directories); how far an upload's data have come at each `pc` (`Copying`); and
that between rename and answer the file is there (`PublishedOrRemoved`). Every
step is then a step of `UploadStore` or invisible to it (`ImplementsUploadStore`). For the store itself, `AcknowledgedIsKept` and
`StoredOnce`.

Two properties need less, and have an invariant of their own (`SafeInv`).
`PartsAreOwned` assumes `Undisturbed`: no part gets old, no delete asks for one,
and no rename can replace one. Renames that replace files and a directory whose
fsync fails are allowed; old parts are not, which is what finding 1 forces.
`PublishedAreVerified` holds then, and also, whatever happens to the parts, if no
two uploads share a name (`Apart`): a part that was taken away leaves nothing to
rename, and the argument is that every file stands under one of its own
upload's names (`OwnNames`). The instance with everything unusual at once
(`MCDavOdd`) is of the second kind. `Calm` implies `Undisturbed`.

**Flow accounting.** `CountsOnce`: `NeverOvercounts` if `MaxRestarts = 0`. The
property is not inductive: when an entry expires and the connection is still
alive, the next sight would add its whole counter again. `Room` says for each
flow how many bytes may still be credited in each situation, and in
particular that an entry unseen for longer than its live connection was missed
belongs to an earlier connection, so that nothing of this one was taken in yet;
together with `MaxMissed <= FlowTimeout` this is why expiry is safe.

`ShownCounted`: `ShownIsCounted`, if the commits are `Prompt`, at most one iteration
more than the timeout apart; statements may fail and five-tuples be reused. The
invariant `ShownInv` says, of every five-tuple that is not `lost`, when an entry
with bytes to store was seen, counted in iterations since the last commit
(`InTime`), or that its last statement failed (`Waits`), so that an entry that
expires has been stored or is `lost`; and that the entry of a live connection is
this connection's (`OfNow`). The bound is exact: one iteration more is finding 3.
The daemon's defaults (60 s, 300 s) are far inside. A statement that fails now and
then loses nothing: the entry stays marked and the next commit takes it.

**First records.** `StreamTypes` (if there are finitely many five-tuples, for the
bound is a cardinality) and `NoFullBuffer` (if no record is longer than the
buffer) follow from `TypeInv`, which says that prefix and pieces of a stream
are apart and in bounds. `PrefixIsSent` and `HostIsFound` assume that no segment
is padded (finding 4) and `FarApart`: no connection begins with a sequence number
an earlier one of its five-tuple used, for then the code cannot tell them apart.
`LinkInv` is inductive: at most one connection of a five-tuple is open
(`OneOpen`); a base is the number of a connection that was opened (`BaseInv`),
so that it cannot become another's start later; what was shown since then
belongs to a stream with this base (`GotInv`); and the stream of a connection
whose host is not yet known is not done, has less than the record, and has
every block that was shown, in the prefix or behind a gap (`WaitInv`), which is
what `add_pending` must not lose.

**Fragments.** From `ReasmInv`: `TableTypes`, `HandsOutWhole`,
`CompleteIsDelivered`, `SlotsAreReleased`. It says of every entry that blocks and
length are of its key's datagrams, of the fragment on its way that its entry is
still its own or was cleared, of what was shown in order that it is there but
incomplete, and of the entries the ageing has passed that they are not idle.

**Phone.** `StoreInv` is inductive for the store and is kept by every step of
the phone, which takes the store's own steps. `PhoneInvariant` adds what the
page shows (`ShownIsDone`: a file shown as done was acknowledged, or it failed
in this batch and will be marked, or its body is sent and its answer awaited)
and where the batch stands (`OnItsWay`: at a file that is not skipped, waiting
for an upload of that very file, with as many files over as it counts).
`DoneFilesAreStored` follows for any videos. That no file is sent again after
its answer came (`PhoneAgrees`) needs `Video \ TooLarge \subseteq {1}`: no video
small enough to be sent stands behind another file. The hypothesis is what
finding 5 forces. At the first file the place that the progress names is the
video's own (`FirstIsFirst`); behind another file TLC finds the counterexample.

**shcmd.** `RunInv` says of the running command that the timeout leaves none of
its group alive (`KilledOnTime`), that output thrown away is noted, that end of
file means all was read, and that the reply is the one of this run. That what is
shown is all or all but one byte behind bytes of six (`AlmostAllIsShown`) is a count:
`Escaped(n)` is at most `6 * n`, and four less if one byte is shorter
(`EscapedLength`). Together they are `RunsTold`.
`LoadInv` says of a configuration that is being loaded that the lines read so
far stand under their command, as long as none was lost; `RequestInv` says of
what runs that its arguments are those of the request that is in progress. With
lemmas about the loop that gathers the parameters (`ExtraIs`) and about address
rules they give `RequestsChecked`. That a rule is a prefix (`RuleIsPrefix`) holds
for addresses of any number of bytes, of at most eight bits each, because the powers of
two are then numbers the provers compute: shifting a byte right once more takes
its last bit (`Shifts`), so two bytes agree above a mask exactly if their first
bits do (`FirstBits`, `BytePrefix`); whole bytes and the rest are what a number
of bits divides into (`BitOf`).

**voice.** `TrigInv` adds to the two properties that while no child runs, neither
the line being collected nor the serial buffer holds a byte that came during a
conversation (what resets `child` flushes both), and that a daemon that has
ended leaves only orphans talking. `MemInv` says of each process where its
ring, its counter and its window stand to each other, of the profile on the card
that it is whole and, while no two processes save at once, that the temporary
file is that of the one process that saves; and that a process knows at least
the facts it loaded. The ring is related to the conversation slot by slot
(`Holds`): the slot that lies `d` behind the head has the round that belongs there,
one that lies a ring's rest further back, or none of this conversation; a round that
is added to a window that grows, or over the first of a full one, keeps that
(`WindowGrows`, `WindowMoves`). So `MemoryKept` holds for every `LLM_MAX_HISTORY`
from none to the ring's size. It and `FactsRemain` follow, and `VoiceTyped`
lifts the types to the composition.

**The small programs.** `WakesOnce`: every entry of the table of duplicates is one
of the packets noted, another one for each entry, and while the clock is not set
back a packet whose entry is gone was followed by as many others as the table
holds (`WolHistory`). `AnswersTrue` and `LoginKept`: without a full card or a power
cut every line of the password file is that of a registration that was told 201,
and who comes later with the same name ran at the same time (`Accounts`); a
directory is never without those above it (`DirsClosed`). `CacheSound`: unless the
program was killed or a delete failed, the files are those of the manifest or of the
list the running `put` holds, but for the one key it has just copied
(`Together`); a torn file is in neither (`TornUnlisted`). `WalkRight`: the
walk is, at every round, where the reference is from the same place (the
recursion is unrolled step by step; no induction over the packet is needed).
`VisitsFit`: the visit that the main thread is about to end is in progress and
its device silent for longer than the gap, but for frames that came since the
thread looked (`TakenIsSilent`); a frame comes after the visits of its device
that have ended, unless one ended during its steps (`HeardLater`).

**Names of a row.** `NamedRight`: all of `RowsAreNamedRight`, with any number of
connections, addresses and names. `DnsInv` relates the caches to the history of
what was told: an entry of a connection lives until `FLOW_HOST_TIMEOUT` after the
last telling, and one that was told with room for it and still counts is there
(`OwnsKept`; when the cache refuses one, as many others were told of lately,
`FullIsFull`); a name of an address lives as long as what was last told of it, and
a host that a first record told lately is there with the confidence of one
(`Listed`), so that the best name is a right one (`BestIsRight`). The one torn
entry is the one being copied, whose lock is held (`Written`); a row that is not
`raced` holds entries that are whole (`RowInv`). That `mapping_load` puts the first
line of the highest priority in front is proved of the list for any file
(`LoadedIs`, by the least line at which it could fail). `DnsTyped`: the two
counters are the sizes of their caches, whichever thread frees.

**Recording.** `RecordedRight`: all of `RecordingIsRight`, for any levels, thresholds
and times, if `Hysteresis`: the threshold that ends speech is not above the one
that starts it, and the silence that ends a recording lasts at least a frame. The
first is what `vad.h:26` asks of the two; the code's factors 15/10 and 3, its caps
4000 and 8000, and 6/10 of a fixed threshold fulfil it. The second holds for the
default of 800 ms and frames of 32 ms. It is needed: the frame that ends a
recording counts as silence but is not recorded, so with a `VOICE_VAD_SILENCE`
shorter than a frame what `audio.c:257-266` trims is speech. The detector counts
frames and forgets them, the property speaks of the whole history: `Detecting`
says in each state what the counters mean for it. In the pause before speech
nothing was loud (`StillQuiet`); while one speaks, the frames counted reach back
to a loud frame, and the silent ones are the last (`Speaking`); once it is over
that stays (`SpeechIsOver`). `Ceil` stands for times that are no multiple of a
frame (`CeilIsLeast`). `RecorderTyped`: the buffers never exceed their sizes.

**Types.** `ComponentsTyped`: the types of the seven components with tables in their
composition, from the theorem of each (`TableTypes`, `DnsTyped`, `VisitsTyped`,
`ThumbsTyped`, `RecorderTyped` and the invariants above), since a step of one
leaves the others alone (`EachGoesOn`). Two needed more than the invariants of
their components: `VisitsTyped`, that `main` stops taking when its array of
events is full, and that a visit that is about to end began before now
(`VisitTypes`); `ThumbsTyped`, that the manifest on the phone fits whenever no
function runs (`ThumbLimits`), for which a use changes no size (`TotalSame`) and
a removal makes none larger (`TotalLess`), by the least entry where the running
sums could differ.

**Rows.** `FlowsTyped` and `RowsAlwaysAddUp`: the sum over the rows changes with
one row at a time, and `Total` of one changed row is a lemma about the fold.

What stays with TLC, and why:
- *liveness* (`StaleAnswered`, `LiveEventuallyStored`, `ServicesAnswer`,
  `VoiceComesToRest`): fairness and ENABLED are out of the prover's reach;
- `OddPublishedIsVerified`: it is `PublishedIsVerified` of a second instance of
  `DavBridge` with other constants. The theorem is proved for all constants, but
  this prover does not see the theorems of a module that is instantiated, so that
  it would have to be proved again, word for word, under the names of the instance.

## 5. Not modelled, and the plan

Not modelled:
- *Speech services and cryptography*: clients of remote services and arithmetic on
  buffers that known-answer tests cover. For `VoiceMemory` they succeed or fail.
- *wifi-probe's frame parsing*, *apptraffic's parsers* of DNS, TLS, HTTP, QUIC and
  the L7 signatures: functions from bytes to a name without state; the models
  take their results. The IPv6 walk is the exception, because it is a loop over
  lengths it does not control.
- *Queries and command line of apptraffic*, `op_ls`, *LuCI pages*, *pages and session
  of the mini-program*: read-only presentation.
- *Configuration of lighttpd, kernel patch*: external programs.
- In `FlowAccounting` a clock that is set back; in `DavBridge` single directory
  entries that reach the card separately (a matter of the file system).

Next: a clock that is set back in `FlowAccounting`, where `daemon_loop` stops
reading and committing until the clock has caught up.
