------------------------------ MODULE DavAdmin ------------------------------
(***************************************************************************)
(* op_register and op_mkdir of dav-bridge, one process for each request.   *)
(* A registration looks the name up in the password file, has openssl make *)
(* the hash and appends a line; a full card cuts the line short, and then  *)
(* the next one is glued to it.  op_mkdir makes the missing directories of *)
(* a path one by one.  Neither is synced to the card.                      *)
(***************************************************************************)
EXTENDS Integers, Sequences

CONSTANTS
  Register,   \* the requests op=register with a valid name and password
  UserOf,     \* the name each asks for; its password is the request itself
  Mkdir,      \* the requests op=mkdir
  DirOf,      \* the path of each, a sequence of names
  Nobody,     \* no name, no password
  MaxFull,    \* bound: lines that a full card cuts short
  MaxOff      \* bound: power cuts

ASSUME DavAdminConstants ==
  /\ Nobody \notin Register /\ Register \cap Mkdir = {}
  /\ \A m \in Mkdir : /\ DirOf[m] \in Seq({DirOf[m][i] : i \in DOMAIN DirOf[m]})
                      /\ Len(DirOf[m]) > 0
                      /\ \A r \in Register : UserOf[r] # DirOf[m]

VARIABLES
  passwd,   \* PASSWD_FILE, a sequence of lines
  onCard,   \* how many of the lines are on the card
  dirs,     \* the directories that exist
  step,     \* where each request is
  reply,    \* its HTTP status, 0 before the answer
  made,     \* how many directories of its path a mkdir has been through
  full,     \* bound: the lines that were cut short
  off,      \* bound: the power cuts
  overlap   \* history: pairs of requests for one name that ran at the same time

adminVars == <<passwd, onCard, dirs, step, reply, made, full, off, overlap>>

Ask        == Register \cup Mkdir
TargetOf(q) == IF q \in Register THEN UserOf[q] ELSE DirOf[q]
Running(q) == step[q] \notin {"idle", "over"}
Replies(q, status) ==
  step' = [step EXCEPT ![q] = "over"] /\ reply' = [reply EXCEPT ![q] = status]
Goes(q, to) == step' = [step EXCEPT ![q] = to] /\ UNCHANGED reply

RequestArrives(q) ==
  /\ step[q] = "idle"
  /\ Goes(q, "look")
  /\ LET others == {r \in Ask : Running(r) /\ TargetOf(r) = TargetOf(q)} IN
     overlap' = overlap \cup (others \X {q}) \cup ({q} \X others)
  /\ UNCHANGED <<passwd, onCard, dirs, made, full, off>>

-----------------------------------------------------------------------------
UserExists(n) == \E i \in DOMAIN passwd : passwd[i].name = n

LooksUp(r) ==
  /\ step[r] = "look"
  /\ \/ UserExists(UserOf[r]) /\ Replies(r, 409)
     \/ ~UserExists(UserOf[r]) /\ Goes(r, "hash")
  /\ UNCHANGED <<passwd, onCard, dirs, made, full, off, overlap>>

(* openssl makes the hash, or fails.                                       *)
Hashes(r) ==
  /\ step[r] = "hash"
  /\ Goes(r, "append") \/ Replies(r, 500)
  /\ UNCHANGED <<passwd, onCard, dirs, made, full, off, overlap>>

(* A line behind one without an end becomes part of that one.              *)
Behind(file, line) ==
  IF file # <<>> /\ ~file[Len(file)].ended
  THEN [file EXCEPT ![Len(file)] = [name |-> @.name, pass |-> Nobody, ended |-> line.ended]]
  ELSE Append(file, line)

(* Mutant: the line replaces those of the same name.                       *)
LineInstead(r) ==
  Append(SelectSeq(passwd, LAMBDA l : l.name # UserOf[r]),
         [name |-> UserOf[r], pass |-> r, ended |-> TRUE])

Line(r) == Behind(passwd, [name |-> UserOf[r], pass |-> r, ended |-> TRUE])

Appends(r) ==
  /\ step[r] = "append"
  /\ passwd' = Line(r)
  /\ Replies(r, 201)
  /\ UNCHANGED <<onCard, dirs, made, full, off, overlap>>

(* The card is full: the line ends within the name, the hash, or before    *)
(* its newline, or is not there at all.                                    *)
AppendFails(r) ==
  /\ step[r] = "append" /\ full < MaxFull
  /\ full' = full + 1
  /\ \/ UNCHANGED passwd
     \/ \E cut \in {<<Nobody, Nobody>>, <<UserOf[r], Nobody>>, <<UserOf[r], r>>} :
          passwd' = Behind(passwd, [name |-> cut[1], pass |-> cut[2], ended |-> FALSE])
  /\ Replies(r, 500)
  /\ UNCHANGED <<onCard, dirs, made, off, overlap>>

(* mod_auth of lighttpd: the first line of the name decides.               *)
Login(file, n) ==
  LET lines == {i \in DOMAIN file : file[i].name = n}
  IN IF lines = {} THEN Nobody
     ELSE file[CHOOSE i \in lines : \A j \in lines : i <= j].pass

-----------------------------------------------------------------------------
Above(d, n) == IF n < Len(d) THEN SubSeq(d, 1, n) ELSE d

(* op_mkdir: the stat that answers 405.                                    *)
Stats(m) ==
  /\ step[m] = "look"
  /\ \/ DirOf[m] \in dirs /\ Replies(m, 405)
     \/ DirOf[m] \notin dirs /\ Goes(m, "make")
  /\ UNCHANGED <<passwd, onCard, dirs, made, full, off, overlap>>

(* Mutant: a directory that is there ends the loop, with success.          *)
IsMadeEarly(m) == made[m] = Len(DirOf[m]) \/ Above(DirOf[m], made[m] + 1) \in dirs

IsMade(m) == made[m] = Len(DirOf[m])

(* One round of mkdir_p: EEXIST is fine, any other error ends it.          *)
Makes(m) ==
  /\ step[m] = "make" /\ ~IsMade(m)
  /\ \/ /\ dirs' = dirs \cup {Above(DirOf[m], made[m] + 1)}
        /\ made' = [made EXCEPT ![m] = @ + 1]
        /\ UNCHANGED <<step, reply>>
     \/ Above(DirOf[m], made[m] + 1) \notin dirs /\ Replies(m, 500) /\ UNCHANGED <<dirs, made>>
  /\ UNCHANGED <<passwd, onCard, full, off, overlap>>

Made(m) ==
  /\ step[m] = "make" /\ IsMade(m)
  /\ Replies(m, 201)
  /\ UNCHANGED <<passwd, onCard, dirs, made, full, off, overlap>>

-----------------------------------------------------------------------------
ReachesCard ==
  /\ onCard < Len(passwd) /\ onCard' = Len(passwd)
  /\ UNCHANGED <<passwd, dirs, step, reply, made, full, off, overlap>>

(* A power cut: the lines and directories that had not reached the card    *)
(* are gone, the requests die.                                             *)
PowerFails ==
  /\ off < MaxOff /\ off' = off + 1
  /\ passwd' = SubSeq(passwd, 1, onCard)
  /\ \E S \in SUBSET dirs :
       /\ \A d \in S : \A n \in 1 .. Len(d) : Above(d, n) \in S
       /\ dirs' = S
  /\ step' = [q \in Ask |-> IF Running(q) THEN "over" ELSE step[q]]
  /\ UNCHANGED <<onCard, reply, made, full, overlap>>

AdminInit ==
  /\ passwd = <<>> /\ onCard = 0 /\ dirs = {}
  /\ step = [q \in Ask |-> "idle"] /\ reply = [q \in Ask |-> 0]
  /\ made = [m \in Mkdir |-> 0] /\ full = 0 /\ off = 0 /\ overlap = {}

AdminNext ==
  \/ \E q \in Ask : RequestArrives(q)
  \/ \E r \in Register : LooksUp(r) \/ Hashes(r) \/ Appends(r) \/ AppendFails(r)
  \/ \E m \in Mkdir : Stats(m) \/ Makes(m) \/ Made(m)
  \/ ReachesCard \/ PowerFails

AdminSpec == AdminInit /\ [][AdminNext]_adminVars

-----------------------------------------------------------------------------
(* The types; only the last line may lack its end, and mkdir_p goes        *)
(* through the names of its path once.                                     *)
AdminTypeOK ==
  /\ \A i \in DOMAIN passwd : passwd[i].ended \/ i = Len(passwd)
  /\ onCard <= Len(passwd)
  /\ reply \in [Ask -> {0, 201, 405, 409, 500}]
  /\ \A m \in Mkdir : made[m] <= Len(DirOf[m])

(* A name that can log in keeps its password: what comes later, a second   *)
(* registration that ran at the same time, a line cut short, a line glued  *)
(* to that one, never changes it.  Only a power cut takes an account away, *)
(* or what is glued to its own line, cut just before the newline.          *)
LoginStays ==
  [][off' = off =>
       \A r \in Register :
         LET n == UserOf[r]
             p == Login(passwd, n)
         IN p # Nobody => \/ Login(passwd', n) = p
                          \/ [name |-> n, pass |-> p, ended |-> FALSE] = passwd[Len(passwd)]]_adminVars

(* Who is told 201 can log in with the password given, unless another      *)
(* registration of the name ran at the same time, of which only the first  *)
(* line counts, or the card was full or the power cut.                     *)
AckedCanLogIn ==
  full = 0 /\ off = 0 =>
    \A r \in Register :
      reply[r] = 201 /\ (\A q \in Register : <<q, r>> \notin overlap)
        => Login(passwd, UserOf[r]) = r

(* A name or a directory is created once: of two requests for it that do   *)
(* not overlap at most one is told 201.  A line that was glued to a short  *)
(* one is the exception: its name is free again.                           *)
CreatedOnce ==
  full = 0 /\ off = 0 =>
    \A q, r \in Ask :
      q # r /\ reply[q] = 201 /\ reply[r] = 201 /\ TargetOf(q) = TargetOf(r)
        => <<q, r>> \in overlap

(* After 201 or 405 the directory is there with all those above it, also   *)
(* when two requests make them hand in hand.                               *)
DirIsThere ==
  off = 0 =>
    \A m \in Mkdir :
      reply[m] \in {201, 405} =>
        \A n \in 1 .. Len(DirOf[m]) : Above(DirOf[m], n) \in dirs

(* The answers to register and mkdir are true: an account that was created *)
(* can log in, a name is created once, and a directory that is said to be  *)
(* there is.                                                               *)
AnswersAreTrue ==
  /\ AckedCanLogIn
  /\ CreatedOnce
  /\ DirIsThere
=============================================================================
