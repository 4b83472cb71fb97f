----------------------------- MODULE MCServices -----------------------------
(***************************************************************************)
(* A phone that uploads photos to the store and the command server, next   *)
(* to each other: a behaviour is one of them at work.                      *)
(***************************************************************************)
EXTENDS UploadClient, Shcmd

CONSTANTS p1, p2

(* The uploads of a photo, each request of its own: the first photo may    *)
(* take either of two names, the other only the second.                    *)
MCUpload == File \X (1 .. MaxSent)
MCNames  == [u \in Upload |-> IF u[1] = 1 THEN {p1, p2} ELSE {p2}]

(* Lines of a configuration file: a word of a command that is literal (0)  *)
(* or the n-th placeholder, and the directives.                            *)
W(h) == [hole |-> h]
CommandLine(n, v) == [dir |-> "command", name |-> n, argv |-> v]
LostLine == [dir |-> "lost"]
ArgLine(n, s, may, needed) ==
  [dir |-> "arg", slot |-> s, may |-> may, required |-> needed, under |-> n]
DangerLine(n) == [dir |-> "danger", under |-> n]
TokenLine(t) == [dir |-> "token", tok |-> t]
MaxArgsLine(n) == [dir |-> "max_args", n |-> n]
AllowLine(a, b) == [dir |-> "allow", family |-> 4, raw |-> a, bits |-> b]

(* Four files: arguments with specifications; an address range, a tighter  *)
(* max_args and a command twice; more tokens and ranges than fit, with a   *)
(* line that is ignored; more commands than fit, and no token.             *)
MCFiles == {
  <<TokenLine("k"), CommandLine("c", <<W(0), W(0), W(0)>>),
    ArgLine("c", 1, {"x"}, TRUE), ArgLine("c", 2, {"x", "y"}, FALSE),
    CommandLine("d", <<W(0)>>), DangerLine("d"), ArgLine("d", 1, {"y"}, FALSE)>>,
  <<AllowLine(<<1, 2>>, 3), TokenLine("k"), MaxArgsLine(2),
    CommandLine("c", <<W(0), W(2)>>), ArgLine("c", 2, {"y"}, FALSE),
    CommandLine("c", <<W(0)>>)>>,
  <<TokenLine("k"), TokenLine("j"), TokenLine("l"),
    AllowLine(<<3, 0>>, 9), AllowLine(<<0, 0>>, 0), AllowLine(<<2, 2>>, 2),
    CommandLine("d", <<W(1)>>), LostLine, DangerLine("e"), ArgLine("e", 3, {"y"}, TRUE)>>,
  <<DangerLine("c"), CommandLine("c", <<W(0)>>), CommandLine("d", <<W(0)>>),
    CommandLine("e", <<W(0)>>), MaxArgsLine(9)>>
}

Peer(a) == [family |-> 4, raw |-> a]
Get(k, n, args) ==
  [peer |-> Peer(<<1, 3>>), head |-> "ok", method |-> "GET", body |-> "ok", path |-> "/r",
   query |-> [k |-> k, n |-> n, a |-> args], bearer |-> Absent,
   form |-> [k |-> Absent, n |-> Absent]]

MCRequests == {
  Get("k", "c", <<"x", Absent>>), Get("k", "c", <<"x", "y">>), Get("k", "c", <<Absent, "x">>),
  Get("k", "d", <<"y", "x">>), Get("k", "d", <<Absent, "x">>), Get("b", "e", <<Absent, Absent>>),
  [Get("b", "d", <<Absent, Absent>>) EXCEPT !.path = "/c"],
  [Get(Absent, Absent, <<Absent, Absent>>) EXCEPT !.form = [k |-> "k", n |-> "d"]],
  [Get(Absent, "c", <<"y", "y">>) EXCEPT !.bearer = "k", !.peer = Peer(<<1, 1>>)]
}

VARIABLE program
servicesVars == <<clientVars, shcmdVars, program>>

(* The server has one of its files only while it is not at work.           *)
ServicesInit ==
  /\ program \in {"phone", "shcmd"}
  /\ ClientInit /\ ShcmdInit
  /\ program = "shcmd" \/ file = CHOOSE f \in Files : TRUE

Phone(A)  == program = "phone" /\ A /\ UNCHANGED <<shcmdVars, program>>
Server(A) == program = "shcmd" /\ A /\ UNCHANGED <<clientVars, program>>

ServicesNext == Phone(ClientNext) \/ Server(ShcmdNext)

(* The fairness of the two modules, each for its own program.              *)
ServicesSpec ==
  /\ ServicesInit /\ [][ServicesNext]_servicesVars
  /\ WF_servicesVars(Phone(PhoneStep))
  /\ WF_servicesVars(Server(ShcmdStep)) /\ WF_servicesVars(Server(Second))

-----------------------------------------------------------------------------
(* The types of the store, of the phone and of the command server.         *)
ServiceTypes ==
  /\ TypeOK
  /\ ClientTypeOK
  /\ ShcmdTypeOK

(* Every batch of the phone ends, and every request of the command server  *)
(* is answered, unless a program that closed its output runs on.           *)
ServicesAnswer ==
  /\ EveryBatchEnds
  /\ RequestsAreAnswered
=============================================================================
