----------------------------- MODULE MCBridges -----------------------------
(***************************************************************************)
(* Two instances of DavBridge on the same variables; a behaviour is one of *)
(* them.  The calm one has two candidate names and no part that gets old;  *)
(* the stale one has a single name and a part that may get an hour old, so *)
(* that it must be taken over.  Only the stale one is assumed fair.        *)
(***************************************************************************)
EXTENDS MCDavBridge

VARIABLE program
bridgesVars == <<vars, program>>

Stale == INSTANCE DavBridge WITH MaxTries <- 1, Ageable <- {ua}

BridgesInit ==
  /\ program \in {"calm", "stale"}
  /\ Init

Calmly(A)  == program = "calm" /\ A /\ UNCHANGED program
Stalely(A) == program = "stale" /\ A /\ UNCHANGED program

BridgesNext ==
  \/ Calmly(Next)
  \/ Stalely(Stale!Next)

BridgesSpec ==
  /\ BridgesInit /\ [][BridgesNext]_bridgesVars
  /\ \A u \in Upload : WF_bridgesVars(Stalely(Stale!UploadStep(u)))
  /\ \A d \in Delete : WF_bridgesVars(Stalely(Stale!DeleteStep(d)))

-----------------------------------------------------------------------------
(* Answered, of the stale instance: every request that starts is answered  *)
(* or its process killed, when names run out and parts are taken over.     *)
StaleAnswered == program = "stale" => Answered
=============================================================================
