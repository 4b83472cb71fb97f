------------------------------ MODULE MCFlows ------------------------------
(***************************************************************************)
(* Two instances of FlowAccounting and one of TcpReasm next to each other; *)
(* a behaviour is one of them.  In the first everything may fail:          *)
(* statements, the power, and a five-tuple is reused at any time.  The     *)
(* second, on variables of its own, has two five-tuples, one of them       *)
(* noise, and the daemon may be restarted; only it is assumed to run on.   *)
(* The third is the capture thread of the other traffic daemon.            *)
(***************************************************************************)
EXTENDS MCFlowAccounting, MCTcpReasm

VARIABLES live2, counter2, missed2, table2, db2, card2, pc2, pending2, sinceCommit2,
          bucket2, sent2, shown2, base2, failed2, lost2, restarts2, cuts2, program
vars2     == <<live2, counter2, missed2, table2, db2, card2, pc2, pending2, sinceCommit2,
               bucket2, sent2, shown2, base2, failed2, lost2, restarts2, cuts2>>
flowsVars == <<vars, vars2, reasmVars, program>>

Live == INSTANCE FlowAccounting
  WITH Flow <- {f1, f2}, Noise <- {f2}, FlowTimeout <- 1, CommitEvery <- 2,
       Reuse <- FALSE, StoreMayFail <- FALSE, MaxSent <- 2, MaxBucket <- 0,
       MaxRestarts <- 1, MaxCuts <- 0,
       live <- live2, counter <- counter2, missed <- missed2, table <- table2, db <- db2,
       card <- card2, pc <- pc2, pending <- pending2, sinceCommit <- sinceCommit2,
       bucket <- bucket2, sent <- sent2, shown <- shown2, base <- base2,
       failed <- failed2, lost <- lost2, restarts <- restarts2, cuts <- cuts2

FlowsInit ==
  /\ program \in {"fail", "live", "capture"}
  /\ Init /\ Live!Init /\ ReasmInit

Failing(A)  == program = "fail" /\ A /\ UNCHANGED <<vars2, reasmVars, program>>
Lively(A)   == program = "live" /\ A /\ UNCHANGED <<vars, reasmVars, program>>
Captures(A) == program = "capture" /\ A /\ UNCHANGED <<vars, vars2, program>>

FlowsNext ==
  \/ Failing(Next)
  \/ Lively(Live!Next)
  \/ Captures(ReasmNext)

FlowsSpec ==
  FlowsInit /\ [][FlowsNext]_flowsVars /\ WF_flowsVars(Lively(Live!Loop))

-----------------------------------------------------------------------------
(* EventuallyStored, of the second instance: what daemon_loop has read it  *)
(* stores sooner or later, or it is restarted.                             *)
LiveEventuallyStored == Live!EventuallyStored
=============================================================================
