-------------------------------- MODULE MCQuinn --------------------------------
(***************************************************************************)
(* The quinn client and server under the two programs that drive them, the *)
(* experiment script and the connectivity test.                            *)
(***************************************************************************)
EXTENDS RunScript, Connectivity

VARIABLE driver   \* "script" or "test"

vars == <<quinnVars, scriptVars, testVars, driver>>

Init ==
  /\ QuinnInit
  /\ \/ driver = "script" /\ ScriptInit /\ test = "start" /\ attempt = 1
     \/ /\ driver = "test" /\ TestInit
        /\ script = "exited" /\ experiment = 1 /\ trap = FALSE
        /\ container = "none" /\ launched = 0 /\ late = FALSE

ByScript(A) == driver = "script" /\ A /\ UNCHANGED <<testVars, driver>>
ByTest(A) == driver = "test" /\ A /\ UNCHANGED <<scriptVars, driver>>
ByQuinn(A) == A /\ UNCHANGED <<scriptVars, testVars, driver>> /\ OnlyConnects'

Next == ByScript(ScriptNext) \/ ByTest(TestNext) \/ ByQuinn(QuinnNext)

Spec == Init /\ [][Next]_vars

(***************************************************************************)
(* tokio runs the tasks that can run, the network either delivers or fails *)
(* for the idle timeout, and bash and docker go on.  No fairness makes a   *)
(* signal, a loss or a timeout come.                                       *)
(***************************************************************************)
FairSpec ==
  /\ Spec
  /\ WF_vars(ByScript(ScriptSteps)) /\ WF_vars(ByScript(Docker))
  /\ WF_vars(ByTest(TestSteps))
  /\ WF_vars(ByQuinn(Listen))
  /\ \A c \in Clients :
       /\ WF_vars(ByQuinn(Accept(c))) /\ WF_vars(ByQuinn(ConnectionTask(c)))
       /\ WF_vars(ByQuinn(RequestTask(c))) /\ WF_vars(ByQuinn(RunClient(c)))

TypeOK == QuinnTypeOK /\ ScriptTypeOK /\ TestTypeOK
=============================================================================
