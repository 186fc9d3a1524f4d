------------------------------- MODULE RunScript -------------------------------
(***************************************************************************)
(* The experiments of script/run.sh on one library: a server container in  *)
(* the background, a client container in the foreground, docker stop, and  *)
(* the trap that tears down after a signal.  In each container runs the    *)
(* harness (iut/common/src/lib.rs), which a signal cancels.                *)
(*                                                                         *)
(* bash runs a trap between two commands.  docker is external.             *)
(***************************************************************************)
EXTENDS Quinn

CONSTANT Experiments   \* the number of experiments, each with the client of its number

ASSUME ExperimentsAssumption == Experiments \in Nat \ {0} /\ 1 .. Experiments \subseteq Clients

VARIABLES
  script,       \* the next command, or the one in the foreground; see ScriptTypeOK
  experiment,   \* the current experiment
  trap,         \* a signal has come
  container,    \* "none", "creating", "running", "stopping" or "removing"
  launched,     \* the experiment that has launched the container, 0 before all
  late          \* teardown has found the container not yet running

scriptVars == <<script, experiment, trap, container, launched, late>>

\* An earlier run of the script may have left a container of the same name.
ScriptInit ==
  /\ script = "launch" /\ experiment = 1 /\ trap = FALSE
  /\ container = (IF server = "off" THEN "none" ELSE "running") /\ launched = 0
  /\ late = FALSE

-----------------------------------------------------------------------------
(***************************************************************************)
(* docker, and the server's process in the container.                      *)
(***************************************************************************)
ContainerStarts ==
  /\ container = "creating"
  /\ container' = "running" /\ server' = "starting"
  /\ UNCHANGED <<conn, script, experiment, trap, launched, late>>

\* There is no image, or docker refuses.
ContainerFails ==
  /\ container = "creating"
  /\ container' = "none"
  /\ UNCHANGED <<quinnVars, script, experiment, trap, launched, late>>

\* docker stop --time 2; the first process of a container ignores signals that it
\* has no handler for.
Kill ==
  /\ container = "stopping"
  /\ ServerEnds("killed", {})
  /\ UNCHANGED scriptVars

ContainerExits ==
  /\ container \in {"running", "stopping"} /\ server \in Over
  /\ container' = "removing"
  /\ UNCHANGED <<quinnVars, script, experiment, trap, launched, late>>

\* docker run --rm.
ContainerRemoved ==
  /\ container = "removing"
  /\ container' = "none"
  /\ UNCHANGED <<quinnVars, script, experiment, trap, launched, late>>

Signalled ==
  /\ CancelServer \/ \E c \in Clients : DropClient(c)
  /\ UNCHANGED scriptVars

-----------------------------------------------------------------------------
(***************************************************************************)
(* run_experiment.                                                         *)
(***************************************************************************)
Command(place) == script = place /\ ~trap

\* Variant: docker run without docker rm -f: a name in use makes it fail.
RunServerUnremoved ==
  /\ Command("launch")
  /\ IF container = "none"
     THEN container' = "creating" /\ launched' = experiment /\ server' = "off"
     ELSE UNCHANGED <<container, launched, server>>
  /\ script' = "wait"
  /\ UNCHANGED <<conn, experiment, trap, late>>

\* docker rm -f, and docker run in the background.  A container that is being removed
\* cannot be removed, and keeps its name from the new one.
RunServer ==
  /\ Command("launch")
  /\ IF container # "removing"
     THEN container' = "creating" /\ launched' = experiment /\ server' = "off"
     ELSE UNCHANGED <<container, launched, server>>
  /\ script' = "wait"
  /\ UNCHANGED <<conn, experiment, trap, late>>

WaitForLaunch ==
  /\ Command("wait") /\ container = "running"
  /\ script' = "client"
  /\ UNCHANGED <<quinnVars, experiment, trap, container, launched, late>>

StartClientContainer ==
  /\ Command("client")
  /\ StartClient(experiment)
  /\ script' = "running"
  /\ UNCHANGED <<experiment, trap, container, launched, late>>

\* The exit status is not looked at.
ClientReturns ==
  /\ script = "running" /\ Ended(experiment)
  /\ script' = "kill"
  /\ UNCHANGED <<quinnVars, experiment, trap, container, launched, late>>

\* Variant: a container that is not the client's is left alone.
KillNesquicClientOnly ==
  /\ Command("kill")
  /\ script' = "term"
  /\ UNCHANGED <<quinnVars, experiment, trap, container, launched, late>>

KillNesquic ==
  /\ Command("kill")
  /\ container' = IF container = "running" THEN "stopping" ELSE container
  /\ script' = "stopping"
  /\ UNCHANGED <<quinnVars, experiment, trap, launched, late>>

\* docker stop returns.
Stopped ==
  /\ script = "stopping" /\ container # "stopping"
  /\ script' = "term"
  /\ UNCHANGED <<quinnVars, experiment, trap, container, launched, late>>

WaitForTerm ==
  /\ Command("term") /\ container \notin {"running", "stopping"}
  /\ IF experiment < Experiments
     THEN experiment' = experiment + 1 /\ script' = "launch"
     ELSE script' = "teardown" /\ UNCHANGED experiment
  /\ UNCHANGED <<quinnVars, trap, container, launched, late>>

-----------------------------------------------------------------------------
(***************************************************************************)
(* The trap and teardown.                                                  *)
(***************************************************************************)
Interrupt ==
  /\ ~trap /\ script \notin {"teardown", "stopping all", "exited"}
  /\ trap' = TRUE
  /\ UNCHANGED <<quinnVars, script, experiment, container, launched, late>>

Trapped ==
  /\ trap /\ script \in {"launch", "wait", "client", "kill", "term"}
  /\ script' = "teardown"
  /\ UNCHANGED <<quinnVars, experiment, trap, container, launched, late>>

\* Variant: the containers are not stopped.
TeardownUnstopped ==
  /\ script = "teardown"
  /\ script' = "stopping all"
  /\ UNCHANGED <<quinnVars, experiment, trap, container, launched, late>>

\* docker stop of the containers that docker ps shows.
Teardown ==
  /\ script = "teardown"
  /\ container' = IF container = "running" THEN "stopping" ELSE container
  /\ late' = (container = "creating")
  /\ script' = "stopping all"
  /\ UNCHANGED <<quinnVars, experiment, trap, launched>>

Exit ==
  /\ script = "stopping all" /\ container # "stopping"
  /\ script' = "exited"
  /\ UNCHANGED <<quinnVars, experiment, trap, container, launched, late>>

-----------------------------------------------------------------------------
Docker == ContainerStarts \/ Kill \/ ContainerExits \/ ContainerRemoved

RunExperiment ==
  \/ RunServer \/ WaitForLaunch \/ StartClientContainer \/ ClientReturns
  \/ KillNesquic \/ Stopped \/ WaitForTerm

ScriptSteps == RunExperiment \/ Trapped \/ Teardown \/ Exit

ScriptNext == ScriptSteps \/ Interrupt \/ Docker \/ ContainerFails \/ Signalled

ScriptTypeOK ==
  /\ script \in {"launch", "wait", "client", "running", "kill", "stopping", "term",
                 "teardown", "stopping all", "exited"}
  /\ experiment \in 1 .. Experiments /\ launched \in 0 .. Experiments
  /\ container \in {"none", "creating", "running", "stopping", "removing"}
  /\ {trap, late} \subseteq BOOLEAN

\* The client of an experiment is only run when the container that is up is the one
\* of this experiment: not one that an earlier run of the script has left, and not
\* the previous experiment's.
FreshServer == script \in {"client", "running"} => launched = experiment

\* The script ends, signals or not, but for one case: it waits for ever for a server
\* container that could not be started or has already ended (wait_for_launch).
ScriptEnds ==
  script = "launch" ~> script = "exited" \/ (script = "wait" /\ container = "none")

\* After the script, no server is left running, unless it was being created when the
\* script was torn down (run.sh: "Stop all nesquic containers in case teardown is
\* called mid-run").
NothingLeftRunning ==
  script = "exited" /\ ~late => container \in {"none", "removing"}
=============================================================================
