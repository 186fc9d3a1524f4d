------------------------------ MODULE Connectivity ------------------------------
(***************************************************************************)
(* The test of every Rust implementation (iut/common/src/test.rs): the     *)
(* server is a task of the test; clients connect, one after the other and  *)
(* each with a timeout, until one succeeds; then run_client must succeed.  *)
(***************************************************************************)
EXTENDS Quinn

CONSTANT Attempts   \* the number of health checks, each with the client of its number

ASSUME AttemptsAssumption == Attempts \in Nat \ {0} /\ 1 .. Attempts + 1 \subseteq Clients

VARIABLES
  test,      \* "start", "check", "checking", "run", "running", "passed" or "failed"
  attempt    \* the current health check

testVars == <<test, attempt>>

\* The blob of the test is not empty.
TestInit ==
  /\ test = "start" /\ attempt = 1
  /\ server = "off" /\ \A c \in Clients : conn[c].size > 0

Final == Attempts + 1

StartServer ==
  /\ test = "start"
  /\ server' = "starting" /\ test' = "check"
  /\ UNCHANGED <<conn, attempt>>

HealthCheck ==
  /\ test = "check"
  /\ StartClient(attempt)
  /\ test' = "checking"
  /\ UNCHANGED attempt

\* A health check connects; it does not call run.
OnlyConnects == test = "checking" => ~ClientIn(attempt, {"writing"})

\* The client is dropped when connect has returned.
Healthy ==
  /\ test = "checking" /\ ClientIn(attempt, {"connected"})
  /\ DropClient(attempt)
  /\ test' = "run"
  /\ UNCHANGED attempt

NextAttempt ==
  /\ test' = IF attempt < Attempts THEN "check" ELSE "run"
  /\ attempt' = IF attempt < Attempts THEN attempt + 1 ELSE attempt

Unhealthy ==
  /\ test = "checking" /\ Ended(attempt)
  /\ NextAttempt
  /\ UNCHANGED quinnVars

CheckTimesOut ==
  /\ test = "checking" /\ ClientIn(attempt, {"connecting"})
  /\ DropClient(attempt)
  /\ NextAttempt

\* Healthy or not, the client is run.
Run ==
  /\ test = "run"
  /\ StartClient(Final)
  /\ test' = "running"
  /\ UNCHANGED attempt

RunReturns ==
  /\ test = "running" /\ Ended(Final)
  /\ test' = IF ClientIn(Final, {"ok"}) THEN "passed" ELSE "failed"
  /\ UNCHANGED <<quinnVars, attempt>>

RunTimesOut ==
  /\ test = "running"
  /\ DropClient(Final)
  /\ test' = "failed"
  /\ UNCHANGED attempt

TestSteps ==
  StartServer \/ HealthCheck \/ Healthy \/ Unhealthy \/ Run \/ RunReturns

TestNext == TestSteps \/ CheckTimesOut \/ RunTimesOut

TestTypeOK ==
  /\ test \in {"start", "check", "checking", "run", "running", "passed", "failed"}
  /\ attempt \in 1 .. Attempts
=============================================================================
