------------------------------- MODULE MCHost -------------------------------
(* What goes on at the host while a program looks at it, for TLC: units that *)
(* start and fail, people who write to files, processes that do not end.     *)
(* The three modules share no state, so one of them is chosen at the start   *)
(* and takes all the steps.                                                  *)
EXTENDS JobGuard, Capture, Supervision

VARIABLE program

hostVars == <<program, vars, captureVars, superVars>>

HostInit ==
  /\ program \in {"guard", "capture", "supervision"}
  /\ Init /\ CaptureInit /\ SupervisionInit
  /\ program # "supervision" => system = "linux"

HostNext ==
  /\ UNCHANGED program
  /\ \/ program = "guard" /\ Next /\ UNCHANGED <<captureVars, superVars>>
     \/ program = "capture" /\ CaptureNext /\ UNCHANGED <<vars, superVars>>
     \/ program = "supervision" /\ SupervisionNext /\ UNCHANGED <<vars, captureVars>>

HostFairness ==
  /\ WF_superVars(program = "supervision" /\ CoordinatorStep)
  /\ \A p \in Members : WF_superVars(program = "supervision" /\ members[p] = "dying" /\ Exit(p))

HostSpec == HostInit /\ [][HostNext]_hostVars /\ HostFairness

Contained == [docs |-> {"a", "b"}, media |-> {"c"}]
=============================================================================
