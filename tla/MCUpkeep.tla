------------------------------ MODULE MCUpkeep ------------------------------
(* The programs that look after the host, its mail and its repositories, for *)
(* TLC.  They share no state, so one of them is chosen at the start and      *)
(* takes all the steps.                                                      *)
EXTENDS JobGuard, MailMonitor, Archility, Purge, Bootstrap

VARIABLE program

upkeepVars == <<program, vars, mailVars, deployVars, purgeVars, bootVars>>

UpkeepInit ==
  /\ program \in {"guard", "monitor", "deploy", "purge", "bootstrap"}
  /\ Init /\ MailInit /\ DeployInit /\ PurgeInit /\ BootstrapInit
  /\ program # "deploy" => checkouts = [s \in Sites |-> FALSE]

UpkeepNext ==
  /\ UNCHANGED program
  /\ \/ /\ program = "guard" /\ Next
        /\ UNCHANGED <<mailVars, deployVars, purgeVars, bootVars>>
     \/ /\ program = "monitor" /\ MailNext
        /\ UNCHANGED <<vars, deployVars, purgeVars, bootVars>>
     \/ /\ program = "deploy" /\ DeployNext
        /\ UNCHANGED <<vars, mailVars, purgeVars, bootVars>>
     \/ /\ program = "purge" /\ PurgeNext
        /\ UNCHANGED <<vars, mailVars, deployVars, bootVars>>
     \/ /\ program = "bootstrap" /\ BootstrapNext
        /\ UNCHANGED <<vars, mailVars, deployVars, purgeVars>>

\* The fairness of the modules, said of the program that was chosen; purges and
\* bootstrap commands are run when a person wants them.
UpkeepFairness ==
  /\ \A u \in Units :
       /\ WF_vars(program = "guard" /\ Check(u))
       /\ WF_vars(program = "guard" /\ Finish(u))
       /\ WF_vars(program = "guard" /\ \E i \in Triggers : RetryFires(u, i))
  /\ WF_mailVars(program = "monitor" /\ StartScan)
  /\ WF_mailVars(program = "monitor" /\ MailStep)
  /\ WF_deployVars(program = "deploy" /\ Begin(Scheduled))
  /\ \A d \in Deployers : WF_deployVars(program = "deploy" /\ DeployStep(d))

UpkeepSpec == UpkeepInit /\ [][UpkeepNext]_upkeepVars /\ UpkeepFairness

InOrder == <<"a", "b">>
InListing == <<"data", "cache", "more">>
Sizes == [data |-> 1, cache |-> 1, more |-> 2]

\* The type invariants of all five: what each program keeps is what it should be.
UpkeepTypeOK == TypeOK /\ MailTypeOK /\ DeployTypeOK /\ PurgeTypeOK /\ BootstrapTypeOK
=============================================================================
