------------------------------ MODULE MCServices ------------------------------
\* The run queue and the intent intake share no state: each behaviour is one of
\* theirs, chosen at the start.
EXTENDS BacktestRuns, MCIntentIntake
VARIABLE lane
servicesVars == <<lane, runsVars, intakeVars>>
Init ==
    /\ lane \in {"runs", "intake"}
    /\ RunsInit /\ IntakeInit
    /\ lane # "runs" => listed = {}
    /\ lane # "intake" => subscribed = {}
Backtesting == lane = "runs" /\ RunsNext /\ UNCHANGED <<lane, intakeVars>>
Intake == lane = "intake" /\ IntakeNext /\ UNCHANGED <<lane, runsVars>>
Next == Backtesting \/ Intake
Spec == Init /\ [][Next]_servicesVars
\* In the lane not chosen neither fair action is ever enabled.
FairSpec == Spec /\ RunsFairness /\ IntakeFairness
===============================================================================
