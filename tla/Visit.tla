-------------------------------- MODULE Visit --------------------------------
(***************************************************************************)
(* One visit of a stick after the other, from the archive to the status:   *)
(* ca-usb-run's pipeline, in which a job that JobRun has unpacked waits at *)
(* the gate of ConfirmGate and is executed once K1 is pressed.             *)
(***************************************************************************)
EXTENDS ConfirmGate, JobRun

vars == <<gateVars, jobVars>>

Init == GateInit /\ JobInit

\* The archive and its manifest are looked at before K1 is asked for.
Prepared == pc = "idle" /\ Before /\ UNCHANGED gateVars
\* A job comes to the gate when they are in order; a replay and a blank stick
\* have nothing unpacked.
Asked ==
    /\ Arrive /\ phase = IF kind' = "job" THEN "ready" ELSE "idle"
    /\ UNCHANGED jobVars
AtGate == (Fingers \/ Gate \/ Expire \/ Kit) /\ UNCHANGED jobVars

\* A confirmed job is executed.
Handled == pc = "run" /\ Harness /\ UNCHANGED gateVars
Busy == pc = "run" /\ Job /\ UNCHANGED gateVars
Reaping == pc = "run" /\ Kernel /\ UNCHANGED gateVars
Timing == pc = "run" /\ Timer /\ UNCHANGED gateVars

\* The stick is pulled.
Left == \/ Leave /\ (pc = "run" => phase = "done") /\ Over
        \/ pc = "idle" /\ JobEnds /\ UNCHANGED gateVars

Next == Prepared \/ Asked \/ AtGate \/ Handled \/ Busy \/ Reaping \/ Timing \/ Left

Fair == GateFair /\ WF_vars(Handled) /\ WF_vars(Reaping) /\ WF_vars(Timing)

Spec == Init /\ [][Next]_vars /\ Fair
==============================================================================
