---- MODULE Panels ----
(***************************************************************************)
(* The web client's panels and what they reach: the settings' forms, the      *)
(* agents' files, the rail of agents; and the machine of an agent's tools.    *)
(* They share nothing but the page.                                           *)
(***************************************************************************)
EXTENDS Settings, Files, Vm, Rail

vars == <<settingsVars, fileVars, vmVars, railVars>>

Init == SettingsInit /\ FilesInit /\ VmInit /\ RailInit

Next ==
    \/ SettingsStep /\ UNCHANGED <<fileVars, vmVars, railVars>>
    \/ FilesStep /\ UNCHANGED <<settingsVars, vmVars, railVars>>
    \/ VmStep /\ UNCHANGED <<settingsVars, fileVars, railVars>>
    \/ RailStep /\ UNCHANGED <<settingsVars, fileVars, vmVars>>

\* The policy is read again each minute; the rail's own.
Fairness == WF_vars(RereadStep /\ UNCHANGED <<fileVars, vmVars, railVars>>) /\ RailFairness

Spec == Init /\ [][Next]_vars

TypeOK == SettingsTypeOK /\ FilesTypeOK /\ VmTypeOK /\ RailTypeOK

====
