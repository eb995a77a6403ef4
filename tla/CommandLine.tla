---------------------------- MODULE CommandLine ----------------------------
(***************************************************************************)
(* The commands side by side. A behaviour follows one trace through the    *)
(* tools (Analysis), a family of traces through the settings of blis run   *)
(* and blis replay (Settings), the workload of one run (Workload), or one  *)
(* observation of a server (Observe); the commands are processes of their  *)
(* own and share nothing but the traces. Where no workload is run its      *)
(* source is empty, and ends at once.                                      *)
(***************************************************************************)
EXTENDS Analysis, Settings, Workload, Observe

commandVars == <<vars, settingsVars, workloadVars>>
allVars == <<commandVars, observeVars>>

NoTrace ==
    /\ trace = <<>> /\ tuning = <<>> /\ phase = "off"
    /\ ReportsInit /\ SaturationInit
NoCommand == disk = <<>> /\ job = Idle /\ commands = MaxCommands
NoWorkload == StreamInit(NoWork) /\ NoSessions

CommandInit ==
    \/ Init /\ NoCommand /\ NoWorkload /\ NotObserving
    \/ SettingsInit /\ NoTrace /\ NoWorkload /\ NotObserving
    \/ WorkloadInit /\ NoTrace /\ NoCommand /\ NotObserving
    \/ ObserveInit /\ NoTrace /\ NoCommand /\ NoWorkload

CommandNext ==
    \/ ended /\ Next /\ UNCHANGED <<settingsVars, workloadVars, observeVars>>
    \/ ended /\ SettingsNext /\ UNCHANGED <<vars, workloadVars, observeVars>>
    \/ WorkloadNext /\ UNCHANGED <<vars, settingsVars, observeVars>>
    \/ ended /\ ObserveNext /\ UNCHANGED commandVars

CommandSpec ==
    CommandInit /\ [][CommandNext]_allVars /\ WorkloadFairness /\ ObserveFairness
=============================================================================
