--------------------------------- MODULE MCSafety ---------------------------------
(***************************************************************************)
(* Six components of which only safety is asked, for TLC.  They share no   *)
(* variable: in every behaviour one of them, the focus, runs and the others *)
(* rest in their first state.                                              *)
(***************************************************************************)
EXTENDS AlertEngine, Archive, RepoStore, MCIPBanAgent, BanTracker, BackupSched

VARIABLE focus

safeVars == <<focus, vars, arVars, rsVars, ibVars, btVars, sdVars>>

SafeInit ==
    /\ focus \in {"alerts", "archive", "store", "bans", "tracker", "sched"}
    /\ Init /\ ArInit /\ RsInit /\ IbInit /\ BtInit /\ SdInit
    /\ focus # "sched" => sdNow = 0
    /\ focus # "store" => rsBackend = "disk" /\ rsRow.quota = 0 /\ rsRow.used = 0
    /\ focus # "bans" => srv.pol = Observe /\ m.cap

SafeNext ==
    /\ UNCHANGED focus
    /\ \/ focus = "alerts" /\ Next /\ UNCHANGED <<arVars, rsVars, ibVars, btVars, sdVars>>
       \/ focus = "archive" /\ ArNext /\ UNCHANGED <<vars, rsVars, ibVars, btVars, sdVars>>
       \/ focus = "store" /\ RsNext /\ UNCHANGED <<vars, arVars, ibVars, btVars, sdVars>>
       \/ focus = "bans" /\ IbNext /\ UNCHANGED <<vars, arVars, rsVars, btVars, sdVars>>
       \/ focus = "tracker" /\ BtNext /\ UNCHANGED <<vars, arVars, rsVars, ibVars, sdVars>>
       \/ focus = "sched" /\ SdNextStep /\ UNCHANGED <<vars, arVars, rsVars, ibVars, btVars>>

SafeSpec == SafeInit /\ [][SafeNext]_safeVars

\* Every object of the repository is of one size.
MCSize == [o \in RsData \cup RsLocks \cup RsConfigs |-> 1]

\* A strict policy with short bans and a tolerant one with a longer window.
TrackerPolicies ==
    {[maxRetry |-> 1, findTime |-> 2, banTime |-> 1, banTimeMax |-> 3],
     [maxRetry |-> 3, findTime |-> 3, banTime |-> 2, banTimeMax |-> 1]}
=============================================================================
