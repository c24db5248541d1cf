------------------------------- MODULE MCFleetLoops -------------------------------
(***************************************************************************)
(* Five loops between agents and server, for TLC.  They share no variable: *)
(* in every behaviour one of them, the focus, runs and the others rest in  *)
(* their first state.                                                      *)
(***************************************************************************)
EXTENDS AlertEngine, IntervalControl, BrowseJobs, TunnelPeers, BackupReport

VARIABLE focus

loopVars == <<focus, vars, ivVars, bwVars, tpVars, brVars>>

LoopInit ==
    /\ focus \in {"alerts", "interval", "browse", "tunnel", "report"}
    /\ Init /\ IvInit /\ BwInit /\ TpInit /\ BrInit

LoopNext ==
    /\ UNCHANGED focus
    /\ \/ focus = "alerts" /\ Next /\ UNCHANGED <<ivVars, bwVars, tpVars, brVars>>
       \/ focus = "interval" /\ IvNext /\ UNCHANGED <<vars, bwVars, tpVars, brVars>>
       \/ focus = "browse" /\ BwNext /\ UNCHANGED <<vars, ivVars, tpVars, brVars>>
       \/ focus = "tunnel" /\ TpNext /\ UNCHANGED <<vars, ivVars, bwVars, brVars>>
       \/ focus = "report" /\ BrNext /\ UNCHANGED <<vars, ivVars, bwVars, tpVars>>

\* The fairness of each specification, for the component that runs
LoopFairness ==
    /\ WF_vars(focus = "alerts" /\ Engine) /\ WF_vars(focus = "alerts" /\ TimePasses)
    /\ \A g \in Poster : WF_ivVars(focus = "interval" /\ Post(g)) /\ WF_ivVars(focus = "interval" /\ PostBytes(g))
    /\ WF_ivVars(focus = "interval" /\ (Persist \/ PersistFails)) /\ WF_ivVars(focus = "interval" /\ SetInterval) /\ SF_ivVars(focus = "interval" /\ ResetTicker)
    /\ WF_bwVars(focus = "browse" /\ BwTick) /\ WF_bwVars(focus = "browse" /\ BwPoll)
    /\ \A h \in TpHosts : WF_tpVars(focus = "tunnel" /\ TpAgent(h)) /\ WF_tpVars(focus = "tunnel" /\ TpAge(h))
    /\ WF_tpVars(focus = "tunnel" /\ TpOperator)
    /\ WF_brVars(focus = "report" /\ BrCollect) /\ WF_brVars(focus = "report" /\ BrCollectBackups) /\ WF_brVars(focus = "report" /\ BrSend)
    /\ WF_brVars(focus = "report" /\ BrTick) /\ WF_brVars(focus = "report" /\ BrRunEnds)

LoopSpec == LoopInit /\ [][LoopNext]_loopVars /\ LoopFairness

\* HostsReconnect of TunnelPeers, where the enrolment runs: a host that lost its tunnel gets it back.
TunnelHostsReconnect == \A h \in TpHosts : []<>(focus # "tunnel" \/ Reconnected(h))
=============================================================================
