------------------------------- MODULE MCAgentLoops -------------------------------
(***************************************************************************)
(* Three parts of the agent, for TLC.  They share no variable: in every    *)
(* behaviour one of them, the focus, runs and the others rest in their     *)
(* first state.                                                            *)
(***************************************************************************)
EXTENDS MCIPBanAgent, SelfUpgrade, BanSource

VARIABLE focus

agentVars == <<focus, ibVars, upVars, bsVars>>

AgentInit ==
    /\ focus \in {"bans", "upgrade", "log"}
    /\ IbInit /\ UpInit /\ BsInit
    /\ focus # "bans" => srv.pol = AllowServer
    /\ focus # "upgrade" => upFile.pin /\ ~upHost.windows /\ ~upHost.managed
    /\ focus # "log" => bsJournal = "ok"

AgentNext ==
    /\ UNCHANGED focus
    /\ \/ focus = "bans" /\ IbNext /\ UNCHANGED <<upVars, bsVars>>
       \/ focus = "upgrade" /\ UpNext /\ UNCHANGED <<ibVars, bsVars>>
       \/ focus = "log" /\ BsNext /\ UNCHANGED <<ibVars, upVars>>

\* The fairness of each specification, for the component that runs
AgentFairness ==
    /\ WF_ibVars(focus = "bans" /\ FetchRead) /\ SF_ibVars(focus = "bans" /\ FetchApply)
    /\ WF_ibVars(focus = "bans" /\ PruneTick) /\ WF_ibVars(focus = "bans" /\ Start)
    /\ WF_upVars(focus = "upgrade" /\ UpReport) /\ WF_upVars(focus = "upgrade" /\ UpControl) /\ WF_upVars(focus = "upgrade" /\ (UpDownload \/ UpDownloadFails))
    /\ WF_upVars(focus = "upgrade" /\ (UpSwap \/ UpMoveAway)) /\ WF_upVars(focus = "upgrade" /\ UpMoveIn) /\ WF_upVars(focus = "upgrade" /\ UpAttest)
    /\ WF_upVars(focus = "upgrade" /\ UpExit) /\ WF_upVars(focus = "upgrade" /\ UpStart) /\ WF_upVars(focus = "upgrade" /\ UpBackoffEnds)
    /\ WF_upVars(focus = "upgrade" /\ UpStallAges) /\ WF_upVars(focus = "upgrade" /\ SyncRead) /\ WF_upVars(focus = "upgrade" /\ SyncCopy)
    /\ WF_upVars(focus = "upgrade" /\ SyncSwap) /\ WF_upVars(focus = "upgrade" /\ SyncMoveIn)
    /\ WF_bsVars(focus = "log" /\ BsRunOnce) /\ WF_bsVars(focus = "log" /\ BsJournalLine) /\ WF_bsVars(focus = "log" /\ BsOpen)
    /\ WF_bsVars(focus = "log" /\ BsReadLine) /\ WF_bsVars(focus = "log" /\ BsAtEnd) /\ WF_bsVars(focus = "log" /\ BsCheck)

AgentSpec == AgentInit /\ [][AgentNext]_agentVars /\ AgentFairness

MCTexts == {[kind |-> "failure", text |-> "x"], [kind |-> "probe", text |-> "y"]}
=============================================================================
