-------------------------------- MODULE MCHostLoops --------------------------------
(***************************************************************************)
(* The two loops that carry the operator's decisions about repositories to *)
(* a host, for TLC.  They share no variable: in every behaviour one of     *)
(* them, the focus, runs and the other rests in its first state.           *)
(***************************************************************************)
EXTENDS BackupNode, ManagedRepos

VARIABLE focus

hostVars == <<focus, ndVars, mgVars>>

HostInit ==
    /\ focus \in {"node", "managed"}
    /\ NdInit /\ MgInit
    /\ focus # "node" => ndRole = 1

HostNext ==
    /\ UNCHANGED focus
    /\ \/ focus = "node" /\ NdNext /\ UNCHANGED <<mgVars>>
       \/ focus = "managed" /\ MgNext /\ UNCHANGED <<ndVars>>

\* The fairness of each specification, for the component that runs
HostFairness ==
    /\ WF_ndVars(focus = "node" /\ NdRound) /\ SF_ndVars(focus = "node" /\ NdFetch)
    /\ \A u \in NdUploads : WF_ndVars(focus = "node" /\ NdStoreEnds(u))
    /\ WF_mgVars(focus = "managed" /\ MgRound) /\ WF_mgVars(focus = "managed" /\ MgRunBegins) /\ WF_mgVars(focus = "managed" /\ MgRunEnds)

HostSpec == HostInit /\ [][HostNext]_hostVars /\ HostFairness
=============================================================================
