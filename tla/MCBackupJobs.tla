----------------------------- MODULE MCBackupJobs -----------------------------
EXTENDS BackupJobs, TLC
CONSTANTS j1, j2, j3, j0, r1, r2
Jobs == {j1, j2, j3}
Scenarios ==
    {[jobs |-> j1 :> "run" @@ j2 :> "check" @@ j3 :> "init", foreign |-> "ended"],
     [jobs |-> j1 :> "run" @@ j2 :> "run" @@ j3 :> "enroll", foreign |-> "ended"],
     [jobs |-> j1 :> "restore" @@ j2 :> "check" @@ j3 :> "none", foreign |-> "absent"],
     [jobs |-> j1 :> "run" @@ j2 :> "unlock" @@ j3 :> "none", foreign |-> "absent"],
     [jobs |-> j1 :> "run" @@ j2 :> "unlockall" @@ j3 :> "none", foreign |-> "ended"]}
============================================================================
