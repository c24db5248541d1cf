---------------------------- MODULE BanAuthority ----------------------------
(***************************************************************************)
(* What the ban service promises its agents, without transactions, caches  *)
(* or calls: one numbered policy.  Every change gets the next number, and  *)
(* a host that learns a number learns the policy that has this number.     *)
(***************************************************************************)
EXTENDS Naturals

CONSTANTS
  AuHost,      \* the hosts that ask
  AuPolicy     \* what a host may be told

VARIABLES
  number,      \* the number of the policy in force
  policy,      \* policy[h]: the policy in force for host h
  known        \* known[h]: the number and the policy host h has learned

authVars == <<number, policy, known>>

Current(h) == [ver |-> number, pol |-> policy[h]]

AuthInit ==
  /\ number = 1
  /\ policy \in [AuHost -> AuPolicy]
  /\ known = [h \in AuHost |-> Current(h)]

Decree ==
  /\ number' = number + 1
  /\ policy' \in [AuHost -> AuPolicy]
  /\ UNCHANGED known

Learn(h) ==
  /\ known' = [known EXCEPT ![h] = Current(h)]
  /\ UNCHANGED <<number, policy>>

AuthNext == Decree \/ \E h \in AuHost : Learn(h)

AuthSpec == AuthInit /\ [][AuthNext]_authVars
=============================================================================
