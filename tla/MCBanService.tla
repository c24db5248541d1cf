---------------------------- MODULE MCBanService ----------------------------
(* Two hosts, one address that both ban, two calls at a time.              *)
EXTENDS BanService

CONSTANTS h1, h2, a, z, c1, c2

Hosts == {h1, h2}
Calls == {c1, c2}

\* Both hosts ban a; h2 reports the end of its ban together with the ban.
Reports ==
  {[host |-> h1, events |-> <<[id |-> 1, ip |-> a, act |-> "ban"]>>],
   [host |-> h2, events |-> <<[id |-> 1, ip |-> a, act |-> "ban"], [id |-> 2, ip |-> a, act |-> "unban"]>>]}

Stored == [enforce |-> FALSE, contribute |-> TRUE, allow |-> {z}]

Patches == {[allow |-> {}], [allow |-> {a}, enforce |-> TRUE]}

HostPatches == {[enforce |-> "on", contribute |-> "off"]}
=============================================================================
