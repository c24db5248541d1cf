--------------------------- MODULE MCIPBanAgent ---------------------------
(* Instances of IPBanAgent: one ordinary address and the server's own. *)
EXTENDS IPBanAgent

Policy(enforce, fleet, private, allow) ==
    [detect |-> TRUE, enforce |-> enforce, applyFleet |-> fleet,
     banPrivate |-> private, allow |-> allow]

Observe == Policy(FALSE, TRUE, TRUE, {})
AllowServer == Policy(TRUE, FALSE, FALSE, {"s"})
AllowOther == Policy(TRUE, TRUE, TRUE, {"a"})

MCPolicies == {Observe, AllowServer, AllowOther}
EnforcePolicies == {AllowServer, AllowOther}
===========================================================================
