---------------------------- MODULE TunnelPeers ----------------------------
(***************************************************************************)
(* Enrolment in the backup tunnel: the table of peers, the server's        *)
(* WireGuard device, which routes an address to the last key that was      *)
(* given it, the hosts with their key file and the settings they keep in   *)
(* backup.toml, and the operator who revokes a peer or deletes a host.     *)
(* The table and the device change in separate steps, and each call of a   *)
(* handler may fail: the handler then ends there, or ignores the error and *)
(* goes on.                                                                *)
(***************************************************************************)
EXTENDS Naturals, FiniteSets, FiniteSetsExt

CONSTANTS
    TpHosts,       \* numbers of the hosts; a host's first key has its number
    TpAddrs,       \* addresses of the subnet, the server's excepted
    TpMaxKey,      \* model bound: the last key made
    TpMaxOps,      \* model bound: operations of the operator
    TpMaxFault     \* model bound: failing calls, lost answers and restarts of the server

ASSUME TpAssumption ==
    /\ TpHosts \subseteq Nat \ {0} /\ IsFiniteSet(TpHosts) /\ TpHosts # {}
    /\ TpAddrs \subseteq Nat \ {0}
    /\ TpMaxKey \in Nat /\ TpMaxOps \in Nat /\ TpMaxFault \in Nat

VARIABLES
    tpRow,     \* backup_tunnel_peers
    tpDev,     \* the device: the key an address is routed to
    tpAlive,   \* hosts that are not deleted
    tpKey,     \* each host's key file
    tpLast,    \* the last key made
    tpConf,    \* each host's [tunnel] section: its address, and whether it is younger than six hours
    tpReq,     \* the enrolment each host is making
    tpOp,      \* the operator's request
    tpOps, tpFaults,
    tpRaced,   \* history: hosts that were enrolling while the operator removed them
    tpLeft     \* history: keys that a failing call left routed, or not routed, against the table

tpVars == <<tpRow, tpDev, tpAlive, tpKey, tpLast, tpConf, tpReq, tpOp, tpOps, tpFaults, tpRaced, tpLeft>>
tpBounds == <<tpOps, tpFaults>>
tpHistory == <<tpRaced, tpLeft>>

NoPeer == [key |-> 0, ip |-> 0]
NoEnroll == [pc |-> "idle", key |-> 0, ip |-> 0]
NoOp == [pc |-> "idle", host |-> 0, key |-> 0]

TpInit ==
    /\ tpRow = [h \in TpHosts |-> NoPeer]
    /\ tpDev = [a \in TpAddrs |-> 0]
    /\ tpAlive = TpHosts
    /\ tpKey = [h \in TpHosts |-> h]
    /\ tpLast = Max(TpHosts)
    /\ tpConf = [h \in TpHosts |-> [ip |-> 0, fresh |-> FALSE]]
    /\ tpReq = [h \in TpHosts |-> NoEnroll]
    /\ tpOp = NoOp
    /\ tpOps = 0 /\ tpFaults = 0
    /\ tpRaced = {} /\ tpLeft = {}

TpFault == tpFaults < TpMaxFault /\ tpFaults' = tpFaults + 1
----------------------------------------------------------------------------
(* A host enrols: EnsureTunnelEnrolled, TunnelEnroll and tunnelEnrollHandler *)

\* Settings that are there are good enough.
MutWantsEnrolment(h) == tpConf[h].ip = 0

\* tunnelEnrollmentFresh
WantsEnrolment(h) == tpConf[h].ip = 0 \/ ~tpConf[h].fresh

\* The request passes the token check with the key of the key file; how long its handler then takes is
\* open, so a token that a cache still knows after the deletion counts as passed before it.
TpAsk(h) ==
    /\ tpReq[h].pc = "idle" /\ h \in tpAlive /\ WantsEnrolment(h)
    /\ tpReq' = [tpReq EXCEPT ![h] = [pc |-> "enrol", key |-> tpKey[h], ip |-> 0]]
    /\ tpRaced' = IF tpOp.host = h THEN tpRaced \cup {h} ELSE tpRaced
    /\ UNCHANGED <<tpRow, tpDev, tpAlive, tpKey, tpLast, tpConf, tpOp, tpBounds, tpLeft>>

Taken == {tpRow[g].ip : g \in TpHosts}

\* firstFreeAddr: the lowest that no row has
FreeAddrs == IF TpAddrs \subseteq Taken THEN {} ELSE {Min(TpAddrs \ Taken)}

\* EnrollPeer, under the lock of the table: a host keeps its address, a key has one host.  Without a row,
\* or when the database fails, the handler answers an error.
TpEnroll(h) ==
    /\ tpReq[h].pc = "enrol"
    /\ LET taken == \E g \in TpHosts \ {h} : tpRow[g].key = tpReq[h].key
           ips == IF tpRow[h] # NoPeer THEN {tpRow[h].ip} ELSE FreeAddrs
       IN \/ /\ ~taken
             /\ \E ip \in ips :
                  /\ tpRow' = [tpRow EXCEPT ![h] = [key |-> tpReq[h].key, ip |-> ip]]
                  /\ tpReq' = [tpReq EXCEPT ![h].pc = "activate", ![h].ip = ip]
             /\ UNCHANGED tpFaults
          \/ /\ ((taken \/ ips = {}) /\ UNCHANGED tpFaults) \/ TpFault
             /\ tpReq' = [tpReq EXCEPT ![h] = NoEnroll]
             /\ UNCHANGED tpRow
    /\ UNCHANGED <<tpDev, tpAlive, tpKey, tpLast, tpConf, tpOp, tpOps, tpHistory>>

\* Device.SetPeer: the key loses its other addresses, the address its other key.
SetPeer(key, ip) == [a \in TpAddrs |-> IF a = ip THEN key ELSE IF tpDev[a] = key THEN 0 ELSE tpDev[a]]

TpActivate(h) ==
    /\ tpReq[h].pc = "activate"
    /\ tpDev' = SetPeer(tpReq[h].key, tpReq[h].ip)
    /\ tpReq' = [tpReq EXCEPT ![h].pc = "answer"]
    /\ tpLeft' = tpLeft \ {tpReq[h].key}
    /\ UNCHANGED <<tpRow, tpAlive, tpKey, tpLast, tpConf, tpOp, tpBounds, tpRaced>>

\* SetPeer fails, or the answer of a commit is lost and SetPeer not reached: the row stays, the address
\* keeps the key it is routed to.
TpActivateFails(h) ==
    /\ tpReq[h].pc = "activate" /\ TpFault
    /\ tpReq' = [tpReq EXCEPT ![h] = NoEnroll]
    /\ tpLeft' = LET routed == tpDev[tpReq[h].ip] IN
                 IF routed = tpReq[h].key THEN tpLeft ELSE tpLeft \cup ({tpReq[h].key, routed} \ {0})
    /\ UNCHANGED <<tpRow, tpDev, tpAlive, tpKey, tpLast, tpConf, tpOp, tpOps, tpRaced>>

\* writeTunnelSettings, unless the answer is an error or lost, or a node it needs is not there
TpSettle(h) ==
    /\ tpReq[h].pc = "answer"
    /\ tpReq' = [tpReq EXCEPT ![h] = NoEnroll]
    /\ \/ tpConf' = [tpConf EXCEPT ![h] = [ip |-> tpReq[h].ip, fresh |-> TRUE]] /\ UNCHANGED tpFaults
       \/ TpFault /\ UNCHANGED tpConf
    /\ UNCHANGED <<tpRow, tpDev, tpAlive, tpKey, tpLast, tpOp, tpOps, tpHistory>>

\* Six hours pass.
TpAge(h) ==
    /\ tpConf[h].fresh
    /\ tpConf' = [tpConf EXCEPT ![h].fresh = FALSE]
    /\ UNCHANGED <<tpRow, tpDev, tpAlive, tpKey, tpLast, tpReq, tpOp, tpBounds, tpHistory>>

\* loadOrCreateTunnelKey finds no key file and makes one.
TpNewKey(h) ==
    /\ tpReq[h].pc = "idle" /\ tpLast < TpMaxKey
    /\ tpLast' = tpLast + 1
    /\ tpKey' = [tpKey EXCEPT ![h] = tpLast']
    /\ UNCHANGED <<tpRow, tpDev, tpAlive, tpConf, tpReq, tpOp, tpBounds, tpHistory>>
----------------------------------------------------------------------------
(* The operator: revokeTunnelPeerHandler and deleteHostHandler *)

OpBegins(h) ==
    /\ tpOp.pc = "idle" /\ tpOps < TpMaxOps
    /\ tpOps' = tpOps + 1
    /\ tpRaced' = IF tpReq[h].pc # "idle" THEN tpRaced \cup {h} ELSE tpRaced

\* GetPeer
TpRevoke(h) ==
    /\ OpBegins(h) /\ tpRow[h] # NoPeer
    /\ tpOp' = [pc |-> "revoke", host |-> h, key |-> tpRow[h].key]
    /\ UNCHANGED <<tpRow, tpDev, tpAlive, tpKey, tpLast, tpConf, tpReq, tpFaults, tpLeft>>

\* Hosts.Delete, which no second request can repeat
TpDeleteHost(h) ==
    /\ OpBegins(h) /\ h \in tpAlive
    /\ tpAlive' = tpAlive \ {h}
    /\ tpOp' = [pc |-> "demote", host |-> h, key |-> 0]
    /\ UNCHANGED <<tpRow, tpDev, tpKey, tpLast, tpConf, tpReq, tpFaults, tpLeft>>

\* The handler ends and leaves the key on the device.
GivesUp(key) ==
    /\ TpFault
    /\ tpOp' = NoOp
    /\ tpLeft' = tpLeft \cup ({key} \ {0})

\* Demote; its error, that the node has targets included, is the answer, as is that of a Delete whose
\* commit was not heard of.
TpDemote ==
    /\ tpOp.pc = "demote"
    /\ \/ tpOp' = [tpOp EXCEPT !.pc = "get"] /\ UNCHANGED <<tpFaults, tpLeft>>
       \/ GivesUp(tpRow[tpOp.host].key)
    /\ UNCHANGED <<tpRow, tpDev, tpAlive, tpKey, tpLast, tpConf, tpReq, tpOps, tpRaced>>

\* GetPeer of a deleted host; without a peer that is all, and on an error too.
TpGetPeer ==
    /\ tpOp.pc = "get"
    /\ \/ /\ tpRow[tpOp.host] = NoPeer
          /\ tpOp' = NoOp /\ UNCHANGED <<tpFaults, tpLeft>>
       \/ /\ tpRow[tpOp.host] # NoPeer
          /\ tpOp' = [tpOp EXCEPT !.pc = "delete", !.key = tpRow[tpOp.host].key] /\ UNCHANGED <<tpFaults, tpLeft>>
       \/ GivesUp(tpRow[tpOp.host].key)
    /\ UNCHANGED <<tpRow, tpDev, tpAlive, tpKey, tpLast, tpConf, tpReq, tpOps, tpRaced>>

\* DeletePeer
TpDeletePeer ==
    /\ tpOp.pc \in {"revoke", "delete"}
    /\ tpRow' = [tpRow EXCEPT ![tpOp.host] = NoPeer]
    /\ \/ tpOp' = [tpOp EXCEPT !.pc = "remove"] /\ UNCHANGED <<tpFaults, tpLeft>>
       \/ tpOp.pc = "revoke" /\ GivesUp(tpOp.key)   \* the answer of the database is lost
    /\ UNCHANGED <<tpDev, tpAlive, tpKey, tpLast, tpConf, tpReq, tpOps, tpRaced>>

\* DeletePeer fails: revoke answers the error, delete ignores it and goes on to the device.
TpDeletePeerFails ==
    /\ TpFault
    /\ \/ tpOp.pc = "revoke" /\ tpOp' = NoOp
       \/ tpOp.pc = "delete" /\ tpOp' = [tpOp EXCEPT !.pc = "remove"]
    /\ UNCHANGED <<tpRow, tpDev, tpAlive, tpKey, tpLast, tpConf, tpReq, tpOps, tpHistory>>

\* The device is left to the next start.
MutTpRemovePeer ==
    /\ tpOp.pc = "remove"
    /\ tpOp' = NoOp
    /\ UNCHANGED <<tpRow, tpDev, tpAlive, tpKey, tpLast, tpConf, tpReq, tpBounds, tpHistory>>

\* Tunnel.RemovePeer of the key that was read at first
TpRemovePeer ==
    /\ tpOp.pc = "remove"
    /\ tpDev' = [a \in TpAddrs |-> IF tpDev[a] = tpOp.key THEN 0 ELSE tpDev[a]]
    /\ tpOp' = NoOp
    /\ tpLeft' = tpLeft \ {tpOp.key}
    /\ UNCHANGED <<tpRow, tpAlive, tpKey, tpLast, tpConf, tpReq, tpBounds, tpRaced>>

\* RemovePeer fails: revoke answers the error, delete ignores it.
TpRemovePeerFails ==
    /\ tpOp.pc = "remove" /\ GivesUp(tpOp.key)
    /\ UNCHANGED <<tpRow, tpDev, tpAlive, tpKey, tpLast, tpConf, tpReq, tpOps, tpRaced>>

\* The server restarts: StartTunnel with the peers of ListPeers.
TpRestart ==
    /\ TpFault
    /\ tpDev' = [a \in TpAddrs |->
                   LET at == {h \in tpAlive : tpRow[h].ip = a} IN IF at = {} THEN 0 ELSE tpRow[CHOOSE h \in at : TRUE].key]
    /\ tpReq' = [h \in TpHosts |-> NoEnroll]
    /\ tpOp' = NoOp
    /\ tpRaced' = {} /\ tpLeft' = {}
    /\ UNCHANGED <<tpRow, tpAlive, tpKey, tpLast, tpConf, tpOps>>

TpAgent(h) == TpAsk(h) \/ TpEnroll(h) \/ TpActivate(h) \/ TpActivateFails(h) \/ TpSettle(h)
TpOperator == TpDemote \/ TpGetPeer \/ TpDeletePeer \/ TpDeletePeerFails \/ TpRemovePeer \/ TpRemovePeerFails

TpNext ==
    \/ \E h \in TpHosts : TpAgent(h) \/ TpAge(h) \/ TpNewKey(h) \/ TpRevoke(h) \/ TpDeleteHost(h)
    \/ TpOperator \/ TpRestart

\* The host makes its backups, time passes, and a handler that has begun goes on.
TpFairness ==
    /\ \A h \in TpHosts : WF_tpVars(TpAgent(h)) /\ WF_tpVars(TpAge(h))
    /\ WF_tpVars(TpOperator)

TpSpec == TpInit /\ [][TpNext]_tpVars
TpFairSpec == TpSpec /\ TpFairness
----------------------------------------------------------------------------
\* Rows are whole, and no address and no key belongs to two of them.
TpTypeOK ==
    /\ \A h \in TpHosts : tpRow[h] = NoPeer \/ tpRow[h] \in [key : 1..tpLast, ip : TpAddrs]
    /\ \A g, h \in TpHosts : g # h /\ tpRow[g] # NoPeer /\ tpRow[h] # NoPeer =>
          tpRow[g].ip # tpRow[h].ip /\ tpRow[g].key # tpRow[h].key
    /\ tpDev \in [TpAddrs -> 0..tpLast]
    /\ \A h \in TpHosts : tpReq[h].pc \in {"idle", "enrol", "activate", "answer"}

Working == {h \in TpHosts : tpReq[h].pc \in {"enrol", "activate"}} \cup (IF tpOp.pc = "idle" THEN {} ELSE {tpOp.host})

(***************************************************************************)
(* The device routes what the table says, whatever order the two are       *)
(* changed in: the address of a host that is not deleted goes to its key,  *)
(* and once no handler is at work every routed key is that of a row of     *)
(* such a host; a revoked or deleted host is routed nothing.               *)
(*                                                                         *)
(* Excepted are the keys that a failing call left against the table, until *)
(* the host enrols again, a revocation takes the key away or the server    *)
(* restarts (tpLeft), and a removal that met an enrolment of the same host *)
(* (tpRaced): the key that revoke read, or the row that delete removed, may*)
(* then not be the one that is activated, and a late activation takes the  *)
(* address even from the host it has been given to meanwhile; the device   *)
(* stays so until the server restarts.                                     *)
(***************************************************************************)
DeviceMatchesTable ==
    tpRaced = {} =>
        /\ \A h \in tpAlive \ Working :
              tpRow[h] # NoPeer /\ tpRow[h].key \notin tpLeft => tpDev[tpRow[h].ip] = tpRow[h].key
        /\ \A a \in TpAddrs :
              tpDev[a] # 0 /\ tpDev[a] \notin tpLeft /\ Working = {} => \E h \in tpAlive : tpRow[h] = [key |-> tpDev[a], ip |-> a]

Connected(h) ==
    /\ tpRow[h] # NoPeer /\ tpConf[h].ip = tpRow[h].ip
    /\ tpRow[h].key = tpKey[h] /\ tpDev[tpRow[h].ip] = tpKey[h]

Reconnected(h) == h \notin tpAlive \/ Connected(h) \/ (tpRow[h] = NoPeer /\ TpAddrs \subseteq Taken)

(***************************************************************************)
(* A host gets its tunnel back: after a revocation, a lost answer, a new   *)
(* key file and a restart of the server, settings, key, table and device   *)
(* agree again, as long as the host is not deleted and the subnet is not   *)
(* full.                                                                   *)
(***************************************************************************)
HostsReconnect == \A h \in TpHosts : []<>Reconnected(h)

\* No two hosts share an address or a key, in the table and on the device.
TunnelInv == TpTypeOK /\ DeviceMatchesTable
=============================================================================
