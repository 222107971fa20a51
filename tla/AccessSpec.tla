----------------------------- MODULE AccessSpec -----------------------------
(***************************************************************************)
(* What the firewall of tollgate_core promises: two sets of addresses and  *)
(* the four operations of Firewall.tla on them.  Gate.tla is written over  *)
(* these sets, AccessList.tla implements them with arrays.                 *)
(***************************************************************************)
EXTENDS Firewall

VARIABLE access

Init == access = NoAccess

Grant(ip) == access' = FwGrant(access, ip)

Revoke(ip) == access' = FwRevoke(access, {ip})

RevokeAll == access' = FwRevokeAll(access)

Restart == access' = FwInit(access)

Next ==
    \/ \E ip \in IP : Grant(ip) \/ Revoke(ip)
    \/ RevokeAll
    \/ Restart

Spec == Init /\ [][Next]_access
=============================================================================
