------------------------------ MODULE Firewall ------------------------------
(***************************************************************************)
(* The access lists of tollgate_core: the firewall's table of allowed      *)
(* clients (tollgate_core_firewall.c) and the DNS server's list of         *)
(* authenticated addresses (tollgate_core_dns.c), with the operations the  *)
(* session manager, the portal and the service lifecycle call.             *)
(*                                                                         *)
(* Both lists are arrays with a count, searched linearly and kept compact  *)
(* by moving the last entry into a removed one's place.  Only membership   *)
(* and the number of entries are ever observed, so a list is the set of    *)
(* the addresses in it and the count its cardinality; AccessList.tla       *)
(* keeps the array and shows that it implements the set.                   *)
(***************************************************************************)
EXTENDS Naturals, FiniteSets

CONSTANTS
    IP,         \* client addresses
    MaxFw,      \* MAX_CLIENTS of the firewall
    MaxAuth     \* MAX_AUTH_IPS of the DNS server

ASSUME FirewallAssumption ==
    /\ IsFiniteSet(IP)
    /\ MaxFw \in Nat \ {0}
    /\ MaxAuth \in Nat
    /\ MaxAuth >= MaxFw

(* Both lists of the gate.                                                 *)
Access == [fw : SUBSET IP, auth : SUBSET IP]

NoAccess == [fw |-> {}, auth |-> {}]

(* tollgate_core_dns_set_authenticated: an address already listed is left  *)
(* alone, a full list drops the new address silently.                      *)
Authenticate(auth, ip) ==
    IF ip \in auth \/ Cardinality(auth) < MaxAuth THEN auth \cup {ip} ELSE auth

(* Mutant of FwGrant: a full table gives an entry away.                    *)
FwGrantReplacing(acc, ip) ==
    IF ip \in acc.fw THEN acc
    ELSE LET out == IF Cardinality(acc.fw) >= MaxFw
                    THEN {CHOOSE x \in acc.fw : TRUE} ELSE {}
         IN  [fw |-> (acc.fw \ out) \cup {ip},
              auth |-> Authenticate(acc.auth \ out, ip)]

(* tollgate_core_fw_grant: nothing for a client already allowed, nothing   *)
(* (a warning) when the table is full, else one more client in both lists. *)
FwGrant(acc, ip) ==
    IF ip \in acc.fw \/ Cardinality(acc.fw) >= MaxFw
    THEN acc
    ELSE [fw |-> acc.fw \cup {ip}, auth |-> Authenticate(acc.auth, ip)]

(* Mutants of FwRevoke: the search stops one entry early; the DNS server   *)
(* is not told.                                                            *)
FwRevokeMissingOne(acc, ips) ==
    IF Cardinality(acc.fw) = 1 THEN acc
    ELSE [fw |-> acc.fw \ ips, auth |-> acc.auth \ (acc.fw \cap ips)]

FwRevokeKeepingDns(acc, ips) == [acc EXCEPT !.fw = @ \ ips]

(* tollgate_core_fw_revoke of each address in ips: the DNS list is told    *)
(* only of the addresses the firewall table holds.                         *)
FwRevoke(acc, ips) ==
    [fw |-> acc.fw \ ips, auth |-> acc.auth \ (acc.fw \cap ips)]

(* tollgate_core_fw_revoke_all.                                            *)
FwRevokeAll(acc) == [fw |-> {}, auth |-> acc.auth \ acc.fw]

(* tollgate_core_fw_init: the client table is cleared, the DNS list is not.*)
FwInit(acc) == [acc EXCEPT !.fw = {}]
=============================================================================
