----------------------------- MODULE AccessRace -----------------------------
(***************************************************************************)
(* tollgate_core_fw_grant, _revoke and _revoke_all (firewall.c) called by  *)
(* tasks that share s_clients and s_client_count without a lock: the       *)
(* portal's task grants and resets, the API server's grants and evicts,    *)
(* the main loop revokes what has expired, and the event loop revokes all. *)
(* AccessList.tla runs each call in one step; here a task can be preempted *)
(* after its search of the table, between its steps on an entry, during    *)
(* the lookup of a MAC address, and in the middle of s_client_count++ and  *)
(* --.  A search is one step.  Any two calls may be about one client.      *)
(*                                                                         *)
(* A history ends where two removals overlap, or where two grants have     *)
(* counted past the table: from there on entries outside s_clients may be  *)
(* read and written, and entries of others lost, as the README describes.  *)
(* What is claimed is claimed up to there.                                 *)
(***************************************************************************)
EXTENDS Firewall, Integers

CONSTANTS
    Blank,      \* the address in an entry that was never written
    Granters,   \* tasks that call tollgate_core_fw_grant
    Revokers,   \* tasks that call tollgate_core_fw_revoke
    Resetters   \* tasks that call tollgate_core_fw_revoke_all

ASSUME AccessRaceAssumption == Blank \notin IP

VARIABLES
    clients,        \* s_clients: the address in each entry
    client_count,   \* s_client_count
    auth,           \* the addresses in s_auth_list
    call,           \* the call each task is in
    at,             \* where in it the task is
    arg,            \* its client_ip
    entry,          \* the entry it has found
    reg,            \* s_client_count as it has loaded it
    settled,        \* history: the clients let in before the calls under way
    overlap         \* history: a removal began during another one

lists == <<clients, client_count, auth>>
raceVars == <<lists, call, at, arg, entry, reg, settled, overlap>>

Tasks == Granters \cup Revokers \cup Resetters

(* tollgate_core_fw_is_allowed.                                            *)
Allowed == {clients[i] : i \in 1..client_count}

Goto(p, l) == at' = [at EXCEPT ![p] = l]

AllIdle == \A p \in Tasks : at[p] = "idle"

(* Task p is in a removal that has not yet stored the count.               *)
Removing(p) == call[p] # "grant" /\ at[p] \in {"move", "load", "store", "walk"}

(* Up to here the program's behaviour is that of its table.                *)
Sound == ~overlap /\ client_count <= MaxFw

(* Task p calls c about the clients in who.                                *)
Begin(p, c, who) ==
    /\ Sound
    /\ at[p] = "idle"
    /\ call' = [call EXCEPT ![p] = c]
    /\ settled' = (IF AllIdle THEN Allowed \cap IP ELSE settled) \ who
    /\ overlap' = (c # "grant" /\ \E q \in Tasks : Removing(q))

(* tollgate_core_fw_grant: the search, the test for a full table, and the  *)
(* choice of the entry.                                                    *)
GrantBegin(p, ip) ==
    /\ Begin(p, "grant", {ip})
    /\ ip \notin Allowed
    /\ client_count < MaxFw
    /\ arg' = [arg EXCEPT ![p] = ip]
    /\ entry' = [entry EXCEPT ![p] = client_count + 1]
    /\ Goto(p, "put")
    /\ UNCHANGED <<lists, reg>>

(* The new entry is written, before the lookup of its MAC address.         *)
Put(p) ==
    /\ at[p] = "put"
    /\ clients' = [clients EXCEPT ![entry[p]] = arg[p]]
    /\ Goto(p, "load")
    /\ UNCHANGED <<client_count, auth, call, arg, entry, reg, settled, overlap>>

(* tollgate_core_fw_revoke finds the client's entry (or returns).          *)
RevokeBegin(p, ip) ==
    /\ Begin(p, "revoke", {ip})
    /\ ip \in Allowed
    /\ arg' = [arg EXCEPT ![p] = ip]
    /\ entry' = [entry EXCEPT ![p] =
            CHOOSE i \in 1..client_count : /\ clients[i] = ip
                                           /\ \A j \in 1..(i - 1) : clients[j] # ip]
    /\ Goto(p, "move")
    /\ UNCHANGED <<lists, reg>>

(* Mutant of Move: the entry before the last one is moved.                 *)
MoveWrongEntry(p) ==
    /\ at[p] = "move"
    /\ clients' = [clients EXCEPT ![entry[p]] =
            IF client_count > 1 THEN clients[client_count - 1] ELSE @]
    /\ Goto(p, "load")
    /\ UNCHANGED <<client_count, auth, call, arg, entry, reg, settled, overlap>>

(* The last entry is moved into its place.                                 *)
Move(p) ==
    /\ at[p] = "move"
    /\ clients' = [clients EXCEPT ![entry[p]] = clients[client_count]]
    /\ Goto(p, "load")
    /\ UNCHANGED <<client_count, auth, call, arg, entry, reg, settled, overlap>>

(* s_client_count++ of a grant, s_client_count-- of a revoke; what a call  *)
(* has in its registers ends with it.                                      *)
Load(p) ==
    /\ at[p] = "load"
    /\ reg' = [reg EXCEPT ![p] = client_count]
    /\ Goto(p, "store")
    /\ UNCHANGED <<lists, call, arg, entry, settled, overlap>>

Store(p) ==
    /\ at[p] = "store"
    /\ client_count' = IF call[p] = "grant" THEN reg[p] + 1 ELSE reg[p] - 1
    /\ Goto(p, "tell")
    /\ entry' = [entry EXCEPT ![p] = 1]
    /\ reg' = [reg EXCEPT ![p] = 0]
    /\ UNCHANGED <<clients, auth, call, arg, settled, overlap>>

(* tollgate_core_dns_set_authenticated, and the return.                    *)
Tell(p) ==
    /\ at[p] = "tell"
    /\ auth' = IF call[p] = "revoke" THEN auth \ {arg[p]}
                                      ELSE Authenticate(auth, arg[p])
    /\ Goto(p, "idle")
    /\ arg' = [arg EXCEPT ![p] = Blank]
    /\ UNCHANGED <<clients, client_count, call, entry, reg, settled, overlap>>

(* tollgate_core_fw_revoke_all: the loop over the entries, and the store.  *)
RevokeAllBegin(p) ==
    /\ Begin(p, "revoke_all", IP)
    /\ auth' = auth \ Allowed
    /\ Goto(p, "walk")
    /\ UNCHANGED <<clients, client_count, arg, entry, reg>>

RevokeAllEnd(p) ==
    /\ at[p] = "walk"
    /\ client_count' = 0
    /\ Goto(p, "idle")
    /\ UNCHANGED <<clients, auth, call, arg, entry, reg, settled, overlap>>

RaceInit ==
    /\ clients = [i \in 1..MaxFw |-> Blank]
    /\ client_count = 0
    /\ auth = {}
    /\ call = [p \in Tasks |-> "grant"]
    /\ at = [p \in Tasks |-> "idle"]
    /\ arg = [p \in Tasks |-> Blank]
    /\ entry = [p \in Tasks |-> 1]
    /\ reg = [p \in Tasks |-> 0]
    /\ settled = {}
    /\ overlap = FALSE

RaceNext ==
    \/ \E p \in Granters, ip \in IP : GrantBegin(p, ip)
    \/ \E p \in Revokers, ip \in IP : RevokeBegin(p, ip)
    \/ \E p \in Resetters : RevokeAllBegin(p)
    \/ /\ Sound
       /\ \E p \in Tasks : \/ Put(p) \/ Move(p) \/ Load(p) \/ Store(p) \/ Tell(p)
                           \/ RevokeAllEnd(p)

RaceSpec == RaceInit /\ [][RaceNext]_raceVars

(***************************************************************************)
(* Properties.                                                             *)
(***************************************************************************)

(* Type invariant of a table that is sound.                                *)
RaceTypeOK ==
    /\ clients \in [1..MaxFw -> IP \cup {Blank}]
    /\ client_count \in 0..MaxFw
    /\ auth \subseteq IP
    /\ call \in [Tasks -> {"grant", "revoke", "revoke_all"}]
    /\ at \in [Tasks -> {"idle", "put", "move", "load", "store", "tell", "walk"}]
    /\ arg \in [Tasks -> IP \cup {Blank}]
    /\ entry \in [Tasks -> 1..MaxFw]
    /\ reg \in [Tasks -> 0..MaxFw]
    /\ settled \subseteq IP

(* As long as no removal begins during another one, grants in any number   *)
(* and a removal may overlap in any way, also about one client: whoever    *)
(* was let in before the calls under way, and whom none of them is about,  *)
(* stays let in, however the entries are moved and the count is            *)
(* miscounted, and the count does not fall below zero.                     *)
BystanderKept == Sound => RaceTypeOK /\ settled \subseteq Allowed
=============================================================================
