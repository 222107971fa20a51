----------------------------- MODULE MintHealth -----------------------------
(***************************************************************************)
(* Which mints can be reached: the health task's probes (mint_health.c,    *)
(* tollgate_core_mint_health.c) and the API's discovery, which offers the  *)
(* mints that can be, or else mint_url (tollgate_api.c).  The mints are    *)
(* external.  Nothing calls mint_health_mark_unreachable or registers a    *)
(* callback.                                                               *)
(***************************************************************************)
EXTENDS Integers, FiniteSets

CONSTANTS
    Mints,      \* accepted_mints, numbered from 1
    Primary,    \* mint_url, which need not be one of them
    Threshold   \* TG_MINT_HEALTH_RECOVERY_THRESHOLD

ASSUME MintHealthAssumption == Mints = 1..Cardinality(Mints) /\ Threshold \in Nat \ {0}

VARIABLES
    up,         \* external: the mints that answer
    reachable,  \* each mint's reachable
    successes,  \* each mint's consecutive_successes, up to Threshold
    round,      \* the health task: "off", "initial", "wait" or "probing"
    turn,       \* the mint it probes next
    streak,     \* history: answers since the last failure, up to Threshold
    listed      \* the mints the last discovery offers

health == <<up, reachable, successes, round, turn, streak, listed>>

UpTo(n) == IF n > Threshold THEN Threshold ELSE n
Probing == round \in {"initial", "probing"} /\ turn \in Mints

(* Mutant of RoundBegins: only while some mint is reachable.               *)
RoundBeginsReachable ==
    /\ round = "wait" /\ \E m \in Mints : reachable[m]
    /\ round' = "probing" /\ turn' = 1
    /\ UNCHANGED <<up, reachable, successes, streak, listed>>

(* Mutant of Updated: a failure does not start the count again.            *)
UpdatedKeeping(m, ok) ==
    /\ successes' = [successes EXCEPT ![m] = IF ok THEN UpTo(@ + 1) ELSE @]
    /\ reachable' = [reachable EXCEPT ![m] = ok /\ (@ \/ successes'[m] >= Threshold)]

(* tollgate_core_mint_health_update, and _initial in the first round.      *)
Updated(m, ok) ==
    /\ successes' = [successes EXCEPT ![m] = IF ~ok THEN 0 ELSE IF round = "initial" THEN Threshold
                                             ELSE UpTo(@ + 1)]
    /\ reachable' = [reachable EXCEPT ![m] = ok /\ (@ \/ successes'[m] >= Threshold)]

(* mint_health_init and mint_health_start, once.                           *)
HealthStarts ==
    /\ round = "off"
    /\ round' = "initial" /\ turn' = 1
    /\ UNCHANGED <<up, reachable, successes, streak, listed>>

(* probe_mint of one mint, in run_probes or run_initial_probes.            *)
Probe ==
    /\ Probing
    /\ Updated(turn, turn \in up)
    /\ streak' = [streak EXCEPT ![turn] = IF turn \notin up THEN 0
                                          ELSE IF round = "initial" THEN Threshold ELSE UpTo(@ + 1)]
    /\ turn' = turn + 1
    /\ UNCHANGED <<up, round, listed>>

RoundEnds ==
    /\ round \in {"initial", "probing"} /\ turn \notin Mints
    /\ round' = "wait"
    /\ UNCHANGED <<up, reachable, successes, turn, streak, listed>>

(* MINT_HEALTH_PROBE_INTERVAL_S is over.                                   *)
RoundBegins ==
    /\ round = "wait"
    /\ round' = "probing" /\ turn' = 1
    /\ UNCHANGED <<up, reachable, successes, streak, listed>>

(* api_get_discovery: it offers the reachable mints, and mint_url if it    *)
(* finds none.  While the mints are probed mint_health_get_all may wait    *)
(* for the mutex in vain and find none, or it had it just before: the list *)
(* is read after the mutex is given back.                                  *)
Offer(found) == IF found = {} THEN {Primary} ELSE found

Discovery ==
    /\ round # "off"
    /\ \/ listed' = Offer({m \in Mints : reachable[m]})
       \/ round # "wait" /\ listed' = Offer({})
    /\ UNCHANGED <<up, reachable, successes, round, turn, streak>>

(* External; what it was before the first probe does not show.             *)
MintChanges(m) ==
    /\ round # "off"
    /\ up' = IF m \in up THEN up \ {m} ELSE up \cup {m}
    /\ UNCHANGED <<reachable, successes, round, turn, streak, listed>>

HealthInit ==
    /\ up = {}
    /\ reachable = [m \in Mints |-> FALSE] /\ successes = [m \in Mints |-> 0]
    /\ round = "off" /\ turn = 1 /\ streak = [m \in Mints |-> 0] /\ listed = {}

HealthTask == HealthStarts \/ Probe \/ RoundEnds \/ RoundBegins
HealthNext == HealthTask \/ Discovery \/ \E m \in Mints : MintChanges(m)
HealthSpec == HealthInit /\ [][HealthNext]_health

(***************************************************************************)
(* Properties.                                                             *)
(***************************************************************************)

(* A mint counts as reachable exactly when the probes since its last       *)
(* failure were enough: the first round's, or Threshold in a row.          *)
ReachableEarned == \A m \in Mints : reachable[m] <=> streak[m] >= Threshold

(* A mint that stays up is offered to customers again and again, although  *)
(* discovery finds none while the mints are probed; one that stays down is *)
(* offered no more, save mint_url, and that alone, in place of no offer.   *)
OffersFollow ==
    \A m \in Mints : /\ <>[](m \in up) => []<>(m \in listed)
                     /\ <>[](m \notin up) => <>[](m \in listed => listed = {Primary})
=============================================================================
