------------------------------ MODULE RelaySync ------------------------------
(***************************************************************************)
(* Choosing and using the public relays: relay_selector.c, which probes    *)
(* them and keeps a primary and a fallback, and the sync task              *)
(* (sync_manager.c), its only user, with the part of start_services and    *)
(* stop_services that creates and destroys both.                           *)
(*                                                                         *)
(* The relays are external.  One that is "up" answers, one that is "down"  *)
(* cannot be connected to or has closed, one that is "silent" accepts a    *)
(* connection and then says nothing: esp_tls_conn_read waits without end.  *)
(***************************************************************************)
EXTENDS Integers, FiniteSets

CONSTANTS
    N,            \* seed relays
    Nip77,        \* those that support it
    MaxFailures   \* MAX_FAILURES

ASSUME RelaySyncAssumption ==
    /\ N \in Nat \ {0}
    /\ MaxFailures \in Nat \ {0}

Relays == 1..N
None == 0
Intervals == {"probe", "nego", "reqdiff"}

VARIABLES
    net,      \* external: what each relay does
    relays,   \* sel->relays: alive, consecutive_failures
    primary,  \* primary_idx
    fallback, \* fallback_idx
    lock,     \* sel->lock exists
    running,  \* mgr->running
    sync,     \* where the sync task is, and with which relay
    first,    \* the first probes are not done
    due,      \* the intervals that are over: reprobe, negentropy, reqdiff
    local     \* the local relay holds events that have an id

selector == <<relays, primary, fallback>>
syncvars == <<net, relays, primary, fallback, lock, running, sync, first, due, local>>

At(l, r) == sync' = [at |-> l, relay |-> r]

(* What the task does next in a round of its loop, after the step l.       *)
NextInRound(l, d) ==
    CASE l = "wait" /\ d.probe                        -> [at |-> "take", relay |-> None]
      [] l \in {"wait", "probe"} /\ d.nego            -> [at |-> "nego", relay |-> None]
      [] l \in {"wait", "probe", "nego"} /\ d.reqdiff -> [at |-> "reqdiff", relay |-> None]
      [] OTHER                                        -> [at |-> "check", relay |-> None]

(***************************************************************************)
(* relay_selector.c                                                        *)
(***************************************************************************)

(* compare_relays: NIP-77 first, fewer failures, lower latency.  All that  *)
(* are compared are alive.  Latencies are abstracted: relays of one score  *)
(* come in any order.                                                      *)
Score(tab, r) == (IF r \in Nip77 THEN 1000 ELSE 0) - tab[r].failures * 100

AliveIn(tab) == {r \in Relays : tab[r].alive}

Best(tab, S) == IF S = {} THEN {None}
                ELSE {r \in S : \A s \in S : Score(tab, r) >= Score(tab, s)}

(* select_primary_fallback: the first and the second of the sorted ones.   *)
(* It finds their entries again by URL; the seeds are taken to be distinct,*)
(* which nothing checks (a seed that is listed twice would be its own      *)
(* fallback).                                                              *)
Select(tab) ==
    /\ primary' \in Best(tab, AliveIn(tab))
    /\ fallback' \in Best(tab, AliveIn(tab) \ {primary'})

Failed(e) == [e EXCEPT !.failures = IF @ < MaxFailures THEN @ + 1 ELSE @]

(* What a probe makes of an entry: probe_nip11 and its caller's counting.  *)
(* A relay that cannot be reached is dead at once, one that answers with a *)
(* status other than 200 only after MAX_FAILURES, and comes to life before.*)
(* A silent one may answer all the same, or end in the probe's time-out.   *)
ProbeOutcomes(r) ==
    IF net[r] = "down" THEN {[Failed(relays[r]) EXCEPT !.alive = FALSE]}
    ELSE {[alive |-> TRUE, failures |-> 0]}
         \cup {[Failed(relays[r]) EXCEPT !.alive = Failed(relays[r]).failures < MaxFailures]}
         \cup {[Failed(relays[r]) EXCEPT !.alive = FALSE]}

(* Mutant of ProbeTurn: relays that are dead are not probed.               *)
ProbeTurnAliveOnly ==
    /\ sync.at = "probe" /\ sync.relay <= N
    /\ \E e \in ProbeOutcomes(sync.relay) :
          relays' = [relays EXCEPT ![sync.relay] =
                        IF relays[sync.relay].alive THEN e ELSE relays[sync.relay]]
    /\ At("probe", sync.relay + 1)
    /\ UNCHANGED <<net, primary, fallback, lock, running, first, due, local>>

(* relay_selector_probe_all, one relay after the other under its lock.     *)
ProbeTurn ==
    /\ sync.at = "probe" /\ sync.relay <= N
    /\ \E e \in ProbeOutcomes(sync.relay) : relays' = [relays EXCEPT ![sync.relay] = e]
    /\ At("probe", sync.relay + 1)
    /\ UNCHANGED <<net, primary, fallback, lock, running, first, due, local>>

ProbeEnds ==
    /\ sync.at = "probe" /\ sync.relay > N
    /\ Select(relays)
    /\ due' = [due EXCEPT !.probe = FALSE]
    /\ sync' = IF first THEN [at |-> "nego", relay |-> None] ELSE NextInRound("probe", due)
    /\ first' = FALSE
    /\ UNCHANGED <<net, relays, lock, running, local>>

(* Mutant of ReportDisconnect: a dead relay keeps its place.               *)
ReportDisconnectOnly(r) ==
    LET e   == Failed(relays[r])
        tab == [relays EXCEPT ![r] = [e EXCEPT !.alive = @ /\ e.failures < MaxFailures]]
    IN  relays' = tab /\ UNCHANGED <<primary, fallback>>

(* relay_selector_report_disconnect: a new choice is only made when the    *)
(* relay has failed MAX_FAILURES times.                                    *)
ReportDisconnect(r) ==
    LET e    == Failed(relays[r])
        dead == e.failures >= MaxFailures
        tab  == [relays EXCEPT ![r] = [e EXCEPT !.alive = @ /\ ~dead]]
    IN  /\ relays' = tab
        /\ IF dead THEN Select(tab) ELSE UNCHANGED <<primary, fallback>>

(***************************************************************************)
(* The sync task.                                                          *)
(***************************************************************************)

(* sync_manager_start: ten seconds, then the first probes.                 *)
SyncStarts ==
    /\ sync.at = "start"
    /\ At("take", None)
    /\ UNCHANGED <<net, selector, lock, running, first, due, local>>

(* xSemaphoreTake(sel->lock): after stop_services it is gone.              *)
ProbeBegins ==
    /\ sync.at = "take"
    /\ IF lock THEN At("probe", 1) ELSE At("crash", None)
    /\ UNCHANGED <<net, selector, lock, running, first, due, local>>

Living(i) == i # None /\ relays[i].alive

(* get_event_ids_from_storage finds one.                                   *)
HasIds == local

(* ws_read_text returns: a frame, its end or an error.                     *)
Answers(r) == net[r] # "silent"

(* sync_manager_do_negentropy_sync: without a living primary it is tried   *)
(* again in the next round, without events that have an id it is done.     *)
NegoSkipped ==
    /\ sync.at = "nego"
    /\ ~Living(primary) \/ ~HasIds
    /\ due' = [due EXCEPT !.nego = @ /\ ~Living(primary)]
    /\ sync' = NextInRound("nego", due)
    /\ UNCHANGED <<net, selector, lock, running, first, local>>

NegoConnects ==
    /\ sync.at = "nego" /\ Living(primary) /\ HasIds
    /\ net[primary] # "down"
    /\ At("nego_read", primary)
    /\ UNCHANGED <<net, selector, lock, running, first, due, local>>

NegoFails ==
    /\ sync.at = "nego" /\ Living(primary) /\ HasIds
    /\ IF lock THEN ReportDisconnect(primary) /\ sync' = NextInRound("nego", due)
               ELSE At("crash", None) /\ UNCHANGED selector
    /\ UNCHANGED <<net, lock, running, first, due, local>>

(* The answer to the REQ is read and not looked at, an error neither.      *)
NegoEnds ==
    /\ sync.at = "nego_read" /\ Answers(sync.relay)
    /\ due' = [due EXCEPT !.nego = FALSE]
    /\ sync' = NextInRound("nego", due)
    /\ UNCHANGED <<net, selector, lock, running, first, local>>

(* sync_manager_do_reqdiff_sync, with the fallback.                        *)
ReqdiffSkipped ==
    /\ sync.at = "reqdiff" /\ ~Living(fallback)
    /\ sync' = NextInRound("reqdiff", due)
    /\ UNCHANGED <<net, selector, lock, running, first, due, local>>

ReqdiffConnects ==
    /\ sync.at = "reqdiff" /\ Living(fallback)
    /\ net[fallback] # "down"
    /\ At("reqdiff_read", fallback)
    /\ UNCHANGED <<net, selector, lock, running, first, due, local>>

ReqdiffFails ==
    /\ sync.at = "reqdiff" /\ Living(fallback)
    /\ IF lock THEN ReportDisconnect(fallback) /\ sync' = NextInRound("reqdiff", due)
               ELSE At("crash", None) /\ UNCHANGED selector
    /\ UNCHANGED <<net, lock, running, first, due, local>>

(* EOSE, a close frame or an error.  Of each EVENT message before it item  *)
(* 1 is published locally: the subscription's id, which becomes an entry   *)
(* without id, once, and no event.                                         *)
ReqdiffEnds ==
    /\ sync.at = "reqdiff_read" /\ Answers(sync.relay)
    /\ due' = [due EXCEPT !.reqdiff = FALSE]
    /\ sync' = NextInRound("reqdiff", due)
    /\ UNCHANGED <<net, selector, lock, running, first, local>>

(* mgr->running is looked at before the thirty seconds between two rounds. *)
Check ==
    /\ sync.at = "check"
    /\ At(IF running THEN "wait" ELSE "ended", None)
    /\ UNCHANGED <<net, selector, lock, running, first, due, local>>

Round ==
    /\ sync.at = "wait"
    /\ sync' = NextInRound("wait", due)
    /\ UNCHANGED <<net, selector, lock, running, first, due, local>>

IntervalOver(which) ==
    /\ sync.at = "wait"
    /\ ~due[which]
    /\ due' = [due EXCEPT ![which] = TRUE]
    /\ UNCHANGED <<net, selector, lock, running, sync, first, local>>

(***************************************************************************)
(* stop_services, and the relays.                                          *)
(***************************************************************************)

(* sync_manager_stop, then relay_selector_destroy, without waiting for the *)
(* task.                                                                   *)
StopSync ==
    /\ running
    /\ running' = FALSE
    /\ UNCHANGED <<net, selector, lock, sync, first, due, local>>

DestroySelector ==
    /\ ~running /\ lock
    /\ lock' = FALSE
    /\ UNCHANGED <<net, selector, running, sync, first, due, local>>

(* External: a client publishes at the local relay.                        *)
LocalPublish ==
    /\ ~local /\ local' = TRUE
    /\ UNCHANGED <<net, selector, lock, running, sync, first, due>>

(* Seen only where the task looks at the relays.                           *)
NetChanges(r) ==
    /\ sync.at \in {"probe", "nego", "nego_read", "reqdiff", "reqdiff_read"}
    /\ net' \in {[net EXCEPT ![r] = s] : s \in {"up", "down", "silent"}}
    /\ UNCHANGED <<selector, lock, running, sync, first, due, local>>

(* relay_selector_init, relay_selector_seed_from_config, sync_manager_init *)
(* and sync_manager_start.                                                 *)
SyncInit ==
    /\ net \in [Relays -> {"up", "down"}]
    /\ relays = [r \in Relays |-> [alive |-> TRUE, failures |-> 0]]
    /\ primary = None /\ fallback = None
    /\ lock = TRUE /\ running = TRUE
    /\ sync = [at |-> "start", relay |-> None] /\ first = TRUE
    /\ due = [w \in Intervals |-> FALSE]
    /\ local = FALSE

SyncStep ==
    \/ SyncStarts \/ ProbeBegins \/ ProbeTurn \/ ProbeEnds
    \/ NegoSkipped \/ NegoConnects \/ NegoFails \/ NegoEnds
    \/ ReqdiffSkipped \/ ReqdiffConnects \/ ReqdiffFails \/ ReqdiffEnds
    \/ Check \/ Round

SyncNext ==
    \/ SyncStep \/ LocalPublish
    \/ \E w \in Intervals : IntervalOver(w)
    \/ StopSync \/ DestroySelector
    \/ \E r \in Relays : NetChanges(r)

SyncSpec == SyncInit /\ [][SyncNext]_syncvars

(* The task runs on unless it reads from a silent relay, its intervals go  *)
(* by, and a connection to a relay that is up succeeds, and its probe is   *)
(* answered with 200, some time.                                           *)
SyncFairSpec ==
    /\ SyncSpec
    /\ WF_syncvars(SyncStep)
    /\ \A w \in Intervals : SF_syncvars(IntervalOver(w))
    /\ SF_syncvars(NegoConnects)
    /\ \A r \in Relays : SF_syncvars(ProbeTurn /\ sync.relay = r /\ relays'[r].failures = 0)

(***************************************************************************)
(* Properties.                                                             *)
(***************************************************************************)
Places == {"start", "take", "probe", "nego", "nego_read", "reqdiff", "reqdiff_read",
           "check", "wait", "ended", "crash"}

(* Type invariant.                                                         *)
SyncTypeOK ==
    /\ net \in [Relays -> {"up", "down", "silent"}]
    /\ relays \in [Relays -> [alive : BOOLEAN, failures : 0..MaxFailures]]
    /\ primary \in Relays \cup {None} /\ fallback \in Relays \cup {None}
    /\ lock \in BOOLEAN /\ running \in BOOLEAN /\ first \in BOOLEAN
    /\ local \in BOOLEAN
    /\ sync.at \in Places /\ sync.relay \in 0..(N + 1)
    /\ due \in [Intervals -> BOOLEAN]

Probed == ~first /\ sync.at # "probe"

(* After the first probes the selection is always one that can be used:    *)
(* primary and fallback are different living relays, there is a primary if *)
(* any relay lives and a fallback if two do, and none that failed          *)
(* MAX_FAILURES times counts as living, however probes and disconnects     *)
(* alternate, if no URL is seeded twice (and the types are kept).          *)
SelectionUsable ==
    /\ SyncTypeOK
    /\ Probed =>
        /\ (primary = None) <=> (AliveIn(relays) = {})
        /\ (fallback = None) <=> (Cardinality(AliveIn(relays)) < 2)
        /\ {primary, fallback} \ {None} \subseteq AliveIn(relays)
        /\ primary # None => primary # fallback
        /\ \A r \in AliveIn(relays) : relays[r].failures < MaxFailures

OnlyUp(r) == net[r] = "up" /\ \A s \in Relays \ {r} : net[s] = "down"

(* If from some time on only one relay is there, and stays, the task finds *)
(* it, whatever its failures before, and goes on connecting to it.         *)
FindsTheRelay ==
    \A r \in Relays :
        <>[](OnlyUp(r) /\ running /\ local) => []<>(sync.at = "nego_read" /\ sync.relay = r)
=============================================================================
