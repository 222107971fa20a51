------------------------------ MODULE Control ------------------------------
(***************************************************************************)
(* The owner's remote control and the configuration it works on: the       *)
(* ContextVM server that listens for requests at a relay (cvm_server.c),   *)
(* the tools it runs (mcp_handler.c), config.json and its only writer      *)
(* (config.c), and the boot (tollgate_main.c).                             *)
(*                                                                         *)
(* The relay keeps the requests and sends them to every new subscription,  *)
(* in any order; a frame may be lost, because a read is taken for one      *)
(* frame.  A request is the owner's if its pubkey field says so: nothing   *)
(* looks at the signature, so anyone may publish one.  The wallet's tools  *)
(* are in module Wallet.                                                   *)
(***************************************************************************)
EXTENDS Integers, FiniteSets

CONSTANTS
    Requests,   \* records: owner (the pubkey field names it), tool, price, metric
    Listeners,  \* bound: cvm_relay tasks that exist at once
    MaxStored,  \* bound: requests that are published
    MaxNets     \* TOLLGATE_MAX_WIFI_NETWORKS

ASSUME ControlAssumption ==
    /\ Requests \subseteq [owner : BOOLEAN, tool : STRING, price : Nat, metric : STRING]
    /\ Listeners \subseteq Nat
    /\ {MaxStored, MaxNets} \subseteq Nat \ {0}

VARIABLES
    disk,      \* config.json is missing, torn or whole
    file,      \* what it says, or will when it is whole
    writing,   \* it is open for writing
    cfg,       \* g_config
    booted,    \* tollgate_config_init has returned ESP_OK
    running,   \* g_running
    listener,  \* each task: none, connecting, up, or hung on a dead connection
    wire,      \* what the relay is sending each of them
    stored,    \* the requests the relay has
    starved,   \* history: since its start the server has lost a task for want of memory
    cut,       \* history: power was lost, or a write failed, while the file was written
    unsaved    \* history: config.json could not be opened for writing

config  == <<disk, file, writing, cfg, booted, cut, unsaved>>
cvm     == <<running, listener, wire, stored, starved>>
control == <<disk, file, writing, cfg, booted, running, listener, wire, stored, starved,
             cut, unsaved>>

Up == {l \in Listeners : listener[l] = "up"}

(***************************************************************************)
(* config.json.                                                            *)
(***************************************************************************)

(* The file the firmware generates, and one with settings of its own.      *)
Factory == [nsec |-> TRUE, nets |-> 1, price |-> 1, metric |-> "milliseconds",
            mints |-> "own", payout |-> "absent"]
Operators == [Factory EXCEPT !.payout = "own"]

(* tollgate_config_init over the defaults: what is absent is the default.  *)
Loaded(f) == [f EXCEPT !.mints  = IF @ = "absent" THEN "mint_url" ELSE @,
                       !.payout = IF @ = "absent" THEN "default" ELSE @]

(* A boot reads the file; without one it writes the factory's first.  One  *)
(* that does not parse, or has no nsec, ends the boot in a restart.        *)
Boot ==
    /\ ~booted /\ disk = "whole" /\ file.nsec
    /\ booted' = TRUE
    /\ cfg' = Loaded(file)
    /\ UNCHANGED <<disk, file, writing, cut, unsaved, cvm>>

BootGenerates ==
    /\ ~booted /\ disk = "missing"
    /\ disk' = "torn" /\ file' = Factory /\ writing' = TRUE
    /\ UNCHANGED <<cfg, booted, cut, unsaved, cvm>>

(* Mutant of Saved: the nsec is left out.                                  *)
SavedWithoutNsec(c) == [c EXCEPT !.nsec = FALSE, !.mints = "absent", !.payout = "absent"]

(* What tollgate_config_add_wifi writes: not the accepted mints, not the   *)
(* payout.                                                                 *)
Saved(c) == [c EXCEPT !.mints = "absent", !.payout = "absent"]

AddedNetwork == [cfg EXCEPT !.nets = @ + 1]

(* tollgate_config_add_wifi: fopen for writing empties the file ...        *)
AddWifi ==
    /\ booted /\ ~writing /\ cfg.nets < MaxNets
    /\ cfg' = AddedNetwork
    /\ disk' = "torn" /\ file' = Saved(AddedNetwork) /\ writing' = TRUE
    /\ UNCHANGED <<booted, cut, unsaved, cvm>>

(* ... or fails, and the page reports success all the same.                *)
AddWifiUnsaved ==
    /\ booted /\ ~writing /\ cfg.nets < MaxNets
    /\ cfg' = AddedNetwork
    /\ unsaved' = TRUE
    /\ UNCHANGED <<disk, file, writing, booted, cut, cvm>>

WriteEnds ==
    /\ writing
    /\ disk' = "whole" /\ writing' = FALSE
    /\ UNCHANGED <<file, cfg, booted, cut, unsaved, cvm>>

(* fputs or fclose fails or writes less: nobody looks.                     *)
WriteFails ==
    /\ writing
    /\ writing' = FALSE /\ cut' = TRUE
    /\ UNCHANGED <<disk, file, cfg, booted, unsaved, cvm>>

(***************************************************************************)
(* The tools.                                                              *)
(***************************************************************************)
SetConfig(r) == [cfg EXCEPT !.price = r.price, !.metric = r.metric]

SetPrice(r) == IF r.price > 0 THEN [cfg EXCEPT !.price = r.price] ELSE cfg

SetMetric(r) ==
    IF r.metric \in {"bytes", "milliseconds"} THEN [cfg EXCEPT !.metric = r.metric] ELSE cfg

SetPayout == [cfg EXCEPT !.payout = "remote"]

(* mcp_dispatch; the other tools read, or call the wallet.                 *)
Dispatch(r) == CASE r.tool = "set_config" -> SetConfig(r)
                 [] r.tool = "set_price"  -> SetPrice(r)
                 [] r.tool = "set_metric" -> SetMetric(r)
                 [] r.tool = "set_payout" -> SetPayout
                 [] OTHER -> cfg

(***************************************************************************)
(* The ContextVM server.                                                   *)
(***************************************************************************)

(* cvm_server_start creates a task, also when one of an earlier start has  *)
(* not noticed cvm_server_stop yet.                                        *)
CvmStart(l) ==
    /\ booted /\ ~running /\ listener[l] = "none"
    /\ \A k \in Listeners : k < l => listener[k] # "none"
    /\ running' = TRUE /\ starved' = FALSE
    /\ listener' = [listener EXCEPT ![l] = "connecting"]
    /\ UNCHANGED <<config, wire, stored>>

CvmStop ==
    /\ running
    /\ running' = FALSE
    /\ UNCHANGED <<config, listener, wire, stored, starved>>

(* ws_connect, subscribe_to_relay, the announcements and the buffer.       *)
Subscribe(l) ==
    /\ listener[l] = "connecting" /\ running
    /\ listener' = [listener EXCEPT ![l] = "up"]
    /\ wire' = [wire EXCEPT ![l] = stored]
    /\ UNCHANGED <<config, running, stored, starved>>

(* There is no memory for the buffer: the task ends, g_running stays.      *)
NoMemory(l) ==
    /\ listener[l] = "connecting" /\ running
    /\ listener' = [listener EXCEPT ![l] = "none"]
    /\ starved' = TRUE
    /\ UNCHANGED <<config, running, wire, stored>>

(* The task sees that it is to stop.                                       *)
Quit(l) ==
    /\ listener[l] # "none" /\ ~running
    /\ listener' = [listener EXCEPT ![l] = "none"]
    /\ wire' = [wire EXCEPT ![l] = {}]
    /\ UNCHANGED <<config, running, stored, starved>>

(* Mutant of Closed: the task ends with its connection.                    *)
ClosedForGood(l) ==
    /\ listener[l] = "up"
    /\ listener' = [listener EXCEPT ![l] = "none"]
    /\ wire' = [wire EXCEPT ![l] = {}]
    /\ UNCHANGED <<config, running, stored, starved>>

(* The relay closes the connection: rlen is 0, or a close frame came.      *)
Closed(l) ==
    /\ listener[l] = "up"
    /\ listener' = [listener EXCEPT ![l] = "connecting"]
    /\ wire' = [wire EXCEPT ![l] = {}]
    /\ UNCHANGED <<config, running, stored, starved>>

(* The connection breaks: rlen is negative, and will always be.            *)
Breaks(l) ==
    /\ listener[l] = "up"
    /\ listener' = [listener EXCEPT ![l] = "hung"]
    /\ wire' = [wire EXCEPT ![l] = {}]
    /\ UNCHANGED <<config, running, stored, starved>>

(* process_relay_message and handle_mcp_message: a request in the owner's  *)
(* name is executed, each time it comes, and answered; any other is        *)
(* dropped.                                                                *)
Handle(l, r) ==
    /\ listener[l] = "up" /\ r \in wire[l]
    /\ wire' = [wire EXCEPT ![l] = @ \ {r}]
    /\ cfg' = IF r.owner THEN Dispatch(r) ELSE cfg
    /\ UNCHANGED <<disk, file, writing, booted, cut, unsaved, running, listener, stored, starved>>

(* Two frames in one read, or one in two: parse_ws_text_frame drops it.    *)
FrameLost(l, r) ==
    /\ listener[l] = "up" /\ r \in wire[l]
    /\ wire' = [wire EXCEPT ![l] = @ \ {r}]
    /\ UNCHANGED <<config, running, listener, stored, starved>>

(* External: somebody publishes a request.                                 *)
Publish(r) ==
    /\ r \notin stored /\ Cardinality(stored) < MaxStored
    /\ stored' = stored \cup {r}
    /\ wire' = [l \in Listeners |-> IF l \in Up THEN wire[l] \cup {r} ELSE wire[l]]
    /\ UNCHANGED <<config, running, listener, starved>>

PowerLoss ==
    /\ booted \/ writing
    /\ booted' = FALSE /\ cfg' = Loaded(Factory)
    /\ cut' = (cut \/ writing) /\ writing' = FALSE
    /\ running' = FALSE /\ starved' = FALSE
    /\ listener' = [l \in Listeners |-> "none"] /\ wire' = [l \in Listeners |-> {}]
    /\ UNCHANGED <<disk, file, unsaved, stored>>

Init ==
    /\ disk \in {"missing", "whole"} /\ writing = FALSE
    /\ file \in IF disk = "missing" THEN {Factory} ELSE {Factory, Operators}
    /\ cfg = Loaded(Factory) /\ booted = FALSE
    /\ running = FALSE
    /\ listener = [l \in Listeners |-> "none"] /\ wire = [l \in Listeners |-> {}]
    /\ stored = {} /\ starved = FALSE /\ cut = FALSE /\ unsaved = FALSE

Next ==
    \/ Boot \/ BootGenerates \/ AddWifi \/ AddWifiUnsaved \/ WriteEnds \/ WriteFails \/ PowerLoss
    \/ CvmStop
    \/ \E l \in Listeners :
         \/ CvmStart(l) \/ Subscribe(l) \/ NoMemory(l) \/ Quit(l) \/ Closed(l) \/ Breaks(l)
         \/ \E r \in Requests : Handle(l, r) \/ FrameLost(l, r)
    \/ \E r \in Requests : Publish(r)

Spec == Init /\ [][Next]_control

(* The tasks run, and a connection to the relay succeeds some time.        *)
Fairness ==
    /\ \A l \in Listeners : WF_control(Subscribe(l)) /\ WF_control(Quit(l))
    /\ WF_control(WriteEnds) /\ WF_control(Boot)

(***************************************************************************)
(* Properties.                                                             *)
(***************************************************************************)
Files == [nsec : BOOLEAN, nets : 0..MaxNets, price : Nat,
          metric : {"milliseconds"} \cup {r.metric : r \in Requests},
          mints : {"own", "mint_url", "absent"}, payout : {"own", "default", "remote", "absent"}]

(* Type invariant.                                                         *)
TypeOK ==
    /\ disk \in {"missing", "torn", "whole"} /\ file \in Files /\ cfg \in Files
    /\ writing \in BOOLEAN
    /\ booted \in BOOLEAN /\ running \in BOOLEAN
    /\ listener \in [Listeners -> {"none", "connecting", "up", "hung"}]
    /\ wire \in [Listeners -> SUBSET Requests] /\ stored \subseteq Requests
    /\ starved \in BOOLEAN /\ cut \in BOOLEAN /\ unsaved \in BOOLEAN

(* Unless power is lost, or a write fails, while config.json is written    *)
(* the gateway can boot from it, with its own key, and the next boot finds *)
(* the networks in use now (unless the file could not be opened).  And the *)
(* types are kept.                                                         *)
Durable ==
    /\ TypeOK
    /\ ~cut /\ ~writing => disk # "torn" /\ file.nsec
    /\ booted /\ ~writing /\ ~unsaved => file.nets = cfg.nets

(* A server that is meant to run listens again and again, however often    *)
(* relays closed its connections, if from some time on no task hangs on a  *)
(* dead connection and none has gone for want of memory since the server   *)
(* was started: a stop and a start heal both.                              *)
ListensAgain ==
    <>[](running /\ ~starved /\ \A l \in Listeners : listener[l] # "hung")
        => []<>(\E l \in Listeners : listener[l] = "up")
=============================================================================
