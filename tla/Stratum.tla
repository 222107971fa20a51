------------------------------- MODULE Stratum -------------------------------
(***************************************************************************)
(* Mining: the client of the pool (stratum_client.c), the proxy that       *)
(* serves the miners behind the gateway (tollgate_core_stratum_proxy.c),   *)
(* the gateway's own miner (sw_miner.c), shares posted to the API          *)
(* (tollgate_api.c) and the table of mining clients                        *)
(* (tollgate_core_mining.c), all as start_services leaves them: nothing    *)
(* ever stops them.                                                        *)
(*                                                                         *)
(* Five tasks share the current job and the transport to the pool without  *)
(* a lock.  The proxy serves one miner at a time, the others wait in the   *)
(* listen queue.  The pool and the miners are external.  Job ids repeat.   *)
(* The client loses the buffer of a line that does not come or does not    *)
(* parse; of the heap, only that loss is followed.                         *)
(***************************************************************************)
EXTENDS Integers, Sequences, FiniteSets, SequencesExt

CONSTANTS
    Miners,      \* miners, by address
    Own,         \* the address, 0, under which sw_miner.c counts
    MaxMiners,   \* TOLLGATE_PROXY_MAX_MINERS
    NJobs,       \* bound: job ids told apart
    Heap,        \* bound: lines the heap has room for, at the start
    MaxClients   \* MINING_MAX_CLIENTS

Nobody == "nobody"

ASSUME StratumAssumption ==
    /\ IsFiniteSet(Miners) /\ Own \notin Miners /\ Nobody \notin Miners
    /\ MaxMiners \in Nat \ {0}
    /\ {NJobs, Heap, MaxClients} \subseteq Nat \ {0}

NoJob == 0
Slots == 1..MaxMiners
Jobs == 1..NJobs

VARIABLES
    pool,       \* external: the pool can be reached
    cli,        \* the client's task: connect, read, tell
    tp,         \* s_transport is there (and s_state.connected)
    opened,     \* transports open, lost ones included
    job,        \* s_current_job
    heap,       \* the lines the heap has room for now
    queue,      \* connections not yet accepted
    server,     \* the proxy's task: where, serving whom, which job it looked at
    slots,      \* s_miners: fd (as its miner) and authorized
    active,     \* s_stats.active_miners
    unsettled,  \* s_stats.total_shares - total_accepted - total_rejected
    told,       \* external: the last job each miner was told
    clients     \* s_clients: has the last share of an address been recent

client == <<cli, tp, opened, job, heap>>
proxy  == <<queue, server, slots, active, unsettled>>
stratumVars == <<pool, cli, tp, opened, job, heap, queue, server, slots, active,
                 unsettled, told, clients>>

Idle == [at |-> "select", who |-> Nobody, job |-> NoJob]
Free == [miner |-> Nobody, authorized |-> FALSE]

(***************************************************************************)
(* tollgate_core_mining.c                                                  *)
(***************************************************************************)

(* tollgate_core_mining_get_or_create_client: a new address takes the next *)
(* entry or, when there is none, one without a share for twice the window; *)
(* else it gets none.  update_hashrate then makes its entry recent.        *)
Countable(tab, ip) ==
    \/ ip \in DOMAIN tab
    \/ Cardinality(DOMAIN tab) < MaxClients
    \/ \E o \in DOMAIN tab : ~tab[o]

Counted(tab, ip) ==
    LET left == IF ip \in DOMAIN tab \/ Cardinality(DOMAIN tab) < MaxClients THEN {DOMAIN tab}
                ELSE {DOMAIN tab \ {o} : o \in {a \in DOMAIN tab : ~tab[a]}}
    IN  IF ~Countable(tab, ip) THEN {tab}
        ELSE {[a \in L \cup {ip} |-> IF a = ip THEN TRUE ELSE tab[a]] : L \in left}

WindowOver(ip) ==
    /\ ip \in DOMAIN clients /\ clients[ip]
    /\ clients' = [clients EXCEPT ![ip] = FALSE]
    /\ UNCHANGED <<pool, client, proxy, told>>

(***************************************************************************)
(* stratum_client_task.  A connection that fails is tried again.  With no  *)
(* room for a line the task waits, connected, and does not read.           *)
(***************************************************************************)

(* Mutant of Connect: a client that has a job does not connect again.      *)
ConnectJobless ==
    /\ cli.at = "connect" /\ pool /\ job = NoJob
    /\ tp' = TRUE
    /\ opened' = IF tp THEN opened ELSE opened + 1
    /\ cli' = [cli EXCEPT !.at = "read"]
    /\ UNCHANGED <<pool, job, heap, proxy, told, clients>>

(* stratum_connect, send_subscribe and send_authorize.                     *)
Connect ==
    /\ cli.at = "connect" /\ pool
    /\ tp' = TRUE
    /\ opened' = IF tp THEN opened ELSE opened + 1
    /\ cli' = [cli EXCEPT !.at = "read"]
    /\ UNCHANGED <<pool, job, heap, proxy, told, clients>>

(* The task has a buffer and is in read_line.                              *)
Reads == cli.at = "read" /\ heap > 0

(* handle_mining_notify: tollgate_core_stratum_parse_notify, then set_job  *)
(* writes the job and tells the miners of it.                              *)
Notify(j) ==
    /\ Reads /\ tp /\ pool
    /\ job' = j
    /\ cli' = [at |-> "tell", job |-> j]
    /\ UNCHANGED <<pool, tp, opened, heap, proxy, told, clients>>

(* Mutant of Hearers: those that know a job are left out.                  *)
HearersNew == {m \in Miners : \E s \in Slots : slots[s].miner = m /\ slots[s].authorized
                                               /\ told[m] = NoJob}

(* broadcast_to_miners.                                                    *)
Hearers == {m \in Miners : \E s \in Slots : slots[s].miner = m /\ slots[s].authorized}

(* Each send() that does not wait may fail, and the result is ignored.     *)
Tell ==
    /\ cli.at = "tell"
    /\ \E lost \in SUBSET Hearers :
          told' = [m \in Miners |-> IF m \in Hearers \ lost THEN cli.job ELSE told[m]]
    /\ cli' = [at |-> "read", job |-> NoJob]
    /\ UNCHANGED <<pool, tp, opened, job, heap, proxy, clients>>

(* A line that does not parse: the buffer is not freed.                    *)
BadLine ==
    /\ Reads /\ tp /\ pool
    /\ heap' = heap - 1
    /\ UNCHANGED <<pool, cli, tp, opened, job, proxy, told, clients>>

(* read_line fails: the pool is gone, or has said nothing for 5 seconds.   *)
(* Again the buffer is not freed.                                          *)
Lost ==
    /\ Reads
    /\ tp' = FALSE
    /\ opened' = opened - (IF tp THEN 1 ELSE 0)
    /\ cli' = [cli EXCEPT !.at = "connect"]
    /\ heap' = heap - 1
    /\ UNCHANGED <<pool, job, proxy, told, clients>>

(***************************************************************************)
(* proxy_server_task.                                                      *)
(***************************************************************************)
Served(m) == server.who = m
FreeSlots == {s \in Slots : slots[s].miner = Nobody}
SlotOf(m) == CHOOSE s \in Slots : slots[s].miner = m

(* Mutant of Accept: the newest connection first.                          *)
AcceptNewest ==
    /\ server.at = "select" /\ queue # <<>>
    /\ \E s \in FreeSlots :
          /\ \A o \in FreeSlots : s <= o
          /\ slots' = [slots EXCEPT ![s] = [miner |-> Last(queue), authorized |-> FALSE]]
          /\ server' = [at |-> "recv", who |-> Last(queue), job |-> NoJob]
          /\ active' = active + 1
    /\ queue' = Front(queue)
    /\ UNCHANGED <<pool, client, unsettled, told, clients>>

(* accept and register_miner, which finds a slot: one miner is served at a *)
(* time.                                                                   *)
Accept ==
    /\ server.at = "select" /\ queue # <<>>
    /\ \E s \in FreeSlots :
          /\ \A o \in FreeSlots : s <= o
          /\ slots' = [slots EXCEPT ![s] = [miner |-> Head(queue), authorized |-> FALSE]]
          /\ server' = [at |-> "recv", who |-> Head(queue), job |-> NoJob]
          /\ active' = active + 1
    /\ queue' = Tail(queue)
    /\ UNCHANGED <<pool, client, unsettled, told, clients>>

(* handle_line: mining.subscribe is answered with the job it looked at.    *)
MiningSubscribe ==
    /\ server.at = "recv"
    /\ server' = [server EXCEPT !.at = "answer", !.job = job]
    /\ UNCHANGED <<pool, client, queue, slots, active, unsettled, told, clients>>

SubscribeAnswer ==
    /\ server.at = "answer"
    /\ told' = [told EXCEPT ![server.who] = IF server.job = NoJob THEN @ ELSE server.job]
    /\ server' = [server EXCEPT !.at = "recv", !.job = NoJob]
    /\ UNCHANGED <<pool, client, queue, slots, active, unsettled, clients>>

(* mining.authorize                                                        *)
Authorize ==
    /\ server.at = "recv"
    /\ slots' = [slots EXCEPT ![SlotOf(server.who)].authorized = TRUE]
    /\ UNCHANGED <<pool, client, queue, server, active, unsettled, told, clients>>

(* mining.submit: without a job, or for another, it is rejected.           *)
Submit(j) ==
    /\ server.at = "recv"
    /\ IF job = NoJob \/ job # j THEN UNCHANGED <<server, unsettled>>
       ELSE /\ unsettled' = unsettled + 1
            /\ server' = [server EXCEPT !.at = "verdict", !.job = j]
    /\ UNCHANGED <<pool, client, queue, slots, active, told, clients>>

(* build_header, check_pow: the header is that of the job there is by now. *)
(* Either verdict is possible for the share's own job, and both count for  *)
(* the miner's hashrate.  No accepted share is passed on: nobody sets the  *)
(* share callback.                                                         *)
Verdict ==
    /\ server.at = "verdict"
    /\ unsettled' = unsettled - 1
    /\ clients' \in Counted(clients, server.who)
    /\ server' = [server EXCEPT !.at = "recv", !.job = NoJob]
    /\ UNCHANGED <<pool, client, queue, slots, active, told>>

(* recv ends: the miner has gone, or has said nothing for 30 seconds.      *)
RecvEnds ==
    /\ server.at = "recv"
    /\ server' = [server EXCEPT !.at = "closed"]
    /\ told' = [told EXCEPT ![server.who] = NoJob]
    /\ UNCHANGED <<pool, client, queue, slots, active, unsettled, clients>>

(* Mutant of Unregister: only authorized miners.                           *)
UnregisterAuthorized ==
    /\ server.at = "closed"
    /\ slots' = [s \in Slots |-> IF slots[s].miner = server.who /\ slots[s].authorized
                                 THEN Free ELSE slots[s]]
    /\ active' = active - 1
    /\ server' = Idle
    /\ UNCHANGED <<pool, client, queue, unsettled, told, clients>>

(* unregister_miner, after the descriptor is closed.                       *)
Unregister ==
    /\ server.at = "closed"
    /\ slots' = [s \in Slots |-> IF slots[s].miner = server.who THEN Free ELSE slots[s]]
    /\ active' = active - 1
    /\ server' = Idle
    /\ UNCHANGED <<pool, client, queue, unsettled, told, clients>>

(***************************************************************************)
(* The gateway's own miner copies the job and finds a share at once: the   *)
(* pool's target is 0xFF throughout.  It is sent for the job copied, and   *)
(* counted whether or not there is a transport.                            *)
(***************************************************************************)
SwShare ==
    /\ job # NoJob
    /\ clients' \in Counted(clients, Own)
    /\ UNCHANGED <<pool, client, proxy, told>>

(***************************************************************************)
(* POST /mining/share: refused unless for the current job, then passed on  *)
(* by stratum_client_submit_share.  That looks at the transport and reads  *)
(* it again to write, so a write may fail at any time.  A share not        *)
(* written counts as rejected and credits nothing.                         *)
(***************************************************************************)
HttpRefused(m) ==
    /\ job # NoJob
    /\ clients' \in Counted(clients, m)
    /\ UNCHANGED <<pool, client, proxy, told>>

(* Written: it is credited, with mining's payment method, by the hashrate  *)
(* of the client's entry.                                                  *)
HttpCredited(m) ==
    /\ job # NoJob /\ tp
    /\ Countable(clients, m)
    /\ clients' \in Counted(clients, m)
    /\ UNCHANGED <<pool, client, proxy, told>>

(* Written, and the table has no room: stats is NULL, its hashrate is read *)
(* all the same, and the device starts again.                              *)
HttpPanics(m) ==
    /\ job # NoJob /\ tp
    /\ ~Countable(clients, m)
    /\ cli' = [at |-> "connect", job |-> NoJob]
    /\ tp' = FALSE /\ opened' = 0 /\ job' = NoJob /\ heap' = Heap
    /\ queue' = <<>> /\ server' = Idle
    /\ slots' = [s \in Slots |-> Free]
    /\ active' = 0 /\ unsettled' = 0
    /\ told' = [x \in Miners |-> NoJob]
    /\ clients' = <<>>
    /\ UNCHANGED pool

(***************************************************************************)
(* The pool and the miners.                                                *)
(***************************************************************************)
PoolChanges ==
    /\ cli.at # "tell"
    /\ pool' = ~pool
    /\ UNCHANGED <<client, proxy, told, clients>>

MinerConnects(m) ==
    /\ ~Served(m) /\ ~Contains(queue, m)
    /\ queue' = Append(queue, m)
    /\ UNCHANGED <<pool, client, server, slots, active, unsettled, told, clients>>

(* tollgate_core_mining_init, tollgate_core_stratum_proxy_init,            *)
(* stratum_client_init and stratum_client_start, sw_miner_start.           *)
StratumInit ==
    /\ pool \in BOOLEAN
    /\ cli = [at |-> "connect", job |-> NoJob]
    /\ tp = FALSE /\ opened = 0 /\ job = NoJob /\ heap = Heap
    /\ queue = <<>> /\ server = Idle
    /\ slots = [s \in Slots |-> Free]
    /\ active = 0 /\ unsettled = 0
    /\ told = [m \in Miners |-> NoJob]
    /\ clients = <<>>

StratumNext ==
    \/ Connect \/ (\E j \in Jobs : Notify(j)) \/ Tell \/ BadLine \/ Lost
    \/ Accept \/ MiningSubscribe \/ SubscribeAnswer \/ Authorize
    \/ (\E j \in Jobs : Submit(j)) \/ Verdict \/ RecvEnds \/ Unregister
    \/ SwShare
    \/ (\E m \in Miners : HttpRefused(m) \/ HttpCredited(m) \/ HttpPanics(m))
    \/ (\E ip \in Miners \cup {Own} : WindowOver(ip))
    \/ PoolChanges \/ (\E m \in Miners : MinerConnects(m))

StratumSpec == StratumInit /\ [][StratumNext]_stratumVars

Told == Tell /\ \A m \in Hearers : told'[m] = cli.job

(* The tasks run on; whether a miner goes on talking is its own affair.  A *)
(* pool that can be reached sends a job some time, and a send to a miner   *)
(* does not fail every time.                                               *)
StratumFairSpec ==
    /\ StratumSpec
    /\ WF_stratumVars(Connect) /\ WF_stratumVars(Lost) /\ WF_stratumVars(Tell)
    /\ SF_stratumVars(Told) /\ SF_stratumVars(\E j \in Jobs : Notify(j))
    /\ WF_stratumVars(Accept) /\ WF_stratumVars(SubscribeAnswer)
    /\ WF_stratumVars(Verdict) /\ WF_stratumVars(Unregister)

(***************************************************************************)
(* Properties.                                                             *)
(***************************************************************************)

(* Type invariant; the task has one transport open, or none and knows it.  *)
StratumTypeOK ==
    /\ pool \in BOOLEAN /\ tp \in BOOLEAN /\ opened = IF tp THEN 1 ELSE 0
    /\ cli \in [at : {"connect", "read", "tell"}, job : 0..NJobs]
    /\ job \in 0..NJobs /\ heap \in 0..Heap
    /\ queue \in BoundedSeq(Miners, Cardinality(Miners))
    /\ server \in [at : {"select", "recv", "answer", "verdict", "closed"},
                   who : Miners \cup {Nobody}, job : 0..NJobs]
    /\ slots \in [Slots -> [miner : Miners \cup {Nobody}, authorized : BOOLEAN]]
    /\ active \in 0..MaxMiners /\ unsettled \in 0..1
    /\ told \in [Miners -> 0..NJobs]
    /\ DOMAIN clients \subseteq Miners \cup {Own} /\ Cardinality(DOMAIN clients) <= MaxClients

(* The proxy's books are true.  No slot is lost: while it waits for a      *)
(* connection none is in use and none is counted, and while it serves a    *)
(* miner that one is.  Every share is accepted or rejected: between two    *)
(* lines the statistics add up.                                            *)
BooksTrue ==
    LET used == {s \in Slots : slots[s].miner # Nobody}
    IN  /\ StratumTypeOK
        /\ active = Cardinality(used)
        /\ IF server.at = "select" THEN used = {}
           ELSE Cardinality(used) = 1 /\ \A s \in used : slots[s].miner = server.who
        /\ unsettled = IF server.at = "verdict" THEN 1 ELSE 0

(* If the proxy comes back to its queue again and again, every miner in it *)
(* is served.                                                              *)
QueueServed ==
    []<>(server.at = "select") => \A m \in Miners : Contains(queue, m) ~> ~Contains(queue, m)

(* An authorized miner that stays is told of new jobs, whichever it missed *)
(* or was sent too late.                                                   *)
HearsJobs ==
    \A m \in Miners :
        <>[](Served(m) /\ \E s \in Slots : slots[s] = [miner |-> m, authorized |-> TRUE])
        /\ []<>(cli.at = "tell")
        => []<>(told[m] = job)

(* A pool that can be reached in the end goes on giving jobs, whatever     *)
(* connections were lost before, as long as the heap has room for a line:  *)
(* each loss has taken some for good.                                      *)
PoolAgain == <>[](pool /\ heap > 0) => []<>(cli.at = "tell")
=============================================================================
