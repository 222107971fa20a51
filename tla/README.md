# TollGate ESP32: TLA+ models, checks and proofs

TollGate is firmware for an ESP32 that sells internet access over its own WiFi
access point. A client pays with Cashu ecash (or with mining shares), gets a
session of time or bytes, and while it has one a firewall lets it through and
the built-in DNS server resolves names for it. The ecash goes to an on-device
wallet; the device may itself be a paying client of another TollGate upstream.

This directory models the firmware's own logic: who is let through and for how
long, what becomes of the money, how the gateway finds and pays its own way to
the internet, how its owner controls it, mining, and the local Nostr relay. The
models are checked with TLC on small instances; the safety properties are also
proved with TLAPS, for every instance. Paths below are relative to
`src/`; `core` stands for `components/tollgate_core/src`.

## 1. Inventory

| Component | State | Operations | Hard behaviours |
|---|---|---|---|
| Session manager `core/tollgate_core_session.c` | `s_sessions` (10 slots), `s_session_count` | create, create_bytes, extend, revoke, revoke_all, add_bytes, tick, init | no lock; slots reused without clearing; eviction when full; a tick counter that wraps; a metric that changes under a session |
| Firewall `core/tollgate_core_firewall.c` | `s_clients` + `s_client_count` | grant, revoke, revoke_all, init, is_allowed (called for every packet) | swap-remove arrays shared by four tasks without a lock, two of which grant and all of which revoke; full table |
| DNS server `core/tollgate_core_dns.c` | `s_auth_list`, two server tasks, `s_dns_running` | set_authenticated, start, stop | list mirrors the firewall's, cleared at other times; tasks may outlive a stop |
| Payment API `main/tollgate_api.c`, `core/tollgate_core_cashu.c` | none of its own | POST `/` (pay), mining share, wallet send/swap, read-only endpoints | session opened before the token is swapped; a spend check that may fail and asks for the wrong thing |
| Captive portal `main/captive_portal.c` | `s_server` | `/grant_access`, `/reset_authentication`, WiFi setup, pages | grants without a session |
| Token submission `main/tls_worker.c`, `main/mint_health.c` | a queue of tokens, the health task | submit, drain, poll, probe | bounded queue; submitters that fall back to receiving themselves |
| Wallet `components/nucula_lib/nucula_wallet.cpp` | proofs per mint, keysets, a mutex | receive, send, swap_all, melt, init | a lock whose timeout is ignored; lazy keysets with backoff under the lock; a swap whose answer is lost; saves that fail or come too late |
| Mint health `core/tollgate_core_mint_health.c`, `main/mint_health.c` | `reachable` and consecutive successes of each mint | initial and periodic probes, `get_all` for discovery | probes for seconds under a mutex that discovery waits one second for; the first round and the later ones count differently |
| Service lifecycle `main/tollgate_main.c` | `s_services_running`, `s_services_mutex`, `s_svc_task`, `s_retry_count` | WiFi and IP events, start_services, stop_services, main loop | events race the main loop; a mutex held for seconds while the event loop wants it; one task starts the services once in the life of the firmware |
| Upstream client `main/tollgate_client.c`, `core/tollgate_core_client.c` | `s_state`, gateway, allotment | connected, disconnected, tick, detect, pay, renew | blocking payments in two tasks that share `s_state` |
| Payout `main/lightning_payout.c` | recipients, last check | tick | unsigned arithmetic, shares that fail one by one |
| Mining `core/tollgate_core_mining.c`, `core/tollgate_core_stratum_proxy.c`, `main/stratum_client.c`, `main/sw_miner.c` | the current job, the transport to the pool, miners' slots, mining clients, statistics | connect, notify, subscribe, authorize, submit, HTTP share | five tasks without a lock; one server task for all miners; tables at their limit; a buffer that is not freed; a job replaced while a share is checked |
| Local Nostr relay `components/wisp_relay`, `main/local_relay.c` | connections, subscriptions, rate limits; index, files and NVS of the store | EVENT, REQ, CLOSE, deletion, fan-out; save, delete, purge, compact, load | a second task that stores; sends done later than planned; ids cut when kept and whole when looked up; memory read after it was freed; power loss between two writes; a clock that jumps |
| Relay synchronisation `main/sync_manager.c`, `main/relay_selector.c` | relays with their failures, primary and fallback, intervals | probe, select, negentropy and diff rounds, stop | failures reported between probes; a relay that says nothing; a selector destroyed under its user |
| Remote control and configuration `main/cvm_server.c`, `main/mcp_handler.c`, `main/config.c` | `config.json`, `g_config`, the listening tasks | connect, subscribe, tools, add_wifi, load, boot | requests sent again at each connection and taken for the owner's by the key they name; tasks that end for want of memory; a file written in place |
| Service discovery and market, identity, balloon share relay, user interface, stand-alone miner | tables of what was last heard | encode, sign, draw | device I/O, cryptography |

How they interact. `api_post_payment` runs in the API server's task: it decodes
a token, asks the mint whether it is spent, computes the allotment, calls
`tollgate_core_session_create`, which calls the firewall, which calls the DNS
list; it answers the client; then it submits the token to the wallet queue,
which the health task empties into `nucula_wallet_receive`. The main loop calls
`tollgate_core_tick` once a second, which revokes expired sessions through the
same chain. The portal's server task grants and resets behind the session
manager's back. The WiFi events start and stop the services and with them clear
one or the other table. Nothing in this chain takes a lock.

Behind it run the tasks of the other parts: the event loop and the main loop
share the upstream client's state; the health task probes the mints and empties
the wallet queue; the API, the main loop, the event loop, the health task and the
ContextVM call the wallet, which has a mutex; the ContextVM task executes the
owner's requests on the configuration the others read; the stratum client, the proxy, the gateway's own
miner and the API share the current job and the table of mining clients; the
relay's HTTP task and the sync task store into one event store.

What makes it correct: access follows sessions (nobody in without one, nobody
with one shut out), the three tables agree, sessions end and do not end early,
every token paid with is handed to the wallet;
no proof is lost or handed out twice; the gateway comes back after every loss of
its network, pool, relay or power; and what is stored can be found again.

## 2. Modules

| Module | Models | Notes |
|---|---|---|
| `Firewall` | the two access lists as sets, one operator per operation | constants and operators, no variables |
| `Gate` | session table, both lists, the API's, portal's, main loop's and lifecycle's handlers | one step per handler; EXTENDS `Firewall` |
| `GateRace` | session table with the main loop and the API server preempted inside `check_expiry`, `revoke`, `create` and `create_bytes` | EXTENDS `Firewall`; lists whole |
| `AccessSpec` | what the firewall promises: two sets, four operations | abstract specification |
| `AccessList` | the arrays with their counts, swap-remove, the walk of `revoke_all` | implements `AccessSpec` |
| `AccessRace` | `fw_grant`, `fw_revoke` and `fw_revoke_all` preempted inside | |
| `Settlement` | a token from the request to the mint and the wallet; the queue, its task, start-up | |
| `Wallet` | `nucula_wallet.cpp` under several tasks, and the payout that calls it | |
| `Uplink` | WiFi station, networks, portal's WiFi pages, start and stop of the services, upstream client | |
| `Control` | ContextVM server, remote tools, `config.json`, boot | composed with `MintHealth` in `MCControl` |
| `MintHealth` | probes and what discovery offers | |
| `Stratum` | pool client, proxy, own miner, HTTP shares, mining clients | |
| `Relay` | the relay's server: connections, subscriptions, limits, handlers, fan-out | its store is a set |
| `RelayStore` | the relay's store: index, files, NVS, purge, compaction, power loss | the detail behind that set |
| `RelaySync` | relay selection and the sync task | |
| `GateRaceProofs`, `SettlementProofs`, `WalletProofs`, `RelayProofs` | theorems | each EXTENDS the module it is about |
| `GateProofs` | theorems about `Gate` and about `AccessRace` | |
| `AccessProofs` | theorems about `AccessList` and about `Uplink` | |
| `ControlProofs` | theorems about `Control`, `MintHealth` and `Stratum` | |
| `RelayStoreProofs` | theorems about `RelayStore` and about `RelaySync` | |
| `MCAccessRace`, `MCWallet`, `MCRelay` | symmetry sets, values of constants that are functions or records | |
| `MCControl`, `MCUplink` | `Control` beside `MintHealth`, `Uplink` beside `AccessList` | the two of a pair share no state |

Where a proof module is about more than one module, those share no state; the
second and third have their own names for what both define (`RaceInit`,
`RaceSpec`, `UplinkSpec`, `HealthSpec`, `StratumSpec`, `SyncSpec`, ...).

State and actions keep the code's names where they can: `sessions` is
`s_sessions`, `session_count` is `s_session_count`, `access.fw` and
`access.auth` are the firewall's and the DNS server's list. `PROJECT.json` maps
each definition to its lines.

`Gate`. A session slot is the code's record without the MAC address, which is
only displayed. `Create` is `tollgate_core_session_create` with its two ways,
`TopUp` (the client has a session: extend, do not touch the firewall) and `Open`
(evict if full, take the first free slot, grant); `Finished` is what the three
callers do to the returned session. 64-bit sums keep their width (`Word`,
`ToInt64`), the clock is the tick counter and wraps. A revoked slot keeps its
byte counts, as in the code, since the next owner may be judged by them.
`StartServices` is `tollgate_core_init` and the portal's start, `StopServices`
empties the firewall only. `free`, `carried` and `age` are history variables
used by properties alone.

`GateRace` and `AccessRace` take single calls apart at the points where a task
can be preempted: between the test and the use of a slot, between the calls of
one function, during a MAC lookup, and inside `++` and `--`.

`GateRace` has the main loop and the API server at the session table; its other
users (the portal's reset, `stop_services`) are left out. Of a session's time and
bytes only what is left is kept (`left`, `bytes`, `by_bytes`), and the metric may
be switched at any time. `create_bytes` makes its slot active, with no time and
with whatever bytes a former owner left there, before it sets the bytes
(`SetBytes`): the main loop may find such a half-made session expired (`hasty`).
`late` are the clients that were granted access when the main loop was already
giving up their slot, `evicted` says whether any session was evicted.

`AccessRace` has any tasks granting, revoking and revoking all, also about one
client at the same time. A history ends (`Sound`) where a removal begins during
another one, or where two grants have counted past the table: from there on the
code may lose a bystander's entry, take the count below zero, or read and write
outside `s_clients`, and nothing is claimed.

`Settlement`. Tokens are opaque; the mint is the set of those it has taken. A
spend check may fail; a swap may succeed, fail, or succeed with its answer
lost. `tollgate_core_cashu_check_proof_states` asks about SHA-256 of the secret
(`AskedAs`), the mint keeps a spent proof under `hash_to_curve` of it
(`KeptAs`), so that it answers and never knows what it is asked about. The
health task alternates between draining and polling the queue and probing,
during which nobody empties it.

`Wallet`. A proof is worth one, so that a set of proofs is an amount. `Ops` says
who calls what: the health task receives, the API receives, sends and swaps, the
main loop and the event loop pay upstream, the main loop pays out, the ContextVM
sends and melts. A call of `nucula_wallet_*` is a sequence of places: it waits
for the lock, fetches the keysets, selects and asks the mint, updates and saves,
and gives the lock back. `TimesOut` is the take that fails after ten seconds and
is not looked at: the call goes on, and its `Leave` gives a mutex it does not
have. The mint takes the proofs and answers, takes them without its answer
arriving, or refuses; `SendTooLarge` is the send whose token does not fit its
buffer after the swap; `SaveFails` leaves the NVS as it was; a restart leaves
what the NVS has. `spendable` is what the mint has signed and will take, which no
step of the gateway changes but through the mint, and `Lost` what nobody has any
more of it. `PayoutTick`, `PayoutOne` and `PayoutNone` are
`lightning_payout_tick`, with its unsigned arithmetic modulo `Width` and with any
factors, which the code does not validate. The names of proofs are reused once
nobody has them.

`Uplink`. The event loop handles queued events in order, and inside a handler it
may wait for the services' mutex (`StopServices`), for the upstream gateway
(`Detected`) and for a payment (`ConnectPays`); the main loop's tick is taken
apart at its usage query and its payment; the two tasks that run
`start_services` (at the first address, and the fallback at boot) hold the mutex
between `StartBegins` and `StartEnds`. `WifiConnect` and `WifiScan` are the
portal's pages. The radio and the upstream gateway are external: the set of
networks in reach changes at any time and a session only wanes.

`Control`. `config.json` is missing, torn or whole, and is written in two steps
(`fopen` empties it, `fclose` completes it) between which power may be lost, or
the write fail without anybody looking (`WriteFails`); its contents are a record
of the settings that the tools and the loader treat differently. The server
compares the key a request names with the owner's and checks no signature: a
request is the owner's if it says so. Requests stay at the relay and are sent to
every new subscription, in any order, and executed each time; frames may be
lost; a listener's connection may be closed, or break without being closed,
which its read does not tell from silence. Without memory for its buffer a
listener ends while `g_running` stays true (`NoMemory`, `starved`). A stop
followed by a start can leave two listeners. `MintHealth` has the health task's
probes in their order and `api_get_discovery`, which finds no mint while they
are under way; where it finds none it offers `mint_url` alone (`Offer`,
`Primary`). The two share no state; `MCControl` runs the second while the first
is quiet.

`Stratum`. The pool's client connects, reads and tells each new job to the
authorized miners. Its line buffer is not freed where a connection is lost or a
line does not parse: `heap` is how many more there is room for, and without room
the task waits, connected, and does not read. The proxy's one task accepts,
serves until the connection ends, and gives the slot up in a step after closing
the socket; a share is looked up against the job before its verdict is counted,
and the job may change in between. The table of mining clients is at its limit
within reach (`HttpPanics` is the request for which no entry can be had).

`Relay`. The server's task runs all handlers; `http` is what it has still to do
of the event it is handling, so that the sync task's `Publish` and the stop of
the server fall between storing, deleting, matching and sending. The sync task
hands over the subscription's id where the event should be, so that what it
stores is `Blank`. Subscription ids are kept cut to 64 characters (`Cut`) and
looked up whole. A filter has kinds, authors, since and until; the code reads
ids and tags of a filter, too, and does not match by them. `handle_event` passes
the author's key on after it has freed the parsed event, twice: what is read
there is any of `Authors` (`EventDeletes`, `EventMatched`). A deletion removes
its events one at a time. Queued sends are done by the server's task later
(`AsyncSend`) and look for the socket again. `asked`, `stray` and `due` are
history variables.

`RelayStore`. Each operation holds the engine's mutex; `op` is what its holder
has still to write, key by key, so that `PowerLoss` falls between any two
writes. `LoadIndex` at the next boot takes what the NVS then has. Compaction
moves the entries that are not deleted up in their order: `Compacted` is the set
of the sequences that do so, which has one member. The clock is at 1970 until
SNTP answers.

`RelaySync`. The selector's table with failures and liveness, primary and
fallback; the sync task's round as places (`probe`, `nego`, `reqdiff`, ...);
`StopSync` and `DestroySelector` are `stop_services`' calls, the second of which
may come while the task still uses the selector (place `crash`). The selector
finds its choice again by URL: the seeds are taken to be distinct, which nothing
in the code checks.

## 3. Runs

All runs pass but `settlement_spent`, which shows a disagreement of the code with
its documentation. A module's type invariant is a conjunct of one of its
invariants below; those of `Gate` and `AccessList` are proved instead. The
inductive invariants of section 4 were model-checked before they were proved.

| Run | States | What it shows |
|---|---|---|
| `gate` | 220 k | `CountIsActive`, `AccessIsOwed`, `AuthAgrees`, `PaidAccessKept`, `NoEarlyCutoff`, `SessionsEnd` under both metrics, metric switches, traffic, overflowing sums, eviction, restarts and wraps |
| `access_race` | 4.7 M | `BystanderKept`: grants in any number and a removal, preempted anywhere and also about one client, never cut off a client they are not about, and the count does not fall below zero |
| `gate_race` | 5.0 M | `OneSessionPerClient` in every interleaving; `AccessIsOwed`: in without a session is only who was granted access when the main loop had its new slot in hand, which takes an eviction or a half-made session |
| `settlement` | 24 k | `NothingLost`, `EverySubmissionEnds` |
| `settlement_spent` | | `OldTokenIsUseless` is violated: PLAN.md:669 has the mint's check catch double-spends after a successful receive; a token that was received passes the check and buys a session again |
| `wallet` | 2.7 M | `HandedOutOnce`, also with overlapping calls and failed saves; `Accounted`: without an overlap no step loses money but the ones it names, and no more than it says; `ReserveKept`: a payout takes what its balance is above the reserve, plus rounding and fees, and no more |
| `uplink` | 0.39 M | `NotStuck`: nothing is left "paying" with nobody at it; `EventsHandled`; `FindsNetwork`; `LowRenewed`. Beside it the arrays of the access lists implement the sets (`ImplementsSets`, `NoDuplicates`) |
| `control` | 135 k | `Durable` (the next boot finds what is in use, its key included), `ListensAgain`; `ReachableEarned`, `OffersFollow` for the mints |
| `stratum` | 214 k | `BooksTrue` (slots, counts and statistics), `QueueServed`, `HearsJobs`, `PoolAgain` |
| `relay` | 2.8 M | `SubsAreConnected`, `NothingStray`, `NothingForgotten` |
| `relay_store` | 0.23 M | `FileIndexFresh`, `Recoverable`, `GoneUntilSentAgain`, `RoomAgain` |
| `relay_sync` | 38 k | `SelectionUsable`, `FindsTheRelay` |

Each property of a passing run has a mutant, a plausible slip in the code it is
about, that violates it.

### What holds only up to a condition

The properties say what the code guarantees. Where that is less than one would
expect, the condition is in the property or the step is in the model:

- *Gate.* A session open when the tick counter wraps does not end
  (`SessionsEnd` is about those over before). After `stop_services` a payment
  extends the session that is still in the table and opens nothing
  (`PaidAccessKept` excepts that step). A second payment by bytes replaces what
  is left of the first. Switching the metric ends sessions sold by time. A table
  filled by portal grants makes a payment open a session without access.
  `tollgate_core_init` leaves the DNS list alone (`carried`).
- *Races.* Nothing is claimed once two removals overlap (the main loop's, an
  eviction's, the portal's reset and the event loop's `revoke_all` may all do so):
  each stores the other's count away, a bystander's entry is lost and the count
  may fall below zero, after which `s_clients[-1]` is read. Two grants at a time
  may write one entry, so that one of two clients who paid is not let in, and may
  count past the table. A revoke during the MAC lookup of a grant for the same
  client can leave it in. An eviction and the main loop can revoke one slot
  twice, the second time its next owner's, and the main loop may revoke a
  half-made session by bytes: its client stays in without one (`late`). A renewal
  between the main loop's test and its revoke is lost.
- *Settlement.* A token buys again and again: nothing bounds it, since the spend
  check does not find spent tokens. A token whose swap the mint has done and whose
  answer is lost counts as done with.
- *Wallet.* With a timed-out lock two calls overlap and proofs can be forgotten
  (`overlap`). Without one, `LossesNamed` lists what is lost all the same: a
  received token that is given up for want of keysets or refused, a send whose
  token does not fit after the swap, what the mint made for an answer that is
  lost, what calls had in their hands at a restart, and at a restart after a
  failed save possibly more. A payout keeps its reserve only if `min_balance` does
  not exceed `min_payout_amount`, since the difference is unsigned, and if the
  factors add up to one at most; the backoff shifts by a counter without limit
  (`Overflow`).
- *Uplink.* The services are not started again after a stop: their task is
  created once. A session that has ended reports -1/-1, for which nothing is
  renewed, and the client stays PAID. A token whose POST failed is gone.
- *Control.* Requests are executed again at each connection, without any bound,
  and anybody can send one in the owner's name, since no signature is checked. A
  connection that breaks without closing hangs its task, and one that finds no
  memory ends while the server counts as running (`ListensAgain` excepts both).
  Power lost during the write, or a write that fails, leaves a file that does not
  parse, and no boot after that succeeds (`cut`); `add_wifi` drops the settings it
  does not list.
- *MintHealth.* Where no mint is found, also while they are probed, discovery
  offers `mint_url`, whether that mint is up or not (`OffersFollow` says that it
  is then the only offer).
- *Stratum.* The heap is used up by lost connections and bad lines, after which
  the pool is not listened to again (`PoolAgain` assumes room for a line). One
  miner that stays keeps the others waiting (`QueueServed` assumes it leaves), and
  that only four connections may wait is not modelled. A job that arrives between
  subscription and authorization is not sent; the next one is. An HTTP share for
  which the table has no room dereferences NULL. A descriptor is its miner here,
  so that a broadcast to a closed and reused descriptor is not covered.
- *Relay.* An id of more than 64 characters is added anew by each REQ and never
  found by CLOSE; events go out under what is kept of it (`SubsAreConnected` and
  `NothingStray` say so). A subscriber by author may miss events or get others',
  and a deletion by kind may hit other authors' events, since the key is read from
  freed memory (`NothingForgotten` is about filters that name no author); by e
  tags everybody's events can be deleted anyway. `created_at` is compared with the
  uptime; a full queue drops sends; an event stored between a subscription's query
  and its entry is missed. There are fewer rate-limit buckets than socket numbers,
  and a socket without one is refused; the run has as many as sockets, so that
  both connections can speak. A closed connection's descriptor is leaked, which is
  what keeps its queued sends from the next one. When the server has stopped, its
  subscriptions stay in the table.
- *RelayStore.* An index larger than the NVS has room for is lost at the next
  boot (`Recoverable` assumes it fits); blank entries of a torn index never
  expire (`RoomAgain`); a second torn save can bring back what was deleted.
- *RelaySync.* A relay that accepts and says nothing blocks the task for good
  (`FindsTheRelay` has it down or up); the selector may be destroyed under the
  task; a seed URL listed twice would be its own fallback (`SelectionUsable` has
  them distinct).

### Bounds

Each is a named constant. In general every table is one entry smaller than what
competes for it, and every counter goes one step past the threshold it is
compared with.

- *Gate*: two clients for one slot and one entry, the smallest instance in which
  a table is full and someone is evicted; the proofs remove the bound for all
  but `SessionsEnd`. *TickWrap* 3 and allotments of 1 put wraps
  before, during and after sessions; *IntMax* 4 makes `INT64_MAX + share`
  overflow within reach. *MaxLag* 1: the main loop runs once a period;
  `SessionsEnd` leaves it as margin. *MaxAllot*, *MaxBytes* cap counters.
- *AccessRace*: three clients for three entries, so that a bystander remains;
  the portal's task (grant, revoke, revoke_all), the API's (grant, revoke) and the
  main loop's (revoke). *GateRace*: three clients for two slots, an allotment of
  one, *MaxPayments* 3: a session, its eviction and a third payment.
- *Settlement*: *QueueLen* 1 instead of the code's `WALLET_QUEUE_LEN`: full is
  one token away; *MaxEntered* 5 are one more than the queue and the tasks hold.
  `settlement_spent` needs one token, paid with twice.
- *Wallet*: four proofs' names, enough to split, to keep change and to pay out;
  the API, the ContextVM and the main loop, two of them in calls at a time; one
  wallet (the theorems are for any number); two recipients with a factor of 60, so
  that one of them stays below one and both exceed it; `MinPayout` and
  `MinBalance` 2. `Width` 16 is beyond every sum and still wraps for a negative
  difference.
- *Uplink*: two networks, two attempts, two waiting events (a disconnect with an
  address behind it). *AccessList*: four clients for three entries. The two share
  no state and their steps commute, so each runs while the other is as at
  power-on. *Control*: two listeners (an old and a new task), two published
  requests out of five, two networks. *MintHealth*: two mints, the code's
  threshold.
- *Stratum*: two miners for one server, two jobs (ids repeat), a heap of two
  lines, a table of two for three addresses.
- *Relay*: two connections, two subscriptions to each and two in all, an id that
  is kept cut and what is kept of it, a filter by kind and date and one by author,
  a note and its deletion, limits of one.
  *RelayStore*: two events, three index entries of which the NVS holds two, a
  save every second entry, one power loss. *RelaySync*: two relays, two failures.

### Fairness

- *Gate*: the tick counter runs and the main loop is scheduled (it does nothing
  but sleep and tick).
- *Settlement*: each task goes on inside a call, the HTTP calls end because they
  have timeouts, the health task empties its queue, and `start_services`, once
  begun, initialises the wallet. Nobody is obliged to pay, connect or answer.
- *Uplink*: all tasks run on; an attempt to connect ends one way or the other; an
  attempt at a network in reach, and a usage query, succeed if they are made
  again and again (strong fairness: radio and upstream are not against us).
- *Control*: the tasks run, a connection to the relay succeeds some time. A
  discovery happens between probes again and again, not only during them.
- *Stratum*: the client's and the proxy's steps; a pool that can be reached
  again and again sends a job some time, and not every send to a miner fails.
  Miners owe nothing.
- *RelayStore*: the holder of the lock runs on, the clean-up gets the lock
  sometimes, time passes, SNTP answers some day.
- *RelaySync*: the task runs unless it reads from a silent relay, intervals go
  by, and a connection to and a probe of a relay that stays up succeed some time.

Deadlock is checked in `gate`, `gate_race`, `settlement` and `settlement_spent`,
where the main loop or the tasks can always go on. The others say CHECK_DEADLOCK
FALSE: there a history ends where a bound on events, time, boots or requests is
reached, where the table is not sound any more (`access_race`), or in a state the
firmware itself cannot leave (a failed boot, a crashed task, a pool's client
without memory, a wallet that nobody has anything for).

## 4. Proofs

Each theorem holds for all constants that satisfy the ASSUME of its module. The
assumptions say that limits are numbers (positive where the code divides by
them, or an array has that length), that finite things are finite, and that
names do not collide. The ones that say more: the DNS list is at least as long
as the firewall's, the tick counter and allotments are smaller than `INT64_MAX`
(`Gate`), sums of proofs fit the unsigned type (`Wallet`), a request is a record
of what the tools look at (`Control`), and mints are numbered (`MintHealth`). In
`Relay`, cutting an id a second time changes nothing. The bounds that only keep
TLC finite (`MaxPayments`, `MaxEntered`, `MaxCount`, ...) are any
number. Every proof has the same shape: an inductive invariant `IInv`, a lemma
per action that it is kept, lemmas for what several actions have in common, and
the run's property as a consequence.

| Theorem | Property | Of |
|---|---|---|
| `GateCount`, `GateAccessIsOwed`, `GateAuthAgrees`, `GateKeepsAccess`, `GateNoEarlyCutoff` | `CountIsActive`, `AccessIsOwed`, `AuthAgrees`, `PaidAccessKept`, `NoEarlyCutoff` | `Gate` |
| `RaceBystanderKept` | `BystanderKept` | `AccessRace` |
| `AccessNoDuplicates`, `AccessImplementsSets` | `NoDuplicates`, `ImplementsSets` | `AccessList` |
| `GateRaceOneSession`, `GateRaceAccessIsOwed` | `OneSessionPerClient`, `AccessIsOwed` | `GateRace` |
| `SettlementNothingLost` | `NothingLost` | `Settlement` |
| `WalletAccounted`, `WalletHandedOutOnce`, `WalletReserveKept` | `Accounted`, `HandedOutOnce`, `ReserveKept` | `Wallet` |
| `UplinkNotStuck` | `NotStuck` | `Uplink` |
| `ControlDurable` | `Durable` | `Control` |
| `HealthReachableEarned` | `ReachableEarned` | `MintHealth` |
| `StratumBooksTrue` | `BooksTrue` | `Stratum` |
| `RelaySubsAreConnected`, `RelayNothingStray`, `RelayNothingForgotten` | `SubsAreConnected`, `NothingStray`, `NothingForgotten` | `Relay` |
| `RelayStoreFileIndexFresh`, `RelayStoreRecoverable`, `RelayStoreGone` | `FileIndexFresh`, `Recoverable`, `GoneUntilSentAgain` | `RelayStore` |
| `SyncSelectionUsable` | `SelectionUsable` | `RelaySync` |

### The arguments

*Gate.* `IInv` joins `TypeOK`, `CountIsActive`, `OneSessionPerClient`,
`AccessIsOwed`, `AuthAgrees` and a bound on the tasks that wait to start the
services. The parts need each other: `TypeOK` bounds `session_count` by the
table, which is only preserved because it *is* the number of active slots;
revoking one slot keeps `AccessIsOwed` only because no other slot has the same
client; and a table that is not full after an eviction follows from the count
again. There is a lemma per kind of step: releasing a set of slots, opening a
slot, changing a slot's contents but not its owner. `FirewallAssumption` has the
DNS list at least as long as the firewall table, which is what the code's
constants say. `NoEarlyCutoff` rests on two facts about each active session
(`PaceInv`): the time the code sees, now less the start, is at most the true
age, since a wrap only ever makes now smaller, and the allotment is either one
the bound allows or at least `INT64_MAX`, as for a session sold by the byte. So
a session found expired by its time has had that time, and one relabelled by a
change of the metric looks unexpired.

*AccessRace.* `Standing(k, settled)`: the first `k` entries hold every settled
client (one that no call under way is about), no grant writes into them, no count
that will be stored is below `k`, and the entry a revoke is about to overwrite is
not a settled client's. The `k` goes down by one when a revoke moves the last
entry into the gap; it exists as long as one removal at most is under way and the
count is within the table, which is what `Sound` says. `RacePlaced` says that no
call under way is about a settled client, and that during the walk of
`revoke_all` nobody is settled. Tasks, clients and entries are any number.

*AccessList.* The arrays refine `AccessSpec` under `AsSets`. The used entries
are distinct clients, the count is the cardinality of the set (this is what
makes "full" mean the same in both), and where the walk of `revoke_all` is.
Lemmas say what `Appended` and `Removed` do to the set of a list.

*GateRace.* `session_count` may be anything, since its updates get lost, and
nothing in the proof relies on it. A payment that looks for a slot is of a
client without a session (`Serving`): only the API server opens sessions, and
the main loop can only take some away meanwhile; the slot it is making stays its
payer's (`Owned`). `Owed` is the first half of `AccessIsOwed`; it needs that whoever
is about to clear a slot has closed its client's access, or that client is late
(`Clearing`). As long as nobody was evicted and no session tested before it was
complete (`Calm`), the main loop revokes a slot that is active and is not the
payer's new one, and nobody is late: this gives the second half.

*Settlement.* `NothingLost` is inductive once one knows where each task can be
and that it holds a token exactly there (`Placed`).

*Wallet.* `Shape` says what a call has in its hands at each of its places.
`Fresh` says that what the mint has just made is nobody else's, whatever calls
overlap and saves fail; from it `HandedOutOnce` follows with no word about the
lock. The NVS has what the memory has unless some save failed. `Exclusive` says
that as long as no take of the lock timed out one call at most is past it and its
picture of the proofs is true. From these `Accounted` follows step by step: each
action is shown to lose nothing (`Steady`) or to be one that `LossesNamed` names,
within what it allows. `Paid` bounds what a payout has paid by the factors of the
recipients it has gone through; `Width` is larger than the number of proofs, so
that only a negative difference wraps.

*Uplink.* `NotStuck` is inductive with the types: each step that sets the state
to detecting, paying or renewing also takes its task to the place where it does
so, and each that leaves such a place sets another state, also if the other task
has overwritten it in between. What needs care are the types: the queue of
events, and the number of the network that `% count` chooses.

*Control.* The file is torn only while it is written or after a cut (`Whole`),
every configuration has its key (`Keyed`), and the networks in use are in the
file from the moment it is opened (`Networks`). *MintHealth*:
`consecutive_successes` is the streak of successful probes, in the first round
and the later ones.

*Stratum.* `ProxyOK` says who is in which slot: nobody while the proxy waits in
`select`, and exactly the miner it serves, in one slot, while it serves one; so
`unregister_miner` finds that slot and `register_miner` always has a free one. A
miner is in the listen queue once (`QueueOK`), which bounds the queue by the
number of miners; the assumption that `Nobody` is not a miner tells a free slot
from a used one. `PoolOK` and `TableOK` are the types of the rest.

*Relay.* `Twins`: two entries of one connection under one id come from an id
that was cut. `Promised`: every send that is planned, queued or follows from a
subscription is to a socket whose last connection asked for its id or one that
begins with it; `on_close` does not close the descriptor, so that a closed socket
(`leaked`) is not given out again, which is what keeps `NothingStray`. `Places`: a
handler's connection stays until it is done. For `NothingForgotten` a second
invariant on top of it, `Awaited`: a send that is due is to a connection that is
there, and it is queued, planned, or will be planned since its subscription still
matches, whatever is read for the author.

*RelayStore.* `Fresh`: file indexes are below the next one in RAM and in NVS,
and NVS is never ahead of RAM. `Saving`: what a save has written is that of the
index, count and `next_idx` first. It is this order that makes a half-written
index harmless: new blobs come after the `next_idx` that covers them (with
`next_idx` last `FileIndexFresh` fails, see the mutant). `Backed`: as long as no
entry was flagged since the last save, NVS has a prefix of the index and none of
the entries after it was one at which the index is saved; as one of any
`SaveEvery` consecutive numbers is a multiple, fewer than `SaveEvery` are
missing. `LoadSaved` shows that `load_index_from_nvs` inverts
`save_index_to_nvs` for every size of blob. For `GoneUntilSentAgain` one has to
know of every entry that NVS holds, also in blobs a longer index has left behind
or that come after a torn save. Call an entry held if it is not flagged and its
file is there. Outside a save, a held entry that would be loaded is in the index
(`LoadedKnown`); until a save is torn, so is a held entry of any blob
(`BlobsKnown`), and outside a save it is then among those that would be loaded
(`BlobsLoaded`), which is what makes the first torn save safe. The steps keep
this because a new file has an index no entry in NVS has (`Fresh`), because a
file is unlinked together with the flagging of its entry, and because compaction
keeps every entry that is not flagged (as many places in rising order as there
are such entries are all of them).

*RelaySync.* `SelectUsable` says what `select_primary_fallback` leaves behind
for any table. Besides it one needs that a relay that failed too often does not
count as living while probes are under way.

### Model-checked only

- Every liveness property (`SessionsEnd`, `EverySubmissionEnds`, `EventsHandled`,
  `FindsNetwork`, `LowRenewed`, `ListensAgain`, `OffersFollow`, `QueueServed`,
  `HearsJobs`, `PoolAgain`, `RoomAgain`, `FindsTheRelay`): fairness and ENABLED
  are outside the prover's reach.
- That `OldTokenIsUseless` fails is shown by a history TLC finds.

## 5. Not modelled

- *Packet filter and DNS forwarding*: which ports are open to unpaid clients and
  how queries are answered are functions of one packet; they keep no state. The
  start and stop of the two DNS tasks is left out.
- *Service discovery, market, beacon, wifistr*: encoding and sending, and a table
  that each scan replaces and on which nothing depends.
- *Identity, signatures, encryption, `relay_validator`*: no protocol state; an
  event is valid or it is refused.
- *Balloon share relay*: a packet format and radio callbacks.
- *User interface*: drawing, touch input, the QR encoder (vendored).
- *Remote and ASIC miner, the stand-alone miner*: hashing loops and device I/O;
  the last is a second firmware with copies of the mining sources.
- *nucula, negentropy, the HTTP server, FreeRTOS, mints, pools and public
  relays* are external: modelled from how the code uses them, or not at all.
- *Operations nobody calls*: `mint_health_mark_unreachable`, `mint_health_stop`,
  the stop of the stratum tasks, the negentropy adapter.

## 6. What to model next

All safety properties of the runs are proved. Further work would be on the
models: the two DNS tasks that may outlive a stop, the remote miner's thread
under a change of the upstream, and the tables of service discovery, each with
the invariant its readers rely on.
