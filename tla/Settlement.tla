----------------------------- MODULE Settlement -----------------------------
(***************************************************************************)
(* From a token to a session and to the wallet: api_post_payment           *)
(* (tollgate_api.c), tls_worker_submit (tls_worker.c), the wallet queue    *)
(* and the task that empties it (mint_health.c), and the tasks that submit *)
(* tokens of their own (faucet_client.c, stratum_client.c).                *)
(*                                                                         *)
(* The mint is external: it is the set of the tokens it has taken.  It may *)
(* fail to answer, and it may take a token and its answer be lost.  A call *)
(* of nucula_wallet_receive is one step here.                              *)
(***************************************************************************)
EXTENDS Integers, Sequences, FiniteSets

CONSTANTS
    Tokens,     \* tokens that decode
    NoToken,    \* a task that holds none
    Accepted,   \* those of an accepted mint
    Dust,       \* those worth less than one step of the price
    Earners,    \* the tasks that earn tokens: the faucet's, the pool's
    QueueLen,   \* WALLET_QUEUE_LEN
    MaxEntered  \* bound: times one token is paid with

ASSUME SettlementAssumption ==
    /\ NoToken \notin Tokens
    /\ Accepted \subseteq Tokens /\ Dust \subseteq Tokens
    /\ QueueLen \in Nat \ {0}
    /\ MaxEntered \in Nat
    /\ IsFiniteSet(Earners) /\ {"api", "health"} \cap Earners = {}

Submitters == Earners \cup {"api"}
Tasks == Submitters \cup {"health"}

VARIABLES
    spent,      \* the mint: tokens it has taken
    wallet,     \* tokens whose value is in the wallet
    services,   \* how far start_services is: "down", "queue", "up"
    queue,      \* s_wallet_queue, once s_running
    has_queue,  \* tls_worker's s_wallet_queue is not NULL
    at,         \* where each task is
    tok,        \* the token each task is busy with
    entered,    \* history: times each token bought a session or was earned
    done        \* history: submissions of each token that are over

vars == <<spent, wallet, services, queue, has_queue, at, tok, entered, done>>

Goto(p, l, t) ==
    /\ at' = [at EXCEPT ![p] = l]
    /\ tok' = [tok EXCEPT ![p] = t]

Inc(f, t) == [f EXCEPT ![t] = @ + 1]

(***************************************************************************)
(* api_post_payment.                                                       *)
(***************************************************************************)

(* A body that decodes to a token of an accepted mint goes on to           *)
(* tollgate_core_cashu_check_proof_states; any other is refused (400, 402).*)
PostPayment(t) ==
    /\ at["api"] = "idle"
    /\ t \in Accepted
    /\ Goto("api", "check", t)
    /\ UNCHANGED <<spent, wallet, services, queue, has_queue, entered, done>>

(* The mint is asked about a token by the SHA-256 of its secret; it keeps  *)
(* what it has taken by hash_to_curve of the secret, a point of the curve. *)
AskedAs(t) == <<"sha256_hex", t>>
KeptAs(t) == <<"hash_to_curve", t>>

(* The mint answers: a token it reports as SPENT is refused (402).         *)
CheckAnswers ==
    /\ at["api"] = "check"
    /\ IF AskedAs(tok["api"]) \in {KeptAs(t) : t \in spent}
       THEN Goto("api", "idle", NoToken)
       ELSE Goto("api", "grant", tok["api"])
    /\ UNCHANGED <<spent, wallet, services, queue, has_queue, entered, done>>

(* The mint does not answer, or refuses the question: "proceeding without  *)
(* spend check (wallet swap will verify)".                                 *)
CheckFails ==
    /\ at["api"] = "check"
    /\ Goto("api", "grant", tok["api"])
    /\ UNCHANGED <<spent, wallet, services, queue, has_queue, entered, done>>

(* The allotment is computed; 0 is refused (402).  The session is opened   *)
(* or extended and answered (200) before the token is submitted.           *)
OpenSession ==
    /\ at["api"] = "grant"
    /\ tok["api"] \notin Dust
    /\ entered[tok["api"]] < MaxEntered
    /\ entered' = Inc(entered, tok["api"])
    /\ Goto("api", "submit", tok["api"])
    /\ UNCHANGED <<spent, wallet, services, queue, has_queue, done>>

(* 402 for a token of too little worth, 503 when no session slot is free   *)
(* (or memory is short): nothing has been changed.                         *)
NoSession ==
    /\ at["api"] = "grant"
    /\ Goto("api", "idle", NoToken)
    /\ UNCHANGED <<spent, wallet, services, queue, has_queue, entered, done>>

(***************************************************************************)
(* Tokens the TollGate earns, fresh ones: faucet_poll_once,                *)
(* handle_mining_token.                                                    *)
(***************************************************************************)
Earn(p, t) ==
    /\ services = "up"
    /\ at[p] = "idle"
    /\ t \notin spent /\ entered[t] = 0 /\ tok["api"] # t
    /\ entered' = Inc(entered, t)
    /\ Goto(p, "submit", t)
    /\ UNCHANGED <<spent, wallet, services, queue, has_queue, done>>

(***************************************************************************)
(* tls_worker_submit.                                                      *)
(***************************************************************************)

(* Without a queue the token is received at once; with one it is sent to   *)
(* the queue, unless no memory is left for the copy.                       *)
Submit(p) ==
    /\ at[p] = "submit"
    /\ Goto(p, IF has_queue THEN "send" ELSE "receive", tok[p])
    /\ UNCHANGED <<spent, wallet, services, queue, has_queue, entered, done>>

SubmitNoMemory(p) ==
    /\ at[p] = "submit"
    /\ has_queue
    /\ done' = Inc(done, tok[p])
    /\ Goto(p, "idle", NoToken)
    /\ UNCHANGED <<spent, wallet, services, queue, has_queue, entered>>

(* xQueueSend finds room within its second.                                *)
Send(p) ==
    /\ at[p] = "send"
    /\ Len(queue) < QueueLen
    /\ queue' = Append(queue, tok[p])
    /\ Goto(p, "idle", NoToken)
    /\ UNCHANGED <<spent, wallet, services, has_queue, entered, done>>

(* Mutant of SendTimesOut: the token is dropped.                           *)
SendTimesOutDropping(p) ==
    /\ at[p] = "send"
    /\ Len(queue) = QueueLen
    /\ Goto(p, "idle", NoToken)
    /\ UNCHANGED <<spent, wallet, services, queue, has_queue, entered, done>>

(* It does not, and the submitter receives the token itself.               *)
SendTimesOut(p) ==
    /\ at[p] = "send"
    /\ Len(queue) = QueueLen
    /\ Goto(p, "receive", tok[p])
    /\ UNCHANGED <<spent, wallet, services, queue, has_queue, entered, done>>

(***************************************************************************)
(* nucula_wallet_receive; its result is only logged.                       *)
(***************************************************************************)

(* Where a task goes when its call returns.                                *)
Returned(p) == CASE at[p] = "poll_receive"  -> "poll"
                 [] at[p] = "drain_receive" -> "drain"
                 [] OTHER                   -> "idle"

Receiving(p) == at[p] \in {"receive", "poll_receive", "drain_receive"}

(* The swap at the mint succeeds.                                          *)
ReceiveSwaps(p) ==
    /\ Receiving(p)
    /\ services = "up"
    /\ tok[p] \notin spent
    /\ spent' = spent \cup {tok[p]}
    /\ wallet' = wallet \cup {tok[p]}
    /\ done' = Inc(done, tok[p])
    /\ Goto(p, Returned(p), NoToken)
    /\ UNCHANGED <<services, queue, has_queue, entered>>

(* The mint takes the token but its answer is lost.                        *)
ReceiveAnswerLost(p) ==
    /\ Receiving(p)
    /\ services = "up"
    /\ tok[p] \notin spent
    /\ spent' = spent \cup {tok[p]}
    /\ done' = Inc(done, tok[p])
    /\ Goto(p, Returned(p), NoToken)
    /\ UNCHANGED <<wallet, services, queue, has_queue, entered>>

(* No wallet yet, no keysets, no connection, or a token already spent.     *)
ReceiveFails(p) ==
    /\ Receiving(p)
    /\ done' = Inc(done, tok[p])
    /\ Goto(p, Returned(p), NoToken)
    /\ UNCHANGED <<spent, wallet, services, queue, has_queue, entered>>

(***************************************************************************)
(* The mint_health task: five seconds and the initial probes, then the     *)
(* queue is drained; then five minutes of polling it, then probes and      *)
(* draining again.                                                         *)
(***************************************************************************)

(* xQueueReceive, in the polling loop and in process_wallet_queue.         *)
TakeFromQueue ==
    /\ at["health"] \in {"poll", "drain"}
    /\ queue # <<>>
    /\ Goto("health", IF at["health"] = "poll" THEN "poll_receive" ELSE "drain_receive",
            Head(queue))
    /\ queue' = Tail(queue)
    /\ UNCHANGED <<spent, wallet, services, has_queue, entered, done>>

(* MINT_HEALTH_PROBE_INTERVAL_S is over: run_probes begins.                *)
IntervalOver ==
    /\ at["health"] = "poll"
    /\ Goto("health", "probe", NoToken)
    /\ UNCHANGED <<spent, wallet, services, queue, has_queue, entered, done>>

(* The probes are done, process_wallet_queue begins.                       *)
ProbesDone ==
    /\ at["health"] = "probe"
    /\ Goto("health", "drain", NoToken)
    /\ UNCHANGED <<spent, wallet, services, queue, has_queue, entered, done>>

(* Mutant of QueueDrained: process_wallet_queue takes nothing.             *)
QueueDrainedEarly ==
    /\ at["health"] = "drain"
    /\ Goto("health", "poll", NoToken)
    /\ UNCHANGED <<spent, wallet, services, queue, has_queue, entered, done>>

QueueDrained ==
    /\ at["health"] = "drain"
    /\ queue = <<>>
    /\ Goto("health", "poll", NoToken)
    /\ UNCHANGED <<spent, wallet, services, queue, has_queue, entered, done>>

(***************************************************************************)
(* start_services, once; the API server answers before.                    *)
(***************************************************************************)

(* mint_health_start, if mint_health_enabled.                              *)
StartHealth ==
    /\ services = "down"
    /\ services' = "queue"
    /\ has_queue' = TRUE
    /\ Goto("health", "probe", NoToken)
    /\ UNCHANGED <<spent, wallet, queue, entered, done>>

(* nucula_wallet_init, nucula_wallet_init_multi.                           *)
StartWallet ==
    /\ services # "up"
    /\ services' = "up"
    /\ UNCHANGED <<spent, wallet, queue, has_queue, at, tok, entered, done>>

(* External: a token that is in nobody's wallet yet is spent elsewhere.    *)
SpentElsewhere(t) ==
    /\ t \notin spent
    /\ spent' = spent \cup {t}
    /\ UNCHANGED <<wallet, services, queue, has_queue, at, tok, entered, done>>

Init ==
    /\ spent = {} /\ wallet = {}
    /\ services = "down" /\ queue = <<>> /\ has_queue = FALSE
    /\ at = [p \in Tasks |-> IF p = "health" THEN "off" ELSE "idle"]
    /\ tok = [p \in Tasks |-> NoToken]
    /\ entered = [t \in Tokens |-> 0]
    /\ done = [t \in Tokens |-> 0]

Work(p) ==
    \/ Submit(p) \/ SubmitNoMemory(p) \/ Send(p) \/ SendTimesOut(p)

Receive(p) == ReceiveSwaps(p) \/ ReceiveAnswerLost(p) \/ ReceiveFails(p)

HealthSteps == TakeFromQueue \/ IntervalOver \/ ProbesDone \/ QueueDrained

Next ==
    \/ \E t \in Tokens : PostPayment(t) \/ SpentElsewhere(t)
    \/ CheckAnswers \/ CheckFails \/ OpenSession \/ NoSession
    \/ \E p \in Earners, t \in Tokens : Earn(p, t)
    \/ \E p \in Submitters : Work(p)
    \/ \E p \in Tasks : Receive(p)
    \/ HealthSteps
    \/ StartHealth \/ StartWallet

Spec == Init /\ [][Next]_vars

(* The tasks run, the probes end (they time out), start_services goes on   *)
(* from one call to the next.  Nobody has to pay, and the upstream network *)
(* need not ever come up.                                                  *)
FairSpec ==
    /\ Spec
    /\ \A p \in Submitters : WF_vars(Work(p))
    /\ \A p \in Tasks : WF_vars(Receive(p))
    /\ WF_vars(TakeFromQueue) /\ WF_vars(ProbesDone) /\ WF_vars(QueueDrained)
    /\ WF_vars(services = "queue" /\ StartWallet)

(***************************************************************************)
(* Properties.                                                             *)
(***************************************************************************)

Labels == {"idle", "check", "grant", "submit", "send", "receive", "off",
           "probe", "poll", "drain", "poll_receive", "drain_receive"}

(* Type invariant; the queue never holds more than WALLET_QUEUE_LEN.       *)
TypeOK ==
    /\ wallet \subseteq spent /\ spent \subseteq Tokens
    /\ services \in {"down", "queue", "up"} /\ has_queue \in BOOLEAN
    /\ queue \in Seq(Tokens) /\ Len(queue) <= QueueLen
    /\ at \in [Tasks -> Labels]
    /\ tok \in [Tasks -> Tokens \cup {NoToken}]
    /\ entered \in [Tokens -> Nat]
    /\ done \in [Tokens -> Nat]

Copies(t) == Cardinality({i \in DOMAIN queue : queue[i] = t})

(* The tasks on their way to the wallet with t.                            *)
Carriers(t) == {p \in Tasks : tok[p] = t /\ at[p] \notin {"check", "grant"}}

(* Every token that bought a session or was earned is on its way to the    *)
(* wallet or has been there, once for every time: neither the queue nor    *)
(* its overflow, nor the time before there is one, loses a token or hands  *)
(* it over twice (only a failed strdup ends a submission early).  And the  *)
(* queue keeps to its length.                                              *)
NothingLost ==
    /\ TypeOK
    /\ \A t \in Tokens : entered[t] = Copies(t) + Cardinality(Carriers(t)) + done[t]

(* After a successful receive a token is useless: the mint's check catches *)
(* double-spends (PLAN.md:669).                                            *)
OldTokenIsUseless ==
    [][CheckAnswers /\ tok["api"] \in wallet => at'["api"] = "idle"]_vars

(* Every token that came in gets to nucula_wallet_receive, for each time   *)
(* it came in, also behind a full queue and while the mints are probed.    *)
EverySubmissionEnds ==
    \A t \in Tokens : \A n \in 1..MaxEntered : entered[t] >= n ~> done[t] >= n
=============================================================================
