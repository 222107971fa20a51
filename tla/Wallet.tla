------------------------------- MODULE Wallet -------------------------------
(***************************************************************************)
(* The wallet (nucula_wallet.cpp) under the calls of several tasks, and    *)
(* the Lightning payout (lightning_payout.c), which is one of its callers. *)
(*                                                                         *)
(* A proof is worth one; a set of proofs is an amount.  The mint, the      *)
(* nucula library (select_proofs, swap, receive, melt_tokens, the NVS) and *)
(* the FreeRTOS mutex are external, taken from how the code uses them.     *)
(* A task's call waits for the lock ("wait"), fetches the keysets ("keys"),*)
(* selects proofs and asks the mint ("mint"), updates and saves the proofs *)
(* ("save") and gives the lock back ("leave").                             *)
(***************************************************************************)
EXTENDS Integers, FiniteSets, FiniteSetsExt

CONSTANTS
    Proofs,      \* names for proofs
    LastSlot,    \* the wallets are 0..LastSlot
    Tasks,       \* the calling tasks, of DOMAIN Ops
    Overflow,    \* the attempt at which 1000 << attempts leaves int: 22
    Recipients,  \* recipient_count
    Factors,     \* the recipients' factors, in hundredths, any numbers
    MinPayout,   \* min_payout_amount
    MinBalance,  \* min_balance
    FeePct,      \* fee_tolerance_pct
    Width        \* amounts are unsigned modulo this

(* Who calls what: the health task and tls_worker_submit's callers receive;*)
(* the API sends and swaps; the main loop and the event loop pay upstream, *)
(* and the main loop pays out; the ContextVM sends and melts.              *)
Ops == [health |-> {"receive"},
        api    |-> {"receive", "send", "swap_all"},
        main   |-> {"send"},
        event  |-> {"send"},
        cvm    |-> {"send", "melt"}]

ASSUME WalletAssumption ==
    /\ IsFiniteSet(Proofs) /\ LastSlot \in Nat /\ Tasks \subseteq DOMAIN Ops
    /\ Overflow \in Nat \ {0} /\ Recipients \in Nat \ {0}
    /\ MinPayout \in Nat /\ MinBalance \in Nat /\ FeePct \in Nat /\ Factors \subseteq Nat
    /\ Width \in Nat /\ Width > Cardinality(Proofs)

Slots == 0..LastSlot

VARIABLES
    proofs,    \* each wallet's proofs in memory
    saved,     \* and in the NVS
    spendable, \* external: proofs the mint has signed and will take
    out,       \* proofs handed out in a token
    loaded,    \* s_keysets_loaded
    attempts,  \* s_keyset_attempts
    holder,    \* who holds s_wallet_mutex
    task,      \* where each task is in its call
    pay,       \* lightning_payout_tick: balance, payout_pool, recipients left,
               \* and history: the factors so far and what was paid
    overlap,   \* history: some call went on without the lock
    unsaved    \* history: some save_proofs has failed

money == <<proofs, saved, spendable, out>>
keys  == <<loaded, attempts>>
vars  == <<proofs, saved, spendable, out, loaded, attempts, holder, task, pay, overlap, unsaved>>

Idle == [at |-> "idle", op |-> "none", slot |-> 0, n |-> 0, in |-> {}, rem |-> {},
         new |-> {}, change |-> {}]
NoPay == [balance |-> 0, pool |-> 0, left |-> 0, factors |-> 0, paid |-> 0]

InHand(t) == IF task[t].at = "mint" /\ task[t].op # "receive" THEN {}
             ELSE task[t].in \cup task[t].new \cup task[t].change
InHands == UNION {InHand(t) : t \in Tasks}
InMemory == UNION {proofs[s] : s \in Slots}
InNvs == UNION {saved[s] : s \in Slots}

(* Proofs that could be spent and that nobody has any more.                *)
Lost == spendable \ (InMemory \cup InHands \cup out)

(* Names that stand for nothing at the moment.                             *)
Unused == Proofs \ (spendable \cup out \cup InMemory \cup InNvs
                    \cup UNION {task[t].in \cup task[t].rem \cup task[t].new \cup task[t].change :
                                t \in Tasks})

At(t, place) == task[t].at = place
Goes(t, place) == task' = [task EXCEPT ![t].at = place]

Balance(s) == Cardinality(proofs[s])
Total == Cardinality(InMemory)

(***************************************************************************)
(* Calls and the lock.                                                     *)
(***************************************************************************)
Call(t, op, slot, n, in) ==
    /\ At(t, "idle")
    /\ task' = [task EXCEPT ![t] = [Idle EXCEPT !.at = "wait", !.op = op, !.slot = slot,
                                                !.n = n, !.in = in]]

(* nucula_wallet_receive of somebody's token, of the mint of some wallet.  *)
CallReceive(t) ==
    /\ "receive" \in Ops[t]
    /\ \E s \in Slots, p \in Unused :
         Call(t, "receive", s, 1, {p}) /\ spendable' = spendable \cup {p}
    /\ UNCHANGED <<proofs, saved, out, keys, holder, pay, overlap, unsaved>>

CallSend(t) ==
    /\ "send" \in Ops[t] /\ (t = "main" => pay.left = 0)
    /\ Call(t, "send", 0, 1, {})
    /\ UNCHANGED <<money, keys, holder, pay, overlap, unsaved>>

CallSwapAll(t) ==
    /\ "swap_all" \in Ops[t]
    /\ Call(t, "swap_all", 0, 0, {})
    /\ UNCHANGED <<money, keys, holder, pay, overlap, unsaved>>

(* mcp_handle_wallet_melt: an invoice, and whatever limit the request has. *)
CallMelt(t) ==
    /\ "melt" \in Ops[t]
    /\ \E n \in 1..Cardinality(Proofs) : Call(t, "melt", 0, n, {})
    /\ UNCHANGED <<money, keys, holder, pay, overlap, unsaved>>

(* find_wallet_for_send: the first wallet that has enough, or the first.   *)
WalletForSend(n) == LET S == {s \in Slots : Balance(s) >= n}
                    IN IF S = {} THEN 0 ELSE Min(S)

(* lightning_payout_tick: the pool above min_balance, in unsigned          *)
(* arithmetic, if there is enough to pay out, and a recipient's share,     *)
(* round(pool * factor).                                                   *)
Share(pool, factor) == (pool * factor + 50) \div 100
MaxCost(share) == share + (share * FeePct) \div 100

Pool ==
    IF Total < MinPayout \/ (Total - MinBalance) % Width = 0 THEN NoPay
    ELSE [NoPay EXCEPT !.balance = Total, !.pool = (Total - MinBalance) % Width,
                       !.left = Recipients]

(* Inside the lock: which wallet the call is about.  -1: it returns.       *)
Chosen(t) == CASE task[t].op = "send" -> WalletForSend(task[t].n)
               [] task[t].op = "melt" -> IF InMemory = {} THEN -1
                                         ELSE Min({s \in Slots : proofs[s] # {}})
               [] task[t].op = "balance" -> -1
               [] OTHER -> task[t].slot

Enters(t) ==
    /\ task' = [task EXCEPT ![t].at = IF Chosen(t) = -1 THEN "leave" ELSE "keys",
                            ![t].slot = IF Chosen(t) = -1 THEN 0 ELSE Chosen(t)]
    /\ pay' = IF task[t].op = "balance" THEN Pool ELSE pay

(* WalletLock's constructor takes the mutex ...                            *)
Acquire(t) ==
    /\ At(t, "wait") /\ holder = "free"
    /\ holder' = t
    /\ Enters(t)
    /\ UNCHANGED <<money, keys, overlap, unsaved>>

(* ... or waits for ten seconds and goes on without it.                    *)
TimesOut(t) ==
    /\ At(t, "wait") /\ holder \notin {"free", t}
    /\ overlap' = TRUE
    /\ Enters(t)
    /\ UNCHANGED <<money, keys, holder, unsaved>>

(* Memory is lost, and what was in the hands of a call; the NVS is not.    *)
Restarts ==
    /\ proofs' = saved
    /\ loaded' = [s \in Slots |-> FALSE] /\ attempts' = [s \in Slots |-> 0]
    /\ holder' = "free"
    /\ task' = [t \in Tasks |-> Idle]
    /\ pay' = NoPay
    /\ UNCHANGED <<saved, spendable, out, overlap, unsaved>>

(* The destructor gives the mutex, held or not: giving a free one does     *)
(* nothing, giving another task's is an assertion and a restart.           *)
Leave(t) ==
    /\ At(t, "leave")
    /\ IF holder \notin {"free", t} THEN Restarts
       ELSE /\ holder' = "free"
            /\ task' = [task EXCEPT ![t] = Idle]
            /\ pay' = IF t = "main" /\ task[t].op = "melt" /\ pay.left = 0 THEN NoPay ELSE pay
            /\ UNCHANGED <<money, keys, overlap, unsaved>>

PowerLoss == Restarts

(***************************************************************************)
(* ensure_keysets, before every exchange.                                  *)
(***************************************************************************)

(* The next wallet of swap_all, or the way out.                            *)
NextPlace(t) ==
    IF task[t].op = "swap_all" /\ task[t].slot < LastSlot
    THEN [task[t] EXCEPT !.at = "keys", !.slot = @ + 1, !.in = {}, !.rem = {}, !.new = {},
                         !.change = {}]
    ELSE [task[t] EXCEPT !.at = "leave", !.in = {}, !.rem = {}, !.new = {}, !.change = {}]

Onward(t) == task' = [task EXCEPT ![t] = NextPlace(t)]

(* swap_all passes over an empty wallet without looking for its keysets.   *)
SkipsEmpty(t) ==
    /\ At(t, "keys") /\ task[t].op = "swap_all" /\ proofs[task[t].slot] = {}
    /\ Onward(t)
    /\ UNCHANGED <<money, keys, holder, pay, overlap, unsaved>>

WantsKeys(t) == At(t, "keys") /\ (task[t].op = "swap_all" => proofs[task[t].slot] # {})

HasKeys(t) == WantsKeys(t) /\ loaded[task[t].slot]

(* The delay before an attempt, at most thirty seconds, and endless once   *)
(* the shift has overflowed; then the keysets are loaded ...               *)
KeysLoaded(t) ==
    LET s == task[t].slot
    IN /\ WantsKeys(t) /\ ~loaded[s] /\ attempts[s] < Overflow
       /\ loaded' = [loaded EXCEPT ![s] = TRUE]
       /\ attempts' = [attempts EXCEPT ![s] = 0]
       /\ UNCHANGED <<money, holder, task, pay, overlap, unsaved>>

(* ... or not, and the call fails.  A token that was to be received is     *)
(* given up.                                                               *)
KeysFail(t) ==
    LET s == task[t].slot
    IN /\ WantsKeys(t) /\ ~loaded[s] /\ attempts[s] < Overflow
       /\ attempts' = [attempts EXCEPT ![s] = @ + 1]
       /\ Onward(t)
       /\ UNCHANGED <<money, loaded, holder, pay, overlap, unsaved>>

(***************************************************************************)
(* Selecting, and the mint.                                                *)
(***************************************************************************)

(* nucula_wallet_send and nucula_wallet_swap_all fix what will remain      *)
(* before they ask the mint; select_proofs may take more than is asked.    *)
Selects(t) ==
    LET s == task[t].slot
    IN /\ HasKeys(t) /\ task[t].op \in {"send", "swap_all"}
       /\ \E S \in IF task[t].op = "swap_all" THEN {proofs[s]} ELSE SUBSET proofs[s] :
            /\ task[t].op = "send" => Cardinality(S) \in task[t].n..(task[t].n + 1)
            /\ task' = [task EXCEPT ![t].at = "mint", ![t].in = S, ![t].rem = proofs[s] \ S]
       /\ UNCHANGED <<money, keys, holder, pay, overlap, unsaved>>

(* Mutant of Quotes: the cost is not compared with its limit.              *)
QuotesAny(t) ==
    /\ HasKeys(t) /\ task[t].op = "melt"
    /\ \E S \in SUBSET proofs[task[t].slot] : \E n \in {Cardinality(S), Cardinality(S) - 1} :
         /\ 0 < n
         /\ task' = [task EXCEPT ![t].at = "mint", ![t].in = S, ![t].n = n]
    /\ UNCHANGED <<money, keys, holder, pay, overlap, unsaved>>

(* nucula_wallet_melt: the quote may be over any amount; with its fee it   *)
(* has to be within the limit and within this wallet's balance.  Then      *)
(* melt_tokens selects.                                                    *)
Quotes(t) ==
    /\ HasKeys(t) /\ task[t].op = "melt"
    /\ \E S \in SUBSET proofs[task[t].slot] : \E n \in {Cardinality(S), Cardinality(S) - 1} :
         /\ 0 < n /\ n <= task[t].n
         /\ task' = [task EXCEPT ![t].at = "mint", ![t].in = S, ![t].n = n]
    /\ UNCHANGED <<money, keys, holder, pay, overlap, unsaved>>

ReceiveAsks(t) ==
    /\ HasKeys(t) /\ task[t].op = "receive"
    /\ Goes(t, "mint")
    /\ UNCHANGED <<money, keys, holder, pay, overlap, unsaved>>

(* Insufficient balance, no quote, or one that is too high.                *)
SelectsNothing(t) ==
    /\ HasKeys(t)
    /\ task[t].op = "melt" \/ (task[t].op = "send" /\ Balance(task[t].slot) < task[t].n)
    /\ Onward(t)
    /\ UNCHANGED <<money, keys, holder, pay, overlap, unsaved>>

(* What the mint makes out of the proofs it takes: for a payment out only  *)
(* the change.                                                             *)
Made(t) == IF task[t].op = "melt" THEN Cardinality(task[t].in) - task[t].n
           ELSE Cardinality(task[t].in)

(* What a payout has cost so far.                                          *)
Billed(t) == IF t = "main" /\ task[t].op = "melt" THEN [pay EXCEPT !.paid = @ + task[t].n]
             ELSE pay

(* The exchange succeeds.                                                  *)
MintTakes(t) ==
    /\ At(t, "mint") /\ task[t].in \subseteq spendable
    /\ \E made \in kSubset(Made(t), Unused) :
       \E new \in IF task[t].op = "send" THEN kSubset(task[t].n, made) ELSE {made} :
         /\ spendable' = (spendable \ task[t].in) \cup made
         /\ task' = [task EXCEPT ![t].at = "save", ![t].new = new, ![t].change = made \ new]
    /\ pay' = Billed(t)
    /\ UNCHANGED <<proofs, saved, out, keys, holder, overlap, unsaved>>

(* The mint takes the proofs and its answer is lost: they stay in memory,  *)
(* and nobody ever has what the mint has signed for them.                  *)
MintAnswerLost(t) ==
    /\ At(t, "mint") /\ task[t].in \subseteq spendable
    /\ \E made \in kSubset(Made(t), Unused) : spendable' = (spendable \ task[t].in) \cup made
    /\ pay' = Billed(t)
    /\ Onward(t)
    /\ UNCHANGED <<proofs, saved, out, keys, holder, overlap, unsaved>>

(* The mint refuses, or cannot be reached.  A token that was to be         *)
(* received is given up.                                                   *)
MintRefuses(t) ==
    /\ At(t, "mint")
    /\ Onward(t)
    /\ UNCHANGED <<money, keys, holder, pay, overlap, unsaved>>

(* Mutants of Kept: the change is forgotten; the token's proofs are kept.  *)
KeptWithoutChange(t) ==
    CASE task[t].op = "send"     -> task[t].rem
      [] task[t].op = "swap_all" -> task[t].new
      [] OTHER                   -> (proofs[task[t].slot] \ task[t].in) \cup task[t].new

KeptWithToken(t) ==
    CASE task[t].op = "send"     -> task[t].rem \cup task[t].change \cup task[t].new
      [] task[t].op = "swap_all" -> task[t].new
      [] OTHER                   -> (proofs[task[t].slot] \ task[t].in) \cup task[t].new

(* The wallet's proofs at the end of a call: send keeps what remained and  *)
(* the change, swap_all replaces all proofs, receive and melt are the      *)
(* library's and change the proofs that are there.                         *)
Kept(t) ==
    CASE task[t].op = "send"     -> task[t].rem \cup task[t].change
      [] task[t].op = "swap_all" -> task[t].new
      [] OTHER                   -> (proofs[task[t].slot] \ task[t].in) \cup task[t].new

(* The proofs in memory are replaced; send hands out the others.           *)
Stores(t) ==
    /\ At(t, "save")
    /\ proofs' = [proofs EXCEPT ![task[t].slot] = Kept(t)]
    /\ out' = IF task[t].op = "send" THEN out \cup task[t].new ELSE out
    /\ Onward(t)
    /\ UNCHANGED <<spendable, keys, holder, pay, overlap>>

(* save_proofs succeeds ...                                                *)
Saves(t) ==
    /\ Stores(t)
    /\ saved' = [saved EXCEPT ![task[t].slot] = Kept(t)]
    /\ UNCHANGED unsaved

(* ... or fails, which nobody looks at: the NVS has the proofs of before,  *)
(* or what it has cannot be read.                                          *)
SaveFails(t) ==
    /\ Stores(t)
    /\ \E P \in {saved[task[t].slot], {}} : saved' = [saved EXCEPT ![task[t].slot] = P]
    /\ unsaved' = TRUE

(* The token cannot be encoded or does not fit: what the swap made is      *)
(* dropped, and what it took stays in memory.                              *)
SendTooLarge(t) ==
    /\ At(t, "save") /\ task[t].op = "send"
    /\ Onward(t)
    /\ UNCHANGED <<money, keys, holder, pay, overlap, unsaved>>

(* External: whoever got a token redeems it.                               *)
Redeem ==
    /\ out # {}
    /\ spendable' = spendable \ out /\ out' = {}
    /\ UNCHANGED <<proofs, saved, keys, holder, task, pay, overlap, unsaved>>

(***************************************************************************)
(* lightning_payout_tick, on the main loop.                                *)
(***************************************************************************)

(* The interval is over: the balance is asked for.                         *)
PayoutTick ==
    /\ "main" \in Tasks /\ pay.left = 0
    /\ Call("main", "balance", 0, 0, {})
    /\ UNCHANGED <<money, keys, holder, pay, overlap, unsaved>>

(* payout_one: an invoice over the share is melted for at most max_cost ...*)
PayoutOne ==
    /\ "main" \in Tasks /\ pay.left > 0
    /\ \E f \in Factors :
         /\ Share(pay.pool, f) > 0
         /\ Call("main", "melt", 0, MaxCost(Share(pay.pool, f)), {})
         /\ pay' = [pay EXCEPT !.left = @ - 1, !.factors = @ + f]
    /\ UNCHANGED <<money, keys, holder, overlap, unsaved>>

(* ... or there is no invoice, no address, or nothing to pay.              *)
PayoutNone ==
    /\ "main" \in Tasks /\ At("main", "idle") /\ pay.left > 0
    /\ pay' = IF pay.left = 1 THEN NoPay ELSE [pay EXCEPT !.left = @ - 1]
    /\ UNCHANGED <<money, keys, holder, task, overlap, unsaved>>

Init ==
    /\ proofs = [s \in Slots |-> {}] /\ saved = proofs
    /\ spendable = {} /\ out = {}
    /\ loaded = [s \in Slots |-> FALSE] /\ attempts = [s \in Slots |-> 0]
    /\ holder = "free" /\ task = [t \in Tasks |-> Idle] /\ pay = NoPay
    /\ overlap = FALSE /\ unsaved = FALSE

Steps(t) ==
    \/ Acquire(t) \/ TimesOut(t) \/ Leave(t)
    \/ SkipsEmpty(t) \/ KeysLoaded(t) \/ KeysFail(t)
    \/ Selects(t) \/ Quotes(t) \/ SelectsNothing(t) \/ ReceiveAsks(t)
    \/ MintTakes(t) \/ MintAnswerLost(t) \/ MintRefuses(t)
    \/ Saves(t) \/ SaveFails(t) \/ SendTooLarge(t)

Next ==
    \/ \E t \in Tasks :
         CallReceive(t) \/ CallSend(t) \/ CallSwapAll(t) \/ CallMelt(t) \/ Steps(t)
    \/ PayoutTick \/ PayoutOne \/ PayoutNone
    \/ Redeem \/ PowerLoss

Spec == Init /\ [][Next]_vars

(***************************************************************************)
(* Properties.                                                             *)
(***************************************************************************)
Places == {"idle", "wait", "keys", "mint", "save", "leave"}

(* Type invariant; whoever holds the lock is inside a call, past every     *)
(* early return and every give by a task that did not have it.             *)
TypeOK ==
    /\ proofs \in [Slots -> SUBSET Proofs] /\ saved \in [Slots -> SUBSET Proofs]
    /\ spendable \subseteq Proofs /\ out \subseteq Proofs
    /\ loaded \in [Slots -> BOOLEAN] /\ attempts \in [Slots -> 0..Overflow]
    /\ holder \in Tasks \cup {"free"}
    /\ holder # "free" => task[holder].at \notin {"idle", "wait"}
    /\ \A t \in Tasks : task[t].at \in Places /\ task[t].slot \in Slots /\ task[t].n \in Nat
    /\ pay.left \in 0..Recipients /\ pay.pool \in 0..(Width - 1) /\ pay.paid \in Nat
    /\ pay.factors \in Nat
    /\ overlap \in BOOLEAN /\ unsaved \in BOOLEAN

(* The losses there are, as long as no call has gone on without the lock.  *)
(* A token given up, one that cannot be handed out and a restart cost what *)
(* is in the hands of the calls under way; a lost answer costs what the    *)
(* mint has made for it; a restart after a save that failed may cost more. *)
LossesNamed ==
    \/ overlap'
    \/ Lost' \subseteq Lost
    \/ /\ Lost' \subseteq Lost \cup InHands
       /\ \/ Restarts
          \/ \E t \in Tasks : SendTooLarge(t)
          \/ \E t \in Tasks : task[t].op = "receive" /\ (KeysFail(t) \/ MintRefuses(t))
    \/ /\ Lost' \subseteq Lost \cup (spendable' \ spendable)
       /\ \E t \in Tasks : MintAnswerLost(t)
    \/ Restarts /\ unsaved

(* No step loses money but those that LossesNamed names, and those no more *)
(* than it says: what rests in a wallet is not lost by failed swaps, lost  *)
(* answers, or restarts in the midst of a call whose saves succeeded.      *)
Accounted == [][LossesNamed]_vars

(* What was handed out in a token is the receiver's alone: it is in no     *)
(* wallet and does not come back from the NVS, whatever calls overlapped   *)
(* and whichever saves failed.  With the types and the lock.               *)
HandedOutOnce == TypeOK /\ out \cap (InMemory \cup InNvs) = {}

(* One tick of the payout takes what the balance it has asked for is above *)
(* the reserve and no more, up to half a unit for each recipient and the   *)
(* tolerance for fees, whatever amounts the invoices ask for, if the       *)
(* factors add up to one at most (nothing in the code sees to it): the     *)
(* unsigned difference does not wrap if min_balance is at most min_payout. *)
ReserveKept ==
    MinBalance <= MinPayout /\ pay # NoPay /\ pay.factors <= 100 =>
        200 * pay.paid <= (2 * (pay.balance - MinBalance) + Recipients) * (100 + FeePct)
=============================================================================
