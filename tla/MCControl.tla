----------------------------- MODULE MCControl -----------------------------
(***************************************************************************)
(* Remote control and mint health for TLC: four requests of the owner and  *)
(* a stranger's; two mints.  The two share no state and their steps         *)
(* commute, so one order of them is enough: the mints are probed while the *)
(* rest of the gateway is booted and quiet.                                *)
(***************************************************************************)
EXTENDS Control, MintHealth

MCRequests ==
    {[owner |-> TRUE,  tool |-> "set_config",  price |-> 0, metric |-> "bogus"],
     [owner |-> TRUE,  tool |-> "set_price",   price |-> 2, metric |-> "none"],
     [owner |-> TRUE,  tool |-> "set_metric",  price |-> 0, metric |-> "bytes"],
     [owner |-> TRUE,  tool |-> "set_payout",  price |-> 0, metric |-> "none"],
     [owner |-> FALSE, tool |-> "wallet_send", price |-> 0, metric |-> "none"]}

mcvars == <<control, health>>

Quiet ==
    /\ booted /\ ~running /\ ~writing /\ stored = {} /\ file = Factory
    /\ listener = [l \in Listeners |-> "none"]

MCInit == Init /\ HealthInit

MCNext ==
    \/ round = "off" /\ Next /\ UNCHANGED health
    \/ Quiet /\ HealthNext /\ UNCHANGED control

(* The health task goes on, and customers ask again and again, not only    *)
(* while the mints are probed.                                             *)
MCSpec ==
    /\ MCInit /\ [][MCNext]_mcvars
    /\ Fairness
    /\ WF_mcvars(Quiet /\ HealthTask /\ UNCHANGED control)
    /\ SF_mcvars(Quiet /\ round = "wait" /\ Discovery /\ UNCHANGED control)
=============================================================================
