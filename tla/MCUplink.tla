------------------------------ MODULE MCUplink ------------------------------
(***************************************************************************)
(* The way to the internet and the access lists for TLC.  The two share no *)
(* state and their steps commute, so one order of them is enough: each     *)
(* runs while the other is as it was at power-on.                          *)
(***************************************************************************)
EXTENDS AccessList, Uplink

AtPowerOn == UplinkInit /\ reach = Networks /\ count = MaxNetworks

MCInit == Init /\ UplinkInit

MCNext ==
    \/ AtPowerOn /\ Next /\ UNCHANGED uplinkVars
    \/ Init /\ UplinkNext /\ UNCHANGED vars

MCSpec == MCInit /\ [][MCNext]_<<vars, uplinkVars>> /\ UplinkFairness
=============================================================================
