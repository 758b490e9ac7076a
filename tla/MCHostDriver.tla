---------------------------- MODULE MCHostDriver ----------------------------
(* The model-checked instance of HostDriver: two clients and two actions.    *)
EXTENDS HostDriver

CONSTANTS alice, bob, stop, shine

MCClient == {alice, bob}
MCAction == {stop, shine}
=============================================================================
