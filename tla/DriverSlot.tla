----------------------------- MODULE DriverSlot -----------------------------
(***************************************************************************)
(* What va/va.c promises of a VADisplay: it has no driver or one driver,   *)
(* gets one only in vaInitialize and in one step, whatever candidates were *)
(* tried, loses it only in vaTerminate, and is of no use once it has been  *)
(* destroyed.                                                              *)
(***************************************************************************)
CONSTANTS Driver, NULL

VARIABLES display, driver

vars == <<display, driver>>

Init == display = "none" /\ driver = NULL

vaGetDisplay == /\ display = "none"
                /\ display' = "valid"
                /\ UNCHANGED driver

vaInitialize(d) == /\ display = "valid" /\ driver = NULL
                   /\ driver' = d
                   /\ UNCHANGED display

(* The driver may refuse to terminate: the display then stays, without it. *)
vaTerminate == /\ display = "valid"
               /\ driver' = NULL
               /\ \/ display' = "destroyed"
                  \/ driver # NULL /\ UNCHANGED display

Next == vaGetDisplay \/ vaTerminate \/ \E d \in Driver : vaInitialize(d)

Spec == Init /\ [][Next]_vars
=============================================================================
