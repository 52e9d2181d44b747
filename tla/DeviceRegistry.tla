--------------------------- MODULE DeviceRegistry ---------------------------
(***************************************************************************)
(* What the rest of the system relies on device_service for: a device is   *)
(* registered at most once, by one of the credentials it was presented     *)
(* with, and keeps these credentials for good.                             *)
(***************************************************************************)
CONSTANTS DeviceId, Credential

VARIABLE registered   \* the credentials each device is registered with

Init == registered = [d \in DeviceId |-> {}]

Register(d, c) ==
    /\ registered[d] = {}
    /\ registered' = [registered EXCEPT ![d] = {c}]

Next == \E d \in DeviceId, c \in Credential : Register(d, c)

Spec == Init /\ [][Next]_registered
=============================================================================
