-------------------------- MODULE MCDeviceService --------------------------
(* Instances of DeviceService for TLC: which requests the clients send. *)
EXTENDS DeviceService

Req(id, op, device, token, protocol, fields) ==
    [id |-> id, op |-> op, device_id |-> device, named |-> TRUE,
     token |-> token, protocol |-> protocol, fields |-> fields]

Fields(status, name) == [f \in Field |-> IF f = Status THEN status ELSE name]
None == Fields("", "")

HashOfToken == [t \in Token |-> IF t = "t1" THEN 1 ELSE 2]

\* Two clients register one device, with different tokens and protocols; one verifies
\* the second token, one edits the device, one reads it; one create lacks a name.
ReqRegister ==
    {Req(1, "CreateDevice", "d1", "t1", "", Fields("", "n1")),
     Req(2, "CreateDevice", "d1", "t2", "tcp", None),
     Req(3, "VerifyDeviceAccess", "d1", "t2", "tcp", None),
     Req(4, "UpdateDevice", "d1", "t1", "", Fields("disabled", "")),
     Req(6, "GetDevice", "d1", "t1", "", None),
     [Req(5, "CreateDevice", "d1", "t1", "", None) EXCEPT !.named = FALSE]}

\* A device is created, disabled, renamed, set to a status the service does
\* not know, and listed; one edit names no device.
ReqUpdate ==
    {Req(11, "CreateDevice", "d1", "t1", "mqtt", Fields("", "n1")),
     Req(12, "UpdateDevice", "d1", "t1", "", Fields("disabled", "")),
     Req(13, "UpdateDevice", "d1", "t1", "", Fields("", "n2")),
     Req(14, "UpdateDevice", "d1", "t1", "", Fields("other", "n1")),
     Req(15, "ListDevices", "", "t1", "", Fields("disabled", "")),
     Req(16, "UpdateDevice", "", "t1", "", None)}

\* What is requested in one behaviour.
Workload == {ReqRegister, ReqUpdate}
ReqAll == UNION Workload

Offer(s, req) == Begin(s, req) /\ \E w \in Workload : requested' \subseteq w
MCNext == (\E s \in Session, req \in Request : Offer(s, req)) \/ Step
MCSpec == Init /\ [][MCNext]_vars
=============================================================================
