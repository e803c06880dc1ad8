---------------------------- MODULE MCDeviceSync ----------------------------
(* Small instances of DeviceSync: job p is printed to the Pi, job l is made  *)
(* on the device and decided twice.                                          *)
EXTENDS DeviceSync

CONSTANTS p, l

MCCreatedAt == [j \in Jobs |-> IF j = p THEN 1 ELSE 2]
MCJobOf == [a \in Approvals |-> IF a = 3 THEN p ELSE l]
MCActionOf == [a \in Approvals |-> IF a = 1 THEN "keep" ELSE "print"]
=============================================================================
