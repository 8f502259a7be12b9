-------------------------- MODULE MCDeviceMonitor --------------------------
(***************************************************************************)
(* DeviceMonitor for TLC: what the managers choose from.                   *)
(***************************************************************************)
EXTENDS DeviceMonitor

On(m, r) == [enabled |-> TRUE, threshold |-> 1, mode |-> m, repeat |-> 1,
             recovery |-> r]

SomeSettings == {On("once", TRUE), On("repeat", FALSE),
                 [On("once", TRUE) EXCEPT !.enabled = FALSE, !.threshold = 2]}
=============================================================================
