-------------------------- MODULE MCCaptureBuffer --------------------------
(* Devices that report nothing, a mono format, or a stereo format. *)
EXTENDS CaptureBuffer

ModelDevices == {[rate |-> 0, channels |-> 0],
                 [rate |-> 48, channels |-> 1],
                 [rate |-> 48, channels |-> 2]}
=============================================================================
