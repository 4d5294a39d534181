---------------------------- MODULE StreamConfigs ----------------------------
(* Stream configurations for the instances: audio object type, sampling
   frequency index, channels and samples in a frame. *)
EXTENDS Naturals

Stereo     == [aot |-> 2, rate |-> 4, channels |-> 2, frame |-> 1024]
Mono       == [aot |-> 2, rate |-> 4, channels |-> 1, frame |-> 1024]
Usac       == [aot |-> 42, rate |-> 4, channels |-> 2, frame |-> 1024]

OneConfig   == {Stereo}
LatmConfigs == {Stereo, Mono}
StreamConfigurations == {Stereo, Usac}
=============================================================================
