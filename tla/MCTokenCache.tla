---------------------------- MODULE MCTokenCache ----------------------------
(* Instances of TokenCache for TLC.                                         *)
EXTENDS TokenCache

CONSTANTS t1, png, remotePng

OneRunEach == {<<j, 1>> : j \in Jobs}
RemotePng == [k \in Keys |-> remotePng]
LocalPng == [k \in Keys |-> png]
=============================================================================
