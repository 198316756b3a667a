----------------------------- MODULE MCPoolSync -----------------------------
(* Instances of PoolSync for TLC.                                           *)
EXTENDS PoolSync

AllCalls == Calls
PrintKeys == PoolKeys

\* One pool whose rounds may overlap, or two pools and one round at a time.
OneOrTwoPools == {[pools |-> 1, events |-> 2, overlaps |-> TRUE],
                  [pools |-> 2, events |-> 1, overlaps |-> FALSE]}
=============================================================================
