---------------------------- MODULE MCPriceFeed ----------------------------
(* Instances of PriceFeed for TLC.                                          *)
EXTENDS PriceFeed

CONSTANTS c1, c2

\* Two browsers, of which one may stop reading, and no failure, or one browser
\* with a failure or a restart.
OneOrTwoBrowsers ==
  {[clients |-> {c1, c2}, stop |-> {c2}, prices |-> 2, events |-> 0],
   [clients |-> {c1}, stop |-> {c1}, prices |-> 3, events |-> 1]}
=============================================================================
