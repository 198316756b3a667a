---------------------------- MODULE EventDelivery ----------------------------
(* What a listener promises of a contract's deposits: in each life of the   *)
(* process, which begins with nothing handled, a deposit is handled at most *)
(* once, and only after the contract has emitted it.                        *)
EXTENDS Naturals

CONSTANT Ids    \* numbers of the contract's logs

VARIABLES emitted, handled    \* deposits emitted; and how often each was handled

Init == emitted = {} /\ handled = [n \in Ids |-> 0]

Emit(n) == n \notin emitted /\ emitted' = emitted \cup {n} /\ UNCHANGED handled

Handle(n) ==
  /\ n \in emitted /\ handled[n] = 0
  /\ handled' = [handled EXCEPT ![n] = 1]
  /\ UNCHANGED emitted

StartOver == handled' = [n \in Ids |-> 0] /\ UNCHANGED emitted

Next == StartOver \/ \E n \in Ids : Emit(n) \/ Handle(n)

Spec == Init /\ [][Next]_<<emitted, handled>>
=============================================================================
