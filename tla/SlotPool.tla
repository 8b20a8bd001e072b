------------------------------ MODULE SlotPool ------------------------------
(***************************************************************************)
(* What an allocator of single objects promises its list: every object it  *)
(* hands out has an address no other live object has, and only a           *)
(* deallocation ends an object's life.                                     *)
(***************************************************************************)
CONSTANT Addresses

VARIABLE live   \* the addresses handed out and not given back

Init == live = {}

Acquire == \E a \in Addresses \ live : live' = live \cup {a}

GiveBack == \E a \in live : live' = live \ {a}

Next == Acquire \/ GiveBack

Spec == Init /\ [][Next]_live
=============================================================================
