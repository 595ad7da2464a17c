------------------------------ MODULE AddrSet ------------------------------
(***************************************************************************)
(* What the callers of the breakpoint tree in signal_test/breakpoint.c     *)
(* rely on, and what BreakpointHook takes for granted: a set of addresses  *)
(* that changes by exactly the address that is inserted or deleted.        *)
(***************************************************************************)
CONSTANT Key

VARIABLE addrs

Init == addrs = {}

Insert == \E k \in Key \ addrs : addrs' = addrs \cup {k}
Delete == \E k \in addrs : addrs' = addrs \ {k}

Next == Insert \/ Delete

Spec == Init /\ [][Next]_addrs
=============================================================================
