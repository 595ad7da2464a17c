------------------------------ MODULE SlotPool ------------------------------
(***************************************************************************)
(* What the instruction-slot allocator of signal_test/breakpoint.c         *)
(* promises its only client, breakpoint_add: slot_alloc hands out, in one  *)
(* indivisible step, a slot nobody holds, and slot_free takes back a slot  *)
(* its caller holds.  A slot is a pair <<slot set, index>>.                *)
(***************************************************************************)
CONSTANTS Thread,   \* the callers
          Slot      \* every slot of every slot set that may ever exist

VARIABLE held       \* held[t]: the slots thread t has been given

InUse == UNION {held[t] : t \in Thread}

Init == held = [t \in Thread |-> {}]

Alloc(t) ==
  \E s \in Slot \ InUse : held' = [held EXCEPT ![t] = @ \cup {s}]

Free(t) ==
  \E s \in held[t] : held' = [held EXCEPT ![t] = @ \ {s}]

Next == \E t \in Thread : Alloc(t) \/ Free(t)

Spec == Init /\ [][Next]_held
=============================================================================
