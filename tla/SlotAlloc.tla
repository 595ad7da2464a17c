----------------------------- MODULE SlotAlloc ------------------------------
(***************************************************************************)
(* The instruction-slot allocator of signal_test/breakpoint.c: slot_alloc, *)
(* slot_set_add and slot_free, run by any number of threads, at the        *)
(* granularity of their lock operations.                                   *)
(*                                                                         *)
(* slot_set_add links a new set at the head of the list slot_sets and no   *)
(* set is ever unlinked, so the list is determined by how many sets there  *)
(* are: set number nsets is at the head, set 1 is last, the successor of   *)
(* set k is k - 1, and 0 stands for the list head that ends a traversal.   *)
(***************************************************************************)
EXTENDS Integers, FiniteSets

CONSTANTS
  Thread,          \* threads that call the allocator
  NULL,            \* no owner
  SLOT_PAGE_NUM, SLOT_PAGE_SIZE, SLOT_SIZE,  \* common.h
  UINT_BIT_NUM,    \* bits of one free_slot word
  MaxSets,         \* bound: slot sets ever created
  MaxHeld          \* bound: slots one thread holds at a time

\* Slots of a set, and words of its bitmap (breakpoint.h).
SLOT_NUM == (SLOT_PAGE_NUM * SLOT_PAGE_SIZE) \div SLOT_SIZE
SLOT_MAP_LEN == (SLOT_NUM + UINT_BIT_NUM - 1) \div UINT_BIT_NUM
\* What slot_set_add maps for the slots of a set, and where slot i lies in it.
MapLength == SLOT_PAGE_SIZE
BP_GET_SLOT_OFFSET(i) == i * SLOT_SIZE

SetId == 1 .. MaxSets
Index == 0 .. (SLOT_NUM - 1)
\* Every bit of free_slot, the ones past SLOT_NUM in its last word included.
Bits == 0 .. (SLOT_MAP_LEN * UINT_BIT_NUM - 1)

ASSUME SizesAssumption ==
  /\ NULL \notin Thread
  /\ MaxSets \in Nat /\ MaxHeld \in Nat
  /\ UINT_BIT_NUM \in Nat \ {0}
  /\ SLOT_NUM \in Nat \ {0}
  /\ SLOT_MAP_LEN \in Nat
  /\ SLOT_NUM <= SLOT_MAP_LEN * UINT_BIT_NUM

VARIABLES
  nsets,      \* length of slot_sets
  free_slot,  \* free_slot[k]: the bits that are 1 (free) in set k
  used,       \* used[k]: used_slot_count of set k
  mutex,      \* mutex[k]: the owner of set k's lock
  readers,    \* threads holding slot_sets_lock for reading
  pc, curr, idx, pos,  \* control point and locals of slot_alloc
  held,       \* held[t]: the slots handed to t (slot_set, slot_index)
  aborted     \* an assert failed

setVars   == <<nsets, free_slot, used>>
lockVars  == <<mutex, readers>>
localVars == <<curr, idx, pos>>
vars      == <<setVars, lockVars, pc, localVars, held, aborted>>

Goto(t, l) == pc' = [pc EXCEPT ![t] = l]

Init ==
  /\ nsets = 0
  /\ free_slot = [k \in SetId |-> Bits]
  /\ used = [k \in SetId |-> 0]
  /\ mutex = [k \in SetId |-> NULL]
  /\ readers = {}
  /\ pc = [t \in Thread |-> "idle"]
  /\ curr = [t \in Thread |-> 0]
  /\ idx = [t \in Thread |-> 0]
  /\ pos = [t \in Thread |-> 0]
  /\ held = [t \in Thread |-> {}]
  /\ aborted = FALSE

-----------------------------------------------------------------------------
(***************************************************************************)
(* slot_alloc                                                              *)
(***************************************************************************)

\* A caller enters slot_alloc.
slot_alloc(t) ==
  /\ pc[t] = "idle"
  /\ Cardinality(held[t]) < MaxHeld
  /\ Goto(t, "retry")
  /\ UNCHANGED <<setVars, lockVars, localVars, held, aborted>>

\* Label retry: take slot_sets_lock for reading and stand on the first set.
Retry(t) ==
  /\ pc[t] = "retry"
  /\ readers' = readers \cup {t}
  /\ idx' = [idx EXCEPT ![t] = 0]
  /\ curr' = [curr EXCEPT ![t] = nsets]
  /\ Goto(t, "next")
  /\ UNCHANGED <<setVars, mutex, pos, held, aborted>>

\* The loop body begins: lock the set curr.
LockSet(t) ==
  /\ pc[t] = "next" /\ curr[t] # 0
  /\ mutex[curr[t]] = NULL
  /\ mutex' = [mutex EXCEPT ![curr[t]] = t]
  /\ Goto(t, "scan")
  /\ UNCHANGED <<setVars, readers, localVars, held, aborted>>

\* Mutant of Continue: the set stays locked when the search moves on.
Continue_KeepsLock(t) ==
  /\ curr' = [curr EXCEPT ![t] = @ - 1]
  /\ Goto(t, "next")
  /\ UNCHANGED mutex

\* The next set of the list, after unlocking this one.
Continue(t) ==
  /\ mutex' = [mutex EXCEPT ![curr[t]] = NULL]
  /\ curr' = [curr EXCEPT ![t] = @ - 1]
  /\ Goto(t, "next")

\* Mutant of SkipFull: a full set is skipped without unlocking it.
SkipFull_KeepsLock(t) ==
  /\ pc[t] = "scan" /\ used[curr[t]] = SLOT_NUM
  /\ Continue_KeepsLock(t)
  /\ UNCHANGED <<setVars, readers, idx, pos, held, aborted>>

\* used_slot_count says the set is full: go on with the next one.
SkipFull(t) ==
  /\ pc[t] = "scan" /\ used[curr[t]] = SLOT_NUM
  /\ Continue(t)
  /\ UNCHANGED <<setVars, readers, idx, pos, held, aborted>>

\* The bits that are 1 from word w on, and __builtin_ffs, which gives the
\* lowest of them (as the set of that one bit).
FreeFrom(k, w) == {i \in free_slot[k] : i >= w * UINT_BIT_NUM}
ffs(S) == {i \in S : \A j \in S : i <= j}

\* Mutant of Scan: the set is unlocked before its bit is cleared.
Scan_DropsLock(t) ==
  /\ pc[t] = "scan" /\ used[curr[t]] # SLOT_NUM
  /\ FreeFrom(curr[t], idx[t]) # {}
  /\ \E i \in ffs(FreeFrom(curr[t], idx[t])) : pos' = [pos EXCEPT ![t] = i]
  /\ readers' = readers \ {t}
  /\ mutex' = [mutex EXCEPT ![curr[t]] = NULL]
  /\ Goto(t, "found")
  /\ UNCHANGED <<setVars, curr, idx, held, aborted>>

(***************************************************************************)
(* The word loop.  It starts at idx, which only Retry resets, and stops at *)
(* the first word that is not 0.  A bit past SLOT_NUM breaks off; so does  *)
(* the end of the map; both go on with the next set and this idx.  A bit   *)
(* that is found releases slot_sets_lock and keeps the lock of the set.    *)
(***************************************************************************)
Scan(t) ==
  LET S == FreeFrom(curr[t], idx[t]) IN
  /\ pc[t] = "scan" /\ used[curr[t]] # SLOT_NUM
  /\ IF S = {}
     THEN /\ idx' = [idx EXCEPT ![t] = SLOT_MAP_LEN]
          /\ Continue(t)
          /\ UNCHANGED <<pos, readers>>
     ELSE \E i \in ffs(S) :
            /\ idx' = [idx EXCEPT ![t] = i \div UINT_BIT_NUM]
            /\ IF i + 1 <= SLOT_NUM
               THEN /\ pos' = [pos EXCEPT ![t] = i]
                    /\ readers' = readers \ {t}
                    /\ Goto(t, "found")
                    /\ UNCHANGED <<mutex, curr>>
               ELSE Continue(t) /\ UNCHANGED <<pos, readers>>
  /\ UNCHANGED <<setVars, held, aborted>>

\* Mutant of Found: used_slot_count is not raised.
Found_NoCount(t) ==
  /\ pc[t] = "found"
  /\ free_slot' = [free_slot EXCEPT ![curr[t]] = @ \ {pos[t]}]
  /\ mutex' = [mutex EXCEPT ![curr[t]] = NULL]
  /\ held' = [held EXCEPT ![t] = @ \cup {<<curr[t], pos[t]>>}]
  /\ Goto(t, "idle")
  /\ UNCHANGED <<nsets, used, readers, localVars, aborted>>

\* Mutant of Found: used_slot_count is raised twice.
Found_CountsTwice(t) ==
  /\ pc[t] = "found"
  /\ free_slot' = [free_slot EXCEPT ![curr[t]] = @ \ {pos[t]}]
  /\ used' = [used EXCEPT ![curr[t]] = @ + 2]
  /\ mutex' = [mutex EXCEPT ![curr[t]] = NULL]
  /\ held' = [held EXCEPT ![t] = @ \cup {<<curr[t], pos[t]>>}]
  /\ Goto(t, "idle")
  /\ UNCHANGED <<nsets, readers, localVars, aborted>>

Found(t) ==
  /\ pc[t] = "found"
  /\ free_slot' = [free_slot EXCEPT ![curr[t]] = @ \ {pos[t]}]
  /\ used' = [used EXCEPT ![curr[t]] = @ + 1]
  /\ mutex' = [mutex EXCEPT ![curr[t]] = NULL]
  /\ held' = [held EXCEPT ![t] = @ \cup {<<curr[t], pos[t]>>}]
  /\ Goto(t, "idle")
  /\ UNCHANGED <<nsets, readers, localVars, aborted>>

\* The list is exhausted: release slot_sets_lock and go and create a set.
ListEnd(t) ==
  /\ pc[t] = "next" /\ curr[t] = 0
  /\ readers' = readers \ {t}
  /\ Goto(t, "add")
  /\ UNCHANGED <<setVars, mutex, localVars, held, aborted>>

(***************************************************************************)
(* slot_set_add: the new set (calloc, every bit free, mmap) is private     *)
(* until the write lock of slot_sets_lock links it at the head; the write  *)
(* lock waits for every reader.  Then goto retry.                          *)
(***************************************************************************)
slot_set_add(t) ==
  /\ pc[t] = "add"
  /\ readers = {}
  /\ nsets < MaxSets
  /\ nsets' = nsets + 1
  /\ Goto(t, "retry")
  /\ UNCHANGED <<free_slot, used, lockVars, localVars, held, aborted>>

\* Mutant of slot_free: used_slot_count is not lowered.
slot_free_NoCount(t) ==
  /\ pc[t] = "idle"
  /\ \E s \in held[t] :
       /\ s[2] < UINT_BIT_NUM
       /\ mutex[s[1]] = NULL
       /\ free_slot' = [free_slot EXCEPT ![s[1]] = @ \cup {s[2]}]
       /\ held' = [held EXCEPT ![t] = @ \ {s}]
  /\ UNCHANGED <<nsets, used, lockVars, pc, localVars, aborted>>

(***************************************************************************)
(* slot_free, called by the holder of the slot: the assertion on the       *)
(* index, then under the lock of the set the bit is set and the count      *)
(* lowered, unless the bit is set already.                                 *)
(***************************************************************************)
slot_free(t) ==
  /\ pc[t] = "idle"
  /\ \E s \in held[t] :
       IF s[2] < UINT_BIT_NUM
       THEN /\ mutex[s[1]] = NULL
            /\ free_slot' = [free_slot EXCEPT ![s[1]] = @ \cup {s[2]}]
            /\ used' = [used EXCEPT ![s[1]] =
                          IF s[2] \in free_slot[s[1]] THEN @ ELSE @ - 1]
            /\ held' = [held EXCEPT ![t] = @ \ {s}]
            /\ UNCHANGED aborted
       ELSE aborted' = TRUE /\ UNCHANGED <<free_slot, used, held>>
  /\ UNCHANGED <<nsets, lockVars, pc, localVars>>

AllocStep(t) ==
  \/ slot_alloc(t) \/ Retry(t) \/ LockSet(t) \/ SkipFull(t)
  \/ Scan(t) \/ Found(t) \/ ListEnd(t) \/ slot_set_add(t)

\* abort() ends the process: no thread takes a step afterwards.
NextAlloc == ~aborted /\ \E t \in Thread : AllocStep(t)
Next      == ~aborted /\ \E t \in Thread : AllocStep(t) \/ slot_free(t)

Spec == Init /\ [][Next]_vars

(***************************************************************************)
(* The program as it stands frees a slot only on a path of breakpoint_add  *)
(* that is never taken (see BreakpointHook), so its allocator only ever    *)
(* allocates.  Every thread inside slot_alloc keeps running: the code      *)
(* holds no lock across anything that may block for ever.                  *)
(***************************************************************************)
AllocSpec ==
  /\ Init /\ [][NextAlloc]_vars
  /\ \A t \in Thread : WF_vars(~aborted /\ pc[t] # "idle" /\ AllocStep(t))

-----------------------------------------------------------------------------
(***************************************************************************)
(* Properties                                                              *)
(***************************************************************************)

\* The variables of slot_alloc, slot_free and struct slot_set have the
\* shape the code gives them; in particular used_slot_count never passes
\* SLOT_NUM.
TypeOK ==
  /\ nsets \in 0 .. MaxSets
  /\ free_slot \in [SetId -> SUBSET Bits]
  /\ used \in [SetId -> 0 .. SLOT_NUM]
  /\ mutex \in [SetId -> Thread \cup {NULL}]
  /\ readers \in SUBSET Thread
  /\ pc \in [Thread -> {"idle", "retry", "next", "scan", "found", "add"}]
  /\ curr \in [Thread -> 0 .. MaxSets]
  /\ idx \in [Thread -> 0 .. SLOT_MAP_LEN]
  /\ pos \in [Thread -> Bits]
  /\ held \in [Thread -> SUBSET (SetId \X Index)]
  /\ aborted \in BOOLEAN

\* used_slot_count (breakpoint.c:77, 108, 133) is exactly the number of
\* slots whose bit is 0 in every state, although slot_alloc finds the bit
\* and clears it in two steps and drops slot_sets_lock in between.
CountExact ==
  \A k \in SetId : used[k] = Cardinality(Index \ free_slot[k])

\* idx is reset at label retry only, not for every slot set
\* (breakpoint.c:72 and 82).  That is harmless: a thread moves on to
\* another set with idx = 0, because a set that is not full always yields.
IdxIsZeroBetweenSets ==
  \A t \in Thread : pc[t] = "next" => idx[t] = 0

\* Two threads that both find every set full both add one ("FIXME" at
\* breakpoint.c:100).  The waste is bounded by the number of threads: there
\* are never more sets with a free slot than there are threads.
OverAllocationBound ==
  Cardinality({k \in 1 .. nsets : used[k] < SLOT_NUM}) <= Cardinality(Thread)

\* A call of slot_alloc returns (breakpoint.c:71-112): the retry loop ends
\* and nobody waits for ever for a set's lock or for slot_sets_lock.
AllocReturns ==
  \A t \in Thread : pc[t] = "retry" ~> pc[t] = "idle"

\* slot_alloc and slot_free implement the indivisible operations of
\* SlotPool: no slot is ever handed to two holders at once.
Pool == INSTANCE SlotPool WITH Slot <- SetId \X Index
ImplementsPool == Pool!Spec

\* SLOT_PAGE_NUM pages hold the slots of a set (common.h:22), so a slot
\* handed out lies in the memory slot_set_add mapped (breakpoint.c:45-49).
SlotIsMapped ==
  \A t \in Thread : \A s \in held[t] :
    BP_GET_SLOT_OFFSET(s[2]) + SLOT_SIZE <= MapLength
=============================================================================
