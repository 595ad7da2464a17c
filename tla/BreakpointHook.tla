--------------------------- MODULE BreakpointHook ---------------------------
(***************************************************************************)
(* libhook (signal_test/): breakpoints that are patched into the text of   *)
(* the process the library is preloaded into, and the SIGTRAP handlers     *)
(* that step the displaced instructions out of line.                       *)
(*                                                                         *)
(* Three kinds of process: the constructor lib_init and other callers of   *)
(* the breakpoint interface (Ctl), running breakpoint_add, _enable and     *)
(* _disable; and the threads of the traced program (Thread), executing     *)
(* text, slots and, when they hit a brk, a signal handler.                 *)
(*                                                                         *)
(* Addresses are counted in instructions.  An instruction is named by the  *)
(* text address it was linked at, so untouched text has text[a] = a.  The  *)
(* slot s of a breakpoint is two words: the instruction, at location       *)
(* <<"slot", s>>, and a brk, at <<"ret", s>>.  The slot allocator and the  *)
(* red-black tree appear by what they promise: an allocation gives a slot  *)
(* nobody holds (SlotPool) and the tree is a map from addresses.           *)
(***************************************************************************)
EXTENDS Integers, FiniteSets

CONSTANTS
  Thread, main,    \* threads of the program; the one that runs main
  Ctl, lib,        \* callers of the breakpoint interface; the constructor
  Bkpt,            \* breakpoint_t objects
  entry_bp, bkp,   \* the two that lib_init creates
  Addr, Slot, Obj,
  Enter,           \* Enter[b]: bp_enter.address, set before breakpoint_add
  ObjAt,           \* ObjAt[a]: the executable mapping around a, or NULL
  Early,           \* objects mapped when lib_init runs
  NO_BKPT,         \* objects flagged NO_BKPT (the library itself)
  NO_SLOT,         \* breakpoints flagged NO_SLOT by their creator
  Use,             \* Use[c]: breakpoints c handles after start-up
  Succ, Starts,    \* the program's control flow, see TracedProgram
  SigThread,       \* threads that asynchronous signals are delivered to
  SigEntry,        \* first instruction of the program's signal handler
  SigReturn,       \* its sigreturn
  BRK, NULL, ABSENT, DEAD,
  MaxCalls         \* bound: calls a caller makes after start-up

ASSUME ConstantsAssumption ==
  /\ main \in Thread /\ lib \in Ctl /\ entry_bp \in Bkpt /\ bkp \in Bkpt
  /\ Addr \subseteq Nat /\ Starts \subseteq Addr
  /\ Enter \in [Bkpt -> Addr] /\ ObjAt \in [Addr -> Obj \cup {NULL}]
  /\ Early \subseteq Obj /\ NO_BKPT \subseteq Obj
  /\ NO_SLOT \subseteq Bkpt \ {entry_bp, bkp}
  \* entry_bp is static in hook_main.c: only lib_init and its handler know it.
  /\ Use \in [Ctl -> SUBSET (Bkpt \ {entry_bp})]
  /\ Succ \in [Addr -> SUBSET Addr]
  /\ SigThread \subseteq Thread /\ {SigEntry, SigReturn} \subseteq Addr
  /\ Succ[SigReturn] = {}
  /\ MaxCalls \in Nat

\* The sentinels are values of their own.
ASSUME SentinelAssumption ==
  /\ BRK \notin Addr /\ NULL \notin Addr /\ NULL # BRK
  /\ NULL \notin Bkpt /\ ABSENT \notin Bkpt /\ NULL # ABSENT
  /\ NULL \notin Slot /\ NULL \notin Ctl /\ NULL \notin Obj

\* A breakpoint stands on an instruction that does nothing to the pc: it is
\* executed in a slot, at another address, and resumed behind its original.
ASSUME PlainAssumption ==
  \A b \in Bkpt : Enter[b] + 1 \in Addr /\ Succ[Enter[b]] = {Enter[b] + 1}

Loc == ({"text"} \X Addr) \cup ({"slot", "ret"} \X Slot)

\* What the kernel saves of a thread that a signal of the program interrupts:
\* where it is, and how far in a SIGTRAP handler.
Saved == [pc : Loc, hpc : {"run", "sigtrap", "found"}, hbp : Bkpt \cup {NULL}]

ASSUME DeadAssumption == DEAD \notin Addr /\ DEAD \notin Loc /\ NULL \notin Saved

VARIABLES
  \* the traced program
  pc,         \* pc[t]: location of the next instruction of t, or DEAD
  ran,        \* ran[t]: instruction executed last, with a flipping bit
  saved,      \* saved[t]: what a signal of the program has interrupted, or NULL
  hpc,        \* hpc[t]: where t is in a SIGTRAP handler
  hbp,        \* hbp[t]: the breakpoint the handler has found
  singlestep, \* thread map: singlestep_bp of t's thread_t, ABSENT if none
  \* memory
  text,       \* text[a]: the instruction in memory at a
  stale,      \* stale[a]: what the icache may still hold for a, or NULL
  writable,   \* objects whose text is mapped writable
  slotmem,    \* slotmem[s]: the instruction in slot s
  \* the library
  tree,       \* breakpoints: address -> breakpoint
  slot,       \* slot[b]: slot_set and slot_index of b
  slots_used, \* slots handed out by slot_alloc
  enabled,    \* breakpoints whose ENABLE attribute is set
  linked,     \* breakpoints linked into their object (obj is set)
  lock,       \* lock[b]: owner of b's mutex
  objects,    \* the object list
  handler,    \* which function handles SIGTRAP
  entry_hit,
  \* callers of the interface
  cpc, cbp, rv, calls,  \* control point, argument, result, calls made
  boot,       \* progress of lib_init
  fault       \* how the process died, or "none"

progVars == <<pc, ran, saved>>
trapVars == <<hpc, hbp, singlestep, handler, entry_hit>>
memVars  == <<text, stale, writable, slotmem>>
libVars  == <<tree, slot, slots_used, enabled, linked, lock>>
ctlVars  == <<cpc, cbp, rv, calls, boot>>
vars     == <<progVars, trapVars, memVars, libVars, objects, ctlVars, fault>>

Init ==
  /\ pc = [t \in Thread |-> IF t = main THEN <<"text", Enter[entry_bp]>> ELSE DEAD]
  /\ ran = [t \in Thread |-> <<NULL, FALSE>>]
  /\ saved = [t \in Thread |-> NULL]
  /\ hpc = [t \in Thread |-> "run"]
  /\ hbp = [t \in Thread |-> NULL]
  /\ singlestep = [t \in Thread |-> ABSENT]
  /\ text = [a \in Addr |-> a]
  /\ stale = [a \in Addr |-> NULL]
  /\ writable = {}
  /\ slotmem = [s \in Slot |-> NULL]
  /\ tree = [l \in Loc |-> NULL]
  /\ slot = [b \in Bkpt |-> NULL]
  /\ slots_used = {}
  /\ enabled = {} /\ linked = {}
  /\ lock = [b \in Bkpt |-> NULL]
  /\ objects = {}
  /\ handler = "default"
  /\ entry_hit = FALSE
  /\ cpc = [c \in Ctl |-> "idle"]
  /\ cbp = [c \in Ctl |-> NULL]
  /\ rv = [c \in Ctl |-> 0]
  /\ calls = [c \in Ctl |-> 0]
  /\ boot = 0
  /\ fault = "none"

Goto(c, l)   == cpc' = [cpc EXCEPT ![c] = l]
Return(c, r) == Goto(c, "return") /\ rv' = [rv EXCEPT ![c] = r]
Acquire(c, b) == lock[b] = NULL /\ lock' = [lock EXCEPT ![b] = c]
Release(b)    == lock' = [lock EXCEPT ![b] = NULL]
EnterLoc(b)   == <<"text", Enter[b]>>
ReturnLoc(b)  == <<"ret", slot[b]>>

\* The tree of breakpoints, each operation in one critical section of
\* breakpoint_lock: the entry at an address, and the insertion of one where
\* there is none.
breakpoint_find(l) == tree[l]
breakpoint_rb_insert(l, b) == tree' = [tree EXCEPT ![l] = b]

-----------------------------------------------------------------------------
(***************************************************************************)
(* lib_init and the callers                                                *)
(***************************************************************************)

\* The constructor installs the entry handler and loads the object list.
lib_init ==
  /\ boot = 0
  /\ handler' = "entry"
  /\ objects' = Early
  /\ boot' = 1
  /\ UNCHANGED <<progVars, hpc, hbp, singlestep, entry_hit, memVars, libVars,
                 cpc, cbp, rv, calls, fault>>

\* Its four calls, in order; 5 means it has returned ("Library ready").
LibInitCall(i) ==
  CASE i = 1 -> <<"add", entry_bp>>
    [] i = 2 -> <<"enable", entry_bp>>
    [] i = 3 -> <<"add", bkp>>
    [] i = 4 -> <<"enable", bkp>>

Ready == boot = 5

(***************************************************************************)
(* A call begins.  The assertions at the head of each function are what    *)
(* its caller must see to: a breakpoint to be added is in no object's      *)
(* list, one to be enabled or disabled has its entry node in the tree.     *)
(***************************************************************************)
Call(c, op, b) ==
  /\ cpc[c] = "idle"
  /\ IF Ready THEN calls[c] < MaxCalls /\ b \in Use[c]
     ELSE boot > 0 /\ c = lib /\ <<op, b>> = LibInitCall(boot)
  /\ IF op = "add" THEN b \notin linked ELSE tree[EnterLoc(b)] = b
  /\ Goto(c, op)
  /\ cbp' = [cbp EXCEPT ![c] = b]
  /\ calls' = [calls EXCEPT ![c] = IF Ready THEN @ + 1 ELSE @]
  /\ UNCHANGED <<progVars, trapVars, memVars, libVars, objects, rv, boot, fault>>

\* A call returns; lib_init aborts when one of its calls fails.
CallReturns(c) ==
  /\ cpc[c] = "return"
  /\ Goto(c, "idle")
  /\ cbp' = [cbp EXCEPT ![c] = NULL]
  /\ rv' = [rv EXCEPT ![c] = 0]
  /\ boot' = IF Ready \/ rv[c] # 0 THEN boot ELSE boot + 1
  /\ fault' = IF ~Ready /\ rv[c] # 0 THEN "abort" ELSE fault
  /\ UNCHANGED <<progVars, trapVars, memVars, libVars, objects, calls>>

-----------------------------------------------------------------------------
(***************************************************************************)
(* breakpoint_add                                                          *)
(***************************************************************************)

\* Take the breakpoint's lock and look its object up; -1 when the address
\* lies in no loaded object, -2 when the object takes no breakpoints.
AddBegin(c) ==
  LET b == cbp[c]
      o == ObjAt[Enter[b]] IN
  /\ cpc[c] = "add"
  /\ lock[b] = NULL
  /\ \/ /\ o \notin objects
        /\ Return(c, -1)
        /\ UNCHANGED lock
     \/ /\ o \in objects /\ o \in NO_BKPT
        /\ Return(c, -2)
        /\ UNCHANGED lock
     \/ /\ o \in objects \ NO_BKPT
        /\ Acquire(c, b)
        /\ Goto(c, "add_enter")
        /\ UNCHANGED rv
  /\ UNCHANGED <<progVars, trapVars, memVars, tree, slot, slots_used, enabled,
                 linked, objects, cbp, calls, boot, fault>>

\* breakpoint_rb_search_insert of bp_enter: find and insert under one
\* critical section of breakpoint_lock; -3 when the address is taken.
AddEnter(c) ==
  LET b == cbp[c] IN
  /\ cpc[c] = "add_enter"
  /\ \/ /\ breakpoint_find(EnterLoc(b)) # NULL
        /\ Return(c, -3)
        /\ Release(b)
        /\ UNCHANGED tree
     \/ /\ breakpoint_find(EnterLoc(b)) = NULL
        /\ breakpoint_rb_insert(EnterLoc(b), b)
        /\ Goto(c, IF b \in NO_SLOT THEN "add_link" ELSE "add_slot")
        /\ UNCHANGED <<lock, rv>>
  /\ UNCHANGED <<progVars, trapVars, memVars, slot, slots_used, enabled,
                 linked, objects, cbp, calls, boot, fault>>

\* Mutant of FreeSlots: a slot that is in use is handed out.
FreeSlots_All == Slot

\* slot_alloc (SlotPool): any slot that nobody holds.
FreeSlots == Slot \ slots_used

AddSlot(c) ==
  /\ cpc[c] = "add_slot"
  /\ \E s \in FreeSlots :
       /\ slot' = [slot EXCEPT ![cbp[c]] = s]
       /\ slots_used' = slots_used \cup {s}
  /\ Goto(c, "add_copy")
  /\ UNCHANGED <<progVars, trapVars, memVars, tree, enabled, linked, lock,
                 objects, cbp, rv, calls, boot, fault>>

\* Copy the instruction in memory at the breakpoint into the slot, put a brk
\* behind it, set bp_return.address and flush the slot from the icache.
AddCopy(c) ==
  LET b == cbp[c] IN
  /\ cpc[c] = "add_copy"
  /\ slotmem' = [slotmem EXCEPT ![slot[b]] = text[Enter[b]]]
  /\ Goto(c, "add_return")
  /\ UNCHANGED <<progVars, trapVars, text, stale, writable, libVars, objects,
                 cbp, rv, calls, boot, fault>>

\* breakpoint_rb_search_insert of bp_return; when that address is taken,
\* unlock, slot_free and -4, with bp_enter left in the tree.
AddReturn(c) ==
  LET b == cbp[c] IN
  /\ cpc[c] = "add_return"
  /\ IF breakpoint_find(ReturnLoc(b)) = NULL
     THEN /\ breakpoint_rb_insert(ReturnLoc(b), b)
          /\ Goto(c, "add_link")
          /\ UNCHANGED <<lock, slots_used, rv>>
     ELSE /\ Release(b)
          /\ slots_used' = slots_used \ {slot[b]}
          /\ Return(c, -4)
          /\ UNCHANGED tree
  /\ UNCHANGED <<progVars, trapVars, memVars, slot, enabled, linked, objects,
                 cbp, calls, boot, fault>>

\* Link the breakpoint into its object's chain, set obj, unlock, return 0.
AddLink(c) ==
  /\ cpc[c] = "add_link"
  /\ linked' = linked \cup {cbp[c]}
  /\ Release(cbp[c])
  /\ Return(c, 0)
  /\ UNCHANGED <<progVars, trapVars, memVars, tree, slot, slots_used, enabled,
                 objects, cbp, calls, boot, fault>>

-----------------------------------------------------------------------------
(***************************************************************************)
(* breakpoint_enable and breakpoint_disable                                *)
(***************************************************************************)

\* Mutant of NothingToDo: the early return does not unlock.
NothingToDo_KeepsLock(c) == Return(c, 0) /\ Acquire(c, cbp[c])

\* Lock, see that the attribute is as it should be, unlock, return 0.
NothingToDo(c) == Return(c, 0) /\ lock[cbp[c]] = NULL /\ UNCHANGED lock

\* Take the lock; return at once when the attribute already says so;
\* otherwise change the attribute and go on to patch the text.
EnableBegin(c) ==
  LET b == cbp[c] IN
  /\ cpc[c] = "enable"
  /\ \/ /\ b \in enabled
        /\ NothingToDo(c)
        /\ UNCHANGED enabled
     \/ /\ b \notin enabled
        /\ enabled' = enabled \cup {b}
        /\ Acquire(c, b)
        /\ Goto(c, "en_unprotect")
        /\ UNCHANGED rv
  /\ UNCHANGED <<progVars, trapVars, memVars, tree, slot, slots_used, linked,
                 objects, cbp, calls, boot, fault>>

\* breakpoint_disable also computes where the slot is, through slot_set: a
\* breakpoint without a slot has a null slot_set.
DisableBegin(c) ==
  LET b == cbp[c] IN
  /\ cpc[c] = "disable"
  /\ \/ /\ b \notin enabled
        /\ NothingToDo(c)
        /\ UNCHANGED <<enabled, fault>>
     \/ /\ b \in enabled
        /\ enabled' = enabled \ {b}
        /\ Acquire(c, b)
        /\ fault' = IF slot[b] = NULL THEN "segv" ELSE fault
        /\ Goto(c, "dis_unprotect")
        /\ UNCHANGED rv
  /\ UNCHANGED <<progVars, trapVars, memVars, tree, slot, slots_used, linked,
                 objects, cbp, calls, boot>>

\* object_memory_unlock: mprotect the object's text writable.  It asserts
\* that the breakpoint's obj is set.
object_memory_unlock(c, from, to) ==
  LET b == cbp[c] IN
  /\ cpc[c] = from
  /\ Goto(c, to)
  /\ IF b \in linked
     THEN writable' = writable \cup {ObjAt[Enter[b]]} /\ UNCHANGED fault
     ELSE fault' = "abort" /\ UNCHANGED writable
  /\ UNCHANGED <<progVars, trapVars, text, stale, slotmem, libVars, objects,
                 cbp, rv, calls, boot>>

\* Store an instruction over the text at the breakpoint.  Until the flush a
\* thread may fetch the old instruction.  A store to text that is not
\* writable kills the process.
WriteText(c, from, instr, to) ==
  LET a == Enter[cbp[c]] IN
  /\ cpc[c] = from
  /\ Goto(c, to)
  /\ IF ObjAt[a] \in writable
     THEN /\ text' = [text EXCEPT ![a] = instr]
          /\ stale' = [stale EXCEPT ![a] = text[a]]
          /\ UNCHANGED fault
     ELSE fault' = "segv" /\ UNCHANGED <<text, stale>>
  /\ UNCHANGED <<progVars, trapVars, writable, slotmem, libVars, objects, cbp,
                 rv, calls, boot>>

\* Mutants of Flush and Protect: it is left out.
Flush_Never(o)   == UNCHANGED stale
Protect_Never(o) == UNCHANGED writable

Flush(o)   == stale' = [a \in Addr |-> IF ObjAt[a] = o THEN NULL ELSE stale[a]]
Protect(o) == writable' = writable \ {o}

\* object_memory_lock: mprotect the object's text read-only and flush it
\* from the icache; then the breakpoint is unlocked and the call returns 0.
object_memory_lock(c) ==
  LET o == ObjAt[Enter[cbp[c]]] IN
  /\ cpc[c] = "protect"
  /\ Protect(o) /\ Flush(o)
  /\ Release(cbp[c])
  /\ Return(c, 0)
  /\ UNCHANGED <<progVars, trapVars, text, slotmem, tree, slot, slots_used,
                 enabled, linked, objects, cbp, calls, boot, fault>>

EnableUnprotect(c)  == object_memory_unlock(c, "en_unprotect", "en_write")
DisableUnprotect(c) == object_memory_unlock(c, "dis_unprotect", "dis_write")
EnableWrite(c) == WriteText(c, "en_write", BRK, "protect")

\* Mutant of DisableWrite: instr_ptr is stored, not what it points to.
DisableWrite_NoDeref(c) == WriteText(c, "dis_write", slot[cbp[c]], "protect")

DisableWrite(c) == WriteText(c, "dis_write", slotmem[slot[cbp[c]]], "protect")

CtlStep(c) ==
  \/ CallReturns(c)
  \/ AddBegin(c) \/ AddEnter(c) \/ AddSlot(c) \/ AddCopy(c)
  \/ AddReturn(c) \/ AddLink(c)
  \/ EnableBegin(c) \/ EnableUnprotect(c) \/ EnableWrite(c)
  \/ DisableBegin(c) \/ DisableUnprotect(c) \/ DisableWrite(c)
  \/ object_memory_lock(c)

-----------------------------------------------------------------------------
(***************************************************************************)
(* Threads of the program                                                  *)
(***************************************************************************)

\* What t's next instruction may be fetched as.
Fetch(t) ==
  CASE pc[t][1] = "text" -> {text[pc[t][2]]} \cup ({stale[pc[t][2]]} \ {NULL})
    [] pc[t][1] = "slot" -> {slotmem[pc[t][2]]}
    [] pc[t][1] = "ret"  -> {BRK}

Runs(t) == Ready /\ pc[t] # DEAD /\ hpc[t] = "run"

\* Where control goes after an instruction executed at t's pc.
After(t) ==
  IF pc[t][1] = "slot" THEN {<<"ret", pc[t][2]>>}
  ELSE {<<"text", n>> : n \in Succ[pc[t][2]]}

Execute(t) ==
  /\ Runs(t)
  /\ \E i \in Fetch(t) \ {BRK} : ran' = [ran EXCEPT ![t] = <<i, ~ran[t][2]>>]
  /\ \E l \in After(t) : pc' = [pc EXCEPT ![t] = l]
  /\ UNCHANGED <<saved, trapVars, memVars, libVars, objects, ctlVars, fault>>

\* SIGTRAP is blocked while its handler runs: one that is interrupted.
TrapBlocked(t) == saved[t] # NULL /\ saved[t].hpc # "run"

\* A brk raises SIGTRAP; the kernel enters the handler installed now, or
\* kills the process when SIGTRAP is blocked.
Trap(t) ==
  /\ Runs(t)
  /\ BRK \in Fetch(t)
  /\ hpc' = [hpc EXCEPT ![t] = handler]
  /\ fault' = IF TrapBlocked(t) THEN "killed" ELSE fault
  /\ UNCHANGED <<progVars, hbp, singlestep, handler, entry_hit, memVars,
                 libVars, objects, ctlVars>>

\* A signal of the program arrives, in its text, in a slot or, because the
\* mask that set_sighandle installs is empty, in the SIGTRAP handler; the
\* program's handler runs on top of it until its sigreturn.
Interrupt(t) ==
  /\ t \in SigThread /\ handler = "sigtrap"
  /\ pc[t] # DEAD /\ saved[t] = NULL
  /\ saved' = [saved EXCEPT ![t] = [pc |-> pc[t], hpc |-> hpc[t], hbp |-> hbp[t]]]
  /\ pc' = [pc EXCEPT ![t] = <<"text", SigEntry>>]
  /\ hpc' = [hpc EXCEPT ![t] = "run"]
  /\ hbp' = [hbp EXCEPT ![t] = NULL]
  /\ UNCHANGED <<ran, singlestep, handler, entry_hit, memVars, libVars, objects,
                 ctlVars, fault>>

Sigreturn(t) ==
  /\ Runs(t) /\ pc[t] = <<"text", SigReturn>> /\ saved[t] # NULL
  /\ \E i \in Fetch(t) \ {BRK} : ran' = [ran EXCEPT ![t] = <<i, ~ran[t][2]>>]
  /\ pc' = [pc EXCEPT ![t] = saved[t].pc]
  /\ hpc' = [hpc EXCEPT ![t] = saved[t].hpc]
  /\ hbp' = [hbp EXCEPT ![t] = saved[t].hbp]
  /\ saved' = [saved EXCEPT ![t] = NULL]
  /\ UNCHANGED <<singlestep, handler, entry_hit, memVars, libVars, objects,
                 ctlVars, fault>>

\* The program starts a thread (its id may have been used before: nothing
\* removes a thread_t from the thread map) or a thread ends.
Spawn(t) ==
  /\ handler = "sigtrap"
  /\ pc[t] = DEAD
  /\ \E a \in Starts : pc' = [pc EXCEPT ![t] = <<"text", a>>]
  /\ UNCHANGED <<ran, saved, trapVars, memVars, libVars, objects, ctlVars, fault>>

Exit(t) ==
  /\ Runs(t) /\ t # main
  /\ pc[t][1] = "text" /\ saved[t] = NULL
  /\ pc' = [pc EXCEPT ![t] = DEAD]
  /\ UNCHANGED <<ran, saved, trapVars, memVars, libVars, objects, ctlVars, fault>>

-----------------------------------------------------------------------------
(***************************************************************************)
(* The SIGTRAP handlers                                                    *)
(***************************************************************************)

\* thread_map_find, and thread_new and thread_map_add when there is none.
ThreadOf(t) == IF singlestep[t] = ABSENT THEN NULL ELSE singlestep[t]

\* Mutant of EndStep: resume at the breakpoint, not behind it.
EndStep_SamePc(t, b) ==
  /\ pc' = [pc EXCEPT ![t] = EnterLoc(b)]
  /\ singlestep' = [singlestep EXCEPT ![t] = NULL]

\* Mutant of EndStep: singlestep_bp is not reset.
EndStep_NoReset(t, b) ==
  /\ pc' = [pc EXCEPT ![t] = <<"text", Enter[b] + 1>>]
  /\ singlestep' = [singlestep EXCEPT ![t] = ThreadOf(t)]

\* The end of a single step: resume behind the breakpoint.
EndStep(t, b) ==
  /\ pc' = [pc EXCEPT ![t] = <<"text", Enter[b] + 1>>]
  /\ singlestep' = [singlestep EXCEPT ![t] = NULL]

\* entrypoint_trap_handler.  The second hit is taken for the end of the
\* single step: switch to sigtrap_handler and resume behind the entry point.
\* The first one reloads the objects and sends the thread to the slot.
EntrySecond(t) ==
  /\ hpc[t] = "entry" /\ entry_hit
  /\ handler' = "sigtrap"
  /\ EndStep(t, entry_bp)
  /\ hpc' = [hpc EXCEPT ![t] = "run"]
  /\ UNCHANGED <<ran, saved, hbp, entry_hit, memVars, libVars, objects, ctlVars, fault>>

EntryFirst(t) ==
  /\ hpc[t] = "entry" /\ ~entry_hit
  /\ objects' = Obj
  /\ entry_hit' = TRUE
  /\ singlestep' = [singlestep EXCEPT ![t] = entry_bp]
  /\ IF slot[entry_bp] # NULL
     THEN pc' = [pc EXCEPT ![t] = <<"slot", slot[entry_bp]>>] /\ UNCHANGED fault
     ELSE fault' = "segv" /\ UNCHANGED pc
  /\ hpc' = [hpc EXCEPT ![t] = "run"]
  /\ UNCHANGED <<ran, saved, hbp, handler, memVars, libVars, ctlVars>>

\* sigtrap_handler, up to breakpoint_find and assert(bp != NULL).
SigtrapFind(t) ==
  /\ hpc[t] = "sigtrap"
  /\ singlestep' = [singlestep EXCEPT ![t] = ThreadOf(t)]
  /\ hbp' = [hbp EXCEPT ![t] = breakpoint_find(pc[t])]
  /\ hpc' = [hpc EXCEPT ![t] = "found"]
  /\ fault' = IF breakpoint_find(pc[t]) = NULL THEN "abort" ELSE fault
  /\ UNCHANGED <<progVars, handler, entry_hit, memVars, libVars, objects, ctlVars>>

\* The rest of it, under the breakpoint's lock.  A thread that is stepping
\* resumes behind the breakpoint; the assertion says it steps this one.
SigtrapFinish(t) ==
  /\ hpc[t] = "found" /\ lock[hbp[t]] = NULL
  /\ singlestep[t] # NULL
  /\ IF singlestep[t] = hbp[t]
     THEN EndStep(t, hbp[t]) /\ UNCHANGED fault
     ELSE fault' = "abort" /\ UNCHANGED <<pc, singlestep>>
  /\ hpc' = [hpc EXCEPT ![t] = "run"]
  /\ hbp' = [hbp EXCEPT ![t] = NULL]
  /\ UNCHANGED <<ran, saved, handler, entry_hit, memVars, libVars, objects, ctlVars>>

\* A thread that is not stepping is sent to the breakpoint's slot.
SigtrapBegin(t) ==
  /\ hpc[t] = "found" /\ lock[hbp[t]] = NULL
  /\ singlestep[t] = NULL
  /\ singlestep' = [singlestep EXCEPT ![t] = hbp[t]]
  /\ IF slot[hbp[t]] # NULL
     THEN pc' = [pc EXCEPT ![t] = <<"slot", slot[hbp[t]]>>] /\ UNCHANGED fault
     ELSE fault' = "segv" /\ UNCHANGED pc
  /\ hpc' = [hpc EXCEPT ![t] = "run"]
  /\ hbp' = [hbp EXCEPT ![t] = NULL]
  /\ UNCHANGED <<ran, saved, handler, entry_hit, memVars, libVars, objects, ctlVars>>

HandlerStep(t) ==
  EntrySecond(t) \/ EntryFirst(t) \/ SigtrapFind(t) \/ SigtrapFinish(t) \/ SigtrapBegin(t)

-----------------------------------------------------------------------------
\* A dead process takes no steps.
Next ==
  /\ fault = "none"
  /\ \/ lib_init
     \/ \E c \in Ctl : CtlStep(c)
     \/ \E c \in Ctl, op \in {"add", "enable", "disable"}, b \in Bkpt : Call(c, op, b)
     \/ \E t \in Thread : \/ Execute(t) \/ Trap(t) \/ Spawn(t) \/ Exit(t)
                          \/ Interrupt(t) \/ Sigreturn(t) \/ HandlerStep(t)

Spec == Init /\ [][Next]_vars

(***************************************************************************)
(* The scheduler runs every thread: one that is inside the library or a    *)
(* signal handler goes on.  Signals of the program leave it time: a thread *)
(* that is brought back to a slot or to the SIGTRAP handler again and      *)
(* again proceeds there.  Callers are not obliged to call, nor threads to  *)
(* run their text.                                                         *)
(***************************************************************************)
InSlot(t) == pc[t] # DEAD /\ pc[t][1] # "text"

Fairness ==
  /\ \A c \in Ctl : WF_vars(fault = "none" /\ CtlStep(c))
  /\ \A t \in Thread :
       /\ SF_vars(fault = "none" /\ HandlerStep(t))
       /\ SF_vars(fault = "none" /\ InSlot(t) /\ (Execute(t) \/ Trap(t)))
       /\ WF_vars(fault = "none" /\ saved[t] # NULL /\ (Execute(t) \/ Sigreturn(t)))

FairSpec == Spec /\ Fairness

-----------------------------------------------------------------------------
(***************************************************************************)
(* Properties                                                              *)
(***************************************************************************)
Word == Addr \cup {BRK, NULL}

\* Every variable has its type; rv includes the four error returns of
\* breakpoint_add.
TypeOK ==
  /\ pc \in [Thread -> Loc \cup {DEAD}]
  /\ ran \in [Thread -> Word \X BOOLEAN]
  /\ saved \in [Thread -> Saved \cup {NULL}]
  /\ hpc \in [Thread -> {"run", "default", "entry", "sigtrap", "found"}]
  /\ hbp \in [Thread -> Bkpt \cup {NULL}]
  /\ singlestep \in [Thread -> Bkpt \cup {NULL, ABSENT}]
  /\ text \in [Addr -> Word]
  /\ stale \in [Addr -> Word]
  /\ writable \in SUBSET (Obj \cup {NULL})
  /\ slotmem \in [Slot -> Word]
  /\ tree \in [Loc -> Bkpt \cup {NULL}]
  /\ slot \in [Bkpt -> Slot \cup {NULL}]
  /\ slots_used \in SUBSET Slot
  /\ enabled \in SUBSET Bkpt
  /\ linked \in SUBSET Bkpt
  /\ lock \in [Bkpt -> Ctl \cup {NULL}]
  /\ objects \in SUBSET Obj
  /\ handler \in {"default", "entry", "sigtrap"}
  /\ entry_hit \in BOOLEAN
  /\ cpc \in [Ctl -> {"idle", "return", "add", "add_enter", "add_slot",
                      "add_copy", "add_return", "add_link", "enable",
                      "en_unprotect", "en_write", "disable", "dis_unprotect",
                      "dis_write", "protect"}]
  /\ cbp \in [Ctl -> Bkpt \cup {NULL}]
  /\ rv \in [Ctl -> -4 .. 0]
  /\ calls \in [Ctl -> 0 .. MaxCalls]
  /\ boot \in 0 .. 5
  /\ fault \in {"none", "abort", "segv", "killed"}

\* No assertion of the handlers fails (hook_main.c:58, the trapping address
\* has a breakpoint; 67, the step that ends is the one that was begun), nor
\* the ones of object_memory_lock and _unlock, no call of lib_init fails,
\* and no store to text meets a read-only page (breakpoint.c:432, 465).
NoFault == fault = "none"

\* hook_main.c:67, assert(thread->singlestep_bp == bp): a thread that traps
\* while it is stepping has come to the end of the step it began.
StepIsTheOneBegun ==
  \A t \in Thread : hpc[t] = "found" /\ singlestep[t] # NULL => singlestep[t] = hbp[t]

\* The -4 path of breakpoint_add (breakpoint.c:362-366), which would leave
\* bp_enter in the tree with a freed slot, is never taken: the return
\* address of a slot is new because the slot is.
NeverReturnsMinus4 == \A c \in Ctl : rv[c] # -4

\* Whenever nobody holds the lock of a breakpoint that has been added, its
\* ENABLE attribute says what is in memory, what is in memory has been
\* flushed, and its slot keeps the instruction it displaced
\* (breakpoint.c:354, 427-434, 458-467).
AttrTellsText ==
  \A b \in linked : lock[b] = NULL =>
    /\ text[Enter[b]] = IF b \in enabled THEN BRK ELSE Enter[b]
    /\ stale[Enter[b]] = NULL
    /\ b \notin NO_SLOT => slotmem[slot[b]] = Enter[b]

\* The text of an object is writable only while a caller is patching it, and
\* always at the store (object_memory_unlock, object_memory_lock).
WritableWhilePatching ==
  writable = {ObjAt[Enter[cbp[c]]] :
                c \in {d \in Ctl : cpc[d] \in {"en_write", "dis_write", "protect"}}}

(***************************************************************************)
(* Transparency.  A thread that is in a slot is about to execute the       *)
(* instruction its breakpoint displaced; behind it, it has executed it.    *)
(***************************************************************************)
Virtual(t, loc) ==
  CASE loc[1] = "text" -> loc[2]
    [] loc[1] = "slot" -> Enter[singlestep[t]]
    [] loc[1] = "ret"  -> Enter[singlestep[t]] + 1

VPC    == [t \in Thread |-> IF pc[t] = DEAD THEN DEAD ELSE Virtual(t, pc[t])]
VSaved == [t \in Thread |-> IF saved[t] = NULL THEN NULL ELSE Virtual(t, saved[t].pc)]

Program == INSTANCE TracedProgram WITH
             vpc <- VPC, vsaved <- VSaved, EntryPoint <- Enter[entry_bp]

\* The handlers and the patching are invisible to the traced program: every
\* thread executes the instructions of the unpatched text, each once and in
\* control-flow order, however its traps interleave with callers that
\* enable and disable breakpoints (sigtrap_handler, hook_main.c:41-82) and
\* with signals that interrupt a slot or the SIGTRAP handler itself.
Transparent == Program!Spec

\* t is back in its text: no handler and no single step of it is pending, and
\* none waits behind a signal.
Back(t) ==
  /\ hpc[t] = "run" /\ singlestep[t] \notin Bkpt /\ saved[t] = NULL
  /\ pc[t] # DEAD /\ pc[t][1] = "text"

\* A thread that has been taken out of its text by a breakpoint gets back
\* to it: no handler waits for ever for a breakpoint's lock
\* (hook_main.c:60) and every single step ends, although signals of the
\* program interrupt the slot and the handler.
StepEnds ==
  \A t \in Thread : hpc[t] # "run" \/ singlestep[t] \in Bkpt ~> Back(t)

\* Every call of breakpoint_add, _enable and _disable returns and every
\* path of them unlocks the breakpoint.
CallReturnsEventually ==
  \A c \in Ctl : cpc[c] # "idle" ~> cpc[c] = "idle" /\ \A b \in Bkpt : lock[b] # c
=============================================================================
