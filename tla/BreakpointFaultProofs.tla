----------------------- MODULE BreakpointFaultProofs -----------------------
(***************************************************************************)
(* Proof that the process does not die of the library: no assertion fails, *)
(* no call of lib_init fails, no store meets a read-only page and no null  *)
(* slot_set is followed.  It holds for every number of threads, callers,   *)
(* breakpoints and objects under the four disciplines stated here and in   *)
(* the modules that this one extends.                                      *)
(***************************************************************************)
EXTENDS BreakpointStepProofs

\* lib_init's two breakpoints stand at different addresses of text that is
\* mapped when it runs and takes breakpoints (hook_main.c:141-172).
StartDiscipline ==
  /\ {ObjAt[Enter[entry_bp]], ObjAt[Enter[bkp]]} \subseteq Early \ NO_BKPT
  /\ Enter[entry_bp] # Enter[bkp]

\* The other callers handle no breakpoint without a slot.
SlotDiscipline == \A c \in Ctl : Use[c] \cap NO_SLOT = {}

\* Before bp_enter is inserted in the tree.
Before == {"idle", "add", "add_enter"}

\* How far lib_init has come: each of its calls so far has returned 0.
LibInitOK ==
  ~Ready =>
    /\ rv[lib] = 0
    /\ boot > 0 => objects = Early
    /\ cpc[lib] # "idle" => cbp[lib] = IF boot <= 2 THEN entry_bp ELSE bkp
    /\ cpc[lib] \in {"add", "add_enter"} \cup AddPoints => boot \in {1, 3}
    /\ boot = 0 \/ (boot = 1 /\ cpc[lib] \in Before) => tree[EnterLoc(entry_bp)] = NULL
    /\ boot <= 2 \/ (boot = 3 /\ cpc[lib] \in Before) => tree[EnterLoc(bkp)] = NULL

\* Only breakpoints with a slot are added.
SlotsOK == linked \cap NO_SLOT = {}

FInv == LibInitOK /\ SlotsOK

-----------------------------------------------------------------------------
\* Nothing has been called in the initial state.
LEMMA InitFault == Init => FInv
<1> SUFFICES ASSUME Init PROVE FInv
  OBVIOUS
<1>1. rv[lib] = 0 /\ boot = 0 /\ cpc[lib] = "idle" /\ linked = {}
  BY ConstantsAssumption DEF Init
<1>2. tree[EnterLoc(entry_bp)] = NULL /\ tree[EnterLoc(bkp)] = NULL
  BY Locations, ConstantsAssumption DEF Init
<1> QED
  BY <1>1, <1>2 DEF FInv, LibInitOK, SlotsOK, AddPoints

\* Until lib_init has returned, a caller that takes a step is lib_init.
LEMMA OnlyLibInit ==
  ASSUME LibInv, ~Ready, NEW c \in Ctl,
         CtlStep(c) \/ \E op \in {"add", "enable", "disable"}, b \in Bkpt : Call(c, op, b)
  PROVE  c = lib
<1>1. CASE CtlStep(c)
  <2>1. cpc[c] # "idle"
    BY <1>1
       DEF CtlStep, CallReturns, AddBegin, AddEnter, AddSlot, AddCopy, AddReturn, AddLink,
           EnableBegin, DisableBegin, EnableUnprotect, DisableUnprotect, object_memory_unlock,
           EnableWrite, DisableWrite, WriteText, object_memory_lock
  <2> QED
    BY <2>1 DEF LibInv, BootOK
<1>2. CASE \E op \in {"add", "enable", "disable"}, b \in Bkpt : Call(c, op, b)
  BY <1>2 DEF Call
<1> QED
  BY <1>1, <1>2

\* The breakpoint_add calls of lib_init meet none of its error returns: their
\* objects are loaded and take breakpoints, and their addresses are free
\* (breakpoint.c:326-335, 345).
LEMMA LibInitAdds ==
  ASSUME LibInv, LibInitOK, StartDiscipline, ~Ready, cpc[lib] = "add" \/ cpc[lib] = "add_enter"
  PROVE  /\ cpc[lib] = "add" => ObjAt[Enter[cbp[lib]]] \in objects \ NO_BKPT
         /\ cpc[lib] = "add_enter" => tree[EnterLoc(cbp[lib])] = NULL
         /\ (boot = 1 /\ cbp[lib] = entry_bp) \/ (boot = 3 /\ cbp[lib] = bkp)
<1>1. (boot = 1 /\ cbp[lib] = entry_bp) \/ (boot = 3 /\ cbp[lib] = bkp)
  BY DEF LibInitOK
<1>2. objects = Early
  BY <1>1 DEF LibInitOK
<1>3. cpc[lib] = "add_enter" => tree[EnterLoc(cbp[lib])] = NULL
  BY <1>1 DEF LibInitOK, Before
<1> QED
  BY <1>1, <1>2, <1>3 DEF StartDiscipline

\* One step of lib_init.
LEMMA LibInitStep ==
  ASSUME LibInv, LibInitOK, StartDiscipline, ~Ready,
         CtlStep(lib) \/ \E op \in {"add", "enable", "disable"}, b \in Bkpt : Call(lib, op, b)
  PROVE  LibInitOK'
<1>1. /\ lib \in Ctl /\ entry_bp \in Bkpt /\ bkp \in Bkpt /\ boot \in 0 .. 5 /\ boot # 5
      /\ rv[lib] = 0 /\ (boot = 0 => cpc[lib] = "idle")
  BY ConstantsAssumption DEF LibInv, LibTypeOK, BootOK, LibInitOK, Ready
<1>2. UNCHANGED objects
  BY <1>1, CallerFrame
<1>3. ASSUME UNCHANGED <<boot, cbp, tree>>, rv'[lib] = 0, cpc[lib] # "idle",
             cpc'[lib] \notin Before,
             cpc'[lib] \in AddPoints => cpc[lib] \in AddPoints
      PROVE  LibInitOK'
  BY <1>1, <1>2, <1>3 DEF LibInitOK, Ready, EnterLoc, Before
<1>4. ASSUME NEW op \in {"add", "enable", "disable"}, NEW b \in Bkpt, Call(lib, op, b)
      PROVE  LibInitOK'
  <2>1. /\ boot > 0 /\ <<op, b>> = LibInitCall(boot) /\ cpc[lib] = "idle"
        /\ cpc' = [cpc EXCEPT ![lib] = op] /\ cbp' = [cbp EXCEPT ![lib] = b]
        /\ UNCHANGED <<rv, boot, tree>>
    BY <1>4 DEF Call, Goto, libVars
  <2>2. cpc'[lib] = op /\ cbp'[lib] = b
    BY <1>1, <2>1 DEF LibInv, LibTypeOK
  <2>3. boot = 1 \/ boot = 2 \/ boot = 3 \/ boot = 4
    BY <1>1, <2>1
  <2>4. /\ b = (IF boot <= 2 THEN entry_bp ELSE bkp)
        /\ op = IF boot \in {1, 3} THEN "add" ELSE "enable"
    BY <2>1, <2>3 DEF LibInitCall
  <2> QED
    BY <1>1, <1>2, <2>1, <2>2, <2>3, <2>4 DEF LibInitOK, Ready, EnterLoc, Before, AddPoints
<1>5. CASE CallReturns(lib)
  <2>1. /\ cpc[lib] = "return" /\ boot' = boot + 1 /\ UNCHANGED tree
        /\ cpc' = [cpc EXCEPT ![lib] = "idle"] /\ rv' = [rv EXCEPT ![lib] = 0]
    BY <1>1, <1>5 DEF CallReturns, Goto, libVars
  <2>2. cpc'[lib] = "idle" /\ rv'[lib] = 0 /\ boot \in 1 .. 4
    BY <1>1, <2>1 DEF LibInv, LibTypeOK
  <2> QED
    BY <1>1, <1>2, <2>1, <2>2 DEF LibInitOK, Ready, EnterLoc, Before, AddPoints
<1>6. CASE AddBegin(lib)
  <2>1. cpc[lib] = "add"
    BY <1>6 DEF AddBegin
  <2>2. ObjAt[Enter[cbp[lib]]] \in objects \ NO_BKPT
    BY <2>1, LibInitAdds
  <2>3. cpc' = [cpc EXCEPT ![lib] = "add_enter"] /\ UNCHANGED <<rv, tree, boot, cbp>>
    BY <1>6, <2>2 DEF AddBegin, Goto, libVars
  <2>4. cpc'[lib] = "add_enter"
    BY <1>1, <2>3 DEF LibInv, LibTypeOK
  <2> QED
    BY <1>1, <1>2, <2>1, <2>3, <2>4 DEF LibInitOK, Ready, EnterLoc, Before, AddPoints
<1>7. CASE AddEnter(lib)
  <2>1. cpc[lib] = "add_enter"
    BY <1>7 DEF AddEnter
  <2>2. /\ tree[EnterLoc(cbp[lib])] = NULL
        /\ (boot = 1 /\ cbp[lib] = entry_bp) \/ (boot = 3 /\ cbp[lib] = bkp)
    BY <2>1, LibInitAdds
  <2>3. /\ tree' = [tree EXCEPT ![EnterLoc(cbp[lib])] = cbp[lib]]
        /\ cpc' = [cpc EXCEPT ![lib] = IF cbp[lib] \in NO_SLOT THEN "add_link" ELSE "add_slot"]
        /\ UNCHANGED <<rv, boot, cbp>>
    BY <1>7, <2>2 DEF AddEnter, Goto, breakpoint_find, breakpoint_rb_insert
  <2>4. cpc'[lib] \in {"add_link", "add_slot"}
    BY <1>1, <2>3 DEF LibInv, LibTypeOK
  <2>5. boot = 1 => tree'[EnterLoc(bkp)] = NULL
    <3> SUFFICES ASSUME boot = 1 PROVE tree'[EnterLoc(bkp)] = NULL
      OBVIOUS
    <3>1. EnterLoc(bkp) # EnterLoc(cbp[lib]) /\ EnterLoc(bkp) \in Loc
      BY <1>1, <2>2, Locations DEF StartDiscipline
    <3>2. tree[EnterLoc(bkp)] = NULL
      BY DEF LibInitOK, Ready
    <3> QED
      BY <2>3, <3>1, <3>2 DEF LibInv, LibTypeOK
  <2> QED
    BY <1>1, <1>2, <2>1, <2>2, <2>3, <2>4, <2>5 DEF LibInitOK, Ready, EnterLoc, Before, AddPoints
<1>8. CASE AddReturn(lib)
  <2>1. cpc[lib] = "add_return" /\ cbp[lib] \in Bkpt
    BY <1>1, <1>8 DEF AddReturn, LibInv, Locks
  <2>2. tree[ReturnLoc(cbp[lib])] = NULL /\ slot[cbp[lib]] \in Slot
    BY <1>1, <2>1 DEF LibInv, AddingOK, LibTypeOK
  <2>3. /\ tree' = [tree EXCEPT ![ReturnLoc(cbp[lib])] = cbp[lib]]
        /\ cpc' = [cpc EXCEPT ![lib] = "add_link"] /\ UNCHANGED <<rv, boot, cbp>>
    BY <1>8, <2>2 DEF AddReturn, Goto, breakpoint_find, breakpoint_rb_insert
  <2>4. cpc'[lib] = "add_link"
    BY <1>1, <2>3 DEF LibInv, LibTypeOK
  <2>5. \A b \in Bkpt : EnterLoc(b) # ReturnLoc(cbp[lib]) /\ EnterLoc(b) \in Loc
    BY <2>2, Locations DEF ReturnLoc
  <2>6. \A b \in Bkpt : tree'[EnterLoc(b)] = tree[EnterLoc(b)]
    BY <2>3, <2>5 DEF LibInv, LibTypeOK
  <2> QED
    BY <1>1, <1>2, <2>1, <2>3, <2>4, <2>6 DEF LibInitOK, Ready, EnterLoc, Before, AddPoints
<1>9. CASE AddSlot(lib) \/ AddCopy(lib) \/ AddLink(lib)
  <2>1. /\ cpc[lib] \in AddPoints /\ UNCHANGED <<boot, cbp, tree>>
        /\ rv' = rv \/ rv' = [rv EXCEPT ![lib] = 0]
        /\ \E l \in {"add_copy", "add_return", "return"} : cpc' = [cpc EXCEPT ![lib] = l]
    BY <1>9 DEF AddSlot, AddCopy, AddLink, Goto, Return, libVars, AddPoints
  <2>2. rv'[lib] = 0 /\ cpc'[lib] \in {"add_copy", "add_return", "return"}
    BY <1>1, <2>1 DEF LibInv, LibTypeOK
  <2> QED
    BY <1>3, <2>1, <2>2 DEF Before, AddPoints
<1>10. CASE \/ EnableBegin(lib) \/ EnableUnprotect(lib) \/ EnableWrite(lib)
            \/ DisableBegin(lib) \/ DisableUnprotect(lib) \/ DisableWrite(lib)
            \/ object_memory_lock(lib)
  <2> DEFINE L == {"en_unprotect", "en_write", "dis_unprotect", "dis_write", "protect", "return"}
  <2>1. /\ cpc[lib] # "idle" /\ UNCHANGED <<boot, cbp, tree>>
        /\ rv' = rv \/ rv' = [rv EXCEPT ![lib] = 0]
        /\ \E l \in L : cpc' = [cpc EXCEPT ![lib] = l]
    BY <1>10
       DEF EnableBegin, DisableBegin, EnableUnprotect, DisableUnprotect, object_memory_unlock,
           EnableWrite, DisableWrite, WriteText, object_memory_lock, NothingToDo, Goto, Return, libVars
  <2>2. rv'[lib] = 0 /\ cpc'[lib] \in L
    BY <1>1, <2>1 DEF LibInv, LibTypeOK
  <2> QED
    BY <1>3, <2>1, <2>2 DEF Before, AddPoints
<1> QED
  BY <1>4, <1>5, <1>6, <1>7, <1>8, <1>9, <1>10 DEF CtlStep

\* lib_init comes as far as LibInitOK says, whatever else happens: nothing
\* does before it has returned.
LEMMA StepLibInit ==
  ASSUME LibInv, ThreadInv, LibInitOK, StartDiscipline, [Next]_vars
  PROVE  LibInitOK'
<1>1. CASE UNCHANGED <<rv, boot, objects, cpc, cbp, tree>>
  BY <1>1 DEF LibInitOK, Ready, EnterLoc
<1>2. CASE UNCHANGED vars
  BY <1>1, <1>2 DEF vars, ctlVars, libVars
<1>3. CASE lib_init
  <2>1. /\ boot = 0 /\ boot' = 1 /\ objects' = Early /\ UNCHANGED <<rv, cpc, cbp, tree>>
    BY <1>3 DEF lib_init, libVars
  <2>2. cpc[lib] = "idle"
    BY <2>1 DEF LibInv, BootOK
  <2> QED
    BY <2>1, <2>2 DEF LibInitOK, Ready, EnterLoc, AddPoints
<1>4. ASSUME NEW t \in Thread, ThreadStep(t) PROVE LibInitOK'
  <2>1. UNCHANGED <<rv, boot, cpc, cbp, tree>>
    BY <1>4, ThreadFrame DEF ctlVars, libVars
  <2>2. UNCHANGED objects \/ Ready
    BY <1>4 DEF ThreadStep, Execute, Trap, Spawn, Exit, Interrupt, Sigreturn, HandlerStep,
                EntrySecond, EntryFirst, SigtrapFind, SigtrapFinish, SigtrapBegin,
                ThreadInv, StartOK
  <2> QED
    BY <1>1, <2>1, <2>2 DEF LibInitOK, Ready
<1>5. ASSUME NEW c \in Ctl,
             CtlStep(c) \/ \E op \in {"add", "enable", "disable"}, b \in Bkpt : Call(c, op, b)
      PROVE  LibInitOK'
  <2>1. CASE ~Ready
    BY <1>5, <2>1, OnlyLibInit, LibInitStep
  <2>2. CASE Ready
    <3>1. UNCHANGED boot
      BY <1>5, <2>2
         DEF CtlStep, Call, CallReturns, AddBegin, AddEnter, AddSlot, AddCopy, AddReturn, AddLink,
             EnableBegin, DisableBegin, EnableUnprotect, DisableUnprotect, object_memory_unlock,
             EnableWrite, DisableWrite, WriteText, object_memory_lock
    <3> QED
      BY <2>2, <3>1 DEF LibInitOK, Ready
  <2> QED
    BY <2>1, <2>2
<1> QED
  BY <1>2, <1>3, <1>4, <1>5 DEF Next, ThreadStep

\* Every breakpoint that a caller works on has a slot or gets one.
LEMMA CallersUseSlots ==
  ASSUME LibInv, LibInitOK, SlotDiscipline, NEW c \in Ctl, cpc[c] # "idle"
  PROVE  cbp[c] \in Bkpt \ NO_SLOT
<1>1. cbp[c] \in Bkpt
  BY DEF LibInv, Locks
<1>2. CASE Ready
  BY <1>1, <1>2 DEF LibInv, BootOK, SlotDiscipline
<1>3. CASE ~Ready
  <2>1. c = lib
    BY <1>3 DEF LibInv, BootOK
  <2> QED
    BY <1>1, <1>3, <2>1, ConstantsAssumption DEF LibInitOK
<1> QED
  BY <1>2, <1>3

\* FInv is inductive relative to LibInv and ThreadInv.
LEMMA StepFault ==
  ASSUME LibInv, ThreadInv, FInv, StartDiscipline, SlotDiscipline, [Next]_vars
  PROVE  FInv'
<1>1. LibInitOK'
  BY StepLibInit DEF FInv
<1>2. CASE UNCHANGED linked
  BY <1>1, <1>2 DEF FInv, SlotsOK
<1>3. CASE UNCHANGED vars
  BY <1>2, <1>3 DEF vars, libVars
<1>4. CASE lib_init \/ \E t \in Thread : ThreadStep(t)
  BY <1>2, <1>4, ThreadFrame DEF lib_init, libVars
<1>5. ASSUME NEW c \in Ctl, AddLink(c) PROVE FInv'
  <2>1. cpc[c] # "idle" /\ linked' = linked \cup {cbp[c]}
    BY <1>5 DEF AddLink
  <2>2. cbp[c] \notin NO_SLOT
    BY <2>1, CallersUseSlots DEF FInv
  <2> QED
    BY <1>1, <2>1, <2>2 DEF FInv, SlotsOK
<1>6. ASSUME NEW c \in Ctl, ~AddLink(c),
             CtlStep(c) \/ \E op \in {"add", "enable", "disable"}, b \in Bkpt : Call(c, op, b)
      PROVE  FInv'
  <2>1. UNCHANGED linked
    BY <1>6
       DEF CtlStep, Call, CallReturns, AddBegin, AddEnter, AddSlot, AddCopy, AddReturn,
           EnableBegin, DisableBegin, EnableUnprotect, DisableUnprotect, object_memory_unlock,
           EnableWrite, DisableWrite, WriteText, object_memory_lock, libVars
  <2> QED
    BY <1>2, <2>1
<1> QED
  BY <1>3, <1>4, <1>5, <1>6 DEF Next, ThreadStep

\* No step of a caller faults: lib_init sees no error, breakpoint_disable
\* finds a slot, object_memory_unlock finds the object, and the text is
\* writable at the store (breakpoint.c:432, 460, 465; hook_main.c:150-178).
LEMMA CallerFaults ==
  ASSUME LibInv, FInv, WritableWhilePatching, fault = "none", NEW c \in Ctl,
         CtlStep(c) \/ \E op \in {"add", "enable", "disable"}, b \in Bkpt : Call(c, op, b)
  PROVE  fault' = "none"
<1>1. CASE CallReturns(c)
  <2>1. ~Ready => c = lib
    BY OnlyLibInit
  <2> QED
    BY <1>1, <2>1 DEF CallReturns, FInv, LibInitOK
<1>2. CASE DisableBegin(c)
  <2>1. cbp[c] \in enabled => slot[cbp[c]] # NULL
    BY DEF LibInv, LibTypeOK, LinkedOK, SlotReady, FInv, SlotsOK
  <2> QED
    BY <1>2, <2>1 DEF DisableBegin
<1>3. CASE EnableUnprotect(c) \/ DisableUnprotect(c)
  <2>1. cpc[c] \in PatchPoints
    BY <1>3 DEF EnableUnprotect, DisableUnprotect, object_memory_unlock, PatchPoints
  <2>2. cbp[c] \in linked
    BY <2>1 DEF LibInv, LinkedOK
  <2> QED
    BY <1>3, <2>2 DEF EnableUnprotect, DisableUnprotect, object_memory_unlock
<1>4. CASE EnableWrite(c) \/ DisableWrite(c)
  <2>1. cpc[c] \in {"en_write", "dis_write", "protect"}
    BY <1>4 DEF EnableWrite, DisableWrite, WriteText
  <2>2. ObjAt[Enter[cbp[c]]] \in writable
    BY <2>1 DEF WritableWhilePatching
  <2> QED
    BY <1>4, <2>2 DEF EnableWrite, DisableWrite, WriteText
<1>5. CASE \/ AddBegin(c) \/ AddEnter(c) \/ AddSlot(c) \/ AddCopy(c) \/ AddReturn(c) \/ AddLink(c)
           \/ EnableBegin(c) \/ object_memory_lock(c)
           \/ \E op \in {"add", "enable", "disable"}, b \in Bkpt : Call(c, op, b)
  BY <1>5 DEF Call, AddBegin, AddEnter, AddSlot, AddCopy, AddReturn, AddLink, EnableBegin,
              object_memory_lock
<1> QED
  BY <1>1, <1>2, <1>3, <1>4, <1>5 DEF CtlStep

\* The library does not kill the process it is loaded into: no assertion of
\* the handlers (hook_main.c:58, 67) or of object_memory_lock and _unlock
\* fails, lib_init does not abort, and no store meets a read-only page
\* (breakpoint.c:432, 465).
THEOREM ProcessSurvives ==
  ASSUME SignalSafe, PatchDiscipline, StartDiscipline, SlotDiscipline
  PROVE  Spec => []NoFault
<1>1. Init => FInv /\ NoFault
  BY InitFault DEF Init, NoFault
<1>2. IInv /\ FInv /\ [Next]_vars => FInv'
  BY StepFault DEF IInv
<1>3. IInv /\ FInv /\ WritableWhilePatching /\ NoFault /\ [Next]_vars => NoFault'
  <2> SUFFICES ASSUME IInv, FInv, WritableWhilePatching, fault = "none", [Next]_vars
               PROVE  fault' = "none"
    BY DEF NoFault
  <2>1. CASE UNCHANGED vars \/ lib_init
    BY <2>1 DEF vars, lib_init
  <2>2. ASSUME NEW t \in Thread, ThreadStep(t) PROVE fault' = "none"
    BY <2>2, ThreadFaults DEF FInv, SlotsOK
  <2>3. ASSUME NEW c \in Ctl,
               CtlStep(c) \/ \E op \in {"add", "enable", "disable"}, b \in Bkpt : Call(c, op, b)
        PROVE  fault' = "none"
    BY <2>3, CallerFaults DEF IInv
  <2> QED
    BY <2>1, <2>2, <2>3 DEF Next, ThreadStep
<1> QED
  BY <1>1, <1>2, <1>3, StepInvariance, WritableOnlyToPatch, PTL DEF Spec
=============================================================================
