------------------------ MODULE BreakpointHookProofs ------------------------
(***************************************************************************)
(* Proofs about the callers of BreakpointHook, for any number of callers,  *)
(* threads, breakpoints, slots and objects: what breakpoint_add, _enable   *)
(* and _disable keep true of the tree, the slots and the text although     *)
(* they interleave.                                                        *)
(***************************************************************************)
EXTENDS BreakpointHook, TLAPS

\* Control points at which a caller holds the lock of its breakpoint, those
\* of breakpoint_add behind the insertion of bp_enter, and those at which the
\* text is patched.
AddPoints   == {"add_slot", "add_copy", "add_return", "add_link"}
PatchPoints == {"en_unprotect", "en_write", "dis_unprotect", "dis_write", "protect"}
HoldPoints  == {"add_enter"} \cup AddPoints \cup PatchPoints

\* The types of what the callers work on.
LibTypeOK ==
  /\ text \in [Addr -> Word] /\ stale \in [Addr -> Word]
  /\ writable \in SUBSET (Obj \cup {NULL})
  /\ slotmem \in [Slot -> Word]
  /\ tree \in [Loc -> Bkpt \cup {NULL}]
  /\ slot \in [Bkpt -> Slot \cup {NULL}]
  /\ slots_used \in SUBSET Slot
  /\ enabled \in SUBSET linked /\ linked \in SUBSET Bkpt
  /\ lock \in [Bkpt -> Ctl \cup {NULL}]
  /\ cpc \in [Ctl -> {"idle", "return", "add", "enable", "disable"} \cup HoldPoints]
  /\ cbp \in [Ctl -> Bkpt \cup {NULL}]
  /\ rv \in [Ctl -> -3 .. 0]
  /\ calls \in [Ctl -> 0 .. MaxCalls]
  /\ boot \in 0 .. 5

\* A lock is held by the caller that works on the breakpoint, and only then.
Locks ==
  \A c \in Ctl :
    /\ cpc[c] # "idle" => cbp[c] \in Bkpt
    /\ \A b \in Bkpt : lock[b] = c <=> (cpc[c] \in HoldPoints /\ cbp[c] = b)

\* Every node of the tree stands at the entry or at the return address of
\* its breakpoint, and no two breakpoints have the same slot.
TreeOK ==
  /\ \A l \in Loc : tree[l] # NULL =>
       \/ l = EnterLoc(tree[l])
       \/ slot[tree[l]] # NULL /\ l = ReturnLoc(tree[l])
  /\ \A b \in Bkpt : slot[b] # NULL => tree[EnterLoc(b)] = b /\ slot[b] \in slots_used
  /\ \A b, d \in Bkpt : slot[b] # NULL /\ slot[b] = slot[d] => b = d

\* A slot that a thread may be sent to: it holds the displaced instruction
\* and its return address is in the tree.
SlotReady(b) ==
  /\ b \notin NO_SLOT => slot[b] # NULL
  /\ slot[b] # NULL => slotmem[slot[b]] = Enter[b] /\ tree[ReturnLoc(b)] = b

\* How far breakpoint_add has come.
AddingOK ==
  \A c \in Ctl :
    /\ cpc[c] \in AddPoints => cbp[c] \notin linked /\ tree[EnterLoc(cbp[c])] = cbp[c]
    /\ cpc[c] = "add_slot" => slot[cbp[c]] = NULL
    /\ cpc[c] \in {"add_copy", "add_return"} =>
         slot[cbp[c]] # NULL /\ tree[ReturnLoc(cbp[c])] = NULL
    /\ cpc[c] = "add_return" => slotmem[slot[cbp[c]]] = Enter[cbp[c]]
    /\ cpc[c] = "add_link" => SlotReady(cbp[c])

\* Breakpoints that have been added stay in the tree with their slot; one
\* whose entry is in the tree has been added or is being added; and only
\* breakpoints that have been added are patched.
LinkedOK ==
  /\ \A b \in linked : tree[EnterLoc(b)] = b /\ SlotReady(b)
  /\ \A b \in Bkpt : tree[EnterLoc(b)] = b =>
       b \in linked \/ (lock[b] # NULL /\ cpc[lock[b]] \in AddPoints)
  /\ \A c \in Ctl :
       /\ cpc[c] \in {"enable", "disable"} => tree[EnterLoc(cbp[c])] = cbp[c]
       /\ cpc[c] \in PatchPoints => cbp[c] \in linked

\* The attribute of a breakpoint is what is in memory, and flushed.
AsAttr(b)  == text[Enter[b]] = IF b \in enabled THEN BRK ELSE Enter[b]
Flushed(b) == stale[Enter[b]] = NULL

\* What is in memory at every address: the program, at breakpoints as far as
\* the caller that holds the lock has come.
MemoryOK ==
  /\ \A a \in Addr : tree[<<"text", a>>] \notin linked => text[a] = a /\ stale[a] = NULL
  /\ \A b \in linked : lock[b] = NULL \/ cpc[lock[b]] = "add_enter" => AsAttr(b) /\ Flushed(b)
  /\ \A c \in Ctl :
       /\ cpc[c] \in {"en_unprotect", "en_write"} =>
            /\ cbp[c] \in enabled /\ Flushed(cbp[c])
            /\ text[Enter[cbp[c]]] = Enter[cbp[c]]
       /\ cpc[c] \in {"dis_unprotect", "dis_write"} =>
            /\ cbp[c] \notin enabled /\ Flushed(cbp[c])
            /\ text[Enter[cbp[c]]] = BRK
            /\ fault = "none" => slot[cbp[c]] # NULL
       /\ cpc[c] = "protect" /\ fault = "none" =>
            AsAttr(cbp[c]) /\ stale[Enter[cbp[c]]] \in {Enter[cbp[c]], BRK, NULL}

\* Until lib_init has returned it is the only caller; it leaves the entry
\* point's breakpoint enabled, and nobody disables that one.
BootOK ==
  /\ ~Ready => \A c \in Ctl \ {lib} : cpc[c] = "idle"
  /\ Ready => \A c \in Ctl : cpc[c] # "idle" => cbp[c] \in Use[c]
  /\ boot = 0 => cpc[lib] = "idle"
  /\ \A c \in Ctl : cpc[c] = "disable" => cbp[c] # entry_bp
  /\ boot = 2 => \/ cpc[lib] = "idle"
                 \/ cpc[lib] = "enable" /\ cbp[lib] = entry_bp
                 \/ entry_bp \in enabled
  /\ boot > 2 => entry_bp \in enabled

LibInv == LibTypeOK /\ Locks /\ TreeOK /\ AddingOK /\ LinkedOK /\ MemoryOK /\ BootOK

-----------------------------------------------------------------------------
(***************************************************************************)
(* Facts that the steps below share                                        *)
(***************************************************************************)

\* The addresses of a breakpoint are locations, and bp_enter.address is never
\* a bp_return.address.
LEMMA Locations ==
  /\ \A a \in Addr : <<"text", a>> \in Loc
  /\ \A s \in Slot : <<"slot", s>> \in Loc /\ <<"ret", s>> \in Loc
  /\ \A b \in Bkpt : Enter[b] \in Addr /\ EnterLoc(b) \in Loc /\ EnterLoc(b)[2] = Enter[b]
  /\ \A b, d \in Bkpt : EnterLoc(b) = EnterLoc(d) <=> Enter[b] = Enter[d]
  /\ \A b \in Bkpt, s \in Slot \cup {NULL} : EnterLoc(b) # <<"ret", s>>
  BY ConstantsAssumption DEF Loc, EnterLoc

\* Two callers that hold a lock work on different breakpoints
\* (breakpoint.c:324, 421, 450).
LEMMA Exclusion ==
  ASSUME LibInv, NEW c \in Ctl, NEW d \in Ctl, c # d,
         cpc[c] \in HoldPoints, cpc[d] \in HoldPoints
  PROVE  cbp[c] \in Bkpt /\ cbp[d] \in Bkpt /\ cbp[c] # cbp[d]
  BY DEF LibInv, Locks, HoldPoints, AddPoints, PatchPoints

\* Breakpoints whose entries are in the tree have different addresses.
LEMMA OneAtAnAddress ==
  ASSUME NEW b \in Bkpt, NEW d \in Bkpt,
         tree[EnterLoc(b)] = b, tree[EnterLoc(d)] = d, Enter[b] = Enter[d]
  PROVE  b = d
  BY DEF EnterLoc

\* The initial state satisfies the invariant.
LEMMA InitLib == Init => LibInv
<1> SUFFICES ASSUME Init PROVE LibInv
  OBVIOUS
<1>1. LibTypeOK
  BY ConstantsAssumption DEF Init, LibTypeOK, Word
<1>2. Locks /\ AddingOK /\ BootOK
  BY SentinelAssumption, ConstantsAssumption
     DEF Init, Locks, AddingOK, BootOK, HoldPoints, AddPoints, PatchPoints, Ready
<1>3. \A b \in Bkpt : tree[EnterLoc(b)] = NULL /\ slot[b] = NULL
  BY Locations DEF Init
<1>4. TreeOK /\ LinkedOK /\ MemoryOK
  BY <1>3, SentinelAssumption
     DEF Init, TreeOK, LinkedOK, MemoryOK, HoldPoints, AddPoints, PatchPoints
<1> QED
  BY <1>1, <1>2, <1>4 DEF LibInv

-----------------------------------------------------------------------------
(***************************************************************************)
(* Each step of a caller preserves the invariant                           *)
(***************************************************************************)

\* What the callers work on is left alone by the threads, their handlers and
\* the constructor's set-up of the object list.
LEMMA FrameLib ==
  ASSUME LibInv, fault = "none", UNCHANGED <<memVars, libVars, cpc, cbp, rv, calls>>,
         boot' = boot \/ (boot = 0 /\ boot' = 1)
  PROVE  LibInv'
<1>1. UNCHANGED <<text, stale, writable, slotmem, tree, slot, slots_used, enabled, linked,
                  lock, cpc, cbp, rv, calls>>
  BY DEF memVars, libVars
<1>2. LibTypeOK'
  BY <1>1 DEF LibInv, LibTypeOK
<1>3. Locks' /\ TreeOK'
  BY <1>1 DEF LibInv, Locks, TreeOK, EnterLoc, ReturnLoc
<1>4. AddingOK' /\ LinkedOK'
  BY <1>1 DEF LibInv, AddingOK, LinkedOK, SlotReady, EnterLoc, ReturnLoc
<1>5. MemoryOK'
  BY <1>1 DEF LibInv, MemoryOK, AsAttr, Flushed
<1>6. BootOK'
  BY <1>1 DEF LibInv, BootOK, Ready
<1> QED
  BY <1>2, <1>3, <1>4, <1>5, <1>6 DEF LibInv

\* A step of c between two control points at which it holds no lock, which
\* changes nothing else (the beginning and the end of a call, and the calls
\* that return before they do anything).
MovesTo(c, l, b) ==
  /\ cpc' = [cpc EXCEPT ![c] = l]
  /\ cbp' = [cbp EXCEPT ![c] = b]
  /\ UNCHANGED <<memVars, libVars>>

\* Such a step preserves what the invariant says of locks, tree and text.
LEMMA MoveLib ==
  ASSUME LibInv, fault = "none", NEW c \in Ctl, NEW l \in {"idle", "return", "add", "enable", "disable"},
         NEW b \in Bkpt \cup {NULL}, MovesTo(c, l, b), cpc[c] \notin HoldPoints,
         l # "idle" => b \in Bkpt,
         l \in {"enable", "disable"} => tree[EnterLoc(b)] = b
  PROVE  Locks' /\ TreeOK' /\ AddingOK' /\ LinkedOK' /\ MemoryOK'
<1>1. /\ cpc'[c] = l /\ cbp'[c] = b
      /\ \A d \in Ctl : d # c => cpc'[d] = cpc[d] /\ cbp'[d] = cbp[d]
      /\ l \notin HoldPoints
  BY DEF MovesTo, LibInv, LibTypeOK, HoldPoints, AddPoints, PatchPoints
<1>2. UNCHANGED <<text, stale, writable, slotmem, tree, slot, slots_used, enabled, linked, lock>>
  BY DEF MovesTo, memVars, libVars
<1>3. \A e \in Bkpt : lock[e] # c
  BY DEF LibInv, Locks
<1>4. Locks'
  BY <1>1, <1>2, <1>3 DEF LibInv, Locks
<1>5. TreeOK'
  BY <1>2 DEF LibInv, TreeOK, EnterLoc, ReturnLoc
<1>6. AddingOK'
  BY <1>1, <1>2 DEF LibInv, AddingOK, SlotReady, EnterLoc, ReturnLoc, HoldPoints, AddPoints
<1>7. \A e \in Bkpt : lock[e] # NULL => cpc'[lock[e]] = cpc[lock[e]]
  BY <1>1, <1>3 DEF LibInv, LibTypeOK
<1>8. LinkedOK'
  BY <1>1, <1>2, <1>7
     DEF LibInv, LinkedOK, SlotReady, EnterLoc, ReturnLoc, HoldPoints, PatchPoints
<1>9. MemoryOK'
  <2>1. linked \subseteq Bkpt
    BY DEF LibInv, LibTypeOK
  <2> QED
    BY <1>1, <1>2, <1>7, <2>1 DEF LibInv, MemoryOK, AsAttr, Flushed, HoldPoints, PatchPoints
<1> QED
  BY <1>4, <1>5, <1>6, <1>8, <1>9

\* The beginning of a call, of lib_init or of another caller.
LEMMA CallLib ==
  ASSUME LibInv, fault = "none", NEW c \in Ctl, NEW op \in {"add", "enable", "disable"},
         NEW b \in Bkpt, Call(c, op, b)
  PROVE  LibInv'
<1>1. /\ cpc[c] = "idle" /\ MovesTo(c, op, b)
      /\ op # "add" => tree[EnterLoc(b)] = b
      /\ IF Ready THEN calls[c] < MaxCalls /\ b \in Use[c]
         ELSE boot > 0 /\ c = lib /\ <<op, b>> = LibInitCall(boot)
      /\ calls' = [calls EXCEPT ![c] = IF Ready THEN @ + 1 ELSE @]
      /\ UNCHANGED <<memVars, libVars, rv, boot>>
  BY DEF Call, MovesTo, Goto
<1>2. Locks' /\ TreeOK' /\ AddingOK' /\ LinkedOK' /\ MemoryOK'
  BY <1>1, MoveLib DEF HoldPoints, AddPoints, PatchPoints
<1>3. LibTypeOK'
  <2>1. calls' \in [Ctl -> 0 .. MaxCalls]
    BY <1>1, ConstantsAssumption DEF LibInv, LibTypeOK
  <2>2. cpc' \in [Ctl -> {"idle", "return", "add", "enable", "disable"} \cup HoldPoints]
        /\ cbp' \in [Ctl -> Bkpt \cup {NULL}]
    BY <1>1 DEF MovesTo, LibInv, LibTypeOK
  <2> QED
    BY <1>1, <2>1, <2>2 DEF LibInv, LibTypeOK, memVars, libVars
<1>4. BootOK'
  <2>1. /\ cpc'[c] = op /\ cbp'[c] = b
        /\ \A d \in Ctl : d # c => cpc'[d] = cpc[d] /\ cbp'[d] = cbp[d]
        /\ UNCHANGED <<boot, enabled>>
    BY <1>1 DEF MovesTo, LibInv, LibTypeOK, libVars
  <2>2. boot \in 0 .. 5
    BY DEF LibInv, LibTypeOK
  <2>3. CASE Ready
    <3>1. b # entry_bp /\ b \in Use[c]
      BY <1>1, <2>3, ConstantsAssumption
    <3> QED
      BY <2>1, <2>3, <3>1 DEF LibInv, BootOK, Ready
  <2>4. CASE ~Ready
    <3>1. boot \in 1 .. 4 /\ c = lib
      BY <1>1, <2>2, <2>4 DEF Ready
    <3>2. op # "disable" /\ (boot = 2 => op = "enable" /\ b = entry_bp)
      BY <1>1, <2>4, <3>1 DEF LibInitCall
    <3> QED
      BY <2>1, <2>4, <3>1, <3>2 DEF LibInv, BootOK, Ready
  <2> QED
    BY <2>3, <2>4
<1> QED
  BY <1>2, <1>3, <1>4 DEF LibInv

\* The end of a call; lib_init goes on to its next one.
LEMMA CallReturnsLib ==
  ASSUME LibInv, fault = "none", NEW c \in Ctl, CallReturns(c)
  PROVE  LibInv'
<1>1. /\ cpc[c] = "return" /\ MovesTo(c, "idle", NULL)
      /\ rv' = [rv EXCEPT ![c] = 0]
      /\ boot' = IF Ready \/ rv[c] # 0 THEN boot ELSE boot + 1
      /\ UNCHANGED <<memVars, libVars, calls>>
  BY DEF CallReturns, MovesTo, Goto
<1>2. Locks' /\ TreeOK' /\ AddingOK' /\ LinkedOK' /\ MemoryOK'
  BY <1>1, MoveLib DEF HoldPoints, AddPoints, PatchPoints
<1>3. boot \in 0 .. 5 /\ boot' \in 0 .. 5
  BY <1>1 DEF LibInv, LibTypeOK, Ready
<1>4. LibTypeOK'
  <2>1. cpc' \in [Ctl -> {"idle", "return", "add", "enable", "disable"} \cup HoldPoints]
        /\ cbp' \in [Ctl -> Bkpt \cup {NULL}] /\ rv' \in [Ctl -> -3 .. 0]
    BY <1>1 DEF MovesTo, LibInv, LibTypeOK
  <2> QED
    BY <1>1, <1>3, <2>1 DEF LibInv, LibTypeOK, memVars, libVars
<1>5. BootOK'
  <2>1. /\ cpc'[c] = "idle" /\ UNCHANGED enabled
        /\ \A d \in Ctl : d # c => cpc'[d] = cpc[d] /\ cbp'[d] = cbp[d]
    BY <1>1 DEF MovesTo, LibInv, LibTypeOK, libVars
  <2>2. CASE Ready
    BY <1>1, <2>1, <2>2, <1>3 DEF LibInv, BootOK, Ready
  <2>3. CASE ~Ready
    <3>1. c = lib /\ boot # 0
      BY <1>1, <2>3 DEF LibInv, BootOK
    <3>2. \A d \in Ctl : cpc'[d] = "idle"
      BY <2>1, <2>3, <3>1 DEF LibInv, BootOK
    <3>3. boot >= 2 => entry_bp \in enabled'
      BY <1>1, <1>3, <2>1, <3>1 DEF LibInv, BootOK
    <3> QED
      BY <1>1, <1>3, <3>1, <3>2, <3>3, ConstantsAssumption DEF BootOK, Ready
  <2> QED
    BY <2>2, <2>3
<1> QED
  BY <1>2, <1>4, <1>5 DEF LibInv

\* What a caller does to its own breakpoint leaves the others with their
\* breakpoints and locks.
Others(c) ==
  /\ \A d \in Ctl : d # c => cpc'[d] = cpc[d] /\ (cpc[d] \in HoldPoints => cbp[d] # cbp[c])
  /\ \A e \in Bkpt : e # cbp[c] =>
       lock'[e] = lock[e] /\ (lock[e] # NULL => cpc'[lock[e]] = cpc[lock[e]])

\* pthread_mutex_lock at the head of a call.
LEMMA Taking ==
  ASSUME LibInv, NEW c \in Ctl, cpc[c] \in {"add", "enable", "disable"}, NEW l \in HoldPoints,
         Goto(c, l), Acquire(c, cbp[c]), UNCHANGED cbp
  PROVE  /\ Locks' /\ Others(c) /\ cpc'[c] = l /\ cbp[c] \in Bkpt
         /\ lock[cbp[c]] = NULL /\ lock'[cbp[c]] = c
<1>1. /\ cpc'[c] = l /\ \A d \in Ctl : d # c => cpc'[d] = cpc[d]
      /\ cbp[c] \in Bkpt /\ lock[cbp[c]] = NULL /\ lock'[cbp[c]] = c
      /\ \A e \in Bkpt : e # cbp[c] => lock'[e] = lock[e]
  BY DEF Goto, Acquire, LibInv, LibTypeOK, Locks
<1>2. \A e \in Bkpt : lock[e] # c
  BY DEF LibInv, Locks, HoldPoints, AddPoints, PatchPoints
<1>3. \A d \in Ctl : cpc[d] \in HoldPoints => cbp[d] # cbp[c]
  BY <1>1, SentinelAssumption DEF LibInv, Locks
<1>4. Locks'
  BY <1>1, <1>2, <1>3 DEF LibInv, Locks
<1>5. Others(c)
  BY <1>1, <1>2, <1>3 DEF Others, LibInv, LibTypeOK
<1> QED
  BY <1>1, <1>4, <1>5

\* A step under the lock.
LEMMA Keeping ==
  ASSUME LibInv, NEW c \in Ctl, cpc[c] \in HoldPoints, NEW l \in HoldPoints,
         Goto(c, l), UNCHANGED <<lock, cbp>>
  PROVE  /\ Locks' /\ Others(c) /\ cpc'[c] = l /\ cbp[c] \in Bkpt /\ lock[cbp[c]] = c
<1>1. /\ cpc'[c] = l /\ \A d \in Ctl : d # c => cpc'[d] = cpc[d]
      /\ cbp[c] \in Bkpt /\ lock[cbp[c]] = c
  BY DEF Goto, LibInv, LibTypeOK, Locks, HoldPoints, AddPoints, PatchPoints
<1>2. \A e \in Bkpt : e # cbp[c] => lock[e] # c
  BY DEF LibInv, Locks
<1>3. Locks'
  BY <1>1 DEF LibInv, Locks, HoldPoints, AddPoints, PatchPoints
<1>4. Others(c)
  BY <1>1, <1>2, Exclusion DEF Others, LibInv, LibTypeOK
<1> QED
  BY <1>1, <1>3, <1>4

\* pthread_mutex_unlock at the end of a call.
LEMMA Releasing ==
  ASSUME LibInv, NEW c \in Ctl, cpc[c] \in HoldPoints,
         Goto(c, "return"), Release(cbp[c]), UNCHANGED cbp
  PROVE  /\ Locks' /\ Others(c) /\ cpc'[c] = "return" /\ cbp[c] \in Bkpt
         /\ lock[cbp[c]] = c /\ lock'[cbp[c]] = NULL
<1>1. /\ cpc'[c] = "return" /\ \A d \in Ctl : d # c => cpc'[d] = cpc[d]
      /\ cbp[c] \in Bkpt /\ lock[cbp[c]] = c /\ lock'[cbp[c]] = NULL
      /\ \A e \in Bkpt : e # cbp[c] => lock'[e] = lock[e]
  BY DEF Goto, Release, LibInv, LibTypeOK, Locks, HoldPoints, AddPoints, PatchPoints
<1>2. \A e \in Bkpt : e # cbp[c] => lock[e] # c
  BY DEF LibInv, Locks
<1>3. \A d \in Ctl : d # c /\ cpc[d] \in HoldPoints => cbp[d] # cbp[c]
  BY <1>1, Exclusion
<1>4. Locks'
  BY <1>1, <1>2, <1>3, SentinelAssumption
     DEF LibInv, Locks, HoldPoints, AddPoints, PatchPoints
<1>5. Others(c)
  BY <1>1, <1>2, <1>3 DEF Others, LibInv, LibTypeOK
<1> QED
  BY <1>1, <1>4, <1>5

\* A step within a call keeps what is known of lib_init's progress.
LEMMA WithinBoot ==
  ASSUME LibInv, NEW c \in Ctl, cpc[c] # "idle", NEW l, l \notin {"idle", "enable", "disable"},
         Goto(c, l), UNCHANGED <<cbp, boot>>,
         entry_bp \in enabled => entry_bp \in enabled',
         cpc[c] = "enable" => cbp[c] \in enabled'
  PROVE  BootOK'
<1>1. /\ cpc'[c] = l /\ \A d \in Ctl : d # c => cpc'[d] = cpc[d]
  BY DEF Goto, LibInv, LibTypeOK
<1> QED
  BY <1>1 DEF LibInv, BootOK, Ready

\* A call that finds nothing to do returns without having changed anything.
LEMMA NothingLib ==
  ASSUME LibInv, fault = "none", NEW c \in Ctl, cpc[c] \in {"add", "enable", "disable"},
         NEW r \in -3 .. 0, Return(c, r), UNCHANGED <<memVars, libVars, cbp, calls, boot>>,
         cpc[c] = "enable" => cbp[c] \in enabled
  PROVE  LibInv'
<1>1. cbp[c] \in Bkpt /\ cbp = [cbp EXCEPT ![c] = cbp[c]]
  BY DEF LibInv, LibTypeOK, Locks
<1>2. MovesTo(c, "return", cbp[c])
  BY <1>1 DEF MovesTo, Return, Goto
<1>3. Locks' /\ TreeOK' /\ AddingOK' /\ LinkedOK' /\ MemoryOK'
  BY <1>1, <1>2, MoveLib DEF HoldPoints, AddPoints, PatchPoints
<1>4. BootOK'
  BY WithinBoot DEF Return, libVars
<1>5. cpc' \in [Ctl -> {"idle", "return", "add", "enable", "disable"} \cup HoldPoints]
      /\ rv' \in [Ctl -> -3 .. 0]
  BY DEF Return, Goto, LibInv, LibTypeOK
<1>6. LibTypeOK'
  BY <1>5 DEF LibInv, LibTypeOK, memVars, libVars
<1> QED
  BY <1>3, <1>4, <1>6 DEF LibInv

\* breakpoint_add, up to the object of the address (breakpoint.c:317-336).
LEMMA AddBeginLib ==
  ASSUME LibInv, fault = "none", NEW c \in Ctl, AddBegin(c)
  PROVE  LibInv'
<1>1. cpc[c] = "add" /\ UNCHANGED <<memVars, cbp, calls, boot>>
      /\ UNCHANGED <<tree, slot, slots_used, enabled, linked>>
  BY DEF AddBegin
<1>2. CASE \E r \in -3 .. 0 : Return(c, r) /\ UNCHANGED lock
  BY <1>1, <1>2, NothingLib DEF libVars
<1>3. CASE Acquire(c, cbp[c]) /\ Goto(c, "add_enter") /\ UNCHANGED rv
  <2>1. /\ Locks' /\ Others(c) /\ cpc'[c] = "add_enter" /\ cbp[c] \in Bkpt
        /\ lock[cbp[c]] = NULL /\ lock'[cbp[c]] = c
    BY <1>1, <1>3, Taking DEF HoldPoints
  <2>2. LibTypeOK'
    <3>1. /\ cpc' \in [Ctl -> {"idle", "return", "add", "enable", "disable"} \cup HoldPoints]
          /\ lock' \in [Bkpt -> Ctl \cup {NULL}]
      BY <1>3 DEF Goto, Acquire, LibInv, LibTypeOK, HoldPoints
    <3> QED
      BY <1>1, <1>3, <3>1 DEF LibInv, LibTypeOK, memVars
  <2>3. BootOK'
    BY <1>1, <1>3, WithinBoot
  <2>4. TreeOK'
    BY <1>1 DEF LibInv, TreeOK, EnterLoc, ReturnLoc
  <2>5. AddingOK'
    BY <1>1, <2>1
       DEF LibInv, AddingOK, SlotReady, EnterLoc, ReturnLoc, Others, AddPoints, memVars
  <2>6. LinkedOK'
    BY <1>1, <2>1
       DEF LibInv, LinkedOK, SlotReady, EnterLoc, ReturnLoc, Others, PatchPoints, memVars
  <2>7. MemoryOK'
    BY <1>1, <1>3, <2>1 DEF LibInv, LibTypeOK, MemoryOK, AsAttr, Flushed, Others, memVars
  <2> QED
    BY <2>1, <2>2, <2>3, <2>4, <2>5, <2>6, <2>7 DEF LibInv
<1> QED
  BY <1>2, <1>3 DEF AddBegin

\* The insertion of bp_enter (breakpoint.c:338-342).
LEMMA AddEnterLib ==
  ASSUME LibInv, fault = "none", NEW c \in Ctl, AddEnter(c)
  PROVE  LibInv'
<1>1. cpc[c] = "add_enter" /\ cpc[c] \in HoldPoints /\ UNCHANGED <<memVars, cbp, calls, boot>>
      /\ UNCHANGED <<slot, slots_used, enabled, linked, fault>>
  BY DEF AddEnter, HoldPoints
<1>2. cbp[c] \in Bkpt /\ EnterLoc(cbp[c]) \in Loc /\ linked \subseteq Bkpt
  BY <1>1, Locations DEF LibInv, LibTypeOK, Locks
<1>3. CASE /\ Return(c, -3) /\ Release(cbp[c]) /\ UNCHANGED tree
           /\ tree[EnterLoc(cbp[c])] # NULL
  <2>1. /\ Locks' /\ Others(c) /\ cpc'[c] = "return"
        /\ lock[cbp[c]] = c /\ lock'[cbp[c]] = NULL
    BY <1>1, <1>3, Releasing DEF Return
  <2>2. LibTypeOK'
    <3>1. /\ cpc' \in [Ctl -> {"idle", "return", "add", "enable", "disable"} \cup HoldPoints]
          /\ lock' \in [Bkpt -> Ctl \cup {NULL}]
      BY <1>3 DEF Return, Goto, Release, LibInv, LibTypeOK
    <3>2. rv' \in [Ctl -> -3 .. 0]
      <4>1. -3 \in -3 .. 0
        OBVIOUS
      <4> QED
        BY <1>3, <4>1 DEF Return, LibInv, LibTypeOK
    <3> QED
      BY <1>1, <1>3, <3>1, <3>2 DEF LibInv, LibTypeOK, memVars
  <2>3. BootOK'
    BY <1>1, <1>3, WithinBoot DEF Return
  <2>4. TreeOK'
    BY <1>1, <1>3 DEF LibInv, TreeOK, EnterLoc, ReturnLoc
  <2>5. AddingOK'
    BY <1>1, <1>3, <2>1
       DEF LibInv, AddingOK, SlotReady, EnterLoc, ReturnLoc, Others, AddPoints, memVars
  <2>6. LinkedOK'
    BY <1>1, <1>2, <1>3, <2>1
       DEF LibInv, LinkedOK, SlotReady, EnterLoc, ReturnLoc, Others, PatchPoints, AddPoints, memVars
  <2>7. MemoryOK'
    BY <1>1, <1>2, <1>3, <2>1 DEF LibInv, MemoryOK, AsAttr, Flushed, Others, memVars
  <2> QED
    BY <2>1, <2>2, <2>3, <2>4, <2>5, <2>6, <2>7 DEF LibInv
<1>4. CASE /\ tree[EnterLoc(cbp[c])] = NULL /\ tree' = [tree EXCEPT ![EnterLoc(cbp[c])] = cbp[c]]
           /\ \E l \in {"add_link", "add_slot"} :
                Goto(c, l) /\ (l = "add_link" => cbp[c] \in NO_SLOT)
           /\ UNCHANGED <<lock, rv>>
  <2>0. PICK l \in {"add_link", "add_slot"} :
                Goto(c, l) /\ (l = "add_link" => cbp[c] \in NO_SLOT)
    BY <1>4
  <2>1. Locks' /\ Others(c) /\ cpc'[c] = l /\ lock[cbp[c]] = c
    BY <1>1, <1>4, <2>0, Keeping DEF HoldPoints, AddPoints
  <2>2. /\ tree'[EnterLoc(cbp[c])] = cbp[c]
        /\ \A x \in Loc : x # EnterLoc(cbp[c]) => tree'[x] = tree[x]
        /\ slot[cbp[c]] = NULL /\ cbp[c] \notin linked
    BY <1>2, <1>4, SentinelAssumption DEF LibInv, LibTypeOK, TreeOK, LinkedOK
  <2>3. LibTypeOK'
    <3>1. /\ cpc' \in [Ctl -> {"idle", "return", "add", "enable", "disable"} \cup HoldPoints]
          /\ tree' \in [Loc -> Bkpt \cup {NULL}]
      BY <1>2, <1>4, <2>0 DEF Goto, LibInv, LibTypeOK, HoldPoints, AddPoints
    <3> QED
      BY <1>1, <1>4, <3>1 DEF LibInv, LibTypeOK, memVars
  <2>4. BootOK'
    BY <1>1, <2>0, WithinBoot
  <2>5. \A b \in Bkpt : slot[b] # NULL => ReturnLoc(b) \in Loc /\ ReturnLoc(b) # EnterLoc(cbp[c])
    BY <1>2, Locations DEF LibInv, LibTypeOK, ReturnLoc
  <2>6. \A b \in Bkpt : tree[EnterLoc(b)] = b => tree'[EnterLoc(b)] = b
    BY <1>2, <1>4, <2>2, Locations, SentinelAssumption
  <2>7. TreeOK'
    BY <1>1, <2>2, <2>6 DEF LibInv, TreeOK, EnterLoc, ReturnLoc
  <2>8. \A b \in Bkpt : SlotReady(b) => SlotReady(b)'
    BY <1>1, <2>2, <2>5 DEF SlotReady, ReturnLoc, memVars
  <2>9. SlotReady(cbp[c])' \/ l = "add_slot"
    BY <1>1, <2>0, <2>2 DEF SlotReady
  <2>10. AddingOK'
    <3> SUFFICES ASSUME NEW d \in Ctl
                 PROVE  /\ cpc'[d] \in AddPoints => cbp'[d] \notin linked'
                                                    /\ tree'[EnterLoc(cbp[d])] = cbp[d]
                        /\ cpc'[d] = "add_slot" => slot'[cbp'[d]] = NULL
                        /\ cpc'[d] \in {"add_copy", "add_return"} =>
                             slot[cbp[d]] # NULL /\ tree'[ReturnLoc(cbp[d])] = NULL
                        /\ cpc'[d] = "add_return" => slotmem'[slot[cbp[d]]] = Enter[cbp[d]]
                        /\ cpc'[d] = "add_link" => SlotReady(cbp[d])'
      BY <1>1 DEF AddingOK, EnterLoc, ReturnLoc, SlotReady
    <3>1. CASE d = c
      BY <1>1, <2>0, <2>1, <2>2, <2>9, <3>1 DEF AddPoints
    <3>2. CASE d # c
      <4>1. cpc'[d] = cpc[d] /\ (cpc[d] # "idle" => cbp[d] \in Bkpt)
        BY <2>1, <3>2 DEF Others, LibInv, Locks
      <4> QED
        BY <1>1, <2>2, <2>5, <2>6, <2>8, <4>1 DEF LibInv, AddingOK, AddPoints, memVars
    <3> QED
      BY <3>1, <3>2
  <2>11. LinkedOK'
    <3>1. \A b \in linked' : tree'[EnterLoc(b)] = b /\ SlotReady(b)'
      BY <1>1, <1>2, <2>6, <2>8 DEF LibInv, LinkedOK
    <3>2. \A b \in Bkpt : tree'[EnterLoc(b)] = b =>
            b \in linked' \/ (lock'[b] # NULL /\ cpc'[lock'[b]] \in AddPoints)
      <4> SUFFICES ASSUME NEW b \in Bkpt, tree'[EnterLoc(b)] = b
                   PROVE  b \in linked' \/ (lock'[b] # NULL /\ cpc'[lock'[b]] \in AddPoints)
        OBVIOUS
      <4>1. CASE b = cbp[c]
        BY <1>4, <2>0, <2>1, <4>1, SentinelAssumption DEF AddPoints
      <4>2. CASE b # cbp[c]
        <5>1. tree[EnterLoc(b)] = b
          BY <1>2, <2>2, <4>2, Locations
        <5> QED
          BY <1>1, <1>4, <2>1, <4>2, <5>1 DEF LibInv, LinkedOK, Others
      <4> QED
        BY <4>1, <4>2
    <3>3. \A d \in Ctl :
            /\ cpc'[d] \in {"enable", "disable"} => tree'[EnterLoc(cbp'[d])] = cbp'[d]
            /\ cpc'[d] \in PatchPoints => cbp'[d] \in linked'
      BY <1>1, <2>0, <2>1, <2>6 DEF LibInv, LinkedOK, Locks, Others, PatchPoints
    <3> QED
      BY <3>1, <3>2, <3>3 DEF LinkedOK, EnterLoc
  <2>12. MemoryOK'
    <3>1. \A a \in Addr : tree'[<<"text", a>>] \notin linked' => tree[<<"text", a>>] \notin linked
      BY <1>1, <1>2, <1>4, <2>2, Locations, SentinelAssumption
    <3> QED
      BY <1>1, <1>2, <1>4, <2>0, <2>1, <2>2, <3>1
         DEF LibInv, MemoryOK, AsAttr, Flushed, Others, memVars
  <2> QED
    BY <2>1, <2>3, <2>4, <2>7, <2>10, <2>11, <2>12 DEF LibInv
<1> QED
  BY <1>3, <1>4 DEF AddEnter, breakpoint_find, breakpoint_rb_insert

\* slot_alloc: the slot is one that nobody holds (breakpoint.c:345-349).
LEMMA AddSlotLib ==
  ASSUME LibInv, fault = "none", NEW c \in Ctl, AddSlot(c)
  PROVE  LibInv'
<1>1. /\ cpc[c] = "add_slot" /\ cpc[c] \in HoldPoints /\ Goto(c, "add_copy")
      /\ UNCHANGED <<memVars, tree, enabled, linked, lock, cbp, rv, calls, boot, fault>>
  BY DEF AddSlot, HoldPoints, AddPoints
<1>2. PICK s \in Slot \ slots_used :
        slot' = [slot EXCEPT ![cbp[c]] = s] /\ slots_used' = slots_used \cup {s}
  BY DEF AddSlot, FreeSlots
<1>3. /\ Locks' /\ Others(c) /\ cpc'[c] = "add_copy"
      /\ cbp[c] \in Bkpt /\ lock[cbp[c]] = c
  BY <1>1, Keeping DEF HoldPoints, AddPoints
<1>4. /\ slot'[cbp[c]] = s /\ s # NULL /\ s \in Slot
      /\ \A b \in Bkpt : b # cbp[c] => slot'[b] = slot[b]
      /\ slot[cbp[c]] = NULL /\ cbp[c] \notin linked /\ tree[EnterLoc(cbp[c])] = cbp[c]
  BY <1>1, <1>2, <1>3, SentinelAssumption DEF LibInv, LibTypeOK, AddingOK, AddPoints
<1>5. tree[<<"ret", s>>] = NULL
  <2>1. <<"ret", s>> \in Loc /\ \A b \in Bkpt : <<"ret", s>> # EnterLoc(b)
    BY <1>4, Locations
  <2> QED
    BY <2>1 DEF LibInv, LibTypeOK, TreeOK, ReturnLoc
<1>6. LibTypeOK'
  <2>1. /\ cpc' \in [Ctl -> {"idle", "return", "add", "enable", "disable"} \cup HoldPoints]
        /\ slot' \in [Bkpt -> Slot \cup {NULL}] /\ slots_used' \in SUBSET Slot
    BY <1>1, <1>2 DEF Goto, LibInv, LibTypeOK, HoldPoints, AddPoints
  <2> QED
    BY <1>1, <2>1 DEF LibInv, LibTypeOK, memVars
<1>7. BootOK'
  BY <1>1, WithinBoot
<1>8. TreeOK'
  <2>1. \A x \in Loc : tree[x] # NULL =>
          \/ x = EnterLoc(tree[x])
          \/ slot'[tree[x]] # NULL /\ x = <<"ret", slot'[tree[x]]>>
    BY <1>3, <1>4 DEF LibInv, LibTypeOK, TreeOK, ReturnLoc
  <2>2. \A b \in Bkpt : slot'[b] # NULL => tree[EnterLoc(b)] = b /\ slot'[b] \in slots_used'
    BY <1>2, <1>3, <1>4 DEF LibInv, TreeOK
  <2>3. \A b \in Bkpt : b # cbp[c] => slot'[b] # s
    BY <1>4 DEF LibInv, TreeOK
  <2>4. \A b, d \in Bkpt : slot'[b] # NULL /\ slot'[b] = slot'[d] => b = d
    BY <1>3, <1>4, <2>3 DEF LibInv, TreeOK
  <2> QED
    BY <1>1, <2>1, <2>2, <2>4 DEF TreeOK, EnterLoc, ReturnLoc
<1>9. \A b \in Bkpt : b # cbp[c] /\ SlotReady(b) => SlotReady(b)'
  BY <1>1, <1>4 DEF SlotReady, ReturnLoc, memVars
<1>10. AddingOK'
  <2> SUFFICES ASSUME NEW d \in Ctl
               PROVE  /\ cpc'[d] \in AddPoints => cbp[d] \notin linked
                                                  /\ tree[EnterLoc(cbp[d])] = cbp[d]
                      /\ cpc'[d] = "add_slot" => slot'[cbp[d]] = NULL
                      /\ cpc'[d] \in {"add_copy", "add_return"} =>
                           slot'[cbp[d]] # NULL /\ tree[<<"ret", slot'[cbp[d]]>>] = NULL
                      /\ cpc'[d] = "add_return" => slotmem[slot'[cbp[d]]] = Enter[cbp[d]]
                      /\ cpc'[d] = "add_link" => SlotReady(cbp[d])'
    BY <1>1 DEF AddingOK, EnterLoc, ReturnLoc, SlotReady, memVars
  <2>1. CASE d = c
    BY <1>3, <1>4, <1>5, <2>1
  <2>2. CASE d # c
    <3>1. cpc'[d] = cpc[d] /\ (cpc[d] \in AddPoints => cbp[d] \in Bkpt /\ cbp[d] # cbp[c])
      BY <1>3, <2>2 DEF Others, LibInv, Locks, HoldPoints, AddPoints
    <3> QED
      BY <1>1, <1>4, <1>9, <3>1 DEF LibInv, AddingOK, AddPoints, ReturnLoc
  <2> QED
    BY <2>1, <2>2
<1>11. LinkedOK'
  <2>1. \A b \in linked' : tree'[EnterLoc(b)] = b /\ SlotReady(b)'
    BY <1>1, <1>4, <1>9 DEF LibInv, LibTypeOK, LinkedOK
  <2>2. \A b \in Bkpt : tree'[EnterLoc(b)] = b =>
          b \in linked' \/ (lock'[b] # NULL /\ cpc'[lock'[b]] \in AddPoints)
    BY <1>1, <1>3, SentinelAssumption DEF LibInv, LinkedOK, Others, AddPoints
  <2> QED
    BY <1>1, <1>3, <2>1, <2>2 DEF LibInv, LinkedOK, Others, EnterLoc, PatchPoints
<1>12. MemoryOK'
  <2>1. \A d \in Ctl : d # c /\ cpc[d] \in HoldPoints => slot'[cbp[d]] = slot[cbp[d]]
    BY <1>3, <1>4 DEF Others, LibInv, Locks, HoldPoints, AddPoints, PatchPoints
  <2> QED
    BY <1>1, <1>3, <1>4, <2>1 DEF LibInv, LibTypeOK, MemoryOK, AsAttr, Flushed, Others,
                             HoldPoints, PatchPoints, AddPoints, memVars
<1> QED
  BY <1>3, <1>6, <1>7, <1>8, <1>10, <1>11, <1>12 DEF LibInv

\* The copy of the instruction into the slot: the breakpoint is not enabled
\* yet, so what is copied is the program's (breakpoint.c:351-359).
LEMMA AddCopyLib ==
  ASSUME LibInv, fault = "none", NEW c \in Ctl, AddCopy(c)
  PROVE  LibInv'
<1>1. /\ cpc[c] = "add_copy" /\ cpc[c] \in HoldPoints /\ Goto(c, "add_return")
      /\ slotmem' = [slotmem EXCEPT ![slot[cbp[c]]] = text[Enter[cbp[c]]]]
      /\ UNCHANGED <<text, stale, writable, libVars, cbp, rv, calls, boot, fault>>
      /\ UNCHANGED <<tree, slot, slots_used, enabled, linked, lock>>
  BY DEF AddCopy, HoldPoints, AddPoints, libVars
<1>2. /\ Locks' /\ Others(c) /\ cpc'[c] = "add_return"
      /\ cbp[c] \in Bkpt /\ lock[cbp[c]] = c
  BY <1>1, Keeping DEF HoldPoints, AddPoints
<1>3. /\ slot[cbp[c]] \in Slot /\ slot[cbp[c]] # NULL
      /\ tree[ReturnLoc(cbp[c])] = NULL
      /\ cbp[c] \notin linked /\ tree[EnterLoc(cbp[c])] = cbp[c]
  BY <1>1, <1>2 DEF LibInv, LibTypeOK, AddingOK, AddPoints
<1>4. Enter[cbp[c]] \in Addr /\ text[Enter[cbp[c]]] = Enter[cbp[c]]
  BY <1>2, <1>3, Locations DEF LibInv, MemoryOK, EnterLoc
<1>5. /\ slotmem'[slot[cbp[c]]] = Enter[cbp[c]]
      /\ \A s \in Slot : s # slot[cbp[c]] => slotmem'[s] = slotmem[s]
  BY <1>1, <1>3, <1>4 DEF LibInv, LibTypeOK
<1>6. LibTypeOK'
  <2>1. /\ cpc' \in [Ctl -> {"idle", "return", "add", "enable", "disable"} \cup HoldPoints]
        /\ slotmem' \in [Slot -> Word]
    BY <1>1, <1>4 DEF Goto, LibInv, LibTypeOK, HoldPoints, AddPoints, Word
  <2> QED
    BY <1>1, <2>1 DEF LibInv, LibTypeOK
<1>7. BootOK'
  BY <1>1, WithinBoot
<1>8. TreeOK'
  BY <1>1 DEF LibInv, TreeOK, EnterLoc, ReturnLoc
<1>9. \A b \in Bkpt : b # cbp[c] /\ slot[b] # NULL => slotmem'[slot[b]] = slotmem[slot[b]]
  BY <1>2, <1>3, <1>5 DEF LibInv, LibTypeOK, TreeOK
<1>10. \A b \in Bkpt : b # cbp[c] /\ SlotReady(b) => SlotReady(b)'
  BY <1>1, <1>9 DEF SlotReady, ReturnLoc
<1>11. AddingOK'
  <2> SUFFICES ASSUME NEW d \in Ctl
               PROVE  /\ cpc'[d] \in AddPoints => cbp[d] \notin linked
                                                  /\ tree[EnterLoc(cbp[d])] = cbp[d]
                      /\ cpc'[d] = "add_slot" => slot[cbp[d]] = NULL
                      /\ cpc'[d] \in {"add_copy", "add_return"} =>
                           slot[cbp[d]] # NULL /\ tree[ReturnLoc(cbp[d])] = NULL
                      /\ cpc'[d] = "add_return" => slotmem'[slot[cbp[d]]] = Enter[cbp[d]]
                      /\ cpc'[d] = "add_link" => SlotReady(cbp[d])'
    BY <1>1 DEF AddingOK, EnterLoc, ReturnLoc, SlotReady
  <2>1. CASE d = c
    BY <1>2, <1>3, <1>5, <2>1
  <2>2. CASE d # c
    <3>1. cpc'[d] = cpc[d] /\ (cpc[d] \in AddPoints => cbp[d] \in Bkpt /\ cbp[d] # cbp[c])
      BY <1>2, <2>2 DEF Others, LibInv, Locks, HoldPoints, AddPoints
    <3> QED
      BY <1>1, <1>9, <1>10, <3>1 DEF LibInv, AddingOK, AddPoints
  <2> QED
    BY <2>1, <2>2
<1>12. LinkedOK'
  <2>1. \A b \in linked' : tree'[EnterLoc(b)] = b /\ SlotReady(b)'
    BY <1>1, <1>3, <1>10 DEF LibInv, LibTypeOK, LinkedOK
  <2>2. \A b \in Bkpt : tree'[EnterLoc(b)] = b =>
          b \in linked' \/ (lock'[b] # NULL /\ cpc'[lock'[b]] \in AddPoints)
    BY <1>1, <1>2, SentinelAssumption DEF LibInv, LinkedOK, Others, AddPoints
  <2> QED
    BY <1>1, <1>2, <2>1, <2>2 DEF LibInv, LinkedOK, Others, EnterLoc, PatchPoints
<1>13. MemoryOK'
  BY <1>1, <1>2, <1>3 DEF LibInv, LibTypeOK, MemoryOK, AsAttr, Flushed, Others
<1> QED
  BY <1>2, <1>6, <1>7, <1>8, <1>11, <1>12, <1>13 DEF LibInv

\* The insertion of bp_return, whose address is new because the slot is: the
\* way out that frees the slot is not taken (breakpoint.c:361-366).
LEMMA AddReturnLib ==
  ASSUME LibInv, fault = "none", NEW c \in Ctl, AddReturn(c)
  PROVE  LibInv'
<1>1. /\ cpc[c] = "add_return" /\ cpc[c] \in HoldPoints
      /\ UNCHANGED <<memVars, slot, enabled, linked, cbp, calls, boot, fault>>
  BY DEF AddReturn, HoldPoints, AddPoints
<1>2. /\ cbp[c] \in Bkpt /\ slot[cbp[c]] \in Slot /\ slot[cbp[c]] # NULL
      /\ tree[ReturnLoc(cbp[c])] = NULL /\ slotmem[slot[cbp[c]]] = Enter[cbp[c]]
      /\ cbp[c] \notin linked /\ tree[EnterLoc(cbp[c])] = cbp[c]
  BY <1>1 DEF LibInv, LibTypeOK, Locks, AddingOK, AddPoints
<1>3. /\ tree' = [tree EXCEPT ![ReturnLoc(cbp[c])] = cbp[c]]
      /\ Goto(c, "add_link") /\ UNCHANGED <<lock, slots_used, rv>>
  BY <1>2 DEF AddReturn, breakpoint_find, breakpoint_rb_insert
<1>4. /\ Locks' /\ Others(c) /\ cpc'[c] = "add_link" /\ lock[cbp[c]] = c
  BY <1>1, <1>3, Keeping DEF HoldPoints, AddPoints
<1>5. ReturnLoc(cbp[c]) \in Loc /\ \A b \in Bkpt : EnterLoc(b) # ReturnLoc(cbp[c])
  BY <1>2, Locations DEF ReturnLoc
<1>6. /\ tree'[ReturnLoc(cbp[c])] = cbp[c]
      /\ \A x \in Loc : x # ReturnLoc(cbp[c]) => tree'[x] = tree[x]
      /\ \A b \in Bkpt : tree'[EnterLoc(b)] = tree[EnterLoc(b)]
      /\ \A a \in Addr : tree'[<<"text", a>>] = tree[<<"text", a>>]
  BY <1>3, <1>5, Locations DEF LibInv, LibTypeOK, ReturnLoc
<1>7. \A b \in Bkpt : b # cbp[c] /\ slot[b] # NULL => tree'[ReturnLoc(b)] = tree[ReturnLoc(b)]
  <2> SUFFICES ASSUME NEW b \in Bkpt, b # cbp[c], slot[b] # NULL
               PROVE  ReturnLoc(b) \in Loc /\ ReturnLoc(b) # ReturnLoc(cbp[c])
    BY <1>6
  <2>1. slot[b] \in Slot /\ slot[b] # slot[cbp[c]]
    BY <1>2 DEF LibInv, LibTypeOK, TreeOK
  <2> QED
    BY <2>1, Locations DEF ReturnLoc
<1>8. LibTypeOK'
  <2>1. /\ cpc' \in [Ctl -> {"idle", "return", "add", "enable", "disable"} \cup HoldPoints]
        /\ tree' \in [Loc -> Bkpt \cup {NULL}]
    BY <1>2, <1>3 DEF Goto, LibInv, LibTypeOK, HoldPoints, AddPoints
  <2> QED
    BY <1>1, <1>3, <2>1 DEF LibInv, LibTypeOK, memVars
<1>9. BootOK'
  BY <1>1, <1>3, WithinBoot
<1>10. TreeOK'
  BY <1>1, <1>2, <1>3, <1>6 DEF LibInv, TreeOK, EnterLoc, ReturnLoc
<1>11. SlotReady(cbp[c])' /\ \A b \in Bkpt : b # cbp[c] /\ SlotReady(b) => SlotReady(b)'
  BY <1>1, <1>2, <1>6, <1>7 DEF SlotReady, ReturnLoc, memVars
<1>12. AddingOK'
  <2> SUFFICES ASSUME NEW d \in Ctl
               PROVE  /\ cpc'[d] \in AddPoints => cbp[d] \notin linked
                                                  /\ tree'[EnterLoc(cbp[d])] = cbp[d]
                      /\ cpc'[d] = "add_slot" => slot[cbp[d]] = NULL
                      /\ cpc'[d] \in {"add_copy", "add_return"} =>
                           slot[cbp[d]] # NULL /\ tree'[ReturnLoc(cbp[d])] = NULL
                      /\ cpc'[d] = "add_return" => slotmem[slot[cbp[d]]] = Enter[cbp[d]]
                      /\ cpc'[d] = "add_link" => SlotReady(cbp[d])'
    BY <1>1 DEF AddingOK, EnterLoc, ReturnLoc, SlotReady, memVars
  <2>1. CASE d = c
    BY <1>2, <1>4, <1>6, <1>11, <2>1
  <2>2. CASE d # c
    <3>1. cpc'[d] = cpc[d] /\ (cpc[d] \in AddPoints => cbp[d] \in Bkpt /\ cbp[d] # cbp[c])
      BY <1>4, <2>2 DEF Others, LibInv, Locks, HoldPoints, AddPoints
    <3> QED
      BY <1>1, <1>6, <1>7, <1>11, <3>1 DEF LibInv, AddingOK, AddPoints
  <2> QED
    BY <2>1, <2>2
<1>13. LinkedOK'
  <2>1. \A b \in linked' : tree'[EnterLoc(b)] = b /\ SlotReady(b)'
    BY <1>1, <1>2, <1>6, <1>11 DEF LibInv, LibTypeOK, LinkedOK
  <2>2. \A b \in Bkpt : tree'[EnterLoc(b)] = b =>
          b \in linked' \/ (lock'[b] # NULL /\ cpc'[lock'[b]] \in AddPoints)
    BY <1>1, <1>3, <1>4, <1>6, SentinelAssumption DEF LibInv, LinkedOK, Others, AddPoints
  <2>3. \A d \in Ctl :
            /\ cpc'[d] \in {"enable", "disable"} => tree'[EnterLoc(cbp'[d])] = cbp'[d]
            /\ cpc'[d] \in PatchPoints => cbp'[d] \in linked'
    BY <1>1, <1>4, <1>6 DEF LibInv, LinkedOK, Locks, Others, PatchPoints
  <2> QED
    BY <2>1, <2>2, <2>3 DEF LinkedOK, EnterLoc
<1>14. MemoryOK'
  BY <1>1, <1>2, <1>3, <1>4, <1>6 DEF LibInv, LibTypeOK, MemoryOK, AsAttr, Flushed, Others, memVars
<1> QED
  BY <1>4, <1>8, <1>9, <1>10, <1>12, <1>13, <1>14 DEF LibInv

\* The end of breakpoint_add (breakpoint.c:369-377).
LEMMA AddLinkLib ==
  ASSUME LibInv, fault = "none", NEW c \in Ctl, AddLink(c)
  PROVE  LibInv'
<1>1. /\ cpc[c] = "add_link" /\ cpc[c] \in HoldPoints
      /\ linked' = linked \cup {cbp[c]} /\ Release(cbp[c]) /\ Return(c, 0)
      /\ UNCHANGED <<memVars, tree, slot, slots_used, enabled, cbp, calls, boot, fault>>
  BY DEF AddLink, HoldPoints, AddPoints
<1>2. /\ Locks' /\ Others(c) /\ cpc'[c] = "return" /\ cbp[c] \in Bkpt
      /\ lock[cbp[c]] = c /\ lock'[cbp[c]] = NULL
  BY <1>1, Releasing DEF Return
<1>3. /\ cbp[c] \notin linked /\ tree[EnterLoc(cbp[c])] = cbp[c] /\ SlotReady(cbp[c])
      /\ cbp[c] \notin enabled
  BY <1>1 DEF LibInv, LibTypeOK, AddingOK, AddPoints
<1>4. LibTypeOK'
  <2>1. /\ cpc' \in [Ctl -> {"idle", "return", "add", "enable", "disable"} \cup HoldPoints]
        /\ lock' \in [Bkpt -> Ctl \cup {NULL}] /\ rv' \in [Ctl -> -3 .. 0]
        /\ enabled \in SUBSET linked' /\ linked' \in SUBSET Bkpt
    BY <1>1, <1>2 DEF Return, Goto, Release, LibInv, LibTypeOK
  <2> QED
    BY <1>1, <2>1 DEF LibInv, LibTypeOK, memVars
<1>5. BootOK'
  BY <1>1, WithinBoot DEF Return
<1>6. TreeOK'
  BY <1>1 DEF LibInv, TreeOK, EnterLoc, ReturnLoc
<1>7. \A b \in Bkpt : SlotReady(b) => SlotReady(b)'
  BY <1>1 DEF SlotReady, ReturnLoc, memVars
<1>8. AddingOK'
  <2> SUFFICES ASSUME NEW d \in Ctl, cpc'[d] \in AddPoints
               PROVE  /\ cbp[d] \notin linked' /\ tree[EnterLoc(cbp[d])] = cbp[d]
                      /\ cpc'[d] = "add_slot" => slot[cbp[d]] = NULL
                      /\ cpc'[d] \in {"add_copy", "add_return"} =>
                           slot[cbp[d]] # NULL /\ tree[ReturnLoc(cbp[d])] = NULL
                      /\ cpc'[d] = "add_return" => slotmem[slot[cbp[d]]] = Enter[cbp[d]]
                      /\ cpc'[d] = "add_link" => SlotReady(cbp[d])'
    BY <1>1 DEF AddingOK, EnterLoc, ReturnLoc, SlotReady, memVars, AddPoints
  <2>1. d # c
    BY <1>2 DEF AddPoints
  <2>2. cpc'[d] = cpc[d] /\ cbp[d] \in Bkpt /\ cbp[d] # cbp[c]
    BY <1>2, <2>1 DEF Others, LibInv, Locks, HoldPoints, AddPoints
  <2> QED
    BY <1>1, <1>7, <2>2 DEF LibInv, AddingOK, AddPoints
<1>9. LinkedOK'
  <2>1. \A b \in linked' : tree'[EnterLoc(b)] = b /\ SlotReady(b)'
    BY <1>1, <1>2, <1>3, <1>7 DEF LibInv, LibTypeOK, LinkedOK
  <2>2. \A b \in Bkpt : tree'[EnterLoc(b)] = b =>
          b \in linked' \/ (lock'[b] # NULL /\ cpc'[lock'[b]] \in AddPoints)
    BY <1>1, <1>2 DEF LibInv, LinkedOK, Others
  <2> QED
    BY <1>1, <1>2, <2>1, <2>2 DEF LibInv, LinkedOK, Others, EnterLoc, PatchPoints
<1>10. MemoryOK'
  <2>1. text[Enter[cbp[c]]] = Enter[cbp[c]] /\ stale[Enter[cbp[c]]] = NULL
    BY <1>2, <1>3, Locations DEF LibInv, MemoryOK, EnterLoc
  <2>2. \A b \in linked' : lock'[b] = NULL \/ cpc'[lock'[b]] = "add_enter" =>
          AsAttr(b)' /\ Flushed(b)'
    BY <1>1, <1>2, <1>3, <2>1 DEF LibInv, LibTypeOK, MemoryOK, AsAttr, Flushed, Others, memVars
  <2> QED
    BY <1>1, <1>2, <2>2 DEF LibInv, MemoryOK, AsAttr, Flushed, Others, memVars
<1> QED
  BY <1>2, <1>4, <1>5, <1>6, <1>8, <1>9, <1>10 DEF LibInv

\* The beginning of breakpoint_enable and of breakpoint_disable: the
\* attribute changes under the lock, before the text does
\* (breakpoint.c:416-427, 443-460).
LEMMA AttrLib ==
  ASSUME LibInv, fault = "none", NEW c \in Ctl, EnableBegin(c) \/ DisableBegin(c)
  PROVE  LibInv'
<1>1. /\ UNCHANGED <<memVars, tree, slot, slots_used, linked, cbp, calls, boot>>
      /\ cpc[c] \in {"enable", "disable"}
  BY DEF EnableBegin, DisableBegin
<1>2. CASE NothingToDo(c) /\ UNCHANGED enabled /\ (cpc[c] = "enable" => cbp[c] \in enabled)
  <2>1. 0 \in -3 .. 0
    OBVIOUS
  <2> QED
    BY <1>1, <1>2, <2>1, NothingLib DEF NothingToDo, libVars
<1>3. ASSUME NEW l \in {"en_unprotect", "dis_unprotect"},
             Acquire(c, cbp[c]), Goto(c, l), UNCHANGED rv,
             IF l = "en_unprotect"
             THEN /\ cpc[c] = "enable" /\ cbp[c] \notin enabled
                  /\ enabled' = enabled \cup {cbp[c]}
             ELSE /\ cpc[c] = "disable" /\ cbp[c] \in enabled
                  /\ enabled' = enabled \ {cbp[c]}
                  /\ fault' = "none" => slot[cbp[c]] # NULL
      PROVE  LibInv'
  <2>1. /\ Locks' /\ Others(c) /\ cpc'[c] = l /\ cbp[c] \in Bkpt
        /\ lock[cbp[c]] = NULL /\ lock'[cbp[c]] = c
    BY <1>1, <1>3, Taking DEF HoldPoints, PatchPoints
  <2>2. cbp[c] \in linked /\ AsAttr(cbp[c]) /\ Flushed(cbp[c])
    BY <1>1, <2>1 DEF LibInv, LinkedOK, MemoryOK
  <2>3. \A b \in Bkpt : b # cbp[c] => (b \in enabled' <=> b \in enabled)
    BY <1>3
  <2>4. LibTypeOK'
    <3>1. /\ cpc' \in [Ctl -> {"idle", "return", "add", "enable", "disable"} \cup HoldPoints]
          /\ lock' \in [Bkpt -> Ctl \cup {NULL}]
      BY <1>3 DEF Goto, Acquire, LibInv, LibTypeOK, HoldPoints, PatchPoints
    <3>2. enabled' \in SUBSET linked
      BY <1>3, <2>2 DEF LibInv, LibTypeOK
    <3> QED
      BY <1>1, <1>3, <3>1, <3>2 DEF LibInv, LibTypeOK, memVars
  <2>5. BootOK'
    <3>1. cpc[c] = "disable" => cbp[c] # entry_bp
      BY DEF LibInv, BootOK
    <3>2. entry_bp \in enabled => entry_bp \in enabled'
      BY <1>3, <3>1
    <3> QED
      BY <1>1, <1>3, <3>2, WithinBoot
  <2>6. TreeOK'
    BY <1>1 DEF LibInv, TreeOK, EnterLoc, ReturnLoc
  <2>7. AddingOK'
    BY <1>1, <1>3, <2>1
       DEF LibInv, AddingOK, SlotReady, EnterLoc, ReturnLoc, Others, AddPoints, memVars
  <2>8. LinkedOK'
    BY <1>1, <1>3, <2>1, <2>2
       DEF LibInv, LinkedOK, SlotReady, EnterLoc, ReturnLoc, Others, PatchPoints, memVars
  <2>9. MemoryOK'
    <3>1. /\ \A a \in Addr : tree'[<<"text", a>>] \notin linked' => text'[a] = a /\ stale'[a] = NULL
          /\ \A b \in linked' : lock'[b] = NULL \/ cpc'[lock'[b]] = "add_enter" =>
               AsAttr(b)' /\ Flushed(b)'
      BY <1>1, <1>3, <2>1, <2>3, SentinelAssumption
         DEF LibInv, LibTypeOK, MemoryOK, AsAttr, Flushed, Others, memVars
    <3>2. ASSUME NEW d \in Ctl
          PROVE  /\ cpc'[d] \in {"en_unprotect", "en_write"} =>
                      /\ cbp'[d] \in enabled' /\ stale'[Enter[cbp'[d]]] = NULL
                      /\ text'[Enter[cbp'[d]]] = Enter[cbp'[d]]
                 /\ cpc'[d] \in {"dis_unprotect", "dis_write"} =>
                      /\ cbp'[d] \notin enabled' /\ stale'[Enter[cbp'[d]]] = NULL
                      /\ text'[Enter[cbp'[d]]] = BRK
                      /\ fault' = "none" => slot'[cbp'[d]] # NULL
                 /\ cpc'[d] = "protect" /\ fault' = "none" =>
                      /\ text'[Enter[cbp'[d]]] = IF cbp'[d] \in enabled' THEN BRK
                                                ELSE Enter[cbp'[d]]
                      /\ stale'[Enter[cbp'[d]]] \in {Enter[cbp'[d]], BRK, NULL}
      <4>1. CASE d = c
        BY <1>1, <1>3, <2>1, <2>2, <4>1 DEF AsAttr, Flushed, memVars
      <4>2. CASE d # c
        <5>1. /\ cpc'[d] = cpc[d] /\ cbp'[d] = cbp[d]
              /\ cpc[d] \in PatchPoints => cbp[d] # cbp[c] /\ cbp[d] \in Bkpt
          BY <1>1, <2>1, <4>2 DEF Others, HoldPoints, LibInv, Locks, PatchPoints
        <5> QED
          BY <1>1, <2>3, <5>1 DEF LibInv, MemoryOK, AsAttr, Flushed, PatchPoints, memVars
      <4> QED
        BY <4>1, <4>2
    <3> QED
      BY <3>1, <3>2 DEF MemoryOK, AsAttr, Flushed
  <2> QED
    BY <2>1, <2>4, <2>5, <2>6, <2>7, <2>8, <2>9 DEF LibInv
<1>4. CASE EnableBegin(c)
  BY <1>2, <1>3, <1>4 DEF EnableBegin
<1>5. CASE DisableBegin(c)
  BY <1>2, <1>3, <1>5 DEF DisableBegin
<1> QED
  BY <1>4, <1>5

\* object_memory_unlock changes only the protection.
LEMMA UnprotectLib ==
  ASSUME LibInv, fault = "none", NEW c \in Ctl, EnableUnprotect(c) \/ DisableUnprotect(c)
  PROVE  LibInv'
<1>1. /\ cpc[c] \in {"en_unprotect", "dis_unprotect"} /\ cpc[c] \in HoldPoints
      /\ Goto(c, IF cpc[c] = "en_unprotect" THEN "en_write" ELSE "dis_write")
      /\ writable' = writable \cup {ObjAt[Enter[cbp[c]]]} \/ UNCHANGED writable
      /\ UNCHANGED <<text, stale, slotmem, libVars, cbp, rv, calls, boot>>
      /\ UNCHANGED <<tree, slot, slots_used, enabled, linked, lock>>
  BY DEF EnableUnprotect, DisableUnprotect, object_memory_unlock, HoldPoints, PatchPoints, libVars
<1>2. PICK l \in {"en_write", "dis_write"} :
        Goto(c, l) /\ (l = "en_write" <=> cpc[c] = "en_unprotect")
  BY <1>1
<1>3. /\ Locks' /\ Others(c) /\ cpc'[c] = l /\ cbp[c] \in Bkpt /\ lock[cbp[c]] = c
  BY <1>1, <1>2, Keeping DEF HoldPoints, PatchPoints
<1>4. LibTypeOK'
  <2>1. cpc' \in [Ctl -> {"idle", "return", "add", "enable", "disable"} \cup HoldPoints]
    BY <1>2 DEF Goto, LibInv, LibTypeOK, HoldPoints, PatchPoints
  <2>2. ObjAt[Enter[cbp[c]]] \in Obj \cup {NULL}
    BY <1>3, ConstantsAssumption
  <2> QED
    BY <1>1, <2>1, <2>2 DEF LibInv, LibTypeOK
<1>5. BootOK'
  BY <1>1, <1>2, WithinBoot
<1>6. TreeOK'
  BY <1>1 DEF LibInv, TreeOK, EnterLoc, ReturnLoc
<1>7. AddingOK'
  BY <1>1, <1>2, <1>3 DEF LibInv, AddingOK, SlotReady, EnterLoc, ReturnLoc, Others, AddPoints
<1>8. LinkedOK'
  BY <1>1, <1>2, <1>3, SentinelAssumption
     DEF LibInv, LinkedOK, SlotReady, EnterLoc, ReturnLoc, Others, PatchPoints, AddPoints
<1>9. MemoryOK'
  BY <1>1, <1>2, <1>3, SentinelAssumption
     DEF LibInv, LibTypeOK, MemoryOK, AsAttr, Flushed, Others
<1> QED
  BY <1>3, <1>4, <1>5, <1>6, <1>7, <1>8, <1>9 DEF LibInv

\* The store of the brk, or of the instruction that the slot has kept
\* (breakpoint.c:432, 465).
LEMMA WriteLib ==
  ASSUME LibInv, fault = "none", NEW c \in Ctl, EnableWrite(c) \/ DisableWrite(c)
  PROVE  LibInv'
<1> DEFINE b == cbp[c]
<1>1. /\ cpc[c] \in {"en_write", "dis_write"} /\ cpc[c] \in HoldPoints /\ cpc[c] \in PatchPoints
      /\ Goto(c, "protect")
      /\ UNCHANGED <<writable, slotmem, libVars, cbp, rv, calls, boot>>
      /\ UNCHANGED <<tree, slot, slots_used, enabled, linked, lock>>
  BY DEF EnableWrite, DisableWrite, WriteText, HoldPoints, PatchPoints, libVars
<1>2. /\ Locks' /\ Others(c) /\ cpc'[c] = "protect" /\ b \in Bkpt /\ lock[b] = c
  BY <1>1, Keeping DEF HoldPoints, PatchPoints
<1>3. b \in linked /\ tree[EnterLoc(b)] = b /\ SlotReady(b) /\ Enter[b] \in Addr
  BY <1>1, <1>2, Locations DEF LibInv, LinkedOK
<1>4. \/ /\ text' = [text EXCEPT ![Enter[b]] = IF b \in enabled THEN BRK ELSE Enter[b]]
         /\ stale' = [stale EXCEPT ![Enter[b]] = text[Enter[b]]]
         /\ text[Enter[b]] \in {Enter[b], BRK}
         /\ UNCHANGED fault
      \/ /\ fault' = "segv" /\ UNCHANGED <<text, stale>>
  <2>1. CASE EnableWrite(c)
    <3>1. cpc[c] = "en_write"
      BY <2>1 DEF EnableWrite, WriteText
    <3>2. b \in enabled /\ text[Enter[b]] = Enter[b]
      BY <3>1 DEF LibInv, MemoryOK
    <3> QED
      BY <2>1, <3>2 DEF EnableWrite, WriteText
  <2>2. CASE DisableWrite(c)
    <3>1. cpc[c] = "dis_write"
      BY <2>2 DEF DisableWrite, WriteText
    <3>2. b \notin enabled /\ text[Enter[b]] = BRK /\ slot[b] # NULL
      BY <3>1 DEF LibInv, MemoryOK
    <3>3. slotmem[slot[b]] = Enter[b]
      BY <1>3, <3>2 DEF SlotReady
    <3> QED
      BY <2>2, <3>2, <3>3 DEF DisableWrite, WriteText
  <2> QED
    BY <2>1, <2>2
<1>5. /\ \A a \in Addr : a # Enter[b] => text'[a] = text[a] /\ stale'[a] = stale[a]
      /\ fault' = "none" => /\ text'[Enter[b]] = IF b \in enabled THEN BRK ELSE Enter[b]
                            /\ stale'[Enter[b]] \in {Enter[b], BRK}
  BY <1>3, <1>4 DEF LibInv, LibTypeOK
<1>6. LibTypeOK'
  <2>1. cpc' \in [Ctl -> {"idle", "return", "add", "enable", "disable"} \cup HoldPoints]
    BY <1>1 DEF Goto, LibInv, LibTypeOK, HoldPoints, PatchPoints
  <2>2. text' \in [Addr -> Word] /\ stale' \in [Addr -> Word]
    BY <1>3, <1>4 DEF LibInv, LibTypeOK, Word
  <2> QED
    BY <1>1, <2>1, <2>2 DEF LibInv, LibTypeOK
<1>7. BootOK'
  BY <1>1, WithinBoot
<1>8. TreeOK'
  BY <1>1 DEF LibInv, TreeOK, EnterLoc, ReturnLoc
<1>9. AddingOK'
  BY <1>1, <1>2 DEF LibInv, AddingOK, SlotReady, EnterLoc, ReturnLoc, Others, AddPoints
<1>10. LinkedOK'
  BY <1>1, <1>2, <1>3, SentinelAssumption
     DEF LibInv, LinkedOK, SlotReady, EnterLoc, ReturnLoc, Others, PatchPoints, AddPoints
<1>11. MemoryOK'
  <2>1. \A d \in linked : d # b => /\ text'[Enter[d]] = text[Enter[d]]
                                   /\ stale'[Enter[d]] = stale[Enter[d]]
    <3> SUFFICES ASSUME NEW d \in linked, d # b
                 PROVE  Enter[d] \in Addr /\ Enter[d] # Enter[b]
      BY <1>5
    <3> QED
      BY <1>2, <1>3, Locations, OneAtAnAddress DEF LibInv, LibTypeOK, LinkedOK
  <2>2. \A a \in Addr : tree'[<<"text", a>>] \notin linked' => text'[a] = a /\ stale'[a] = NULL
    BY <1>1, <1>3, <1>5 DEF LibInv, MemoryOK, EnterLoc
  <2>3. \A d \in linked' : lock'[d] = NULL \/ cpc'[lock'[d]] = "add_enter" =>
          AsAttr(d)' /\ Flushed(d)'
    BY <1>1, <1>2, <2>1, SentinelAssumption
       DEF LibInv, LibTypeOK, MemoryOK, AsAttr, Flushed, Others
  <2>4. ASSUME NEW d \in Ctl, cpc'[d] \in PatchPoints, d # c
        PROVE  /\ cpc'[d] = cpc[d] /\ cbp'[d] = cbp[d] /\ cbp[d] \in linked
               /\ text'[Enter[cbp[d]]] = text[Enter[cbp[d]]]
               /\ stale'[Enter[cbp[d]]] = stale[Enter[cbp[d]]]
    BY <1>1, <1>2, <2>1, <2>4 DEF LibInv, LinkedOK, Others, HoldPoints
  <2>5. ASSUME NEW d \in Ctl
        PROVE  /\ cpc'[d] \in {"en_unprotect", "en_write"} =>
                    /\ cbp'[d] \in enabled' /\ stale'[Enter[cbp'[d]]] = NULL
                    /\ text'[Enter[cbp'[d]]] = Enter[cbp'[d]]
               /\ cpc'[d] \in {"dis_unprotect", "dis_write"} =>
                    /\ cbp'[d] \notin enabled' /\ stale'[Enter[cbp'[d]]] = NULL
                    /\ text'[Enter[cbp'[d]]] = BRK
                    /\ fault' = "none" => slot'[cbp'[d]] # NULL
               /\ cpc'[d] = "protect" /\ fault' = "none" =>
                    /\ text'[Enter[cbp'[d]]] = IF cbp'[d] \in enabled' THEN BRK
                                              ELSE Enter[cbp'[d]]
                    /\ stale'[Enter[cbp'[d]]] \in {Enter[cbp'[d]], BRK, NULL}
    <3>1. CASE d = c
      BY <1>1, <1>2, <1>5, <3>1
    <3>2. CASE d # c
      BY <1>1, <2>4, <3>2 DEF LibInv, MemoryOK, AsAttr, Flushed, PatchPoints
    <3> QED
      BY <3>1, <3>2
  <2> QED
    BY <2>2, <2>3, <2>5 DEF MemoryOK, AsAttr, Flushed
<1> QED
  BY <1>2, <1>6, <1>7, <1>8, <1>9, <1>10, <1>11 DEF LibInv

\* object_memory_lock flushes the object, so that memory is as the attribute
\* says when the lock is released (breakpoint.c:434-436, 467-469).
LEMMA ProtectLib ==
  ASSUME LibInv, fault = "none", NEW c \in Ctl, object_memory_lock(c)
  PROVE  LibInv'
<1> DEFINE b == cbp[c]
<1>1. /\ cpc[c] = "protect" /\ cpc[c] \in HoldPoints /\ cpc[c] \in PatchPoints
      /\ Release(b) /\ Return(c, 0)
      /\ Flush(ObjAt[Enter[b]]) /\ Protect(ObjAt[Enter[b]])
      /\ UNCHANGED <<text, slotmem, tree, slot, slots_used, enabled, linked, cbp, calls,
                     boot, fault>>
  BY DEF object_memory_lock, HoldPoints, PatchPoints
<1>2. /\ Locks' /\ Others(c) /\ cpc'[c] = "return" /\ b \in Bkpt
      /\ lock[b] = c /\ lock'[b] = NULL
  BY <1>1, Releasing DEF Return
<1>3. b \in linked /\ Enter[b] \in Addr
  BY <1>1, <1>2, Locations DEF LibInv, LinkedOK
<1>4. /\ stale'[Enter[b]] = NULL
      /\ \A a \in Addr : stale'[a] \in {NULL, stale[a]}
      /\ stale' \in [Addr -> Word]
  BY <1>1, <1>3 DEF Flush, LibInv, LibTypeOK, Word
<1>5. LibTypeOK'
  <2>1. /\ cpc' \in [Ctl -> {"idle", "return", "add", "enable", "disable"} \cup HoldPoints]
        /\ lock' \in [Bkpt -> Ctl \cup {NULL}]
    BY <1>1 DEF Return, Goto, Release, LibInv, LibTypeOK
  <2>2. rv' \in [Ctl -> -3 .. 0]
    BY <1>1 DEF Return, LibInv, LibTypeOK
  <2>3. writable' \in SUBSET (Obj \cup {NULL})
    BY <1>1 DEF Protect, LibInv, LibTypeOK
  <2> QED
    BY <1>1, <1>4, <2>1, <2>2, <2>3 DEF LibInv, LibTypeOK
<1>6. BootOK'
  BY <1>1, WithinBoot DEF Return
<1>7. TreeOK'
  BY <1>1 DEF LibInv, TreeOK, EnterLoc, ReturnLoc
<1>8. AddingOK'
  BY <1>1, <1>2 DEF LibInv, AddingOK, SlotReady, EnterLoc, ReturnLoc, Others, AddPoints
<1>9. LinkedOK'
  BY <1>1, <1>2, <1>3
     DEF LibInv, LinkedOK, SlotReady, EnterLoc, ReturnLoc, Others, PatchPoints, AddPoints
<1>10. MemoryOK'
  <2>1. \A d \in Bkpt : Enter[d] \in Addr
    BY Locations
  <2>2. \A a \in Addr : tree'[<<"text", a>>] \notin linked' => text'[a] = a /\ stale'[a] = NULL
    BY <1>1, <1>4 DEF LibInv, MemoryOK
  <2>3. \A d \in linked' : lock'[d] = NULL \/ cpc'[lock'[d]] = "add_enter" =>
          AsAttr(d)' /\ Flushed(d)'
    BY <1>1, <1>2, <1>4, <2>1 DEF LibInv, LibTypeOK, MemoryOK, AsAttr, Flushed, Others
  <2>4. ASSUME NEW d \in Ctl, cpc'[d] \in PatchPoints
        PROVE  /\ cpc'[d] = cpc[d] /\ cbp'[d] = cbp[d]
               /\ stale'[Enter[cbp[d]]] \in {NULL, stale[Enter[cbp[d]]]}
    BY <1>1, <1>2, <1>4, <2>1, <2>4 DEF LibInv, Locks, Others, PatchPoints
  <2> QED
    BY <1>1, <2>2, <2>3, <2>4 DEF LibInv, MemoryOK, AsAttr, Flushed, PatchPoints
<1> QED
  BY <1>2, <1>5, <1>6, <1>7, <1>8, <1>9, <1>10 DEF LibInv

-----------------------------------------------------------------------------
(***************************************************************************)
(* The invariant, and what follows from it                                 *)
(***************************************************************************)

\* What a thread of the program does, in its text, in a slot or in a handler.
ThreadStep(t) ==
  \/ Execute(t) \/ Trap(t) \/ Spawn(t) \/ Exit(t)
  \/ Interrupt(t) \/ Sigreturn(t) \/ HandlerStep(t)

\* Threads leave alone what the callers work on: the SIGTRAP handlers only
\* read the tree, the slots and the attributes (hook_main.c:41-82, 91-125).
LEMMA ThreadFrame ==
  ASSUME NEW t \in Thread, ThreadStep(t)
  PROVE  UNCHANGED <<memVars, libVars, ctlVars>>
  BY DEF ThreadStep, Execute, Trap, Spawn, Exit, Interrupt, Sigreturn, HandlerStep,
         EntrySecond, EntryFirst, SigtrapFind, SigtrapFinish, SigtrapBegin

\* The callers leave the threads alone.
LEMMA CallerFrame ==
  ASSUME NEW c \in Ctl,
         CtlStep(c) \/ \E op \in {"add", "enable", "disable"}, b \in Bkpt : Call(c, op, b)
  PROVE  UNCHANGED <<progVars, trapVars, objects>>
  BY DEF CtlStep, Call, CallReturns, AddBegin, AddEnter, AddSlot, AddCopy, AddReturn, AddLink,
         EnableBegin, DisableBegin, EnableUnprotect, DisableUnprotect, object_memory_unlock,
         EnableWrite, DisableWrite, WriteText, object_memory_lock

\* Every step of a caller preserves the invariant.
LEMMA CallerLib ==
  ASSUME LibInv, fault = "none", NEW c \in Ctl,
         CtlStep(c) \/ \E op \in {"add", "enable", "disable"}, b \in Bkpt : Call(c, op, b)
  PROVE  LibInv'
  BY CallLib, CallReturnsLib, AddBeginLib, AddEnterLib, AddSlotLib, AddCopyLib, AddReturnLib,
     AddLinkLib, AttrLib, UnprotectLib, WriteLib, ProtectLib
     DEF CtlStep

\* LibInv is inductive.
LEMMA StepLib ==
  ASSUME LibInv, [Next]_vars
  PROVE  LibInv'
<1>1. CASE UNCHANGED vars
  <2>1. UNCHANGED <<memVars, libVars, ctlVars, fault>>
    BY <1>1 DEF vars
  <2>2. UNCHANGED <<text, stale, writable, slotmem, tree, slot, slots_used, enabled, linked,
                    lock, cpc, cbp, rv, calls, boot, fault>>
    BY <2>1 DEF memVars, libVars, ctlVars
  <2>3. LibTypeOK' /\ Locks' /\ TreeOK'
    BY <2>2 DEF LibInv, LibTypeOK, Locks, TreeOK, EnterLoc, ReturnLoc
  <2>4. AddingOK' /\ LinkedOK'
    BY <2>2 DEF LibInv, AddingOK, LinkedOK, SlotReady, EnterLoc, ReturnLoc
  <2>5. MemoryOK' /\ BootOK'
    BY <2>2 DEF LibInv, MemoryOK, AsAttr, Flushed, BootOK, Ready
  <2> QED
    BY <2>3, <2>4, <2>5 DEF LibInv
<1>2. CASE Next
  <2>1. fault = "none"
    BY <1>2 DEF Next
  <2>2. CASE lib_init
    BY <2>1, <2>2, FrameLib DEF lib_init
  <2>3. CASE \E t \in Thread : ThreadStep(t)
    BY <2>1, <2>3, ThreadFrame, FrameLib DEF ctlVars
  <2>4. CASE \E c \in Ctl : CtlStep(c) \/ \E op \in {"add", "enable", "disable"}, b \in Bkpt :
                                              Call(c, op, b)
    BY <2>1, <2>4, CallerLib
  <2> QED
    BY <1>2, <2>2, <2>3, <2>4 DEF Next, ThreadStep
<1> QED
  BY <1>1, <1>2

\* LibInv holds in every state, whatever the callers, their breakpoints and
\* the threads are.
THEOREM LibInvariance == Spec => []LibInv
<1>1. Init => LibInv
  BY InitLib
<1>2. LibInv /\ [Next]_vars => LibInv'
  BY StepLib
<1> QED
  BY <1>1, <1>2, PTL DEF Spec

\* Whenever nobody holds its lock, the attribute of a breakpoint that has
\* been added says what is in memory, it has been flushed, and the slot keeps
\* the displaced instruction (breakpoint.c:354, 427-434, 458-467): for any
\* callers, also when they share breakpoints, addresses and objects.
THEOREM AttributesTellTheText == Spec => []AttrTellsText
<1>1. LibInv => AttrTellsText
  BY DEF LibInv, MemoryOK, LinkedOK, SlotReady, AsAttr, Flushed, AttrTellsText
<1> QED
  BY <1>1, LibInvariance, PTL

\* The error return of breakpoint_add that leaves bp_enter in the tree with a
\* freed slot is never taken (breakpoint.c:362-366).
THEOREM NoMinus4 == Spec => []NeverReturnsMinus4
<1>1. LibInv => NeverReturnsMinus4
  <2> SUFFICES ASSUME LibInv, NEW c \in Ctl PROVE rv[c] # -4
    BY DEF NeverReturnsMinus4
  <2>1. rv[c] \in -3 .. 0
    BY DEF LibInv, LibTypeOK
  <2> QED
    BY <2>1
<1> QED
  BY <1>1, LibInvariance, PTL

-----------------------------------------------------------------------------
(***************************************************************************)
(* The protection of the text.  object_memory_unlock and _lock know        *)
(* nothing of each other, so they work only for callers that share an      *)
(* object at most by sharing an address in it.                             *)
(***************************************************************************)
PatchDiscipline ==
  \A c, d \in Ctl : c # d =>
    \A b \in Use[c], e \in Use[d] :
      ObjAt[Enter[b]] = ObjAt[Enter[e]] => Enter[b] = Enter[e]

\* Where the text of a caller's object is writable.
WritePoints == {"en_write", "dis_write", "protect"}

\* Under the discipline two callers that patch at the same time patch
\* different objects: the lock of a breakpoint keeps them off one address.
LEMMA PatchAlone ==
  ASSUME LibInv, PatchDiscipline, NEW c \in Ctl, NEW d \in Ctl, c # d,
         cpc[c] \in PatchPoints, cpc[d] \in PatchPoints
  PROVE  ObjAt[Enter[cbp[c]]] # ObjAt[Enter[cbp[d]]]
<1>1. cbp[c] \in Bkpt /\ cbp[d] \in Bkpt /\ cbp[c] # cbp[d]
  BY Exclusion DEF HoldPoints
<1>2. tree[EnterLoc(cbp[c])] = cbp[c] /\ tree[EnterLoc(cbp[d])] = cbp[d]
  BY DEF LibInv, LinkedOK
<1>3. Enter[cbp[c]] # Enter[cbp[d]]
  BY <1>1, <1>2, OneAtAnAddress
<1>4. cbp[c] \in Use[c] /\ cbp[d] \in Use[d]
  BY DEF LibInv, BootOK, PatchPoints
<1> QED
  BY <1>3, <1>4 DEF PatchDiscipline

\* One step of the protection: object_memory_unlock adds the object, and
\* object_memory_lock takes it away when nobody else is patching it.
LEMMA WritableStep ==
  ASSUME LibInv, PatchDiscipline, WritableWhilePatching, [Next]_vars
  PROVE  WritableWhilePatching'
<1>1. \A o : o \in writable <=> \E d \in Ctl : cpc[d] \in WritePoints /\ o = ObjAt[Enter[cbp[d]]]
  BY DEF WritableWhilePatching, WritePoints
<1> SUFFICES \A o : o \in writable' <=>
               \E d \in Ctl : cpc'[d] \in WritePoints /\ o = ObjAt[Enter[cbp'[d]]]
  BY DEF WritableWhilePatching, WritePoints
<1>2. CASE UNCHANGED <<writable, cpc, cbp>>
  BY <1>1, <1>2
<1>3. ASSUME NEW c \in Ctl, UNCHANGED writable,
             \A d \in Ctl : d # c => cpc'[d] = cpc[d] /\ cbp'[d] = cbp[d],
             cpc[c] \notin WritePoints, cpc'[c] \notin WritePoints
      PROVE  \A o : o \in writable' <=>
               \E d \in Ctl : cpc'[d] \in WritePoints /\ o = ObjAt[Enter[cbp'[d]]]
  BY <1>1, <1>3
<1>4. cpc = [d \in Ctl |-> cpc[d]] /\ cbp = [d \in Ctl |-> cbp[d]]
  BY DEF LibInv, LibTypeOK
<1>5. CASE lib_init \/ \E t \in Thread : ThreadStep(t)
  BY <1>2, <1>5, ThreadFrame DEF lib_init, memVars, ctlVars
<1>6. ASSUME NEW c \in Ctl, NEW op \in {"add", "enable", "disable"}, NEW b \in Bkpt, Call(c, op, b)
      PROVE  \A o : o \in writable' <=>
               \E d \in Ctl : cpc'[d] \in WritePoints /\ o = ObjAt[Enter[cbp'[d]]]
  BY <1>3, <1>4, <1>6 DEF Call, Goto, memVars, WritePoints
<1>7. ASSUME NEW c \in Ctl, CtlStep(c)
      PROVE  \A o : o \in writable' <=>
               \E d \in Ctl : cpc'[d] \in WritePoints /\ o = ObjAt[Enter[cbp'[d]]]
  <2>1. CASE CallReturns(c) \/ AddBegin(c) \/ AddEnter(c) \/ AddSlot(c)
    BY <1>3, <1>4, <2>1 DEF CallReturns, AddBegin, AddEnter, AddSlot, Return, Goto, memVars,
                            WritePoints
  <2>2. CASE AddCopy(c) \/ AddReturn(c) \/ AddLink(c)
    BY <1>3, <1>4, <2>2 DEF AddCopy, AddReturn, AddLink, Return, Goto, memVars, WritePoints
  <2>3. CASE EnableBegin(c) \/ DisableBegin(c)
    BY <1>3, <1>4, <2>3 DEF EnableBegin, DisableBegin, NothingToDo, Return, Goto, memVars,
                            WritePoints
  <2>4. CASE EnableUnprotect(c) \/ DisableUnprotect(c)
    <3>1. /\ cpc[c] \in {"en_unprotect", "dis_unprotect"} /\ UNCHANGED cbp
          /\ cpc' = [cpc EXCEPT ![c] = IF cpc[c] = "en_unprotect" THEN "en_write" ELSE "dis_write"]
          /\ cbp[c] \in linked => writable' = writable \cup {ObjAt[Enter[cbp[c]]]}
      BY <2>4 DEF EnableUnprotect, DisableUnprotect, object_memory_unlock, Goto
    <3>2. cbp[c] \in linked
      BY <3>1 DEF LibInv, LinkedOK, PatchPoints
    <3>3. /\ cpc[c] \notin WritePoints /\ cpc'[c] \in WritePoints
          /\ \A d \in Ctl : d # c => cpc'[d] = cpc[d]
      BY <1>4, <3>1 DEF WritePoints
    <3> QED
      BY <1>1, <3>1, <3>2, <3>3
  <2>5. CASE EnableWrite(c) \/ DisableWrite(c)
    <3>1. /\ cpc[c] \in WritePoints /\ UNCHANGED <<cbp, writable>>
          /\ cpc' = [cpc EXCEPT ![c] = "protect"]
      BY <2>5 DEF EnableWrite, DisableWrite, WriteText, Goto, WritePoints
    <3>2. \A d \in Ctl : cpc'[d] \in WritePoints <=> cpc[d] \in WritePoints
      BY <1>4, <3>1 DEF WritePoints
    <3> QED
      BY <1>1, <3>1, <3>2
  <2>6. CASE object_memory_lock(c)
    <3>1. /\ cpc[c] = "protect" /\ UNCHANGED cbp
          /\ cpc' = [cpc EXCEPT ![c] = "return"]
          /\ writable' = writable \ {ObjAt[Enter[cbp[c]]]}
      BY <2>6 DEF object_memory_lock, Protect, Return, Goto
    <3>2. \A d \in Ctl : d # c /\ cpc[d] \in WritePoints => ObjAt[Enter[cbp[d]]] # ObjAt[Enter[cbp[c]]]
      BY <3>1, PatchAlone DEF WritePoints, PatchPoints
    <3>3. cpc'[c] \notin WritePoints /\ \A d \in Ctl : d # c => cpc'[d] = cpc[d]
      BY <1>4, <3>1 DEF WritePoints
    <3> QED
      BY <1>1, <3>1, <3>2, <3>3
  <2> QED
    BY <1>7, <2>1, <2>2, <2>3, <2>4, <2>5, <2>6 DEF CtlStep
<1>8. CASE UNCHANGED vars
  BY <1>2, <1>8 DEF vars, memVars, ctlVars
<1> QED
  BY <1>5, <1>6, <1>7, <1>8 DEF Next, ThreadStep

\* Under the discipline the text of an object is writable exactly while a
\* caller patches it, and so at every store (object_memory_unlock and _lock,
\* object.c:555-594).
THEOREM WritableOnlyToPatch ==
  ASSUME PatchDiscipline
  PROVE  Spec => []WritableWhilePatching
<1>1. Init => WritableWhilePatching
  BY DEF Init, WritableWhilePatching
<1>2. PatchDiscipline /\ LibInv /\ WritableWhilePatching /\ [Next]_vars => WritableWhilePatching'
  BY WritableStep
<1> QED
  BY <1>1, <1>2, LibInvariance, PTL DEF Spec
=============================================================================
