------------------------ MODULE BreakpointStepProofs ------------------------
(***************************************************************************)
(* Proofs about the threads of BreakpointHook: type correctness, that a    *)
(* single step ends at the breakpoint it began at, and that the SIGTRAP    *)
(* handlers are invisible to the traced program.  They rest on what        *)
(* BreakpointHookProofs shows of the callers.                              *)
(***************************************************************************)
EXTENDS BreakpointHookProofs

\* The types of the threads and of the handlers.
ProgTypeOK ==
  /\ pc \in [Thread -> Loc \cup {DEAD}]
  /\ ran \in [Thread -> Word \X BOOLEAN]
  /\ saved \in [Thread -> Saved \cup {NULL}]
  /\ hpc \in [Thread -> {"run", "entry", "sigtrap", "found"}]
  /\ hbp \in [Thread -> Bkpt \cup {NULL}]
  /\ singlestep \in [Thread -> Bkpt \cup {NULL, ABSENT}]
  /\ objects \in SUBSET Obj
  /\ handler \in {"default", "entry", "sigtrap"}
  /\ entry_hit \in BOOLEAN
  /\ fault \in {"none", "abort", "segv", "killed"}

\* Until the entry point has been stepped over there is one thread and no
\* signal; after that the entry handler is gone.
StartOK ==
  /\ handler = "default" <=> boot = 0
  /\ handler = "sigtrap" => Ready
  /\ \A t \in Thread : hpc[t] = "entry" => Ready /\ handler # "sigtrap"
  /\ handler # "sigtrap" =>
       \A t \in Thread : /\ t # main => pc[t] = DEAD
                         /\ saved[t] = NULL
                         /\ hpc[t] \in {"run", "entry"}
  /\ \A t \in Thread : pc[t] = DEAD => hpc[t] = "run" /\ saved[t] = NULL

\* Behind assert(bp != NULL) there is a breakpoint (hook_main.c:58).
FoundOK ==
  fault = "none" =>
    \A t \in Thread :
      /\ hpc[t] = "found" => hbp[t] # NULL
      /\ saved[t] # NULL /\ saved[t].hpc = "found" => saved[t].hbp # NULL

ThreadInv == ProgTypeOK /\ StartOK /\ FoundOK

-----------------------------------------------------------------------------
\* A breakpoint resumes at an instruction of its text.
LEMMA Behind ==
  \A b \in Bkpt : Enter[b] + 1 \in Addr /\ <<"text", Enter[b] + 1>> \in Loc
                  /\ Succ[Enter[b]] = {Enter[b] + 1}
  BY PlainAssumption DEF Loc

\* The fields of a saved context.
LEMMA SavedFields ==
  \A x \in Saved : /\ x # NULL /\ x.pc \in Loc /\ x.hbp \in Bkpt \cup {NULL}
                   /\ x.hpc \in {"run", "sigtrap", "found"}
  BY DeadAssumption DEF Saved

\* The initial state has the types.
LEMMA InitThread == Init => ThreadInv
<1> SUFFICES ASSUME Init PROVE ThreadInv
  OBVIOUS
<1>1. ProgTypeOK
  BY Locations, ConstantsAssumption DEF Init, ProgTypeOK, Word, EnterLoc
<1>2. StartOK /\ FoundOK
  BY DEF Init, StartOK, FoundOK, Ready
<1> QED
  BY <1>1, <1>2 DEF ThreadInv

\* A thread changes only its own state.
LEMMA OneThread ==
  ASSUME ProgTypeOK, NEW t \in Thread, ThreadStep(t), NEW u \in Thread, u # t
  PROVE  /\ pc'[u] = pc[u] /\ ran'[u] = ran[u] /\ saved'[u] = saved[u]
         /\ hpc'[u] = hpc[u] /\ hbp'[u] = hbp[u] /\ singlestep'[u] = singlestep[u]
<1>1. CASE Execute(t) \/ Spawn(t) \/ Exit(t)
  BY <1>1 DEF Execute, Spawn, Exit, ProgTypeOK, trapVars
<1>2. CASE Trap(t) \/ Interrupt(t) \/ Sigreturn(t)
  BY <1>2 DEF Trap, Interrupt, Sigreturn, ProgTypeOK, progVars
<1>3. CASE EntrySecond(t) \/ EntryFirst(t)
  BY <1>3 DEF EntrySecond, EntryFirst, EndStep, ProgTypeOK
<1>4. CASE SigtrapFind(t) \/ SigtrapFinish(t) \/ SigtrapBegin(t)
  BY <1>4 DEF SigtrapFind, SigtrapFinish, SigtrapBegin, EndStep, ProgTypeOK, progVars
<1> QED
  BY <1>1, <1>2, <1>3, <1>4 DEF ThreadStep, HandlerStep

\* Executing, starting and ending threads.
LEMMA ExecuteThread ==
  ASSUME LibInv, ThreadInv, fault = "none", NEW t \in Thread,
         Execute(t) \/ Spawn(t) \/ Exit(t)
  PROVE  ThreadInv'
<1>1. UNCHANGED <<saved, hpc, hbp, singlestep, handler, entry_hit, objects, fault, boot>>
  BY DEF Execute, Spawn, Exit, trapVars, ctlVars
<1>2. /\ pc' \in [Thread -> Loc \cup {DEAD}]
      /\ pc'[t] = DEAD => hpc[t] = "run" /\ saved[t] = NULL
      /\ handler # "sigtrap" => t = main
  <2>1. CASE Execute(t)
    <3>1. PICK l \in After(t) : pc' = [pc EXCEPT ![t] = l]
      BY <2>1 DEF Execute
    <3>2. handler # "sigtrap" => t = main
      BY <2>1 DEF Execute, Runs, ThreadInv, ProgTypeOK, StartOK
    <3>3. pc[t] \in Loc /\ pc[t][1] # "ret"
      BY <2>1 DEF Execute, Runs, Fetch, ThreadInv, ProgTypeOK
    <3>4. l \in Loc
      <4>1. CASE pc[t][1] = "slot"
        <5>1. pc[t][2] \in Slot /\ l = <<"ret", pc[t][2]>>
          BY <3>1, <3>3, <4>1 DEF After, Loc
        <5> QED
          BY <5>1, Locations
      <4>2. CASE pc[t][1] # "slot"
        <5>1. pc[t][2] \in Addr
          BY <3>3, <4>2 DEF Loc
        <5>2. PICK n \in Succ[pc[t][2]] : l = <<"text", n>>
          BY <3>1, <4>2 DEF After
        <5>3. n \in Addr
          BY <5>1, <5>2, ConstantsAssumption
        <5> QED
          BY <5>2, <5>3, Locations
      <4> QED
        BY <4>1, <4>2
    <3> QED
      BY <2>1, <3>1, <3>2, <3>3, <3>4, DeadAssumption DEF ThreadInv, ProgTypeOK
  <2>2. CASE Spawn(t)
    BY <2>2, Locations, ConstantsAssumption DEF Spawn, ThreadInv, ProgTypeOK, StartOK
  <2>3. CASE Exit(t)
    BY <2>3 DEF Exit, Runs, ThreadInv, ProgTypeOK, StartOK
  <2> QED
    BY <2>1, <2>2, <2>3
<1>3. ran' \in [Thread -> Word \X BOOLEAN]
  <2>1. CASE Execute(t)
    <3>1. PICK i \in Fetch(t) \ {BRK} : ran' = [ran EXCEPT ![t] = <<i, ~ran[t][2]>>]
      BY <2>1 DEF Execute
    <3>2. pc[t] \in Loc
      BY <2>1 DEF Execute, Runs, ThreadInv, ProgTypeOK
    <3>3. i \in Word
      BY <3>1, <3>2 DEF Fetch, Loc, LibInv, LibTypeOK, Word
    <3> QED
      BY <3>1, <3>3 DEF ThreadInv, ProgTypeOK
  <2>2. CASE Spawn(t) \/ Exit(t)
    BY <2>2 DEF Spawn, Exit, ThreadInv, ProgTypeOK
  <2> QED
    BY <2>1, <2>2
<1>4. ProgTypeOK'
  BY <1>1, <1>2, <1>3 DEF ThreadInv, ProgTypeOK
<1>5. \A u \in Thread : u # t => pc'[u] = pc[u]
  BY OneThread DEF ThreadInv, ThreadStep
<1>6. StartOK'
  BY <1>1, <1>2, <1>5 DEF ThreadInv, StartOK, Ready
<1>7. FoundOK'
  BY <1>1 DEF ThreadInv, FoundOK
<1> QED
  BY <1>4, <1>6, <1>7 DEF ThreadInv

\* SIGTRAP, and the signals of the program.
LEMMA SignalThread ==
  ASSUME LibInv, ThreadInv, fault = "none", NEW t \in Thread,
         Trap(t) \/ Interrupt(t) \/ Sigreturn(t)
  PROVE  ThreadInv'
<1>1. UNCHANGED <<singlestep, handler, entry_hit, objects, boot>>
  BY DEF Trap, Interrupt, Sigreturn, ctlVars
<1>2. \A u \in Thread : u # t => /\ pc'[u] = pc[u] /\ saved'[u] = saved[u]
                                 /\ hpc'[u] = hpc[u] /\ hbp'[u] = hbp[u]
  BY OneThread DEF ThreadInv, ThreadStep
<1>3. CASE Trap(t)
  <2>1. /\ hpc' = [hpc EXCEPT ![t] = handler] /\ UNCHANGED <<pc, ran, saved, hbp>>
        /\ pc[t] # DEAD /\ Ready /\ fault' \in {"none", "killed"}
    BY <1>3 DEF Trap, Runs, progVars
  <2>2. handler \in {"entry", "sigtrap"}
    BY <2>1 DEF ThreadInv, ProgTypeOK, StartOK, Ready
  <2>3. ProgTypeOK'
    BY <1>1, <2>1, <2>2 DEF ThreadInv, ProgTypeOK
  <2>4. hpc'[t] = handler
    BY <2>1 DEF ThreadInv, ProgTypeOK
  <2>5. StartOK'
    BY <1>1, <1>2, <2>1, <2>2, <2>4 DEF ThreadInv, StartOK, Ready
  <2>6. FoundOK'
    BY <1>2, <2>1, <2>2, <2>4 DEF ThreadInv, FoundOK
  <2> QED
    BY <2>3, <2>5, <2>6 DEF ThreadInv
<1>4. CASE Interrupt(t)
  <2> DEFINE x == [pc |-> pc[t], hpc |-> hpc[t], hbp |-> hbp[t]]
  <2>1. /\ handler = "sigtrap" /\ pc[t] # DEAD /\ UNCHANGED <<ran, fault>>
        /\ saved' = [saved EXCEPT ![t] = x]
        /\ pc' = [pc EXCEPT ![t] = <<"text", SigEntry>>]
        /\ hpc' = [hpc EXCEPT ![t] = "run"] /\ hbp' = [hbp EXCEPT ![t] = NULL]
    BY <1>4 DEF Interrupt
  <2>2. x \in Saved
    BY <2>1 DEF ThreadInv, ProgTypeOK, StartOK, Saved
  <2>3. <<"text", SigEntry>> \in Loc /\ <<"text", SigEntry>> # DEAD
    <3>1. SigEntry \in Addr
      BY ConstantsAssumption
    <3>2. <<"text", SigEntry>> \in Loc
      BY <3>1, Locations
    <3> QED
      BY <3>2, DeadAssumption
  <2>4. ProgTypeOK'
    BY <1>1, <2>1, <2>2, <2>3 DEF ThreadInv, ProgTypeOK
  <2>5. /\ pc'[t] = <<"text", SigEntry>> /\ hpc'[t] = "run" /\ saved'[t] = x
        /\ x.hpc = hpc[t] /\ x.hbp = hbp[t]
    BY <2>1 DEF ThreadInv, ProgTypeOK
  <2>6. StartOK'
    BY <1>1, <1>2, <2>1, <2>3, <2>5 DEF ThreadInv, StartOK, Ready
  <2>7. FoundOK'
    BY <1>2, <2>1, <2>5 DEF ThreadInv, FoundOK
  <2> QED
    BY <2>4, <2>6, <2>7 DEF ThreadInv
<1>5. CASE Sigreturn(t)
  <2>1. /\ saved[t] # NULL /\ UNCHANGED fault /\ pc[t] # DEAD /\ pc[t] = <<"text", SigReturn>>
        /\ pc' = [pc EXCEPT ![t] = saved[t].pc] /\ hpc' = [hpc EXCEPT ![t] = saved[t].hpc]
        /\ hbp' = [hbp EXCEPT ![t] = saved[t].hbp] /\ saved' = [saved EXCEPT ![t] = NULL]
    BY <1>5 DEF Sigreturn, Runs
  <2>2. PICK i \in Fetch(t) \ {BRK} : ran' = [ran EXCEPT ![t] = <<i, ~ran[t][2]>>]
    BY <1>5 DEF Sigreturn
  <2>3. i \in Word
    BY <2>1, <2>2, ConstantsAssumption DEF Fetch, LibInv, LibTypeOK
  <2>4. /\ saved[t].pc \in Loc /\ saved[t].hpc \in {"run", "sigtrap", "found"}
        /\ saved[t].hbp \in Bkpt \cup {NULL} /\ saved[t].pc # DEAD
    BY <2>1, SavedFields, DeadAssumption DEF ThreadInv, ProgTypeOK
  <2>5. ProgTypeOK'
    BY <1>1, <2>1, <2>2, <2>3, <2>4 DEF ThreadInv, ProgTypeOK
  <2>6. /\ pc'[t] = saved[t].pc /\ hpc'[t] = saved[t].hpc /\ hbp'[t] = saved[t].hbp
        /\ saved'[t] = NULL
    BY <2>1 DEF ThreadInv, ProgTypeOK
  <2>7. StartOK'
    BY <1>1, <1>2, <2>1, <2>4, <2>6 DEF ThreadInv, StartOK, Ready
  <2>8. FoundOK'
    BY <1>2, <2>1, <2>6 DEF ThreadInv, FoundOK
  <2> QED
    BY <2>5, <2>7, <2>8 DEF ThreadInv
<1> QED
  BY <1>3, <1>4, <1>5

\* The entry point's handler (hook_main.c:91-125).
LEMMA EntryThread ==
  ASSUME LibInv, ThreadInv, fault = "none", NEW t \in Thread, EntrySecond(t) \/ EntryFirst(t)
  PROVE  ThreadInv'
<1>1. /\ hpc[t] = "entry" /\ hpc' = [hpc EXCEPT ![t] = "run"]
      /\ UNCHANGED <<ran, saved, hbp, boot>>
  BY DEF EntrySecond, EntryFirst, ctlVars
<1>2. pc[t] # DEAD /\ handler = "entry" /\ Ready /\ t = main
  BY <1>1 DEF ThreadInv, ProgTypeOK, StartOK, Ready
<1>3. \A u \in Thread : u # t => pc'[u] = pc[u] /\ hpc'[u] = hpc[u]
  BY OneThread DEF ThreadInv, ThreadStep, HandlerStep
<1>4. hpc'[t] = "run"
  BY <1>1 DEF ThreadInv, ProgTypeOK
<1>5. FoundOK'
  BY <1>1, <1>3, <1>4 DEF ThreadInv, FoundOK
<1>6. CASE EntrySecond(t)
  <2>1. /\ handler' = "sigtrap" /\ UNCHANGED <<entry_hit, objects, fault>>
        /\ pc' = [pc EXCEPT ![t] = <<"text", Enter[entry_bp] + 1>>]
        /\ singlestep' = [singlestep EXCEPT ![t] = NULL]
    BY <1>6 DEF EntrySecond, EndStep
  <2>2. <<"text", Enter[entry_bp] + 1>> \in Loc
    BY Behind, ConstantsAssumption
  <2>3. ProgTypeOK'
    BY <1>1, <2>1, <2>2 DEF ThreadInv, ProgTypeOK
  <2>4. \A u \in Thread : hpc'[u] = "run"
    BY <1>2, <1>3, <1>4 DEF ThreadInv, StartOK
  <2>5. StartOK'
    BY <1>1, <1>2, <2>1, <2>4 DEF ThreadInv, StartOK, Ready
  <2> QED
    BY <1>5, <2>3, <2>5 DEF ThreadInv
<1>7. CASE EntryFirst(t)
  <2>1. /\ objects' = Obj /\ entry_hit' = TRUE /\ UNCHANGED handler
        /\ singlestep' = [singlestep EXCEPT ![t] = entry_bp]
        /\ \/ slot[entry_bp] # NULL /\ pc' = [pc EXCEPT ![t] = <<"slot", slot[entry_bp]>>]
              /\ UNCHANGED fault
           \/ fault' = "segv" /\ UNCHANGED pc
    BY <1>7 DEF EntryFirst
  <2>2. slot[entry_bp] # NULL => <<"slot", slot[entry_bp]>> \in Loc
    BY Locations, ConstantsAssumption DEF LibInv, LibTypeOK
  <2>3. ProgTypeOK'
    BY <1>1, <2>1, <2>2, ConstantsAssumption DEF ThreadInv, ProgTypeOK
  <2>4. pc'[t] # DEAD
    BY <1>2, <2>1, <2>2, DeadAssumption DEF ThreadInv, ProgTypeOK
  <2>5. StartOK'
    BY <1>1, <1>2, <1>3, <1>4, <2>1, <2>4 DEF ThreadInv, StartOK, Ready
  <2> QED
    BY <1>5, <2>3, <2>5 DEF ThreadInv
<1> QED
  BY <1>6, <1>7

\* sigtrap_handler (hook_main.c:41-82).
LEMMA SigtrapThread ==
  ASSUME LibInv, ThreadInv, fault = "none", NEW t \in Thread,
         SigtrapFind(t) \/ SigtrapFinish(t) \/ SigtrapBegin(t)
  PROVE  ThreadInv'
<1>1. /\ hpc[t] \in {"sigtrap", "found"}
      /\ UNCHANGED <<ran, saved, handler, entry_hit, objects, boot>>
  BY DEF SigtrapFind, SigtrapFinish, SigtrapBegin, progVars, ctlVars
<1>2. pc[t] \in Loc /\ pc[t] # DEAD /\ handler = "sigtrap"
  BY <1>1 DEF ThreadInv, ProgTypeOK, StartOK
<1>3. \A u \in Thread : u # t => pc'[u] = pc[u] /\ hpc'[u] = hpc[u] /\ hbp'[u] = hbp[u]
  BY OneThread DEF ThreadInv, ThreadStep, HandlerStep
<1>4. CASE SigtrapFind(t)
  <2>1. /\ singlestep' = [singlestep EXCEPT ![t] = ThreadOf(t)]
        /\ hbp' = [hbp EXCEPT ![t] = tree[pc[t]]]
        /\ hpc' = [hpc EXCEPT ![t] = "found"]
        /\ fault' = IF tree[pc[t]] = NULL THEN "abort" ELSE fault
        /\ UNCHANGED pc
    BY <1>4 DEF SigtrapFind, breakpoint_find, progVars
  <2>2. tree[pc[t]] \in Bkpt \cup {NULL} /\ ThreadOf(t) \in Bkpt \cup {NULL}
    BY <1>2 DEF LibInv, LibTypeOK, ThreadInv, ProgTypeOK, ThreadOf
  <2>3. ProgTypeOK'
    BY <1>1, <2>1, <2>2 DEF ThreadInv, ProgTypeOK
  <2>4. hpc'[t] = "found" /\ hbp'[t] = tree[pc[t]]
    BY <2>1 DEF ThreadInv, ProgTypeOK
  <2>5. StartOK'
    BY <1>1, <1>2, <1>3, <2>1, <2>4 DEF ThreadInv, StartOK, Ready
  <2>6. FoundOK'
    BY <1>1, <1>3, <2>1, <2>4 DEF ThreadInv, FoundOK
  <2> QED
    BY <2>3, <2>5, <2>6 DEF ThreadInv
<1>5. CASE SigtrapFinish(t) \/ SigtrapBegin(t)
  <2>1. /\ hpc[t] = "found" /\ hpc' = [hpc EXCEPT ![t] = "run"] /\ hbp' = [hbp EXCEPT ![t] = NULL]
    BY <1>5 DEF SigtrapFinish, SigtrapBegin
  <2>2. hbp[t] \in Bkpt
    BY <2>1 DEF ThreadInv, ProgTypeOK, FoundOK
  <2>3. \/ pc' = [pc EXCEPT ![t] = <<"text", Enter[hbp[t]] + 1>>]
        \/ slot[hbp[t]] # NULL /\ pc' = [pc EXCEPT ![t] = <<"slot", slot[hbp[t]]>>]
        \/ UNCHANGED pc
    BY <1>5 DEF SigtrapFinish, SigtrapBegin, EndStep
  <2>4. slot[hbp[t]] # NULL => <<"slot", slot[hbp[t]]>> \in Loc
    BY <2>2, Locations DEF LibInv, LibTypeOK
  <2>5. <<"text", Enter[hbp[t]] + 1>> \in Loc
    BY <2>2, Behind
  <2>6. pc' \in [Thread -> Loc \cup {DEAD}] /\ pc'[t] # DEAD
    <3>1. pc = [pc EXCEPT ![t] = pc[t]]
      BY DEF ThreadInv, ProgTypeOK
    <3>2. PICK l \in Loc : pc' = [pc EXCEPT ![t] = l]
      BY <1>2, <2>3, <2>4, <2>5, <3>1
    <3> QED
      BY <3>2, DeadAssumption DEF ThreadInv, ProgTypeOK
  <2>7. /\ singlestep' \in [Thread -> Bkpt \cup {NULL, ABSENT}]
        /\ fault' \in {"none", "abort", "segv"}
    BY <1>5, <2>2 DEF SigtrapFinish, SigtrapBegin, EndStep, ThreadInv, ProgTypeOK
  <2>8. ProgTypeOK'
    BY <1>1, <2>1, <2>6, <2>7 DEF ThreadInv, ProgTypeOK
  <2>9. hpc'[t] = "run"
    BY <2>1 DEF ThreadInv, ProgTypeOK
  <2>10. StartOK'
    BY <1>1, <1>2, <1>3, <2>6, <2>9 DEF ThreadInv, StartOK, Ready
  <2>11. FoundOK'
    BY <1>1, <1>3, <2>9 DEF ThreadInv, FoundOK
  <2> QED
    BY <2>8, <2>10, <2>11 DEF ThreadInv
<1> QED
  BY <1>4, <1>5

\* ThreadInv is inductive relative to LibInv.
LEMMA StepThread ==
  ASSUME LibInv, ThreadInv, [Next]_vars
  PROVE  ThreadInv'
<1>1. CASE UNCHANGED vars
  BY <1>1 DEF vars, progVars, trapVars, ctlVars, ThreadInv, ProgTypeOK, StartOK, FoundOK, Ready
<1>2. CASE Next
  <2>1. fault = "none"
    BY <1>2 DEF Next
  <2>2. CASE lib_init
    <3>1. /\ boot = 0 /\ handler' = "entry" /\ objects' = Early /\ boot' = 1
          /\ UNCHANGED <<progVars, hpc, hbp, singlestep, entry_hit, fault>>
      BY <2>2 DEF lib_init
    <3>2. handler = "default"
      BY <3>1 DEF ThreadInv, StartOK
    <3> QED
      BY <3>1, <3>2, ConstantsAssumption
         DEF progVars, ThreadInv, ProgTypeOK, StartOK, FoundOK, Ready
  <2>3. CASE \E t \in Thread : ThreadStep(t)
    BY <2>1, <2>3, ExecuteThread, SignalThread, EntryThread, SigtrapThread
       DEF ThreadStep, HandlerStep
  <2>4. ASSUME NEW c \in Ctl,
               CtlStep(c) \/ \E op \in {"add", "enable", "disable"}, b \in Bkpt : Call(c, op, b)
        PROVE  ThreadInv'
    <3>1. UNCHANGED <<pc, ran, saved, hpc, hbp, singlestep, handler, entry_hit, objects>>
      BY <2>4, CallerFrame DEF progVars, trapVars
    <3>2. fault' \in {"none", "abort", "segv"}
      BY <2>1, <2>4
         DEF CtlStep, Call, CallReturns, AddBegin, AddEnter, AddSlot, AddCopy, AddReturn, AddLink,
             EnableBegin, DisableBegin, EnableUnprotect, DisableUnprotect, object_memory_unlock,
             EnableWrite, DisableWrite, WriteText, object_memory_lock
    <3>3. /\ boot' = boot \/ (boot' = boot + 1 /\ ~Ready)
          /\ boot = 0 => boot' = 0
          /\ boot \in 0 .. 5
      <4>1. UNCHANGED boot \/ CallReturns(c)
        BY <2>4
           DEF CtlStep, Call, AddBegin, AddEnter, AddSlot, AddCopy, AddReturn, AddLink,
               EnableBegin, DisableBegin, EnableUnprotect, DisableUnprotect, object_memory_unlock,
               EnableWrite, DisableWrite, WriteText, object_memory_lock
      <4>2. CallReturns(c) => boot # 0
        BY DEF CallReturns, LibInv, BootOK, Ready
      <4> QED
        BY <4>1, <4>2 DEF CallReturns, LibInv, LibTypeOK
    <3>4. ProgTypeOK' /\ FoundOK'
      BY <2>1, <3>1, <3>2 DEF ThreadInv, ProgTypeOK, FoundOK
    <3>5. StartOK'
      BY <3>1, <3>3 DEF ThreadInv, StartOK, Ready
    <3> QED
      BY <3>4, <3>5 DEF ThreadInv
  <2> QED
    BY <1>2, <2>2, <2>3, <2>4 DEF Next, ThreadStep
<1> QED
  BY <1>1, <1>2

\* ThreadInv holds in every state.
THEOREM ThreadInvariance == Spec => []ThreadInv
<1>1. Init => ThreadInv
  BY InitThread
<1>2. LibInv /\ ThreadInv /\ [Next]_vars => ThreadInv'
  BY StepThread
<1> QED
  BY <1>1, <1>2, LibInvariance, PTL DEF Spec

\* The variables keep their types: in particular the handlers send a thread
\* only to slots and addresses that exist (hook_main.c:69, 79, 113, 122).
THEOREM TypeCorrect == Spec => []TypeOK
<1>1. LibInv /\ ThreadInv => TypeOK
  <2> SUFFICES ASSUME LibInv, ThreadInv PROVE TypeOK
    OBVIOUS
  <2>1. /\ cpc \in [Ctl -> {"idle", "return", "add", "add_enter", "add_slot",
                            "add_copy", "add_return", "add_link", "enable",
                            "en_unprotect", "en_write", "disable", "dis_unprotect",
                            "dis_write", "protect"}]
        /\ rv \in [Ctl -> -4 .. 0]
        /\ hpc \in [Thread -> {"run", "default", "entry", "sigtrap", "found"}]
        /\ enabled \in SUBSET Bkpt
    BY DEF LibInv, LibTypeOK, ThreadInv, ProgTypeOK, HoldPoints, AddPoints, PatchPoints
  <2> QED
    BY <2>1 DEF LibInv, LibTypeOK, ThreadInv, ProgTypeOK, TypeOK
<1> QED
  BY <1>1, LibInvariance, ThreadInvariance, PTL

-----------------------------------------------------------------------------
(***************************************************************************)
(* Stepping.  singlestep_bp is one per thread, so a breakpoint that is hit *)
(* in a signal handler of the program is mistaken for the end of the step  *)
(* that the signal has interrupted.  What follows is about programs whose  *)
(* signal handlers run no code that carries a breakpoint.                  *)
(***************************************************************************)

\* The code that the program's signal handler may reach.
HandlerCode ==
  {a \in Addr : \A S \in SUBSET Addr :
                  SigEntry \in S /\ (\A x \in S : Succ[x] \subseteq S) => a \in S}

SignalSafe == SigThread # {} => \A b \in Bkpt : Enter[b] \notin HandlerCode

\* How the location l of thread t, its place h in a SIGTRAP handler and the
\* breakpoint b the handler has found go with singlestep_bp: either t is in
\* its text, if in the handler then for a breakpoint where it is, or it is in
\* the slot of the breakpoint it steps over.
Context(t, l, h, b) ==
  \/ /\ singlestep[t] \in {NULL, ABSENT}
     /\ \E a \in Addr : l = <<"text", a>>
     /\ h # "run" => \E e \in linked : l = EnterLoc(e)
                                       /\ (h = "found" => b = e /\ singlestep[t] = NULL)
  \/ /\ singlestep[t] \in linked /\ slot[singlestep[t]] # NULL
     /\ \/ h = "run" /\ l = <<"slot", slot[singlestep[t]]>>
        \/ l = ReturnLoc(singlestep[t]) /\ (h = "found" => b = singlestep[t])

\* A thread that a signal has interrupted is in the code of the handler.
InHandlerCode(t) ==
  /\ t \in SigThread /\ hpc[t] = "run"
  /\ \E a \in HandlerCode : pc[t] = <<"text", a>>

\* The thread that steps over the entry point.
EntryContext ==
  IF entry_hit
  THEN /\ singlestep[main] = entry_bp /\ entry_bp \in linked /\ slot[entry_bp] # NULL
       /\ \/ pc[main] = <<"slot", slot[entry_bp]>> /\ hpc[main] = "run"
          \/ pc[main] = ReturnLoc(entry_bp)
  ELSE pc[main] = EnterLoc(entry_bp) /\ singlestep[main] \in {NULL, ABSENT}

ThreadContext(t) ==
  /\ pc[t] = DEAD => singlestep[t] \in {NULL, ABSENT}
  /\ handler = "sigtrap" /\ pc[t] # DEAD =>
       IF saved[t] = NULL THEN Context(t, pc[t], hpc[t], hbp[t])
       ELSE Context(t, saved[t].pc, saved[t].hpc, saved[t].hbp) /\ InHandlerCode(t)

StepOK ==
  fault = "none" =>
    /\ handler # "sigtrap" => EntryContext
    /\ \A t \in Thread : ThreadContext(t)

IInv == LibInv /\ ThreadInv /\ StepOK

\* The program's signal handler stays in its code.
LEMMA HandlerClosed ==
  /\ SigEntry \in HandlerCode /\ HandlerCode \subseteq Addr
  /\ \A a \in HandlerCode : Succ[a] \subseteq HandlerCode
<1>1. SigEntry \in HandlerCode /\ HandlerCode \subseteq Addr
  BY ConstantsAssumption DEF HandlerCode
<1>2. ASSUME NEW a \in HandlerCode, NEW n \in Succ[a] PROVE n \in HandlerCode
  <2>1. a \in Addr /\ n \in Addr
    BY <1>1, <1>2, ConstantsAssumption
  <2> QED
    BY <1>2, <2>1 DEF HandlerCode
<1> QED
  BY <1>1, <1>2

\* What may be fetched at an address: the program's instruction, or a brk if
\* a breakpoint has been added there (breakpoint.c:432, 465).
LEMMA FetchText ==
  ASSUME LibInv, fault = "none", NEW a \in Addr
  PROVE  /\ text[a] \in {a, BRK} /\ stale[a] \in {a, BRK, NULL}
         /\ text[a] = BRK \/ stale[a] = BRK => \E b \in linked : Enter[b] = a
<1>1. CASE tree[<<"text", a>>] \notin linked
  BY <1>1, SentinelAssumption DEF LibInv, MemoryOK
<1>2. CASE tree[<<"text", a>>] \in linked
  <2> DEFINE b == tree[<<"text", a>>]
  <2>1. b \in Bkpt /\ <<"text", a>> \in Loc /\ b # NULL
    BY <1>2, Locations, SentinelAssumption DEF LibInv, LibTypeOK
  <2>2. Enter[b] = a
    BY <2>1 DEF LibInv, TreeOK, EnterLoc, ReturnLoc
  <2>3. CASE lock[b] = NULL
    BY <1>2, <2>2, <2>3 DEF LibInv, MemoryOK, AsAttr, Flushed
  <2>4. CASE lock[b] # NULL
    <3>1. PICK c \in Ctl : lock[b] = c
      BY <2>1, <2>4 DEF LibInv, LibTypeOK
    <3>2. cpc[c] \in HoldPoints /\ cbp[c] = b
      BY <2>1, <3>1 DEF LibInv, Locks
    <3>3. cpc[c] \notin AddPoints
      BY <1>2, <3>2 DEF LibInv, AddingOK
    <3>4. CASE cpc[c] = "add_enter"
      BY <1>2, <2>2, <3>1, <3>4 DEF LibInv, MemoryOK, AsAttr, Flushed
    <3>5. CASE cpc[c] \in PatchPoints
      BY <1>2, <2>2, <3>2, <3>5 DEF LibInv, MemoryOK, AsAttr, Flushed, PatchPoints
    <3> QED
      BY <3>2, <3>3, <3>4, <3>5 DEF HoldPoints
  <2> QED
    BY <2>3, <2>4
<1> QED
  BY <1>1, <1>2

\* Once lib_init has returned, the entry point's breakpoint is in the text
\* and has its slot (hook_main.c:130-180).
LEMMA EntryIsBrk ==
  ASSUME LibInv, Ready
  PROVE  /\ entry_bp \in linked /\ slot[entry_bp] # NULL
         /\ text[Enter[entry_bp]] = BRK /\ stale[Enter[entry_bp]] = NULL
<1>1. entry_bp \in enabled /\ entry_bp \in linked /\ entry_bp \in Bkpt
  BY ConstantsAssumption DEF LibInv, BootOK, LibTypeOK, Ready
<1>2. \A c \in Ctl : cpc[c] # "idle" => cbp[c] # entry_bp
  BY ConstantsAssumption DEF LibInv, BootOK
<1>3. lock[entry_bp] = NULL
  BY <1>1, <1>2 DEF LibInv, LibTypeOK, Locks, HoldPoints, AddPoints, PatchPoints
<1>4. slot[entry_bp] # NULL
  BY <1>1, ConstantsAssumption DEF LibInv, LinkedOK, SlotReady
<1> QED
  BY <1>1, <1>3, <1>4 DEF LibInv, MemoryOK, AsAttr, Flushed

\* A thread's context does not depend on what callers do to breakpoints that
\* have been added, which keep their slots.
LEMMA ContextStable ==
  ASSUME NEW t \in Thread, singlestep'[t] = singlestep[t], linked \subseteq linked',
         \A e \in linked : slot'[e] = slot[e]
  PROVE  \A l, h, b : Context(t, l, h, b) => Context(t, l, h, b)'
  BY DEF Context, ReturnLoc

\* So a thread that does not move keeps its context.
LEMMA ThreadStable ==
  ASSUME NEW t \in Thread, ThreadContext(t), UNCHANGED handler,
         pc'[t] = pc[t], saved'[t] = saved[t], hpc'[t] = hpc[t], hbp'[t] = hbp[t],
         singlestep'[t] = singlestep[t], linked \subseteq linked',
         \A e \in linked : slot'[e] = slot[e]
  PROVE  ThreadContext(t)'
<1>1. \A l, h, b : Context(t, l, h, b) => Context(t, l, h, b)'
  BY ContextStable
<1>2. InHandlerCode(t) => InHandlerCode(t)'
  BY DEF InHandlerCode
<1> QED
  BY <1>1, <1>2 DEF ThreadContext

\* What a thread fetches in its text, in a slot and behind it.
LEMMA FetchOf ==
  ASSUME LibInv, fault = "none", NEW t \in Thread
  PROVE  /\ \A a \in Addr : pc[t] = <<"text", a>> =>
              /\ Fetch(t) \ {BRK} \subseteq {a}
              /\ BRK \in Fetch(t) => \E b \in linked : Enter[b] = a
              /\ After(t) = {<<"text", n>> : n \in Succ[a]}
         /\ \A b \in linked : pc[t] = <<"slot", slot[b]>> /\ slot[b] # NULL =>
              /\ Fetch(t) = {Enter[b]} /\ BRK \notin Fetch(t)
              /\ After(t) = {ReturnLoc(b)}
         /\ \A b \in linked : pc[t] = ReturnLoc(b) => Fetch(t) = {BRK}
<1>1. ASSUME NEW a \in Addr, pc[t] = <<"text", a>>
      PROVE  /\ Fetch(t) \ {BRK} \subseteq {a}
             /\ BRK \in Fetch(t) => \E b \in linked : Enter[b] = a
             /\ After(t) = {<<"text", n>> : n \in Succ[a]}
  <2>1. Fetch(t) = {text[a]} \cup ({stale[a]} \ {NULL}) /\ After(t) = {<<"text", n>> : n \in Succ[a]}
    BY <1>1 DEF Fetch, After
  <2> QED
    BY <2>1, FetchText
<1>2. ASSUME NEW b \in linked, pc[t] = <<"slot", slot[b]>>, slot[b] # NULL
      PROVE  Fetch(t) = {Enter[b]} /\ BRK \notin Fetch(t) /\ After(t) = {ReturnLoc(b)}
  <2>1. slotmem[slot[b]] = Enter[b] /\ Enter[b] \in Addr
    BY <1>2, Locations DEF LibInv, LibTypeOK, LinkedOK, SlotReady
  <2> QED
    BY <1>2, <2>1, SentinelAssumption DEF Fetch, After, ReturnLoc
<1>3. ASSUME NEW b \in linked, pc[t] = ReturnLoc(b)
      PROVE  Fetch(t) = {BRK}
  BY <1>3 DEF Fetch, ReturnLoc
<1> QED
  BY <1>1, <1>2, <1>3

-----------------------------------------------------------------------------
(***************************************************************************)
(* Each step of a thread: the context it leaves the thread in, and where   *)
(* the thread is in the program as if the library were not loaded.         *)
(***************************************************************************)
VirtualPc(t)    == IF pc[t] = DEAD THEN DEAD ELSE Virtual(t, pc[t])
VirtualSaved(t) == IF saved[t] = NULL THEN NULL ELSE Virtual(t, saved[t].pc)

\* Where a location is in the program.
LEMMA VirtualAt ==
  ASSUME NEW t \in Thread
  PROVE  /\ \A a : Virtual(t, <<"text", a>>) = a
         /\ \A s : Virtual(t, <<"slot", s>>) = Enter[singlestep[t]]
         /\ \A s : Virtual(t, <<"ret", s>>) = Enter[singlestep[t]] + 1
  BY DEF Virtual

\* A thread of the program that runs is in its text or in a slot.
LEMMA ContextVirtual ==
  ASSUME LibInv, NEW t \in Thread
  PROVE  \A l, h, b : Context(t, l, h, b) => Virtual(t, l) \in Addr /\ l # DEAD
<1> SUFFICES ASSUME NEW l, NEW h, NEW b, Context(t, l, h, b)
             PROVE  Virtual(t, l) \in Addr /\ l # DEAD
  OBVIOUS
<1>1. CASE \E a \in Addr : l = <<"text", a>>
  BY <1>1, VirtualAt, Locations, DeadAssumption
<1>2. CASE /\ singlestep[t] \in linked /\ slot[singlestep[t]] # NULL
           /\ l \in {<<"slot", slot[singlestep[t]]>>, <<"ret", slot[singlestep[t]]>>}
  <2>1. singlestep[t] \in Bkpt /\ slot[singlestep[t]] \in Slot
    BY <1>2 DEF LibInv, LibTypeOK
  <2>2. l \in Loc
    BY <1>2, <2>1, Locations
  <2>3. Enter[singlestep[t]] \in Addr /\ Enter[singlestep[t]] + 1 \in Addr
    BY <2>1, Locations, Behind
  <2> QED
    BY <1>2, <2>2, <2>3, VirtualAt, DeadAssumption
<1> QED
  BY <1>1, <1>2 DEF Context, ReturnLoc

\* Where a thread that runs may be: in its text, stopped at the entry point,
\* or in a slot that it has been sent to.
InOwnText(t) ==
  /\ handler = "sigtrap"
  /\ \E a \in Addr : pc[t] = <<"text", a>> /\ (saved[t] # NULL => a \in HandlerCode)
  /\ saved[t] = NULL => singlestep[t] \in {NULL, ABSENT}
  /\ saved[t] # NULL => t \in SigThread

AtEntry(t) ==
  /\ handler # "sigtrap" /\ t = main /\ ~entry_hit
  /\ pc[t] = EnterLoc(entry_bp) /\ Fetch(t) = {BRK}

InSlotOf(t, b) ==
  /\ singlestep[t] = b /\ slot[b] # NULL /\ saved[t] = NULL
  /\ pc[t] \in {<<"slot", slot[b]>>, ReturnLoc(b)}
  /\ handler # "sigtrap" => t = main /\ b = entry_bp /\ entry_hit

\* There is no other place.
LEMMA WhereRunning ==
  ASSUME IInv, fault = "none", NEW t \in Thread, Runs(t)
  PROVE  InOwnText(t) \/ AtEntry(t) \/ \E b \in linked : InSlotOf(t, b)
<1>1. Ready /\ pc[t] # DEAD /\ hpc[t] = "run" /\ ThreadContext(t)
  BY DEF Runs, IInv, StepOK
<1>2. CASE handler = "sigtrap"
  <2>1. CASE saved[t] = NULL
    <3>1. Context(t, pc[t], "run", hbp[t])
      BY <1>1, <1>2, <2>1 DEF ThreadContext
    <3> QED
      BY <1>2, <2>1, <3>1 DEF Context, InOwnText, InSlotOf
  <2>2. CASE saved[t] # NULL
    BY <1>1, <1>2, <2>2, HandlerClosed DEF ThreadContext, InHandlerCode, InOwnText
  <2> QED
    BY <2>1, <2>2
<1>3. CASE handler # "sigtrap"
  <2>1. t = main /\ saved[t] = NULL
    BY <1>1, <1>3 DEF IInv, ThreadInv, StartOK
  <2>2. EntryContext
    BY <1>3 DEF IInv, StepOK
  <2>3. CASE entry_hit
    BY <1>1, <2>1, <2>2, <2>3 DEF EntryContext, InSlotOf
  <2>4. CASE ~entry_hit
    <3>1. pc[t] = EnterLoc(entry_bp)
      BY <2>1, <2>2, <2>4 DEF EntryContext
    <3>2. text[Enter[entry_bp]] = BRK /\ stale[Enter[entry_bp]] = NULL
      BY <1>1, EntryIsBrk DEF IInv
    <3>3. Fetch(t) = {BRK}
      BY <3>1, <3>2 DEF Fetch, EnterLoc
    <3> QED
      BY <1>3, <2>1, <2>4, <3>1, <3>3 DEF AtEntry
  <2> QED
    BY <2>3, <2>4
<1> QED
  BY <1>2, <1>3

\* An instruction of the program is executed, in its text or in a slot.
LEMMA ExecuteEffect ==
  ASSUME IInv, fault = "none", NEW t \in Thread, Execute(t)
  PROVE  /\ ThreadContext(t)' /\ (handler' # "sigtrap" => EntryContext')
         /\ VirtualPc(t) \in Addr
         /\ ran' = [ran EXCEPT ![t] = <<VirtualPc(t), ~ran[t][2]>>]
         /\ VirtualPc(t)' \in Succ[VirtualPc(t)]
         /\ VirtualSaved(t)' = VirtualSaved(t)
<1>1. /\ Runs(t) /\ pc[t] # DEAD /\ hpc[t] = "run"
      /\ UNCHANGED <<saved, hpc, hbp, singlestep, handler, entry_hit, linked, slot>>
  BY DEF Execute, Runs, trapVars, libVars
<1>2. PICK i \in Fetch(t) \ {BRK} : ran' = [ran EXCEPT ![t] = <<i, ~ran[t][2]>>]
  BY DEF Execute
<1>3. PICK l \in After(t) : pc' = [pc EXCEPT ![t] = l]
  BY DEF Execute
<1>4. pc'[t] = l
  BY <1>3 DEF IInv, ThreadInv, ProgTypeOK
<1>5. VirtualSaved(t)' = VirtualSaved(t)
  BY <1>1 DEF VirtualSaved, Virtual
<1>6. ThreadContext(t)
  BY DEF IInv, StepOK
<1>7. CASE InOwnText(t)
  <2>1. PICK a \in Addr : pc[t] = <<"text", a>> /\ (saved[t] # NULL => a \in HandlerCode)
    BY <1>7 DEF InOwnText
  <2>2. i = a /\ \E n \in Succ[a] : l = <<"text", n>>
    BY <1>2, <1>3, <2>1, FetchOf DEF IInv
  <2>3. PICK n \in Succ[a] : l = <<"text", n>>
    BY <2>2
  <2>4. n \in Addr /\ l # DEAD /\ (saved[t] # NULL => n \in HandlerCode)
    BY <2>1, <2>3, ConstantsAssumption, HandlerClosed, Locations, DeadAssumption
  <2>5. VirtualPc(t) = a /\ VirtualPc(t)' = n
    BY <1>1, <1>4, <2>1, <2>3, <2>4 DEF VirtualPc, Virtual
  <2>6. ThreadContext(t)'
    <3>1. CASE saved[t] = NULL
      BY <1>1, <1>4, <1>7, <2>3, <2>4, <3>1 DEF InOwnText, ThreadContext, Context
    <3>2. CASE saved[t] # NULL
      <4>1. Context(t, saved[t].pc, saved[t].hpc, saved[t].hbp) /\ InHandlerCode(t)
        BY <1>1, <1>6, <1>7, <3>2 DEF ThreadContext, InOwnText
      <4>2. \A x, h, b : Context(t, x, h, b) => Context(t, x, h, b)'
        BY <1>1, ContextStable
      <4>3. InHandlerCode(t)'
        BY <1>1, <1>4, <2>3, <2>4, <3>2, <4>1 DEF InHandlerCode
      <4> QED
        BY <1>1, <1>4, <2>4, <3>2, <4>1, <4>2, <4>3 DEF ThreadContext
    <3> QED
      BY <3>1, <3>2
  <2> QED
    BY <1>1, <1>2, <1>5, <1>7, <2>2, <2>3, <2>5, <2>6 DEF InOwnText
<1>8. CASE AtEntry(t)
  BY <1>2, <1>8 DEF AtEntry
<1>9. ASSUME NEW b \in linked, InSlotOf(t, b)
      PROVE  /\ ThreadContext(t)' /\ (handler' # "sigtrap" => EntryContext')
             /\ VirtualPc(t) \in Addr
             /\ ran' = [ran EXCEPT ![t] = <<VirtualPc(t), ~ran[t][2]>>]
             /\ VirtualPc(t)' \in Succ[VirtualPc(t)]
  <2>1. b \in Bkpt /\ slot[b] \in Slot
    BY <1>9 DEF InSlotOf, IInv, LibInv, LibTypeOK
  <2>2. pc[t] = <<"slot", slot[b]>>
    BY <1>2, <1>9, FetchOf DEF InSlotOf, IInv
  <2>3. i = Enter[b] /\ l = <<"ret", slot[b]>>
    BY <1>2, <1>3, <1>9, <2>2, FetchOf DEF InSlotOf, IInv, ReturnLoc
  <2>4. l # DEAD
    BY <2>1, <2>3, Locations, DeadAssumption
  <2>5. VirtualPc(t) = Enter[b] /\ VirtualPc(t)' = Enter[b] + 1
    BY <1>1, <1>4, <1>9, <2>2, <2>3, <2>4 DEF VirtualPc, Virtual, InSlotOf
  <2>6. ThreadContext(t)'
    BY <1>1, <1>4, <1>9, <2>3, <2>4 DEF ThreadContext, Context, InSlotOf, ReturnLoc
  <2>7. handler' # "sigtrap" => EntryContext'
    BY <1>1, <1>4, <1>9, <2>3 DEF EntryContext, InSlotOf, ReturnLoc
  <2> QED
    BY <1>2, <2>1, <2>3, <2>5, <2>6, <2>7, Behind, Locations
<1> QED
  BY <1>1, <1>5, <1>7, <1>8, <1>9, WhereRunning

\* A brk is fetched: never in the code of a signal handler, so SIGTRAP is
\* not blocked.
LEMMA TrapEffect ==
  ASSUME IInv, SignalSafe, fault = "none", NEW t \in Thread, Trap(t)
  PROVE  /\ ThreadContext(t)' /\ (handler' # "sigtrap" => EntryContext')
         /\ saved[t] = NULL /\ fault' = "none"
         /\ UNCHANGED <<pc, saved, ran, singlestep>>
<1>1. /\ Runs(t) /\ BRK \in Fetch(t) /\ pc[t] # DEAD /\ hpc[t] = "run" /\ Ready
      /\ hpc' = [hpc EXCEPT ![t] = handler]
      /\ fault' = IF TrapBlocked(t) THEN "killed" ELSE fault
      /\ UNCHANGED <<pc, ran, saved, hbp, singlestep, handler, entry_hit, linked, slot>>
  BY DEF Trap, Runs, progVars, libVars
<1>2. hpc'[t] = handler
  BY <1>1 DEF IInv, ThreadInv, ProgTypeOK
<1>3. saved[t] = NULL => fault' = "none"
  BY <1>1 DEF TrapBlocked
<1>4. CASE InOwnText(t)
  <2>1. PICK a \in Addr : pc[t] = <<"text", a>> /\ (saved[t] # NULL => a \in HandlerCode)
    BY <1>4 DEF InOwnText
  <2>2. PICK b \in linked : Enter[b] = a
    BY <1>1, <2>1, FetchOf DEF IInv
  <2>3. saved[t] = NULL
    BY <1>4, <2>1, <2>2 DEF SignalSafe, InOwnText, IInv, LibInv, LibTypeOK
  <2>4. ThreadContext(t)'
    BY <1>1, <1>2, <1>4, <2>1, <2>2, <2>3 DEF ThreadContext, Context, InOwnText, EnterLoc
  <2> QED
    BY <1>1, <1>3, <1>4, <2>3, <2>4 DEF InOwnText
<1>5. CASE AtEntry(t)
  <2>1. handler # "sigtrap" /\ saved[t] = NULL
    BY <1>5 DEF AtEntry, IInv, ThreadInv, StartOK
  <2>2. EntryContext
    BY <2>1 DEF IInv, StepOK
  <2>3. EntryContext'
    BY <1>1, <1>5, <2>2 DEF EntryContext, AtEntry, EnterLoc
  <2> QED
    BY <1>1, <1>3, <2>1, <2>3 DEF ThreadContext
<1>6. ASSUME NEW b \in linked, InSlotOf(t, b)
      PROVE  /\ ThreadContext(t)' /\ (handler' # "sigtrap" => EntryContext') /\ saved[t] = NULL
  <2>1. pc[t] = ReturnLoc(b)
    BY <1>1, <1>6, FetchOf DEF InSlotOf, IInv
  <2>2. ThreadContext(t)'
    BY <1>1, <1>2, <1>6, <2>1 DEF ThreadContext, Context, InSlotOf, ReturnLoc
  <2>3. handler' # "sigtrap" => EntryContext'
    BY <1>1, <1>6, <2>1 DEF EntryContext, InSlotOf, ReturnLoc
  <2> QED
    BY <1>6, <2>2, <2>3 DEF InSlotOf
<1> QED
  BY <1>1, <1>3, <1>4, <1>5, <1>6, WhereRunning

\* A thread starts or ends in its text.
LEMMA SpawnExitEffect ==
  ASSUME IInv, fault = "none", NEW t \in Thread, Spawn(t) \/ Exit(t)
  PROVE  /\ ThreadContext(t)' /\ handler' = "sigtrap"
         /\ saved[t] = NULL /\ UNCHANGED <<saved, ran, singlestep>>
         /\ \/ VirtualPc(t) = DEAD /\ VirtualPc(t)' \in Starts
            \/ VirtualPc(t) \in Addr /\ t # main /\ VirtualPc(t)' = DEAD
<1>1. /\ UNCHANGED <<ran, saved, hpc, hbp, singlestep, handler, entry_hit, linked, slot>>
  BY DEF Spawn, Exit, trapVars, libVars
<1>2. CASE Spawn(t)
  <2>1. pc[t] = DEAD /\ handler = "sigtrap"
    BY <1>2 DEF Spawn
  <2>2. PICK a \in Starts : pc' = [pc EXCEPT ![t] = <<"text", a>>]
    BY <1>2 DEF Spawn
  <2>3. a \in Addr /\ pc'[t] = <<"text", a>> /\ pc'[t] # DEAD
    BY <2>2, ConstantsAssumption, Locations, DeadAssumption DEF IInv, ThreadInv, ProgTypeOK
  <2>4. hpc[t] = "run" /\ saved[t] = NULL /\ singlestep[t] \in {NULL, ABSENT}
    BY <2>1 DEF IInv, ThreadInv, StartOK, StepOK, ThreadContext
  <2>5. ThreadContext(t)'
    BY <1>1, <2>3, <2>4 DEF ThreadContext, Context
  <2>6. VirtualPc(t) = DEAD /\ VirtualPc(t)' = a
    BY <2>1, <2>3 DEF VirtualPc, Virtual
  <2> QED
    BY <1>1, <2>1, <2>2, <2>4, <2>5, <2>6
<1>3. CASE Exit(t)
  <2>1. /\ Runs(t) /\ t # main /\ pc[t][1] = "text" /\ saved[t] = NULL /\ pc[t] # DEAD
        /\ pc' = [pc EXCEPT ![t] = DEAD]
    BY <1>3 DEF Exit, Runs
  <2>2. \A b \in linked : ~InSlotOf(t, b)
    BY <2>1 DEF InSlotOf, ReturnLoc
  <2>3. InOwnText(t)
    BY <2>1, <2>2, WhereRunning DEF AtEntry
  <2>4. pc'[t] = DEAD /\ singlestep[t] \in {NULL, ABSENT} /\ handler = "sigtrap"
    BY <2>1, <2>3 DEF InOwnText, IInv, ThreadInv, ProgTypeOK
  <2>5. ThreadContext(t)'
    BY <1>1, <2>4 DEF ThreadContext
  <2>6. VirtualPc(t) \in Addr /\ VirtualPc(t)' = DEAD
    BY <2>1, <2>3, <2>4 DEF VirtualPc, Virtual, InOwnText
  <2> QED
    BY <1>1, <2>1, <2>4, <2>5, <2>6
<1> QED
  BY <1>2, <1>3

\* A signal of the program interrupts a thread wherever it is; its context
\* waits until sigreturn.
LEMMA InterruptEffect ==
  ASSUME IInv, fault = "none", NEW t \in Thread, Interrupt(t)
  PROVE  /\ ThreadContext(t)' /\ handler' = "sigtrap"
         /\ t \in SigThread /\ VirtualPc(t) \in Addr /\ VirtualSaved(t) = NULL
         /\ VirtualPc(t)' = SigEntry /\ VirtualSaved(t)' = VirtualPc(t)
         /\ UNCHANGED <<ran, singlestep>>
<1> DEFINE x == [pc |-> pc[t], hpc |-> hpc[t], hbp |-> hbp[t]]
<1>1. /\ t \in SigThread /\ handler = "sigtrap" /\ pc[t] # DEAD /\ saved[t] = NULL
      /\ saved' = [saved EXCEPT ![t] = x]
      /\ pc' = [pc EXCEPT ![t] = <<"text", SigEntry>>]
      /\ hpc' = [hpc EXCEPT ![t] = "run"]
      /\ UNCHANGED <<ran, singlestep, handler, linked, slot>>
  BY DEF Interrupt, libVars
<1>2. Context(t, pc[t], hpc[t], hbp[t])
  BY <1>1 DEF IInv, StepOK, ThreadContext
<1>3. x \in Saved
  BY <1>1 DEF IInv, ThreadInv, ProgTypeOK, StartOK, Saved
<1>4. /\ saved'[t] = x /\ x # NULL /\ x.pc = pc[t] /\ x.hpc = hpc[t] /\ x.hbp = hbp[t]
      /\ pc'[t] = <<"text", SigEntry>> /\ hpc'[t] = "run"
  BY <1>1, <1>3, SavedFields DEF IInv, ThreadInv, ProgTypeOK
<1> HIDE DEF x
<1>5. SigEntry \in Addr /\ pc'[t] # DEAD
  <2>1. SigEntry \in Addr
    BY ConstantsAssumption
  <2>2. <<"text", SigEntry>> \in Loc
    BY <2>1, Locations
  <2> QED
    BY <1>4, <2>1, <2>2, DeadAssumption
<1>6. Context(t, pc[t], hpc[t], hbp[t]) => Context(t, x.pc, x.hpc, x.hbp)
  BY <1>4
<1>7. \A l, h, b : Context(t, l, h, b) => Context(t, l, h, b)'
  BY <1>1, ContextStable
<1>8. ThreadContext(t)'
  BY <1>1, <1>2, <1>4, <1>5, <1>7, HandlerClosed DEF ThreadContext, InHandlerCode
<1>9. VirtualPc(t) \in Addr /\ VirtualSaved(t) = NULL
  BY <1>1, <1>2, ContextVirtual DEF VirtualPc, VirtualSaved, IInv
<1>10. VirtualPc(t)' = SigEntry
  BY <1>4, <1>5 DEF VirtualPc, Virtual
<1>11. VirtualSaved(t)' = VirtualPc(t)
  <2>1. PICK l : l = pc[t]
    OBVIOUS
  <2>2. saved'[t] # NULL /\ saved'[t].pc = l
    BY <1>4, <2>1
  <2>3. VirtualSaved(t)' = Virtual(t, l)'
    BY <2>2 DEF VirtualSaved
  <2>4. Virtual(t, l)' = Virtual(t, l)
    BY <1>1 DEF Virtual
  <2> QED
    BY <1>1, <2>1, <2>3, <2>4 DEF VirtualPc
<1> QED
  BY <1>1, <1>8, <1>9, <1>10, <1>11

\* sigreturn brings it back.
LEMMA SigreturnEffect ==
  ASSUME IInv, fault = "none", NEW t \in Thread, Sigreturn(t)
  PROVE  /\ ThreadContext(t)' /\ handler' = "sigtrap"
         /\ VirtualPc(t) = SigReturn /\ VirtualSaved(t) \in Addr
         /\ ran' = [ran EXCEPT ![t] = <<SigReturn, ~ran[t][2]>>]
         /\ VirtualPc(t)' = VirtualSaved(t) /\ VirtualSaved(t)' = NULL
         /\ UNCHANGED singlestep
<1>1. /\ saved[t] # NULL /\ pc[t] # DEAD /\ pc[t] = <<"text", SigReturn>>
      /\ pc' = [pc EXCEPT ![t] = saved[t].pc] /\ hpc' = [hpc EXCEPT ![t] = saved[t].hpc]
      /\ hbp' = [hbp EXCEPT ![t] = saved[t].hbp] /\ saved' = [saved EXCEPT ![t] = NULL]
      /\ UNCHANGED <<singlestep, handler, linked, slot>>
  BY DEF Sigreturn, Runs, libVars
<1>2. PICK i \in Fetch(t) \ {BRK} : ran' = [ran EXCEPT ![t] = <<i, ~ran[t][2]>>]
  BY DEF Sigreturn
<1>3. SigReturn \in Addr
  BY ConstantsAssumption
<1>4. i = SigReturn
  BY <1>1, <1>2, <1>3, FetchOf DEF IInv
<1>5. handler = "sigtrap"
  BY <1>1 DEF IInv, ThreadInv, StartOK
<1>6. Context(t, saved[t].pc, saved[t].hpc, saved[t].hbp)
  BY <1>1, <1>5 DEF IInv, StepOK, ThreadContext
<1>7. Virtual(t, saved[t].pc) \in Addr /\ saved[t].pc # DEAD
  BY <1>6, ContextVirtual DEF IInv
<1>8. /\ pc'[t] = saved[t].pc /\ hpc'[t] = saved[t].hpc /\ hbp'[t] = saved[t].hbp
      /\ saved'[t] = NULL
  BY <1>1 DEF IInv, ThreadInv, ProgTypeOK
<1>9. \A l, h, b : Context(t, l, h, b) => Context(t, l, h, b)'
  BY <1>1, ContextStable
<1>10. ThreadContext(t)'
  BY <1>1, <1>5, <1>6, <1>7, <1>8, <1>9 DEF ThreadContext
<1>11. VirtualPc(t) = SigReturn /\ VirtualSaved(t) = Virtual(t, saved[t].pc)
  <2>1. VirtualPc(t) = SigReturn
    BY <1>1, VirtualAt DEF VirtualPc
  <2> QED
    BY <1>1, <2>1 DEF VirtualSaved
<1>12. VirtualPc(t)' = Virtual(t, saved[t].pc) /\ VirtualSaved(t)' = NULL
  BY <1>1, <1>7, <1>8 DEF VirtualPc, VirtualSaved, Virtual
<1> QED
  BY <1>1, <1>2, <1>4, <1>5, <1>7, <1>10, <1>11, <1>12

\* The entry point's handler sends main to the slot and brings it back
\* (hook_main.c:91-125).
LEMMA EntryEffect ==
  ASSUME IInv, fault = "none", NEW t \in Thread, EntryFirst(t) \/ EntrySecond(t)
  PROVE  /\ t = main /\ handler # "sigtrap" /\ ThreadContext(t)'
         /\ handler' # "sigtrap" => EntryContext'
         /\ fault' = "none" /\ UNCHANGED <<saved, ran>>
         /\ VirtualPc(t)' = VirtualPc(t) /\ VirtualSaved(t)' = VirtualSaved(t)
<1>1. /\ hpc[t] = "entry" /\ hpc' = [hpc EXCEPT ![t] = "run"]
      /\ UNCHANGED <<saved, ran, hbp, linked, slot>>
  BY DEF EntryFirst, EntrySecond, libVars
<1>2. pc[t] # DEAD /\ handler # "sigtrap" /\ Ready /\ t = main /\ saved[t] = NULL
  BY <1>1 DEF IInv, ThreadInv, StartOK
<1>3. EntryContext
  BY <1>2 DEF IInv, StepOK
<1>4. entry_bp \in linked /\ slot[entry_bp] # NULL /\ entry_bp \in Bkpt /\ slot[entry_bp] \in Slot
  BY <1>2, EntryIsBrk, ConstantsAssumption DEF IInv, LibInv, LibTypeOK
<1>5. hpc'[t] = "run"
  BY <1>1 DEF IInv, ThreadInv, ProgTypeOK
<1>6. VirtualSaved(t)' = VirtualSaved(t)
  BY <1>1, <1>2 DEF VirtualSaved
<1>7. CASE EntryFirst(t)
  <2>1. /\ ~entry_hit /\ entry_hit' /\ UNCHANGED <<handler, fault>>
        /\ singlestep' = [singlestep EXCEPT ![t] = entry_bp]
        /\ pc' = [pc EXCEPT ![t] = <<"slot", slot[entry_bp]>>]
    BY <1>4, <1>7 DEF EntryFirst
  <2>2. pc'[t] = <<"slot", slot[entry_bp]>> /\ singlestep'[t] = entry_bp
    BY <2>1 DEF IInv, ThreadInv, ProgTypeOK
  <2>3. pc[t] = EnterLoc(entry_bp)
    BY <1>2, <1>3, <2>1 DEF EntryContext
  <2>4. pc'[t] # DEAD
    <3>1. <<"slot", slot[entry_bp]>> \in Loc
      BY <1>4, Locations
    <3> QED
      BY <2>2, <3>1, DeadAssumption
  <2>5. VirtualPc(t)' = Enter[entry_bp]
    BY <2>2, <2>4 DEF VirtualPc, Virtual
  <2>6. VirtualPc(t) = Enter[entry_bp]
    BY <1>2, <2>3, VirtualAt DEF VirtualPc, EnterLoc
  <2>7. EntryContext'
    BY <1>1, <1>2, <1>4, <1>5, <2>1, <2>2 DEF EntryContext
  <2>8. ThreadContext(t)'
    BY <1>2, <2>1, <2>4 DEF ThreadContext
  <2> QED
    BY <1>1, <1>2, <1>6, <2>1, <2>5, <2>6, <2>7, <2>8
<1>8. CASE EntrySecond(t)
  <2>1. /\ entry_hit /\ handler' = "sigtrap" /\ UNCHANGED fault
        /\ singlestep' = [singlestep EXCEPT ![t] = NULL]
        /\ pc' = [pc EXCEPT ![t] = <<"text", Enter[entry_bp] + 1>>]
    BY <1>8 DEF EntrySecond, EndStep
  <2>2. pc'[t] = <<"text", Enter[entry_bp] + 1>> /\ singlestep'[t] = NULL
    BY <2>1 DEF IInv, ThreadInv, ProgTypeOK
  <2>3. pc[t] = ReturnLoc(entry_bp) /\ singlestep[t] = entry_bp
    BY <1>1, <1>2, <1>3, <2>1 DEF EntryContext
  <2>4. pc'[t] # DEAD
    BY <1>4, <2>2, Behind, DeadAssumption
  <2>5. VirtualPc(t)' = Enter[entry_bp] + 1
    BY <2>2, <2>4 DEF VirtualPc, Virtual
  <2>6. VirtualPc(t) = Enter[entry_bp] + 1
    BY <1>2, <2>3, VirtualAt DEF VirtualPc, ReturnLoc
  <2>7. ThreadContext(t)'
    BY <1>1, <1>2, <1>4, <1>5, <2>1, <2>2, <2>4, Behind DEF ThreadContext, Context
  <2> QED
    BY <1>1, <1>2, <1>6, <2>1, <2>5, <2>6, <2>7
<1> QED
  BY <1>7, <1>8

\* A thread in sigtrap_handler has not been interrupted there.
LEMMA InSigtrap ==
  ASSUME IInv, fault = "none", NEW t \in Thread, hpc[t] \in {"sigtrap", "found"}
  PROVE  /\ handler = "sigtrap" /\ pc[t] # DEAD /\ pc[t] \in Loc /\ saved[t] = NULL
         /\ Context(t, pc[t], hpc[t], hbp[t])
<1>1. handler = "sigtrap" /\ pc[t] # DEAD /\ pc[t] \in Loc
  BY DEF IInv, ThreadInv, ProgTypeOK, StartOK
<1>2. ThreadContext(t)
  BY DEF IInv, StepOK
<1> QED
  BY <1>1, <1>2 DEF ThreadContext, InHandlerCode

\* The trapping address has a breakpoint: assert(bp != NULL) holds
\* (hook_main.c:58).
LEMMA FindEffect ==
  ASSUME IInv, fault = "none", NEW t \in Thread, SigtrapFind(t)
  PROVE  /\ ThreadContext(t)' /\ handler' = "sigtrap" /\ fault' = "none"
         /\ UNCHANGED <<pc, saved, ran>> /\ saved[t] = NULL
         /\ VirtualPc(t)' = VirtualPc(t) /\ VirtualSaved(t)' = VirtualSaved(t)
<1>1. /\ hpc[t] = "sigtrap" /\ UNCHANGED <<pc, saved, ran, handler, linked, slot>>
      /\ singlestep' = [singlestep EXCEPT ![t] = ThreadOf(t)]
      /\ hbp' = [hbp EXCEPT ![t] = tree[pc[t]]] /\ hpc' = [hpc EXCEPT ![t] = "found"]
      /\ fault' = IF tree[pc[t]] = NULL THEN "abort" ELSE fault
  BY DEF SigtrapFind, progVars, libVars, breakpoint_find
<1>2. handler = "sigtrap" /\ pc[t] # DEAD /\ saved[t] = NULL /\ Context(t, pc[t], "sigtrap", hbp[t])
  BY <1>1, InSigtrap
<1>3. singlestep'[t] = ThreadOf(t) /\ hbp'[t] = tree[pc[t]] /\ hpc'[t] = "found"
  BY <1>1 DEF IInv, ThreadInv, ProgTypeOK
<1>4. VirtualSaved(t)' = VirtualSaved(t)
  BY <1>1, <1>2 DEF VirtualSaved
<1>5. ASSUME NEW e \in linked, pc[t] = EnterLoc(e), singlestep[t] \in {NULL, ABSENT}
      PROVE  ThreadContext(t)' /\ fault' = "none" /\ VirtualPc(t)' = VirtualPc(t)
  <2>1. tree[pc[t]] = e /\ e \in Bkpt /\ e # NULL /\ Enter[e] \in Addr
    BY <1>5, SentinelAssumption, Locations DEF IInv, LibInv, LinkedOK, LibTypeOK
  <2>2. singlestep'[t] = NULL
    BY <1>3, <1>5 DEF ThreadOf
  <2>3. ThreadContext(t)'
    BY <1>1, <1>2, <1>3, <1>5, <2>1, <2>2 DEF ThreadContext, Context, EnterLoc
  <2>4. VirtualPc(t)' = VirtualPc(t)
    BY <1>1, <1>5 DEF VirtualPc, Virtual, EnterLoc
  <2> QED
    BY <1>1, <2>1, <2>3, <2>4
<1>6. ASSUME singlestep[t] \in linked, slot[singlestep[t]] # NULL, pc[t] = ReturnLoc(singlestep[t])
      PROVE  ThreadContext(t)' /\ fault' = "none" /\ VirtualPc(t)' = VirtualPc(t)
  <2>1. singlestep[t] \in Bkpt /\ tree[pc[t]] = singlestep[t] /\ singlestep[t] # NULL
    BY <1>6, SentinelAssumption DEF IInv, LibInv, LinkedOK, SlotReady, LibTypeOK
  <2>2. singlestep'[t] = singlestep[t]
    BY <1>3, <2>1, SentinelAssumption DEF ThreadOf
  <2>3. ThreadContext(t)'
    BY <1>1, <1>2, <1>3, <1>6, <2>1, <2>2 DEF ThreadContext, Context, ReturnLoc
  <2>4. VirtualPc(t)' = VirtualPc(t)
    BY <1>1, <2>2 DEF VirtualPc, Virtual
  <2> QED
    BY <1>1, <2>1, <2>3, <2>4
<1> QED
  BY <1>1, <1>2, <1>4, <1>5, <1>6 DEF Context

\* The step that ends is the one that was begun (hook_main.c:67), and only a
\* breakpoint without a slot cannot be stepped over (79).
LEMMA SigtrapEffect ==
  ASSUME IInv, fault = "none", NEW t \in Thread, SigtrapFinish(t) \/ SigtrapBegin(t)
  PROVE  /\ fault' = "none" => ThreadContext(t)'
         /\ handler' = "sigtrap" /\ saved[t] = NULL /\ UNCHANGED <<saved, ran>>
         /\ fault' = "none" \/ \E b \in NO_SLOT : b = hbp[t] /\ b \in linked
         /\ VirtualPc(t)' = VirtualPc(t) /\ VirtualSaved(t)' = VirtualSaved(t)
<1>1. /\ hpc[t] = "found" /\ UNCHANGED <<saved, ran, handler, linked, slot>>
      /\ hbp' = [hbp EXCEPT ![t] = NULL] /\ hpc' = [hpc EXCEPT ![t] = "run"]
  BY DEF SigtrapFinish, SigtrapBegin, libVars
<1>2. handler = "sigtrap" /\ pc[t] # DEAD /\ saved[t] = NULL /\ Context(t, pc[t], "found", hbp[t])
  BY <1>1, InSigtrap
<1>3. hpc'[t] = "run"
  BY <1>1 DEF IInv, ThreadInv, ProgTypeOK
<1>4. VirtualSaved(t)' = VirtualSaved(t)
  BY <1>1, <1>2 DEF VirtualSaved
<1>5. PICK b \in linked : hbp[t] = b
  BY <1>2 DEF Context
<1>6. b \in Bkpt /\ b # NULL /\ slot[b] \in Slot \cup {NULL} /\ Enter[b] \in Addr
      /\ (slot[b] = NULL => b \in NO_SLOT)
  BY <1>5, SentinelAssumption, Locations DEF IInv, LibInv, LibTypeOK, LinkedOK, SlotReady
<1>7. CASE SigtrapFinish(t)
  <2>1. singlestep[t] = b /\ slot[b] # NULL /\ pc[t] = ReturnLoc(b)
    BY <1>2, <1>5, <1>6, <1>7 DEF SigtrapFinish, Context
  <2>2. /\ pc' = [pc EXCEPT ![t] = <<"text", Enter[b] + 1>>]
        /\ singlestep' = [singlestep EXCEPT ![t] = NULL] /\ UNCHANGED fault
    BY <1>5, <1>7, <2>1 DEF SigtrapFinish, EndStep
  <2>3. pc'[t] = <<"text", Enter[b] + 1>> /\ singlestep'[t] = NULL
    BY <2>2 DEF IInv, ThreadInv, ProgTypeOK
  <2>4. pc'[t] # DEAD /\ Enter[b] + 1 \in Addr
    BY <1>6, <2>3, Behind, DeadAssumption
  <2>5. ThreadContext(t)'
    BY <1>1, <1>2, <1>3, <2>3, <2>4 DEF ThreadContext, Context
  <2>6. VirtualPc(t)' = Enter[b] + 1
    BY <2>3, <2>4 DEF VirtualPc, Virtual
  <2>7. VirtualPc(t) = Enter[b] + 1
    BY <1>2, <2>1, VirtualAt DEF VirtualPc, ReturnLoc
  <2> QED
    BY <1>1, <1>2, <1>4, <2>2, <2>5, <2>6, <2>7
<1>8. CASE SigtrapBegin(t)
  <2>1. /\ singlestep[t] = NULL /\ singlestep' = [singlestep EXCEPT ![t] = b]
        /\ \/ slot[b] # NULL /\ pc' = [pc EXCEPT ![t] = <<"slot", slot[b]>>] /\ UNCHANGED fault
           \/ slot[b] = NULL /\ UNCHANGED pc /\ fault' = "segv"
    BY <1>5, <1>8 DEF SigtrapBegin
  <2>2. pc[t] = EnterLoc(b)
    BY <1>2, <1>5, <2>1, SentinelAssumption DEF Context, IInv, LibInv, LibTypeOK
  <2>3. VirtualPc(t) = Enter[b]
    BY <1>2, <2>2, VirtualAt DEF VirtualPc, EnterLoc
  <2>4. singlestep'[t] = b
    BY <2>1 DEF IInv, ThreadInv, ProgTypeOK
  <2>5. CASE slot[b] # NULL
    <3>1. pc'[t] = <<"slot", slot[b]>> /\ UNCHANGED fault
      BY <2>1, <2>5 DEF IInv, ThreadInv, ProgTypeOK
    <3>2. pc'[t] # DEAD
      <4>1. <<"slot", slot[b]>> \in Loc
        BY <1>6, <2>5, Locations
      <4> QED
        BY <3>1, <4>1, DeadAssumption
    <3>3. VirtualPc(t)' = Enter[b]
      BY <2>4, <3>1, <3>2 DEF VirtualPc, Virtual
    <3>4. ThreadContext(t)'
      BY <1>1, <1>2, <1>3, <1>5, <2>4, <2>5, <3>1, <3>2 DEF ThreadContext, Context
    <3> QED
      BY <1>1, <1>2, <1>4, <2>3, <3>1, <3>3, <3>4
  <2>6. CASE slot[b] = NULL
    <3>1. UNCHANGED pc /\ fault' = "segv"
      BY <2>1, <2>6
    <3>2. VirtualPc(t)' = Enter[b]
      BY <1>2, <2>2, <3>1 DEF VirtualPc, Virtual, EnterLoc
    <3> QED
      BY <1>1, <1>2, <1>4, <1>5, <1>6, <2>3, <2>6, <3>1, <3>2
  <2> QED
    BY <2>5, <2>6
<1> QED
  BY <1>7, <1>8

-----------------------------------------------------------------------------
(***************************************************************************)
(* The invariant of the threads, and transparency                          *)
(***************************************************************************)

\* What a caller does leaves every thread and the slots of the breakpoints
\* that have been added alone: slot_alloc is only called for one that has not
\* (breakpoint.c:338-345).
LEMMA CallerKeepsSlots ==
  ASSUME LibInv, NEW c \in Ctl,
         CtlStep(c) \/ \E op \in {"add", "enable", "disable"}, b \in Bkpt : Call(c, op, b)
  PROVE  linked \subseteq linked' /\ \A e \in linked : slot'[e] = slot[e]
<1>1. CASE AddSlot(c)
  <2>1. cpc[c] = "add_slot" /\ UNCHANGED linked /\ \E s : slot' = [slot EXCEPT ![cbp[c]] = s]
    BY <1>1 DEF AddSlot
  <2>2. cbp[c] \notin linked
    BY <2>1 DEF LibInv, AddingOK, AddPoints
  <2> QED
    BY <2>1, <2>2 DEF LibInv, LibTypeOK
<1>2. CASE ~AddSlot(c)
  <2>1. UNCHANGED slot /\ (UNCHANGED linked \/ linked' = linked \cup {cbp[c]})
    BY <1>2
       DEF CtlStep, Call, CallReturns, AddBegin, AddEnter, AddCopy, AddReturn, AddLink,
           EnableBegin, DisableBegin, EnableUnprotect, DisableUnprotect, object_memory_unlock,
           EnableWrite, DisableWrite, WriteText, object_memory_lock, libVars
  <2> QED
    BY <2>1
<1> QED
  BY <1>1, <1>2

\* A step of a thread: the context it is left in.
LEMMA ThreadEffect ==
  ASSUME IInv, SignalSafe, fault = "none", NEW t \in Thread, ThreadStep(t)
  PROVE  /\ fault' = "none" => ThreadContext(t)' /\ (handler' # "sigtrap" => EntryContext')
         /\ UNCHANGED handler \/ (handler # "sigtrap" /\ t = main)
<1>1. CASE Execute(t) \/ Trap(t)
  <2>1. UNCHANGED handler
    BY <1>1 DEF Execute, Trap, trapVars
  <2> QED
    BY <1>1, <2>1, ExecuteEffect, TrapEffect
<1>2. CASE Spawn(t) \/ Exit(t)
  <2>1. UNCHANGED handler
    BY <1>2 DEF Spawn, Exit, trapVars
  <2> QED
    BY <1>2, <2>1, SpawnExitEffect
<1>3. CASE Interrupt(t) \/ Sigreturn(t)
  <2>1. UNCHANGED handler
    BY <1>3 DEF Interrupt, Sigreturn
  <2> QED
    BY <1>3, <2>1, InterruptEffect, SigreturnEffect
<1>4. CASE EntrySecond(t) \/ EntryFirst(t)
  BY <1>4, EntryEffect
<1>5. CASE SigtrapFind(t) \/ SigtrapFinish(t) \/ SigtrapBegin(t)
  <2>1. UNCHANGED handler
    BY <1>5 DEF SigtrapFind, SigtrapFinish, SigtrapBegin
  <2> QED
    BY <1>5, <2>1, FindEffect, SigtrapEffect
<1> QED
  BY <1>1, <1>2, <1>3, <1>4, <1>5 DEF ThreadStep, HandlerStep

\* StepOK is inductive relative to LibInv and ThreadInv.
LEMMA StepStep ==
  ASSUME IInv, SignalSafe, [Next]_vars
  PROVE  StepOK'
<1> SUFFICES ASSUME fault' = "none"
             PROVE  /\ handler' # "sigtrap" => EntryContext'
                    /\ \A t \in Thread : ThreadContext(t)'
  BY DEF StepOK
<1>1. fault = "none" => /\ handler # "sigtrap" => EntryContext
                        /\ \A t \in Thread : ThreadContext(t)
  BY DEF IInv, StepOK
<1>2. ASSUME UNCHANGED <<pc, saved, hpc, hbp, singlestep, entry_hit>>, fault = "none",
             handler' = "sigtrap" <=> handler = "sigtrap",
             linked \subseteq linked', \A e \in linked : slot'[e] = slot[e]
      PROVE  /\ handler' # "sigtrap" => EntryContext'
             /\ \A t \in Thread : ThreadContext(t)'
  <2>1. handler' # "sigtrap" => EntryContext'
    BY <1>1, <1>2 DEF EntryContext, ReturnLoc
  <2>2. ASSUME NEW t \in Thread PROVE ThreadContext(t)'
    <3>1. \A l, h, b : Context(t, l, h, b) => Context(t, l, h, b)'
      BY <1>2, ContextStable
    <3>2. InHandlerCode(t) => InHandlerCode(t)'
      BY <1>2 DEF InHandlerCode
    <3>3. ThreadContext(t)
      BY <1>1, <1>2
    <3> QED
      BY <1>2, <3>1, <3>2, <3>3 DEF ThreadContext
  <2> QED
    BY <2>1, <2>2
<1>3. CASE UNCHANGED vars
  BY <1>2, <1>3 DEF vars, progVars, trapVars, libVars
<1>4. CASE Next
  <2>1. fault = "none"
    BY <1>4 DEF Next
  <2>2. CASE lib_init
    <3>1. /\ boot = 0 /\ handler' = "entry"
          /\ UNCHANGED <<pc, saved, hpc, hbp, singlestep, entry_hit, linked, slot>>
      BY <2>2 DEF lib_init, progVars, libVars
    <3>2. handler # "sigtrap"
      BY <3>1 DEF IInv, ThreadInv, StartOK
    <3> QED
      BY <1>2, <2>1, <3>1, <3>2
  <2>3. ASSUME NEW c \in Ctl,
               CtlStep(c) \/ \E op \in {"add", "enable", "disable"}, b \in Bkpt : Call(c, op, b)
        PROVE  /\ handler' # "sigtrap" => EntryContext'
               /\ \A t \in Thread : ThreadContext(t)'
    <3>1. UNCHANGED <<pc, saved, hpc, hbp, singlestep, handler, entry_hit>>
      BY <2>3, CallerFrame DEF progVars, trapVars
    <3>2. linked \subseteq linked' /\ \A e \in linked : slot'[e] = slot[e]
      BY <2>3, CallerKeepsSlots DEF IInv
    <3> QED
      BY <1>2, <2>1, <3>1, <3>2
  <2>4. ASSUME NEW t \in Thread, ThreadStep(t)
        PROVE  /\ handler' # "sigtrap" => EntryContext'
               /\ \A u \in Thread : ThreadContext(u)'
    <3>1. /\ ThreadContext(t)' /\ (handler' # "sigtrap" => EntryContext')
          /\ UNCHANGED handler \/ (handler # "sigtrap" /\ t = main)
      BY <2>1, <2>4, ThreadEffect
    <3>2. UNCHANGED <<linked, slot>>
      BY <2>4, ThreadFrame DEF libVars
    <3>3. ASSUME NEW u \in Thread, u # t PROVE ThreadContext(u)'
      <4>1. /\ pc'[u] = pc[u] /\ saved'[u] = saved[u] /\ hpc'[u] = hpc[u] /\ hbp'[u] = hbp[u]
            /\ singlestep'[u] = singlestep[u]
        BY <2>4, <3>3, OneThread DEF IInv, ThreadInv
      <4>2. ThreadContext(u)
        BY <1>1, <2>1
      <4>3. CASE UNCHANGED handler
        BY <3>2, <4>1, <4>2, <4>3, ThreadStable
      <4>4. CASE handler # "sigtrap" /\ t = main
        <5>1. pc[u] = DEAD
          BY <3>3, <4>4 DEF IInv, ThreadInv, StartOK
        <5> QED
          BY <4>1, <4>2, <5>1 DEF ThreadContext
      <4> QED
        BY <3>1, <4>3, <4>4
    <3> QED
      BY <3>1, <3>3
  <2> QED
    BY <1>4, <2>2, <2>3, <2>4 DEF Next, ThreadStep
<1> QED
  BY <1>3, <1>4

\* Every thread is where the handlers expect it, in every state of a program
\* whose signal handlers carry no breakpoint.
THEOREM StepInvariance ==
  ASSUME SignalSafe
  PROVE  Spec => []IInv
<1>1. Init => StepOK
  <2> SUFFICES ASSUME Init PROVE StepOK
    OBVIOUS
  <2>1. /\ handler = "default" /\ ~entry_hit /\ pc[main] = EnterLoc(entry_bp)
        /\ \A t \in Thread : singlestep[t] = ABSENT
    BY ConstantsAssumption DEF Init, EnterLoc
  <2> QED
    BY <2>1, ConstantsAssumption DEF StepOK, EntryContext, ThreadContext
<1>2. IInv /\ [Next]_vars => StepOK'
  BY StepStep
<1>3. LibInv /\ ThreadInv /\ StepOK <=> IInv
  BY DEF IInv
<1> QED
  BY <1>1, <1>2, <1>3, LibInvariance, ThreadInvariance, PTL DEF Spec

\* The only step of a thread that can fault sends it to the slot of a
\* breakpoint that has none (hook_main.c:79).
LEMMA ThreadFaults ==
  ASSUME IInv, SignalSafe, fault = "none", NEW t \in Thread, ThreadStep(t), fault' # "none"
  PROVE  SigtrapBegin(t) /\ \E b \in NO_SLOT : b = hbp[t] /\ b \in linked
<1>1. ~(Execute(t) \/ Spawn(t) \/ Exit(t) \/ Interrupt(t) \/ Sigreturn(t))
  BY DEF Execute, Spawn, Exit, Interrupt, Sigreturn
<1>2. ~(Trap(t) \/ EntryFirst(t) \/ EntrySecond(t) \/ SigtrapFind(t))
  BY TrapEffect, EntryEffect, FindEffect
<1>3. SigtrapFinish(t) \/ SigtrapBegin(t)
  BY <1>1, <1>2 DEF ThreadStep, HandlerStep
<1>4. PICK b \in NO_SLOT : b = hbp[t] /\ b \in linked
  BY <1>3, SigtrapEffect
<1>5. ~SigtrapFinish(t)
  <2> SUFFICES ASSUME SigtrapFinish(t) PROVE FALSE
    OBVIOUS
  <2>1. hpc[t] = "found" /\ singlestep[t] # NULL /\ singlestep[t] # hbp[t]
    BY DEF SigtrapFinish
  <2> QED
    BY <2>1, InSigtrap DEF Context
<1> QED
  BY <1>3, <1>4, <1>5

\* A thread that traps while it is stepping has come to the end of the step
\* it began: assert(thread->singlestep_bp == bp), hook_main.c:67.
THEOREM StepsEndWhereTheyBegan ==
  ASSUME SignalSafe
  PROVE  Spec => []StepIsTheOneBegun
<1>1. IInv /\ fault = "none" => StepIsTheOneBegun
  <2> SUFFICES ASSUME IInv, fault = "none", NEW t \in Thread, hpc[t] = "found", singlestep[t] # NULL
               PROVE  singlestep[t] = hbp[t]
    BY DEF StepIsTheOneBegun
  <2> QED
    BY InSigtrap DEF Context
<1>2. Init => fault = "none"
  BY DEF Init
<1>3. IInv /\ StepIsTheOneBegun /\ [Next]_vars => StepIsTheOneBegun' \/ (fault = "none")'
  <2> SUFFICES ASSUME IInv, StepIsTheOneBegun, [Next]_vars, fault' # "none"
               PROVE  StepIsTheOneBegun'
    OBVIOUS
  <2>1. CASE UNCHANGED <<hpc, hbp, singlestep>>
    BY <2>1 DEF StepIsTheOneBegun
  <2>2. CASE UNCHANGED vars
    BY <2>1, <2>2 DEF vars, trapVars
  <2>3. CASE lib_init \/ \E c \in Ctl : CtlStep(c) \/ \E op \in {"add", "enable", "disable"}, b \in Bkpt : Call(c, op, b)
    BY <2>1, <2>3, CallerFrame DEF lib_init, trapVars
  <2>4. ASSUME NEW t \in Thread, ThreadStep(t), fault = "none" PROVE StepIsTheOneBegun'
    <3>1. hpc' = [hpc EXCEPT ![t] = "run"]
      BY <2>4, ThreadFaults DEF SigtrapBegin
    <3>2. hpc'[t] = "run"
      BY <3>1 DEF IInv, ThreadInv, ProgTypeOK
    <3>3. \A u \in Thread : u # t => hpc'[u] = hpc[u] /\ hbp'[u] = hbp[u] /\ singlestep'[u] = singlestep[u]
      BY <2>4, OneThread DEF IInv, ThreadInv
    <3> QED
      BY <3>2, <3>3 DEF StepIsTheOneBegun
  <2> QED
    BY <2>2, <2>3, <2>4 DEF Next, ThreadStep
<1> QED
  BY <1>1, <1>2, <1>3, StepInvariance, PTL DEF Spec

\* A step that leaves every thread where it is in the program is a
\* stuttering step of the program.
LEMMA ProgramStutters ==
  ASSUME \A t \in Thread : VirtualPc(t)' = VirtualPc(t) /\ VirtualSaved(t)' = VirtualSaved(t),
         UNCHANGED ran
  PROVE  UNCHANGED Program!vars
<1>1. VPC' = VPC /\ VSaved' = VSaved
  BY DEF VPC, VSaved, VirtualPc, VirtualSaved
<1> QED
  BY <1>1 DEF Program!vars

\* What a step of one thread changes of the program.
LEMMA ProgramMoves ==
  ASSUME NEW t \in Thread,
         \A u \in Thread \ {t} : VirtualPc(u)' = VirtualPc(u) /\ VirtualSaved(u)' = VirtualSaved(u)
  PROVE  /\ VPC[t] = VirtualPc(t) /\ VSaved[t] = VirtualSaved(t)
         /\ VPC' = [VPC EXCEPT ![t] = VirtualPc(t)']
         /\ VSaved' = [VSaved EXCEPT ![t] = VirtualSaved(t)']
         /\ VirtualSaved(t)' = VirtualSaved(t) => UNCHANGED VSaved
<1>1. VPC = [u \in Thread |-> VirtualPc(u)] /\ VSaved = [u \in Thread |-> VirtualSaved(u)]
  BY DEF VPC, VSaved, VirtualPc, VirtualSaved
<1>2. VPC' = [u \in Thread |-> VirtualPc(u)'] /\ VSaved' = [u \in Thread |-> VirtualSaved(u)']
  BY DEF VPC, VSaved, VirtualPc, VirtualSaved
<1> QED
  BY <1>1, <1>2

\* Every step of a thread is a step of the program or stutters.
LEMMA ThreadRefines ==
  ASSUME IInv, SignalSafe, fault = "none", NEW t \in Thread, ThreadStep(t)
  PROVE  Program!Next \/ UNCHANGED Program!vars
<1>1. \A u \in Thread \ {t} :
        VirtualPc(u)' = VirtualPc(u) /\ VirtualSaved(u)' = VirtualSaved(u)
  <2> SUFFICES ASSUME NEW u \in Thread, u # t
               PROVE  VirtualPc(u)' = VirtualPc(u) /\ VirtualSaved(u)' = VirtualSaved(u)
    OBVIOUS
  <2>1. pc'[u] = pc[u] /\ saved'[u] = saved[u] /\ singlestep'[u] = singlestep[u]
    BY OneThread DEF IInv, ThreadInv
  <2> QED
    BY <2>1 DEF VirtualPc, VirtualSaved, Virtual
<1>2. PICK p, q, x, y : /\ p = VirtualPc(t) /\ q = VirtualPc(t)'
                        /\ x = VirtualSaved(t) /\ y = VirtualSaved(t)'
  OBVIOUS
<1>3. /\ VPC[t] = p /\ VSaved[t] = x
      /\ VPC' = [VPC EXCEPT ![t] = q] /\ VSaved' = [VSaved EXCEPT ![t] = y]
      /\ y = x => UNCHANGED VSaved
  BY <1>1, <1>2, ProgramMoves
<1>4. p = q /\ x = y /\ UNCHANGED ran => UNCHANGED Program!vars
  <2>1. p = q /\ x = y => \A u \in Thread : VirtualPc(u)' = VirtualPc(u) /\ VirtualSaved(u)' = VirtualSaved(u)
    BY <1>1, <1>2
  <2> QED
    BY <2>1, ProgramStutters
<1>5. DEAD \notin Addr /\ NULL \notin Addr
  BY DeadAssumption, SentinelAssumption
<1>6. CASE Execute(t)
  <2>1. /\ p \in Addr /\ ran' = [ran EXCEPT ![t] = <<p, ~ran[t][2]>>]
        /\ q \in Succ[p] /\ y = x
    BY <1>2, <1>6, ExecuteEffect
  <2>2. Program!Step(t)
    BY <1>3, <1>5, <2>1 DEF Program!Step
  <2> QED
    BY <2>2 DEF Program!Next
<1>7. CASE Spawn(t) \/ Exit(t)
  <2>1. /\ saved[t] = NULL /\ UNCHANGED <<saved, ran>>
        /\ \/ p = DEAD /\ q \in Starts
           \/ p \in Addr /\ t # main /\ q = DEAD
    BY <1>2, <1>7, SpawnExitEffect
  <2>2. x = NULL /\ y = NULL
    BY <1>2, <2>1 DEF VirtualSaved
  <2>3. Program!Spawn(t) \/ Program!Exit(t)
    BY <1>3, <1>5, <2>1, <2>2 DEF Program!Spawn, Program!Exit
  <2> QED
    BY <2>3 DEF Program!Next
<1>8. CASE Interrupt(t)
  <2>1. /\ t \in SigThread /\ p \in Addr /\ x = NULL /\ q = SigEntry /\ y = p
        /\ UNCHANGED ran
    BY <1>2, <1>8, InterruptEffect
  <2>2. Program!Interrupt(t)
    BY <1>3, <1>5, <2>1 DEF Program!Interrupt
  <2> QED
    BY <2>2 DEF Program!Next
<1>9. CASE Sigreturn(t)
  <2>1. /\ p = SigReturn /\ x \in Addr /\ q = x /\ y = NULL
        /\ ran' = [ran EXCEPT ![t] = <<SigReturn, ~ran[t][2]>>]
    BY <1>2, <1>9, SigreturnEffect
  <2>2. Program!Sigreturn(t)
    BY <1>3, <1>5, <2>1 DEF Program!Sigreturn
  <2> QED
    BY <2>2 DEF Program!Next
<1>10. CASE Trap(t)
  <2>1. UNCHANGED <<pc, saved, ran, singlestep>>
    BY <1>10, TrapEffect
  <2>2. p = q /\ x = y
    BY <1>2, <2>1 DEF VirtualPc, VirtualSaved, Virtual
  <2> QED
    BY <1>4, <2>1, <2>2
<1>11. CASE EntryFirst(t) \/ EntrySecond(t)
  BY <1>2, <1>4, <1>11, EntryEffect
<1>12. CASE SigtrapFind(t)
  BY <1>2, <1>4, <1>12, FindEffect
<1>13. CASE SigtrapFinish(t) \/ SigtrapBegin(t)
  BY <1>2, <1>4, <1>13, SigtrapEffect
<1> QED
  BY <1>6, <1>7, <1>8, <1>9, <1>10, <1>11, <1>12, <1>13 DEF ThreadStep, HandlerStep

\* The library is invisible to the program it is loaded into: every thread
\* executes the instructions of the unpatched text, each once and in
\* control-flow order, whatever callers enable and disable meanwhile and
\* wherever signals arrive (hook_main.c:41-125, breakpoint.c:317-475).
THEOREM ThreadsUndisturbed ==
  ASSUME SignalSafe
  PROVE  Spec => Transparent
<1>1. Init => Program!Init
  <2> SUFFICES ASSUME Init PROVE Program!Init
    OBVIOUS
  <2>1. EnterLoc(entry_bp) # DEAD
    BY Locations, ConstantsAssumption, DeadAssumption
  <2>2. \A t \in Thread : VirtualPc(t) = IF t = main THEN Enter[entry_bp] ELSE DEAD
    BY <2>1, VirtualAt DEF Init, VirtualPc, EnterLoc
  <2>3. \A t \in Thread : VirtualSaved(t) = NULL
    BY DEF Init, VirtualSaved
  <2>4. /\ VPC = [t \in Thread |-> IF t = main THEN Enter[entry_bp] ELSE DEAD]
        /\ VSaved = [t \in Thread |-> NULL]
    BY <2>2, <2>3 DEF VPC, VSaved, VirtualPc, VirtualSaved
  <2> QED
    BY <2>4 DEF Init, Program!Init
<1>2. IInv /\ [Next]_vars => [Program!Next]_Program!vars
  <2> SUFFICES ASSUME IInv, [Next]_vars PROVE Program!Next \/ UNCHANGED Program!vars
    OBVIOUS
  <2>1. CASE UNCHANGED <<pc, saved, singlestep, ran>>
    <3>1. \A t \in Thread : VirtualPc(t)' = VirtualPc(t) /\ VirtualSaved(t)' = VirtualSaved(t)
      BY <2>1 DEF VirtualPc, VirtualSaved, Virtual
    <3> QED
      BY <2>1, <3>1, ProgramStutters
  <2>2. CASE UNCHANGED vars
    BY <2>1, <2>2 DEF vars, progVars, trapVars
  <2>3. CASE lib_init \/ \E c \in Ctl : CtlStep(c) \/ \E op \in {"add", "enable", "disable"}, b \in Bkpt : Call(c, op, b)
    BY <2>1, <2>3, CallerFrame DEF lib_init, progVars, trapVars
  <2>4. CASE fault = "none" /\ \E t \in Thread : ThreadStep(t)
    BY <2>4, ThreadRefines
  <2> QED
    BY <2>2, <2>3, <2>4 DEF Next, ThreadStep
<1> QED
  BY <1>1, <1>2, StepInvariance, PTL DEF Spec, Transparent, Program!Spec
=============================================================================
