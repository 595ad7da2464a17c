# A TLA+ development for atrace

atrace is an instruction-breakpoint profiler.  The repository holds two
generations of it:

* **libhook** (`src/signal_test/`): a library for aarch64 that is preloaded into
  the program to be traced, patches `brk` instructions into its text and steps the
  displaced instructions *out of line* from SIGTRAP handlers.  It is
  multi-threaded: every thread of the traced program runs its handlers.
* **the ptrace tracer** (`src/src/`, `src/include/`): the earlier design, a
  separate process that forks the program and drives it with ptrace.  It is in the
  middle of a rewrite and does not compile in this revision: `struct thread` has no
  member `state`, `thread_wait` uses an undeclared `pid`.  `breakpoint.c` is whole but
  for a name (`object_chain`, which `include/object.h` calls `object_chain_`).

The specification covers libhook, where the concurrency is, and the breakpoints of
the tracer.

## Inventory

| part | state | operations | meets the others through |
|---|---|---|---|
| slot allocator (`breakpoint.c`) | list of slot sets, a bitmap, a count and a lock in each, `slot_sets_lock` | `slot_alloc`, `slot_set_add`, `slot_free` | called by `breakpoint_add` |
| breakpoints (`breakpoint.c`, `hook_main.c`) | tree of entries by address, ENABLE and NO_SLOT attributes, slot, object, a lock per breakpoint; the patched text itself | `breakpoint_add`, `_enable`, `_disable`, `_find`; `lib_init`; `entrypoint_trap_handler`, `sigtrap_handler` | takes slots, objects and thread objects; the threads of the program run into it |
| thread map (`thread.c`) | hash table of `thread_t`, which hold `singlestep_bp` | `thread_map_find`, `_add`, `_del`, `thread_new` | called by the handlers |
| object list (`object.c`) | list of executable file mappings | `object_load` and the scanners of the maps file, `object_get_by_address`, `_by_file`, `_self_entrypoint`, `object_memory_lock`, `_unlock` | called by `lib_init`, the entry handler and `breakpoint_add`, `_enable`, `_disable` |
| red-black tree, lists (`rbtree.c`, `list.h`) | from the Linux kernel; parent, child pointers and colour per entry | insert, erase, search, walk | hold the breakpoints, objects, threads |
| ptrace tracer (`src/src/`) | lists of threads, objects and breakpoints of another process | stop, run, step, wait; create, delete, resume breakpoints; main loop | ptrace and waitpid |

What is hard in it: two traps of a thread belong together (the `brk` in the text
and the one behind the slot) while other threads enable and disable the very
breakpoint; text is unprotected, written, protected and flushed in separate steps;
the allocator drops its list lock before it takes the bit it found; check and
insert are separate critical sections in the object list and in the handlers' use
of the thread map; the program's own signals are not blocked in a slot or in a
handler.  In the tracer, each breakpoint keeps a copy of a whole word in which a
neighbour's `int3` may be, and a single step may end before the instruction has run.
`PROJECT.json` lists the hazards line by line.

## Modules

```
SlotPool  <--implements--  SlotAlloc       <-- MCSlotAlloc      (TLC)
                                           <-- SlotAllocProofs  (TLAPS)
TracedProgram <--implements-- BreakpointHook   <-- MCBreakpointHook     (TLC)
                                               <-- BreakpointHookProofs (TLAPS)
                                                     <-- BreakpointStepProofs
                                                           <-- BreakpointFaultProofs
              <--implements-- TracerBreakpoint <-- MCTracerBreakpoint     (TLC)
                                               <-- TracerBreakpointProofs (TLAPS)
AddrSet   <--implements--  RBTree                                (TLC)
                                           <-- RBTreeProofs     (TLAPS)
                              ThreadMap      <-- MCThreadMap      (TLC)
                                             <-- ThreadMapProofs  (TLAPS)
                 MapsParse <-- ObjectList    <-- MCObjectList     (TLC)
                                             <-- ObjectListProofs (TLAPS)
```

**SlotPool** says what the allocator promises: an allocation gives, in one step, a
slot nobody holds.  **SlotAlloc** is the code at the granularity of its locks: a
step takes or releases a lock and does what the code does until the next one.  New
sets go to the head of the list and none is removed, so the list is a number
(`nsets`) and a traversal counts down.  A bitmap is the set of the bits that are 1,
including the ones past `SLOT_NUM` in the last word.

**TracedProgram** is the program without the library: threads that execute their
instructions in control-flow order.  **BreakpointHook** is libhook inside that
program.  Addresses count instructions, an instruction is named by the address it
was linked at, a slot is two locations (the displaced instruction and the `brk`
behind it).  A store to text leaves the old instruction in the instruction cache
until `object_memory_lock` flushes it, and a thread may fetch either.  Callers of
the interface (`Ctl`) run `breakpoint_add`, `_enable` and `_disable` in steps that
begin and end at lock operations, at `mprotect` and at the store; `lib_init` is
one of them during start-up.  Threads execute, trap, run the handlers, start and
end.  The allocator appears as SlotPool (any slot that is not in use), the tree as
a map and the thread map as the field `singlestep_bp` of each thread id; the
modules above and below show that those are what the code provides.
`entry_bp` is private to `hook_main.c`, which is the assumption on `Use`.

Threads of `SigThread` receive a signal of the program at any moment outside its
handler: in their own code, in a slot, or while the SIGTRAP handler runs, whose mask
is empty (`set_sighandle`, `hook_main.c:27`).  The handler is code of the program
(`SigEntry` to `SigReturn`) and may carry a breakpoint.  If it interrupts the SIGTRAP
handler, SIGTRAP is still blocked, and a `brk` in it kills the process
(`TrapBlocked`).  TracedProgram has the same signals, so a step that is interrupted
in a slot must still be completed, once, after `Sigreturn`.

**AddrSet** is the breakpoint tree as its callers see it, and **RBTree** is
`rbtree.c` with the locked functions of `breakpoint.c` around it: the pointers and
colours of every entry, one action per round of a rebalancing loop, the left and the
right copy of each case as one definition with the side as a parameter.  AddrSet is
implemented under the mapping to the entries a search finds, so a rotation that lost a
subtree or broke the order would show at the step where it happens, not only when
`breakpoint_lock` is released.

**ThreadMap** has the hash buckets as chains and the find-or-create code at the
head of both handlers.  `thread_map_del`, which only
a client of `thread.h` could call, is there as it is written: the test at `thread.c:99`
is inverted, so an object that is found stays in the map, and when there is none
`list_del` follows a null pointer (`fault`).  No property asks more of it.

**MapsParse** has the scanners of `object.c` (`hex_to_int`, `parse_mmap_range`, `_attr`,
`_inode`, `_file`) over the characters of a line, and the kernel's printer of such
lines, which is external.  **ObjectList** has the mappings of the process, the
piecemeal read of `/proc/self/maps`, the parse of each line, the search and the append
in their two critical sections, the lookups and the entry point.  The library knows a
mapping only through the text, so a scanner that stops one character early shows as a
wrong object, or as one that is missing.  Two loads that overlap may both append the
same mapping, which the lookups tolerate; `BoundedDuplicates` says that no mapping is
listed more often than there are callers, however often they load.

**TracerBreakpoint** is `src/breakpoint.c` over the *bytes* of the tracee: ptrace reads
and writes whole words at any address, so the words of neighbouring breakpoints
overlap.  The functions work on a record of what they change and are composed as the
code composes them; `breakpoint_resume` is disable, one step of the tracee, enable.
One consequence of the code shows in the model: `breakpoint_create` calls
`breakpoint_enable` while the address of the new object is still 0
(`breakpoint.c:66`).  The breakpoint then has BKPT_F_ENABLE and no `int3`, the tracee
never stops at it, and taking it out fails the assertion of `arch_remove_breakpoint`;
a breakpoint gets into the text only when the tracer resumes a tracee that stands on
it.  That is a bug, and the program's only call of `breakpoint_create` meets it
(`atrace.c:46-79`): run tracer_assert.  `asked` holds the breakpoints
concerned and `culprit` the one an assertion failed on; `TextMatchesAttr` says nothing of
the former, and `AbortsOnlyWhenAsked` that no other breakpoint can fail the assertion.

Definitions named `X_Something` next to a definition `X` are mutants: `X` with a
plausible mistake.  With the mutant in the place of `X` the property named for it in
`PROJECT.json` fails, which shows that the property depends on that code.  They are
part of no specification.

## Model-checking runs

| run | cfg | what it shows |
|---|---|---|
| slot_alloc_free | `SlotAlloc_free.cfg` | two threads allocate and free: count exact, carried-over index 0, SlotPool implemented |
| slot_alloc_live | `SlotAlloc_live.cfg` | three threads allocate: every call returns, and the race at `FIXME` (breakpoint.c:100) wastes at most one set per thread |
| slot_mapped | `SlotAlloc_mapped.cfg` | *violation*: slots behind the one page that is mapped are handed out |
| hook_callers | `BreakpointHook_callers.cfg` | two callers on two objects, two threads: no assertion fails, attribute and text agree, text is writable only while it is patched, transparency |
| hook_live | `BreakpointHook_live.cfg` | calls through every return value of `breakpoint_add` and a thread that runs into breakpoints and receives signals in slots and handlers: no assertion fails, calls return, single steps end although signals interrupt them, transparency |
| hook_signal | `BreakpointHook_signal.cfg` | *violation*: a signal arrives in a slot and its handler has a breakpoint too; the assertion at `hook_main.c:67` ends the program |
| hook_same_object | `BreakpointHook_same_object.cfg` | *violation*: two callers on two breakpoints of one object, one protects the text before the other stores |
| rb_tree | `RBTree_ops.cfg` | every sequence of insertions and deletions of nine addresses: red-black tree between operations, AddrSet implemented at every step, no null pointer followed, every loop ends |
| thread_map | `ThreadMap_handlers.cfg` | one `thread_t` per thread, found again by every later trap; the ignored result of `thread_map_add` is always 0 |
| object_load | `ObjectList_load.cfg` | two callers load twice while a library is mapped: every line is read back, the list is complete, every object is a mapping with the kernel's range and name, bounded duplicates, the library's own text is refused, the entry point is computed from the lowest segment, file lookup stable |
| tracer_bkpt | `TracerBreakpoint_ops.cfg` | breakpoints with overlapping words are created, stepped over, hit and deleted: the text is the program or `int3`s of enabled breakpoints, every `int3` is found, the assertion fails on no breakpoint but those created as enabled, transparency |
| tracer_assert | `TracerBreakpoint_assert.cfg` | *violation*: a breakpoint created as enabled is not in the text, and taking it out fails the assertion of `arch_remove_breakpoint` |

*Transparency* (`Transparent`, the refinement of TracedProgram) is the central
property: a thread in a slot counts as standing at the instruction its breakpoint
displaced, one behind the slot as standing behind it; under this mapping each step
of the library is invisible and each instruction is executed exactly once and in
order.  Both generations of the program are held to it.

### Bounds

* SlotAlloc: sets of two or three slots with bitmap words of two bits, so that a
  word can be exhausted, a bit can lie past the end, and sets fill up; two or three
  threads, enough for every pair of racing searches and for the double creation;
  `MaxSets` and `MaxHeld` keep the space finite (6 sets is more than three threads
  holding two slots each can create).
* BreakpointHook: an executable of four instructions with the entry breakpoint and a
  breakpoint directly behind it, a library that is mapped after start-up, the hook
  library and an unmapped address; one breakpoint for each return of
  `breakpoint_add`.  Two threads and two calls per caller let a breakpoint be
  enabled, hit by one thread, disabled under it and hit by the other.
* RBTree: nine addresses, so that trees get four levels deep, a deletion climbs
  several rounds and every case of both loops is met on both sides.
* ThreadMap: three thread ids of which two share a bucket of two.
* Signals (hook_live, hook_signal): one thread receives them, one at a time (a signal
  blocks itself), on a small program with two slots; that puts a signal into
  every state of a step.  hook_callers has none: its question is the interleaving of
  callers, and both together are too large.
* ObjectList: two callers with two loads each, so that a load overlaps a complete one,
  and a library that appears during them.  Words have two hex digits and an `int`
  four bits: addresses of the full width, and inodes that do not fit an `int`, are met.
  The mappings include an anonymous one, a name with a space in it, the hook library,
  a file with a second executable segment, and a library whose inode is the size of an
  `int`.  The executable's text follows a segment for its headers and is linked at its
  address.
* TracerBreakpoint: words of two bytes and five breakpoints, two of which are
  neighbours whose words overlap and one of which lies behind its object.

`CHECK_DEADLOCK FALSE` is set because callers and programs may simply stop calling
(and the bounds stop them).

### Fairness

`AllocSpec` assumes weak fairness of every thread that is inside `slot_alloc`, and
`FairSpec` of every caller inside a call and of the program's signal handler, which
returns: the kernel's scheduler runs each runnable thread.  For the steps of the
SIGTRAP handlers and for a thread in a slot it assumes strong fairness: signals disable
them again and again but do leave the thread time to run, as no program makes progress
otherwise.  RBTree assumes it of the thread that holds
`breakpoint_lock`.  Nothing obliges a caller to
call or the program to run.  Weak fairness suffices for waiting on a mutex because the
number of calls is bounded; with unboundedly many calls a waiting thread could starve,
which POSIX mutexes allow.  The handler's wait for the lock of a breakpoint is covered
by its strong fairness.

## Proofs

The theorems hold for every value of the constants that satisfies the named
assumptions: any number of threads, callers, breakpoints, slots, objects, buckets and
instructions.  Each proof rests on an inductive invariant, because none of the
properties is inductive alone.  TLC has checked the invariants below on the instances
of the runs before they were proved; RBTree's speaks of witnesses that no variable
holds, so the run rb_tree checks its consequences instead (`LinksMatch`, `Balanced`,
`WalkIsSorted`, `ImplementsAddrSet`).

| module | theorems (and the property of a run they state) |
|---|---|
| SlotAllocProofs | `TypeCorrect`, `CountIsExact` (`CountExact`), `IdxIsZeroWhenItMatters` (`IdxIsZeroBetweenSets`), `Refinement` (`ImplementsPool`), `WasteIsBounded` (`OverAllocationBound`) |
| ThreadMapProofs | `TypeCorrect`, `OneObject` (`OneObjectPerTid`), `AddSucceeds` (`AddIsNotRejected`), `ObjectStays` (`SameObjectForEver`) |
| TracerBreakpointProofs | `TypeCorrect`, `TextIsPatchedProgram` (`TextMatchesAttr`), `EveryTrapIsFound` (`TrapIsFound`), `OnlyAskedAbort` (`AbortsOnlyWhenAsked`), `TraceeUndisturbed` (`Transparent`) |
| BreakpointHookProofs | `AttributesTellTheText` (`AttrTellsText`), `NoMinus4` (`NeverReturnsMinus4`), `WritableOnlyToPatch` (`WritableWhilePatching`) |
| BreakpointStepProofs | `TypeCorrect`, `StepsEndWhereTheyBegan` (`StepIsTheOneBegun`), `ThreadsUndisturbed` (`Transparent`) |
| BreakpointFaultProofs | `ProcessSurvives` (`NoFault`) |
| ObjectListProofs | `TypeCorrect`, `LoadCompletes` (`LoadIsComplete`), `ObjectsAreTrue` (`ObjectsAreMappings`), `SelfTextIsMarked` (`SelfIsMarked`), `EntryBase` (`EntryBaseIsLowest`), `FileLookups` (`FileLookupIsStable`), `DuplicatesAreBounded` (`BoundedDuplicates`), `LinesSurvive` (`LinesReadBack`) |
| RBTreeProofs | `TypeCorrect`, `LinksAgree` (`LinksMatch`), `StaysBalanced` (`Balanced`), `NullSafety` (`NeverFollowsNull`), `WalksInOrder` (`WalkIsSorted`), `ImplementsASet` (`ImplementsAddrSet`) |

**Slot allocator.**  A thread that scans or has found a bit owns the set's lock
(`OwnsLock`), so the bit it found is still 1 when it clears it (`FoundIsFree`); a held
slot has bit 0 (`HeldIsUsed`), so a slot that is found is not held; and because the
count is exact (`CountExact`), a set that is not full has a bit that is 1 among its
slots (`NotFullHasFree`), so the word loop never runs off the end and `idx` stays 0
(`IdxIsZero`).  The proofs use only `SizesAssumption`: the sizes are positive and the
bitmap has a bit for every slot.  `WasteIsBounded` is for `AllocSpec`, in which nothing
is freed, and for finitely many threads: the sets that are not full are charged each to
a thread of its own.

**Thread map.**  Between the failed find and the add a thread is the only one that
could add its own id (`AddingIsNew`), since its handler is not entered again; whoever
goes on holds the object that the map has for it (`HasObject`, `GotObject`).  A lemma
shows that the walk of a bucket finds the object whenever the map has one.

**Tracer.**  Each breakpoint remembers a whole word, in which neighbours' `int3`s come
and go, but uses only its first byte; `OriKept` says that this byte is the program's,
`TextIs` what the whole text is: an `int3` for each enabled breakpoint, except for those
that were created as enabled (`TextMatchesAttr` follows).  The lemma `PatchOneByte`
reduces reading, changing and writing back a word to an assignment of one byte.  A tracee
that has trapped stands behind an `int3` (`TrapAtInt3`), hence behind a breakpoint, which maps it
back to its own instruction; from there `TraceeUndisturbed` goes step by step.

**Callers of libhook.**  `LibInv` needs no hypothesis: a lock is held exactly by the
caller that works on the breakpoint (`Locks`), nodes of the tree stand at the entry and
return address of their breakpoint and slots are not shared (`TreeOK`), and `AddingOK`,
`LinkedOK` and `MemoryOK` say how far `breakpoint_add`, `_enable` and `_disable` have
come, with the contents of text, instruction cache and slot at each point.  Therefore a
breakpoint that threads can run into has its slot, its return address in the tree and
the displaced instruction in the slot, at every moment and not only between calls.

**Threads of libhook.**  `ThreadInv` has the types and the start-up phase.  `StepOK`
ties each thread's place to `singlestep_bp`: a thread in a slot, at the `brk` behind it
or in the handler is in a step exactly when its `thread_t` says so, and of that
breakpoint; the same for the context that a signal has saved.  The refinement mapping
then moves by one instruction in the step that executes the slot and stays put
everywhere else.

**Object list.**  The first half of the module is about the text.  `LineFields` says
where the fields of a printed line are, `RangeRead`, `AttrRead`, `InodeRead` and
`FileRead` that each scanner takes its field and stops where the next one expects it,
`LineRead` puts them together, and `LineShape` that a line has one newline, at its end.
From these, `AppendLine` and `DropLine` show that a text of whole lines in ascending
order (`IsText`) stays one when a line is read or parsed, with exactly the lines it
should have.  The invariant then follows the loads: a mapping that existed at the call
is listed, or in the text, or above the address the read has reached (`Covered`); what
is about to be appended is a traced mapping (`TextOK`); an object is a mapping, marked
if it is the library's own (`ObjectsOK`); and a segment of the executable is listed
after the ones below it (`ExeOrder`), because all of them existed at every call.
Duplicates are bounded since objects of a mapping and callers about to append one are
together no more than the callers (`CountOK`): a caller that decides to append has found
none.  The text is taken apart down to its digits: `HexRead` says that `hex_to_int` reads
every address below the size of a word as what it is, `DecRead` that `atoi` gives the
remainder of an inode in an int.  Both rest on `NumeralValue` (a variable that drops what
does not fit still holds the remainder of the whole number, `RemainderNext`) and
`NumeralLen` (a number below the d-th power of 16 has at most d digits, so the length
check of `hex_to_int` lets it pass).  `LinesSurvive` is the sum of it.  A mapping is
`Traced` if its inode does not read as 0, so the theorems hold with inodes of every size;
`EntryBase` holds for every `e_entry`.

**Red-black tree.**  The only assumption is `KeyAssumption`: the addresses are a finite
set of naturals and NULL is none of them.  The code keeps pointers and colours; the invariant (`IInv`, with
witnesses `S`, `sub` and `h`) names what they stand for.  `Shape`: the links make a search
tree of the entries `S`, with the entries `sub[n]` at and below each node `n`; `Loose`: a
node outside it is empty, except the deleted one until it is cleared.  `Good` (between
operations), `InInsert` and `InErase` (inside the two loops) say what the colours are: all
ways down from `n` pass `h[n]` black nodes and no red node has a red child, but for the one
pair of red nodes that an insertion still has at `node`, or the one black node that a
deletion still lacks below `parent`.  There is one lemma for each case of
`rb_insert_color` and `__rb_erase_color`: what the recolourings and rotations do to `sub`
and `h`, and that the fault is gone or one level up.  A search depends only on `Shape`,
which a rebalancing keeps for the same `S`; that is the refinement of AddrSet.  A null
pointer is never followed because a red node is not the root, and a node that lacks a black
node on one side has a sibling on the other.

What would be inductions over the tree, or over the digits of a number, or over the rounds of
a loop, are arguments about a least counterexample: the set of sizes of subtrees (numbers,
rounds) without the claim is a set of naturals, and if it is not empty it has a least
element (`LeastNat`, `UpwardInduction`, `DownwardInduction`, `WalkEnds`, `Rounds`).  Of a
function that the model defines by recursion it is first shown that a function with
those equations exists, since TLA+ defines it by CHOOSE.

Four disciplines, on how the library is used, are hypotheses of the theorems that need
them:

* `SignalSafe`: no code that the program's signal handler reaches has a breakpoint
  (for `StepsEndWhereTheyBegan`, `ThreadsUndisturbed`, `ProcessSurvives`).  Without it
  the assertion at `hook_main.c:67` fails: run hook_signal.
* `PatchDiscipline`: callers that patch the same object patch the same address in it
  (for `WritableOnlyToPatch`, `ProcessSurvives`).  Without it a caller stores to text
  another one has just protected: run hook_same_object.
* `SlotDiscipline`: callers handle no breakpoint with NO_SLOT (for `ProcessSurvives`).
  The handler follows a null pointer at the first hit of one (`hook_main.c:79`).
* `StartDiscipline`: the two breakpoints of `lib_init` are at different addresses of
  text that is mapped and may have breakpoints (for `ProcessSurvives`); `lib_init`
  aborts when `breakpoint_add` fails.

The instances of hook_callers and hook_live satisfy all four.

Checked by TLC only:

* the liveness properties `AllocReturns`, `StepEnds`, `CallReturnsEventually` and
  `OperationReturns`: liveness under fairness is out of this prover's reach;
* the properties of the runs that expect a violation, which the code does not have.

## What is not modelled

* Threads that end in a slot or in a signal handler of the program; nested signals.
* Signals of the program and other threads before the entry step has ended: until then
  only constructors have run.  `entrypoint_trap_handler` would take any trap of theirs
  for the end of the step (`hook_main.c:108`).
* A breakpoint in code that the library itself calls (libc): a handler or a caller
  would trap inside the library.  Breakpoints on instructions that depend on the pc
  (branches, adr) behave differently in a slot; `PlainAssumption` excludes them.
* Breakpoints with NO_SLOT.  `breakpoint.h:66` says that their instruction is emulated;
  there is no emulation, and `sigtrap_handler` (`hook_main.c:79`) and
  `breakpoint_disable` (`breakpoint.c:460`) compute the slot through a null pointer.
  The model has the attribute and faults there; the runs leave the set empty.
* Of the ptrace tracer, `thread.c`, `atrace.c` and `object.c`: what does not compile has
  no behaviour, and the main loop mixes two designs.  `thread_single_step` and the
  answer to a breakpoint are part of TracerBreakpoint.  There, two breakpoints on one
  address (the second would keep the first's `int3` as the original instruction) and a
  tracee that vanishes during a step are left out.
* `list.h`, which is the Linux kernel's; of `rbtree.c` `rb_replace_node` and the
  augmentation callbacks, which nothing calls.
* Failure of `mprotect`, `mmap`, `malloc` and of the parser: they abort or are ignored.
* `object_get_by_address` compares the end address inclusively (`object.c:546`); two
  executable file mappings that touch are excluded by `LayoutAssumption`.  Inodes are
  taken to be below 2^63, where `atoi` saturates.  `object_parse_mmap`
  leaks the file name of a mapping it skips as known (`object.c:306`).  `slot_free`
  aborts for a slot index of 32 or more (`breakpoint.c:120`); its only call is on the
  path that `NeverReturnsMinus4` shows is never taken.
* Where the kernel starts the program.  `object_get_self_entrypoint` adds `e_entry`, cut
  to 32 bits by the `Elf32_Ehdr` (`object.c:440`), to the start of the text segment.
  That is the entry point only if the segment is linked at 0 and `e_entry` fits; for
  other executables `lib_init` sets its breakpoint elsewhere.  `EntryBaseIsLowest` is
  about the mapping that is chosen, whatever the sum means.
* Files whose inode is a multiple of 2^32.  `atoi` reads it as 0, the mark of an
  anonymous mapping, so `object_load` skips them (`object.c:198, 281`).  They are in the
  model (`LinesReadBack` says how the inode is read) but no `Traced` mappings.
* Unmapping of libraries ("FIXME", `object.c:474`), `object_unload` (no caller; it calls
  a function that is commented out).
* Formatting and printing.

## Plan

`TracerThreads`: the tracer's stop, run and wait protocol against exiting threads,
once `thread.c` compiles.
