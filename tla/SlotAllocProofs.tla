-------------------------- MODULE SlotAllocProofs ---------------------------
(***************************************************************************)
(* Proofs about SlotAlloc, for any number of threads, slot sets and slots: *)
(* its invariants, and that it implements SlotPool.                        *)
(***************************************************************************)
EXTENDS SlotAlloc, FiniteSetTheorems, TLAPS

\* A thread that is between the lock and the unlock of a set owns its lock.
OwnsLock ==
  \A t \in Thread : pc[t] \in {"scan", "found"} =>
    curr[t] \in SetId /\ mutex[curr[t]] = t

\* The bit a thread is about to clear is still 1.
FoundIsFree ==
  \A t \in Thread : pc[t] = "found" => pos[t] \in Index \cap free_slot[curr[t]]

\* A slot that is held has bit 0, and one holder.
HeldIsUsed ==
  \A t \in Thread : \A s \in held[t] : s[2] \notin free_slot[s[1]]

HeldOnce ==
  \A t, u \in Thread : t # u => held[t] \cap held[u] = {}

\* The search always starts with the first word of a set.
IdxIsZero ==
  \A t \in Thread : pc[t] \in {"next", "scan"} => idx[t] = 0

IInv ==
  /\ TypeOK
  /\ OwnsLock
  /\ FoundIsFree
  /\ HeldIsUsed
  /\ HeldOnce
  /\ CountExact
  /\ IdxIsZero

-----------------------------------------------------------------------------
(***************************************************************************)
(* Facts about the constants and the operators                             *)
(***************************************************************************)

\* The slots of a set are SLOT_NUM many and each has a bit of free_slot
\* (breakpoint.h:10-15).
LEMMA IndexFacts ==
  /\ IsFiniteSet(Index) /\ Cardinality(Index) = SLOT_NUM
  /\ Index \subseteq Bits /\ Bits \subseteq Nat
  /\ SLOT_NUM \in Nat \ {0} /\ SLOT_MAP_LEN \in Nat /\ UINT_BIT_NUM \in Nat \ {0}
<1> DEFINE top == SLOT_MAP_LEN * UINT_BIT_NUM
<1>1. /\ SLOT_NUM \in Nat \ {0} /\ SLOT_MAP_LEN \in Nat /\ UINT_BIT_NUM \in Nat \ {0}
      /\ SLOT_NUM <= top
  BY SizesAssumption
<1>2. top \in Nat
  BY <1>1
<1> HIDE DEF top
<1>3. IsFiniteSet(Index) /\ Cardinality(Index) = SLOT_NUM
  <2>1. 0 \in Int /\ SLOT_NUM - 1 \in Int
    BY <1>1
  <2>2. /\ IsFiniteSet(0 .. (SLOT_NUM - 1))
        /\ Cardinality(0 .. (SLOT_NUM - 1))
             = IF 0 > SLOT_NUM - 1 THEN 0 ELSE (SLOT_NUM - 1) - 0 + 1
    BY <2>1, FS_Interval
  <2> QED
    BY <1>1, <2>2 DEF Index
<1>4. Index \subseteq 0 .. (top - 1) /\ 0 .. (top - 1) \subseteq Nat
  BY <1>1, <1>2 DEF Index
<1> QED
  BY <1>1, <1>3, <1>4 DEF Bits, top

\* A set whose count is below SLOT_NUM has a bit that is 1 among its slots,
\* so the word loop of slot_alloc (breakpoint.c:82-94) finds one.
LEMMA NotFullHasFree ==
  ASSUME CountExact, NEW k \in SetId, used[k] # SLOT_NUM
  PROVE  Index \cap free_slot[k] # {}
<1>1. used[k] = Cardinality(Index \ free_slot[k])
  BY DEF CountExact
<1>2. ASSUME Index \cap free_slot[k] = {} PROVE FALSE
  <2>1. Index \ free_slot[k] = Index
    BY <1>2
  <2> QED
    BY <1>1, <2>1, IndexFacts
<1> QED
  BY <1>2

\* The word of a bit is a word of free_slot.
LEMMA WordOfBit ==
  ASSUME NEW i \in Bits
  PROVE  i \div UINT_BIT_NUM \in 0 .. SLOT_MAP_LEN
<1> DEFINE u == UINT_BIT_NUM
           l == SLOT_MAP_LEN
           q == i \div u
<1>1. u \in Nat /\ u > 0 /\ l \in Nat /\ i \in Nat
  BY IndexFacts
<1>2. i < l * u
  BY <1>1 DEF Bits
<1>3. q \in Nat /\ q * u <= i
  BY <1>1
<1>4. q <= l
  <2> SUFFICES ASSUME q > l PROVE FALSE
    BY <1>1, <1>3
  <2>1. q * u >= l * u
    BY <1>1, <1>3
  <2> QED
    BY <1>1, <1>2, <1>3, <2>1
<1> QED
  BY <1>1, <1>3, <1>4

-----------------------------------------------------------------------------
(***************************************************************************)
(* The inductive invariant                                                 *)
(***************************************************************************)

\* The empty list of slot sets satisfies it.
LEMMA InitIInv == Init => IInv
<1> SUFFICES ASSUME Init PROVE IInv
  OBVIOUS
<1>1. TypeOK
  <2>1. 0 \in Bits
    BY IndexFacts DEF Index
  <2>2. 0 \in 0 .. MaxSets /\ 0 \in 0 .. SLOT_NUM /\ 0 \in 0 .. SLOT_MAP_LEN
    BY SizesAssumption, IndexFacts
  <2>3. aborted \in BOOLEAN
    BY DEF Init
  <2> QED
    BY <2>1, <2>2, <2>3 DEF Init, TypeOK
<1>2. CountExact
  <2>1. Index \ Bits = {}
    BY IndexFacts
  <2> QED
    BY <2>1, FS_EmptySet DEF Init, CountExact
<1> QED
  BY <1>1, <1>2 DEF Init, IInv, OwnsLock, FoundIsFree, HeldIsUsed, HeldOnce, IdxIsZero

\* Clearing a bit that is 1 adds one to the slots in use.
LEMMA CountUp ==
  ASSUME NEW F, NEW i \in Index \cap F
  PROVE  /\ Cardinality(Index \ (F \ {i})) = Cardinality(Index \ F) + 1
         /\ Cardinality(Index \ (F \ {i})) \in 0 .. SLOT_NUM
<1>1. IsFiniteSet(Index \ F) /\ Index \ (F \ {i}) = (Index \ F) \cup {i}
  BY IndexFacts, FS_Subset
<1>2. Cardinality((Index \ F) \cup {i}) = Cardinality(Index \ F) + 1
  BY <1>1, FS_AddElement
<1>3. /\ IsFiniteSet(Index \ (F \ {i}))
      /\ Cardinality(Index \ (F \ {i})) <= SLOT_NUM
  BY IndexFacts, FS_Subset
<1>4. Cardinality(Index \ (F \ {i})) \in Nat
  BY <1>3, FS_CardinalityType
<1> QED
  BY <1>1, <1>2, <1>3, <1>4, IndexFacts

\* Setting a bit that is 0 takes one from them.
LEMMA CountDown ==
  ASSUME NEW F, NEW i \in Index \ F
  PROVE  /\ Cardinality(Index \ (F \cup {i})) = Cardinality(Index \ F) - 1
         /\ Cardinality(Index \ (F \cup {i})) \in 0 .. SLOT_NUM
<1>1. IsFiniteSet(Index \ F) /\ Index \ (F \cup {i}) = (Index \ F) \ {i}
  BY IndexFacts, FS_Subset
<1>2. Cardinality((Index \ F) \ {i}) = Cardinality(Index \ F) - 1
  BY <1>1, FS_RemoveElement
<1>3. /\ IsFiniteSet(Index \ (F \cup {i}))
      /\ Cardinality(Index \ (F \cup {i})) <= SLOT_NUM
  BY IndexFacts, FS_Subset
<1>4. Cardinality(Index \ (F \cup {i})) \in Nat
  BY <1>3, FS_CardinalityType
<1> QED
  BY <1>1, <1>2, <1>3, <1>4, IndexFacts

\* The word loop of slot_alloc (breakpoint.c:80-94) leaves a set that is not
\* full with a bit that is 1, the lock of the set, and no lock on the list.
LEMMA ScanFinds ==
  ASSUME IInv, NEW t \in Thread, Scan(t)
  PROVE  /\ curr[t] \in SetId /\ mutex[curr[t]] = t
         /\ \E i \in Index \cap free_slot[curr[t]] :
              /\ pos' = [pos EXCEPT ![t] = i]
              /\ idx' = [idx EXCEPT ![t] = i \div UINT_BIT_NUM]
         /\ readers' = readers \ {t}
         /\ pc' = [pc EXCEPT ![t] = "found"]
         /\ UNCHANGED <<mutex, curr, nsets, free_slot, used, held, aborted>>
<1> DEFINE k == curr[t]
           S == FreeFrom(k, idx[t])
<1>0. TypeOK
  BY DEF IInv
<1>1. k \in SetId /\ mutex[k] = t /\ idx[t] = 0 /\ pc[t] = "scan"
  BY DEF IInv, Scan, OwnsLock, IdxIsZero
<1>2. S = free_slot[k] /\ S \subseteq Bits
  <2>1. free_slot[k] \subseteq Bits /\ free_slot[k] \subseteq Nat
    BY <1>0, <1>1, IndexFacts DEF TypeOK
  <2>2. 0 * UINT_BIT_NUM = 0
    BY IndexFacts
  <2> QED
    BY <1>1, <2>1, <2>2 DEF FreeFrom
<1>3. PICK j \in Index : j \in S
  BY <1>1, <1>2, NotFullHasFree DEF IInv, Scan
<1>4. PICK i \in ffs(S) :
        /\ idx' = [idx EXCEPT ![t] = i \div UINT_BIT_NUM]
        /\ IF i + 1 <= SLOT_NUM
           THEN /\ pos' = [pos EXCEPT ![t] = i]
                /\ readers' = readers \ {t}
                /\ Goto(t, "found")
                /\ UNCHANGED <<mutex, curr>>
           ELSE Continue(t) /\ UNCHANGED <<pos, readers>>
  BY <1>3 DEF Scan
<1>5. i \in S /\ i \in Index
  <2>1. i \in S /\ i <= j
    BY <1>3 DEF ffs
  <2>2. i \in Nat
    BY <1>2, <2>1, IndexFacts
  <2> QED
    BY <1>3, <2>1, <2>2, IndexFacts DEF Index
<1>6. /\ pos' = [pos EXCEPT ![t] = i]
      /\ readers' = readers \ {t}
      /\ pc' = [pc EXCEPT ![t] = "found"]
      /\ UNCHANGED <<mutex, curr, nsets, free_slot, used, held, aborted>>
  BY <1>4, <1>5, IndexFacts DEF Index, Scan, setVars, Goto
<1> QED
  BY <1>1, <1>2, <1>4, <1>5, <1>6

\* Every step of slot_alloc, slot_set_add and slot_free preserves it.
LEMMA StepIInv ==
  ASSUME IInv, NEW t \in Thread, AllocStep(t) \/ slot_free(t)
  PROVE  IInv'
<1> USE DEF IInv, Goto
<1>0. TypeOK /\ MaxSets \in Nat /\ NULL \notin Thread
  BY SizesAssumption
<1>1. CASE slot_alloc(t)
  <2> USE <1>1 DEF slot_alloc, setVars, lockVars, localVars
  <2>1. TypeOK'
    BY <1>0 DEF TypeOK
  <2> QED
    BY <1>0, <2>1 DEF TypeOK, OwnsLock, FoundIsFree, HeldIsUsed, HeldOnce, CountExact, IdxIsZero
<1>2. CASE Retry(t)
  <2> USE <1>2 DEF Retry, setVars
  <2>1. TypeOK'
    BY <1>0, IndexFacts DEF TypeOK
  <2>2. CountExact'
    BY DEF CountExact
  <2> QED
    BY <1>0, <2>1, <2>2 DEF TypeOK, OwnsLock, FoundIsFree, HeldIsUsed, HeldOnce, IdxIsZero
<1>3. CASE LockSet(t)
  <2> USE <1>3 DEF LockSet, setVars, localVars
  <2>1. curr[t] \in SetId
    BY <1>0 DEF TypeOK, SetId
  <2>2. TypeOK'
    BY <1>0, <2>1 DEF TypeOK
  <2>3. OwnsLock'
    BY <1>0, <2>1 DEF TypeOK, OwnsLock
  <2>4. CountExact'
    BY DEF CountExact
  <2> QED
    BY <1>0, <2>2, <2>3, <2>4 DEF TypeOK, FoundIsFree, HeldIsUsed, HeldOnce, IdxIsZero
<1>4. CASE SkipFull(t)
  <2> USE <1>4 DEF SkipFull, Continue, setVars
  <2>1. curr[t] \in SetId /\ mutex[curr[t]] = t /\ idx[t] = 0
    BY DEF OwnsLock, IdxIsZero
  <2>2. TypeOK'
    BY <1>0, <2>1 DEF TypeOK, SetId
  <2>3. OwnsLock'
    BY <1>0, <2>1 DEF TypeOK, OwnsLock
  <2>4. CountExact'
    BY DEF CountExact
  <2> QED
    BY <1>0, <2>1, <2>2, <2>3, <2>4 DEF TypeOK, FoundIsFree, HeldIsUsed, HeldOnce, IdxIsZero
<1>5. CASE Scan(t)
  <2>1. PICK i \in Index \cap free_slot[curr[t]] :
          /\ pos' = [pos EXCEPT ![t] = i]
          /\ idx' = [idx EXCEPT ![t] = i \div UINT_BIT_NUM]
    BY <1>5, ScanFinds
  <2>2. /\ curr[t] \in SetId /\ mutex[curr[t]] = t
        /\ readers' = readers \ {t}
        /\ pc' = [pc EXCEPT ![t] = "found"]
        /\ UNCHANGED <<mutex, curr, nsets, free_slot, used, held, aborted>>
    BY <1>5, ScanFinds
  <2>3. TypeOK'
    <3>1. i \in Bits /\ i \div UINT_BIT_NUM \in 0 .. SLOT_MAP_LEN
      BY <2>1, IndexFacts, WordOfBit
    <3> QED
      BY <1>0, <2>1, <2>2, <3>1 DEF TypeOK
  <2>4. OwnsLock'
    BY <1>0, <2>2 DEF TypeOK, OwnsLock
  <2>5. FoundIsFree'
    BY <1>0, <2>1, <2>2 DEF TypeOK, FoundIsFree
  <2>6. IdxIsZero'
    BY <1>0, <2>1, <2>2 DEF TypeOK, IdxIsZero
  <2>7. HeldIsUsed' /\ HeldOnce' /\ CountExact'
    BY <2>2 DEF HeldIsUsed, HeldOnce, CountExact
  <2> QED
    BY <2>3, <2>4, <2>5, <2>6, <2>7
<1>6. CASE Found(t)
  <2> DEFINE k == curr[t]
             p == pos[t]
  <2> USE <1>6 DEF Found, localVars
  <2>1. k \in SetId /\ mutex[k] = t /\ p \in Index \cap free_slot[k]
    BY DEF OwnsLock, FoundIsFree
  <2>2. \A u \in Thread \ {t} : pc[u] \in {"scan", "found"} => curr[u] # k
    BY <2>1 DEF OwnsLock
  <2>3. CountExact' /\ used'[k] \in 0 .. SLOT_NUM
    <3>1. used[k] = Cardinality(Index \ free_slot[k])
      BY <2>1 DEF CountExact
    <3>2. used'[k] = used[k] + 1 /\ free_slot'[k] = free_slot[k] \ {p}
      BY <1>0, <2>1 DEF TypeOK
    <3>3. used'[k] = Cardinality(Index \ free_slot'[k]) /\ used'[k] \in 0 .. SLOT_NUM
      BY <2>1, <3>1, <3>2, CountUp
    <3>4. \A m \in SetId \ {k} : used'[m] = used[m] /\ free_slot'[m] = free_slot[m]
      BY <1>0 DEF TypeOK
    <3> QED
      BY <3>3, <3>4 DEF CountExact
  <2>4. TypeOK'
    BY <1>0, <2>1, <2>3 DEF TypeOK
  <2>5. OwnsLock'
    BY <1>0, <2>1, <2>2 DEF TypeOK, OwnsLock
  <2>6. FoundIsFree'
    BY <1>0, <2>1, <2>2 DEF TypeOK, FoundIsFree, OwnsLock
  <2>7. HeldIsUsed'
    BY <1>0, <2>1 DEF TypeOK, HeldIsUsed
  <2>8. HeldOnce'
    BY <1>0, <2>1 DEF TypeOK, HeldIsUsed, HeldOnce
  <2>9. IdxIsZero'
    BY <1>0 DEF TypeOK, IdxIsZero
  <2> QED
    BY <2>3, <2>4, <2>5, <2>6, <2>7, <2>8, <2>9
<1>7. CASE ListEnd(t)
  <2> USE <1>7 DEF ListEnd, setVars, localVars
  <2>1. TypeOK'
    BY <1>0 DEF TypeOK
  <2> QED
    BY <1>0, <2>1 DEF TypeOK, OwnsLock, FoundIsFree, HeldIsUsed, HeldOnce, CountExact, IdxIsZero
<1>8. CASE slot_set_add(t)
  <2> USE <1>8 DEF slot_set_add, lockVars, localVars
  <2>1. TypeOK'
    BY <1>0 DEF TypeOK
  <2> QED
    BY <1>0, <2>1 DEF TypeOK, OwnsLock, FoundIsFree, HeldIsUsed, HeldOnce, CountExact, IdxIsZero
<1>9. CASE slot_free(t)
  <2>1. PICK s \in held[t] :
          IF s[2] < UINT_BIT_NUM
          THEN /\ mutex[s[1]] = NULL
               /\ free_slot' = [free_slot EXCEPT ![s[1]] = @ \cup {s[2]}]
               /\ used' = [used EXCEPT ![s[1]] =
                             IF s[2] \in free_slot[s[1]] THEN @ ELSE @ - 1]
               /\ held' = [held EXCEPT ![t] = @ \ {s}]
               /\ UNCHANGED aborted
          ELSE aborted' = TRUE /\ UNCHANGED <<free_slot, used, held>>
    BY <1>9 DEF slot_free
  <2>2. UNCHANGED <<nsets, mutex, readers, pc, curr, idx, pos>>
    BY <1>9 DEF slot_free, lockVars, localVars
  <2>3. s \in SetId \X Index /\ s[1] \in SetId /\ s[2] \in Index \ free_slot[s[1]]
    BY <1>0 DEF TypeOK, HeldIsUsed
  <2>4. CASE s[2] < UINT_BIT_NUM
    <3> DEFINE k == s[1]
               p == s[2]
    <3>1. /\ mutex[k] = NULL
          /\ free_slot' = [free_slot EXCEPT ![k] = @ \cup {p}]
          /\ used' = [used EXCEPT ![k] = @ - 1]
          /\ held' = [held EXCEPT ![t] = @ \ {s}]
          /\ UNCHANGED aborted
      BY <2>1, <2>3, <2>4
    <3>2. CountExact' /\ used'[k] \in 0 .. SLOT_NUM
      <4>1. used[k] = Cardinality(Index \ free_slot[k])
        BY <2>3 DEF CountExact
      <4>2. used'[k] = used[k] - 1 /\ free_slot'[k] = free_slot[k] \cup {p}
        BY <1>0, <2>3, <3>1 DEF TypeOK
      <4>3. used'[k] = Cardinality(Index \ free_slot'[k]) /\ used'[k] \in 0 .. SLOT_NUM
        <5>1. /\ Cardinality(Index \ (free_slot[k] \cup {p})) = Cardinality(Index \ free_slot[k]) - 1
              /\ Cardinality(Index \ (free_slot[k] \cup {p})) \in 0 .. SLOT_NUM
          BY <2>3, CountDown
        <5> QED
          BY <4>1, <4>2, <5>1
      <4>4. \A m \in SetId \ {k} : used'[m] = used[m] /\ free_slot'[m] = free_slot[m]
        BY <1>0, <3>1 DEF TypeOK
      <4> QED
        BY <4>3, <4>4 DEF CountExact
    <3>3. TypeOK'
      BY <1>0, <2>2, <2>3, <3>1, <3>2, IndexFacts DEF TypeOK
    <3>4. OwnsLock' /\ IdxIsZero'
      BY <2>2 DEF OwnsLock, IdxIsZero
    <3>5. FoundIsFree'
      BY <1>0, <2>2, <2>3, <3>1 DEF TypeOK, FoundIsFree, OwnsLock
    <3>6. HeldIsUsed'
      <4> SUFFICES ASSUME NEW u \in Thread, NEW r \in held'[u]
                   PROVE  r[2] \notin free_slot'[r[1]]
        BY DEF HeldIsUsed
      <4>1. r \in held[u] /\ r # s
        BY <1>0, <3>1 DEF TypeOK, HeldOnce
      <4>2. r \in SetId \X Index /\ r[2] \notin free_slot[r[1]]
        BY <1>0, <4>1 DEF TypeOK, HeldIsUsed
      <4> QED
        BY <1>0, <2>3, <3>1, <4>1, <4>2 DEF TypeOK
    <3>7. HeldOnce'
      BY <1>0, <3>1 DEF TypeOK, HeldOnce
    <3> QED
      BY <3>2, <3>3, <3>4, <3>5, <3>6, <3>7
  <2>5. CASE ~(s[2] < UINT_BIT_NUM)
    <3>1. aborted' = TRUE /\ UNCHANGED <<free_slot, used, held>>
      BY <2>1, <2>5
    <3>2. TypeOK'
      BY <1>0, <2>2, <3>1 DEF TypeOK
    <3> QED
      BY <2>2, <3>1, <3>2 DEF OwnsLock, FoundIsFree, HeldIsUsed, HeldOnce, CountExact, IdxIsZero
  <2> QED
    BY <2>4, <2>5
<1> QED
  BY <1>1, <1>2, <1>3, <1>4, <1>5, <1>6, <1>7, <1>8, <1>9 DEF AllocStep

\* IInv holds in every state of the allocator (breakpoint.c:29-136).
THEOREM Invariance == Spec => []IInv
<1>1. IInv /\ [Next]_vars => IInv'
  <2> SUFFICES ASSUME IInv, [Next]_vars PROVE IInv'
    OBVIOUS
  <2>1. CASE Next
    BY <2>1, StepIInv DEF Next
  <2>2. CASE UNCHANGED vars
    BY <2>2 DEF vars, setVars, lockVars, localVars, IInv, TypeOK, OwnsLock, FoundIsFree,
                HeldIsUsed, HeldOnce, CountExact, IdxIsZero
  <2> QED
    BY <2>1, <2>2
<1> QED
  BY <1>1, InitIInv, PTL DEF Spec

-----------------------------------------------------------------------------
(***************************************************************************)
(* What follows from it                                                    *)
(***************************************************************************)

\* The allocator's variables keep their types: used_slot_count stays within
\* 0 .. SLOT_NUM, and slot_alloc reads and clears bits of free_slot only.
THEOREM TypeCorrect == Spec => []TypeOK
<1>1. IInv => TypeOK
  BY DEF IInv
<1> QED
  BY <1>1, Invariance, PTL

\* used_slot_count is the number of slots in use, in every state.
THEOREM CountIsExact == Spec => []CountExact
<1>1. IInv => CountExact
  BY DEF IInv
<1> QED
  BY <1>1, Invariance, PTL

\* The carried-over word index of slot_alloc (breakpoint.c:72, 82) is 0
\* whenever the search goes on with a slot set.
THEOREM IdxIsZeroWhenItMatters == Spec => []IdxIsZeroBetweenSets
<1>1. IInv => IdxIsZeroBetweenSets
  BY DEF IInv, IdxIsZero, IdxIsZeroBetweenSets
<1> QED
  BY <1>1, Invariance, PTL

\* A step of the allocator is a step of SlotPool or leaves it alone: only
\* the step at label found gives a slot, only slot_free takes one back.
LEMMA StepIsPoolStep ==
  ASSUME IInv, Next PROVE [Pool!Next]_held
<1>1. PICK t \in Thread : AllocStep(t) \/ slot_free(t)
  BY DEF Next
<1>2. CASE Found(t)
  <2> DEFINE s == <<curr[t], pos[t]>>
  <2>1. curr[t] \in SetId /\ pos[t] \in Index \cap free_slot[curr[t]]
    BY <1>2 DEF IInv, OwnsLock, FoundIsFree, Found
  <2>2. s \in SetId \X Index
    BY <2>1
  <2>3. \A u \in Thread : s \notin held[u]
    BY <2>1 DEF IInv, HeldIsUsed
  <2>4. s \in (SetId \X Index) \ Pool!InUse
    BY <2>2, <2>3 DEF Pool!InUse
  <2>5. held' = [held EXCEPT ![t] = @ \cup {s}]
    BY <1>2 DEF Found
  <2> QED
    BY <2>4, <2>5 DEF Pool!Alloc, Pool!Next
<1>3. CASE slot_free(t)
  <2>1. \/ \E s \in held[t] : held' = [held EXCEPT ![t] = @ \ {s}]
        \/ UNCHANGED held
    BY <1>3 DEF slot_free
  <2> QED
    BY <2>1 DEF Pool!Free, Pool!Next
<1>4. CASE AllocStep(t) /\ ~Found(t)
  BY <1>4 DEF AllocStep, slot_alloc, Retry, LockSet, SkipFull, Scan, ListEnd, slot_set_add
<1> QED
  BY <1>1, <1>2, <1>3, <1>4

\* The allocator implements SlotPool: however many threads call slot_alloc
\* and slot_free, a slot that is handed out is handed to one holder, and its
\* instruction is not overwritten until that holder frees it.
THEOREM Refinement == Spec => ImplementsPool
<1>1. Init => Pool!Init
  BY DEF Init, Pool!Init
<1>2. IInv /\ [Next]_vars => [Pool!Next]_held
  <2>1. ASSUME IInv, Next PROVE [Pool!Next]_held
    BY <2>1, StepIsPoolStep
  <2>2. ASSUME UNCHANGED vars PROVE UNCHANGED held
    BY <2>2 DEF vars
  <2> QED
    BY <2>1, <2>2
<1> QED
  BY <1>1, <1>2, Invariance, PTL DEF Spec, ImplementsPool, Pool!Spec

-----------------------------------------------------------------------------
(***************************************************************************)
(* The race at "FIXME" (breakpoint.c:100), when slots are only allocated.  *)
(* A set that is not full belongs to the thread that created it: a thread  *)
(* creates a set only after it has seen all of its own full, so each       *)
(* thread owns at most one, and it will still come to it.                  *)
(***************************************************************************)
NotFull(k) == k \in 1 .. nsets /\ used[k] < SLOT_NUM

Owns(owner) ==
  /\ \A k, m \in SetId : NotFull(k) /\ NotFull(m) /\ owner[k] = owner[m] => k = m
  /\ \A k \in SetId : NotFull(k) =>
       /\ pc[owner[k]] # "add"
       /\ pc[owner[k]] \in {"next", "scan"} => k <= curr[owner[k]]

OwnInv == \E owner \in [SetId -> Thread] : Owns(owner)

\* A step of slot_alloc keeps the owners, or adds a set with an owner that
\* has none.
LEMMA StepOwnInv ==
  ASSUME IInv, OwnInv, NEW t \in Thread, AllocStep(t)
  PROVE  OwnInv'
<1>0. TypeOK /\ MaxSets \in Nat
  BY SizesAssumption DEF IInv
<1>1. PICK owner \in [SetId -> Thread] : Owns(owner)
  BY DEF OwnInv
<1>2. \A k \in SetId : owner[k] \in Thread /\ used[k] \in 0 .. SLOT_NUM /\ k \in Nat
  BY <1>0, <1>1 DEF TypeOK, SetId
<1>3. CASE slot_alloc(t)
  <2>1. Owns(owner)'
    BY <1>0, <1>1, <1>2, <1>3 DEF slot_alloc, Goto, setVars, localVars, TypeOK, Owns, NotFull
  <2> QED
    BY <2>1 DEF OwnInv
<1>4. CASE Retry(t)
  <2>1. Owns(owner)'
    BY <1>0, <1>1, <1>2, <1>4 DEF Retry, Goto, setVars, TypeOK, Owns, NotFull
  <2> QED
    BY <2>1 DEF OwnInv
<1>5. CASE LockSet(t)
  <2>1. Owns(owner)'
    BY <1>0, <1>1, <1>2, <1>5 DEF LockSet, Goto, setVars, localVars, TypeOK, Owns, NotFull
  <2> QED
    BY <2>1 DEF OwnInv
<1>6. CASE SkipFull(t)
  <2>1. curr[t] \in SetId /\ ~NotFull(curr[t])
    BY <1>2, <1>6, IndexFacts DEF SkipFull, IInv, OwnsLock, NotFull
  <2>2. /\ pc' = [pc EXCEPT ![t] = "next"] /\ curr' = [curr EXCEPT ![t] = @ - 1]
        /\ UNCHANGED <<nsets, used>> /\ pc[t] = "scan"
    BY <1>6 DEF SkipFull, Continue, Goto, setVars
  <2>3. \A k \in SetId : NotFull(k)' <=> NotFull(k)
    BY <2>2 DEF NotFull
  <2>4. \A k \in SetId : NotFull(k) /\ owner[k] = t => k <= curr[t] - 1
    BY <1>0, <1>1, <1>2, <2>1, <2>2 DEF Owns, TypeOK, SetId
  <2>5. Owns(owner)'
    BY <1>0, <1>1, <1>2, <2>2, <2>3, <2>4 DEF Owns, TypeOK
  <2> QED
    BY <2>5 DEF OwnInv
<1>7. CASE Scan(t)
  <2>1. UNCHANGED <<nsets, used, curr>> /\ pc' = [pc EXCEPT ![t] = "found"]
    BY <1>7, ScanFinds
  <2>2. Owns(owner)'
    BY <1>0, <1>1, <1>2, <2>1 DEF TypeOK, Owns, NotFull
  <2> QED
    BY <2>2 DEF OwnInv
<1>8. CASE Found(t)
  <2>1. /\ curr[t] \in SetId /\ used' = [used EXCEPT ![curr[t]] = @ + 1]
        /\ pc' = [pc EXCEPT ![t] = "idle"] /\ UNCHANGED <<nsets, curr>>
    BY <1>8 DEF Found, Goto, localVars, IInv, OwnsLock
  <2>2. \A k \in SetId : NotFull(k)' => NotFull(k)
    BY <1>0, <1>2, <2>1, IndexFacts DEF TypeOK, NotFull
  <2>3. Owns(owner)'
    BY <1>0, <1>1, <1>2, <2>1, <2>2 DEF TypeOK, Owns
  <2> QED
    BY <2>3 DEF OwnInv
<1>9. CASE ListEnd(t)
  <2>1. \A k \in SetId : NotFull(k) => owner[k] # t
    BY <1>1, <1>2, <1>9 DEF ListEnd, Owns, SetId
  <2>2. /\ pc' = [pc EXCEPT ![t] = "add"] /\ UNCHANGED <<nsets, used, curr>>
    BY <1>9 DEF ListEnd, Goto, setVars, localVars
  <2>3. Owns(owner)'
    BY <1>0, <1>1, <1>2, <2>1, <2>2 DEF TypeOK, Owns, NotFull
  <2> QED
    BY <2>3 DEF OwnInv
<1>10. CASE slot_set_add(t)
  <2>0. PICK n : n = nsets + 1
    OBVIOUS
  <2>1. /\ pc[t] = "add" /\ n \in SetId /\ nsets' = n
        /\ pc' = [pc EXCEPT ![t] = "retry"] /\ UNCHANGED <<used, curr>>
    BY <1>0, <1>10, <2>0 DEF slot_set_add, Goto, localVars, TypeOK, SetId
  <2>2. PICK new \in [SetId -> Thread] : new = [owner EXCEPT ![n] = t]
    BY <1>1
  <2>3. \A k \in SetId : NotFull(k)' => k = n \/ (k # n /\ NotFull(k))
    BY <1>0, <1>2, <2>0, <2>1 DEF NotFull, TypeOK
  <2>4. \A k \in SetId \ {n} : new[k] = owner[k]
    BY <1>1, <2>2
  <2>5. new[n] = t
    BY <1>1, <2>1, <2>2
  <2>6. \A k \in SetId : NotFull(k) => owner[k] # t
    BY <1>1, <2>1 DEF Owns
  <2>7. Owns(new)'
    <3>1. ASSUME NEW k \in SetId, NEW m \in SetId, NotFull(k)', NotFull(m)', new[k] = new[m]
          PROVE  k = m
      BY <1>1, <2>3, <2>4, <2>5, <2>6, <3>1 DEF Owns
    <3>2. ASSUME NEW k \in SetId, NotFull(k)'
          PROVE  /\ pc'[new[k]] # "add"
                 /\ pc'[new[k]] \in {"next", "scan"} => k <= curr'[new[k]]
      <4>1. CASE k = n
        BY <1>0, <2>1, <2>5, <4>1 DEF TypeOK
      <4>2. CASE k # n
        <5>1. NotFull(k) /\ new[k] = owner[k] /\ owner[k] # t
          BY <2>3, <2>4, <2>6, <3>2, <4>2
        <5> QED
          BY <1>0, <1>1, <1>2, <2>1, <5>1 DEF TypeOK, Owns
      <4> QED
        BY <4>1, <4>2
    <3> QED
      BY <3>1, <3>2 DEF Owns
  <2> QED
    BY <2>2, <2>7 DEF OwnInv
<1> QED
  BY <1>3, <1>4, <1>5, <1>6, <1>7, <1>8, <1>9, <1>10 DEF AllocStep

\* Sets with different owners are not more than there are threads.
LEMMA OwnersBound ==
  ASSUME IsFiniteSet(Thread), TypeOK, OwnInv
  PROVE  OverAllocationBound
<1> DEFINE S == {k \in 1 .. nsets : used[k] < SLOT_NUM}
<1>1. PICK owner \in [SetId -> Thread] : Owns(owner)
  BY DEF OwnInv
<1>2. S \subseteq SetId /\ \A k \in S : NotFull(k)
  BY SizesAssumption DEF TypeOK, SetId, NotFull
<1> DEFINE f == [k \in S |-> owner[k]]
<1>3. f \in Injection(S, Thread)
  BY <1>1, <1>2 DEF Owns, Injection, IsInjective
<1>4. Cardinality(S) <= Cardinality(Thread)
  BY <1>3, FS_Injection
<1> QED
  BY <1>4 DEF OverAllocationBound

\* However many threads allocate at once, at most one slot set per thread is
\* created in vain (breakpoint.c:96-103): slot_alloc never leaves more sets
\* with a free slot than there are threads.
THEOREM WasteIsBounded ==
  ASSUME IsFiniteSet(Thread), Thread # {} PROVE AllocSpec => []OverAllocationBound
<1>1. Init => IInv /\ OwnInv
  <2> SUFFICES ASSUME Init PROVE OwnInv
    BY InitIInv
  <2>1. PICK t \in Thread : TRUE
    OBVIOUS
  <2>2. [k \in SetId |-> t] \in [SetId -> Thread] /\ Owns([k \in SetId |-> t])
    BY DEF Init, Owns, NotFull
  <2> QED
    BY <2>2 DEF OwnInv
<1>2. IInv /\ OwnInv /\ [NextAlloc]_vars => (IInv /\ OwnInv)'
  <2> SUFFICES ASSUME IInv, OwnInv, [NextAlloc]_vars PROVE IInv' /\ OwnInv'
    OBVIOUS
  <2>1. CASE NextAlloc
    BY <2>1, StepIInv, StepOwnInv DEF NextAlloc
  <2>2. CASE UNCHANGED vars
    BY <2>2 DEF vars, setVars, lockVars, localVars, IInv, TypeOK, OwnsLock, FoundIsFree,
                HeldIsUsed, HeldOnce, CountExact, IdxIsZero, OwnInv, Owns, NotFull
  <2> QED
    BY <2>1, <2>2
<1>3. IInv /\ OwnInv => OverAllocationBound
  BY OwnersBound DEF IInv
<1> QED
  BY <1>1, <1>2, <1>3, PTL DEF AllocSpec
=============================================================================
