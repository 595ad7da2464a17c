-------------------------- MODULE ThreadMapProofs ---------------------------
(***************************************************************************)
(* Proofs about ThreadMap, for any thread ids, objects and number of       *)
(* buckets: the map has one object per thread, the handlers' add always    *)
(* succeeds, and a thread keeps its object.                                *)
(***************************************************************************)
EXTENDS ThreadMap, SequenceTheorems, TLAPS

\* n is the object of t in the map.
ObjectOf(t, n) == n \in Node /\ Chained(n) /\ tid[n] = t

\* No object in the map has t's tid.
Unmapped(t) ==
  \A h \in Bucket : \A i \in DOMAIN thread_map[h] : tid[thread_map[h][i]] # t

\* From a failed find to the add, nobody else adds this thread's object, and
\* the object to be added is new.
AddingIsNew ==
  \A t \in Tid :
    /\ pc[t] \in {"new", "add"} => Unmapped(t)
    /\ pc[t] = "add" => thread[t] \in Node /\ tid[thread[t]] = t

\* A handler that goes on holds the object of its thread.
HasObject ==
  \A t \in Tid :
    /\ pc[t] # "rejected"
    /\ pc[t] = "have" => ObjectOf(t, thread[t])

\* So did the handler of the last trap.
GotObject == \A t \in Tid : got[t] # NULL => ObjectOf(t, got[t])

IInv ==
  /\ TypeOK
  /\ OneObjectPerTid
  /\ AddingIsNew
  /\ HasObject
  /\ GotObject

-----------------------------------------------------------------------------
(***************************************************************************)
(* The operators                                                           *)
(***************************************************************************)

\* A tid hashes to a bucket of the table (thread.c:9).
LEMMA HashInBucket ==
  ASSUME NEW t \in Tid PROVE HashOf(t) \in Bucket
<1>1. t \in Nat /\ THREAD_MAP_SIZE \in Nat /\ THREAD_MAP_SIZE > 0
  BY MapAssumption
<1> QED
  BY <1>1 DEF HashOf, Bucket

\* thread_map_find_internal returns the object of the tid, and NULL only
\* when the whole map has none (thread.c:45-57).
LEMMA FindInternal ==
  ASSUME TypeOK, OneObjectPerTid, NEW t \in Tid
  PROVE  /\ thread_map_find_internal(t) = NULL => Unmapped(t)
         /\ thread_map_find_internal(t) # NULL =>
              ObjectOf(t, thread_map_find_internal(t))
<1> DEFINE chain == thread_map[HashOf(t)]
           hits  == {i \in DOMAIN chain : tid[chain[i]] = t}
<1>1. HashOf(t) \in Bucket /\ chain \in Seq(Node)
  BY HashInBucket DEF TypeOK
<1>2. \A i \in DOMAIN chain : chain[i] \in Node
  BY <1>1, LenProperties
<1>3. CASE hits = {}
  <2>1. Unmapped(t)
    <3> SUFFICES ASSUME NEW h \in Bucket, NEW i \in DOMAIN thread_map[h],
                        tid[thread_map[h][i]] = t
                 PROVE  FALSE
      BY DEF Unmapped
    <3>1. h = HashOf(t)
      BY DEF OneObjectPerTid
    <3> QED
      BY <1>3, <3>1
  <2> QED
    BY <1>3, <2>1 DEF thread_map_find_internal
<1>4. CASE hits # {}
  <2>1. PICK i \in hits : TRUE
    BY <1>4
  <2>2. hits = {i}
    BY <1>1, <2>1 DEF OneObjectPerTid
  <2>3. i \in Nat
    BY <1>1, <2>1, LenProperties
  <2>4. (CHOOSE k \in hits : \A j \in hits : k <= j) = i
    BY <2>2, <2>3
  <2>5. thread_map_find_internal(t) = chain[i]
    BY <1>4, <2>4 DEF thread_map_find_internal
  <2>6. ObjectOf(t, chain[i])
    BY <1>1, <1>2, <2>1 DEF ObjectOf, Chained
  <2> QED
    BY <2>5, <2>6, MapAssumption DEF ObjectOf
<1> QED
  BY <1>3, <1>4

\* A thread has one object.
LEMMA ObjectIsUnique ==
  ASSUME OneObjectPerTid, NEW t \in Tid, NEW n, NEW m, ObjectOf(t, n), ObjectOf(t, m)
  PROVE  n = m
BY DEF OneObjectPerTid, ObjectOf, Chained

-----------------------------------------------------------------------------
(***************************************************************************)
(* The inductive invariant                                                 *)
(***************************************************************************)

\* The empty map satisfies it.
LEMMA InitIInv == Init => IInv
<1> SUFFICES ASSUME Init PROVE IInv
  OBVIOUS
<1>1. \A h \in Bucket : thread_map[h] = <<>> /\ DOMAIN thread_map[h] = {}
  BY DEF Init
<1>2. TypeOK
  BY <1>1, EmptySeq DEF Init, TypeOK
<1> QED
  BY <1>1, <1>2 DEF Init, IInv, OneObjectPerTid, AddingIsNew, HasObject, GotObject

\* Every step of a handler preserves it.
LEMMA StepIInv ==
  ASSUME IInv, NEW t \in Tid, Step(t)
  PROVE  IInv'
<1> USE DEF IInv
<1>0. TypeOK /\ NULL \notin Node /\ NULL \notin Tid
  BY MapAssumption
<1>1. CASE Trap(t)
  <2> USE <1>1 DEF Trap, Goto
  <2>1. TypeOK'
    BY <1>0 DEF TypeOK
  <2>2. OneObjectPerTid' /\ GotObject'
    BY DEF OneObjectPerTid, GotObject, ObjectOf, Chained
  <2> QED
    BY <1>0, <2>1, <2>2 DEF TypeOK, AddingIsNew, HasObject, Unmapped, ObjectOf, Chained
<1>2. CASE thread_map_find(t)
  <2> DEFINE r == thread_map_find_internal(t)
  <2> USE <1>2 DEF thread_map_find, Goto
  <2>1. (r = NULL => Unmapped(t)) /\ (r # NULL => ObjectOf(t, r))
    BY FindInternal
  <2> HIDE DEF r
  <2>2. thread' = [thread EXCEPT ![t] = r] /\ r \in Node \cup {NULL}
    BY <2>1 DEF r, ObjectOf
  <2>3. pc' = [pc EXCEPT ![t] = IF r = NULL THEN "new" ELSE "have"]
    BY DEF r
  <2>4. UNCHANGED <<thread_map, tid, got, fault>>
    OBVIOUS
  <2>5. TypeOK'
    BY <1>0, <2>2, <2>3, <2>4 DEF TypeOK
  <2>6. OneObjectPerTid' /\ GotObject'
    BY <2>4 DEF OneObjectPerTid, GotObject, ObjectOf, Chained
  <2>7. AddingIsNew'
    BY <1>0, <2>1, <2>2, <2>3, <2>4 DEF TypeOK, AddingIsNew, Unmapped
  <2>8. HasObject'
    BY <1>0, <2>1, <2>2, <2>3, <2>4 DEF TypeOK, HasObject, ObjectOf, Chained
  <2> QED
    BY <2>5, <2>6, <2>7, <2>8
<1>3. CASE thread_new(t)
  <2>1. PICK n \in Node :
          /\ tid[n] = NULL
          /\ tid' = [tid EXCEPT ![n] = t]
          /\ thread' = [thread EXCEPT ![t] = n]
    BY <1>3 DEF thread_new
  <2>2. pc' = [pc EXCEPT ![t] = "add"] /\ UNCHANGED <<thread_map, got, fault>>
    BY <1>3 DEF thread_new, Goto
  <2>3. pc[t] = "new" /\ Unmapped(t)
    BY <1>3 DEF thread_new, AddingIsNew
  <2>4. TypeOK'
    BY <1>0, <2>1, <2>2 DEF TypeOK
  <2>5. ~Chained(n)
    BY <1>0, <2>1 DEF OneObjectPerTid, Chained
  <2>6. \A h \in Bucket : \A i \in DOMAIN thread_map[h] :
          thread_map[h][i] \in Node /\ tid'[thread_map[h][i]] = tid[thread_map[h][i]]
    <3> SUFFICES ASSUME NEW h \in Bucket, NEW i \in DOMAIN thread_map[h]
                 PROVE  /\ thread_map[h][i] \in Node
                        /\ tid'[thread_map[h][i]] = tid[thread_map[h][i]]
      OBVIOUS
    <3>1. thread_map[h][i] \in Node
      BY <1>0, LenProperties DEF TypeOK
    <3>2. thread_map[h][i] # n
      BY <2>5 DEF Chained
    <3> QED
      BY <1>0, <2>1, <3>1, <3>2 DEF TypeOK
  <2>7. OneObjectPerTid'
    BY <2>2, <2>6 DEF OneObjectPerTid
  <2>8. \A u, m : ObjectOf(u, m) => ObjectOf(u, m)'
    BY <1>0, <2>1, <2>2, <2>5 DEF TypeOK, ObjectOf, Chained
  <2>9. AddingIsNew'
    <3> SUFFICES ASSUME NEW u \in Tid
                 PROVE  /\ pc'[u] \in {"new", "add"} => Unmapped(u)'
                        /\ pc'[u] = "add" => thread'[u] \in Node /\ tid'[thread'[u]] = u
      BY DEF AddingIsNew
    <3>1. Unmapped(u) => Unmapped(u)'
      BY <2>2, <2>6 DEF Unmapped
    <3>2. CASE u = t
      BY <1>0, <2>1, <2>2, <2>3, <3>1, <3>2 DEF TypeOK
    <3>3. CASE u # t
      <4>1. pc'[u] = pc[u] /\ thread'[u] = thread[u]
        BY <1>0, <2>1, <2>2, <3>3 DEF TypeOK
      <4>2. pc[u] = "add" => thread[u] \in Node /\ tid[thread[u]] = u
        BY DEF AddingIsNew
      <4>3. pc[u] = "add" => tid'[thread[u]] = u
        BY <1>0, <2>1, <4>2 DEF TypeOK
      <4> QED
        BY <3>1, <4>1, <4>2, <4>3 DEF AddingIsNew
    <3> QED
      BY <3>2, <3>3
  <2>10. HasObject'
    BY <1>0, <2>1, <2>2, <2>8 DEF TypeOK, HasObject
  <2>11. GotObject'
    BY <2>2, <2>8 DEF GotObject
  <2> QED
    BY <2>4, <2>7, <2>9, <2>10, <2>11
<1>4. CASE thread_map_add(t)
  <2> DEFINE n == thread[t]
             g == HashOf(t)
             old == thread_map[g]
             new == <<n>> \o old
  <2>1. pc[t] = "add" /\ Unmapped(t) /\ n \in Node /\ tid[n] = t /\ g \in Bucket
    BY <1>4, HashInBucket DEF thread_map_add, AddingIsNew
  <2>2. thread_map_find_internal(tid[n]) = NULL
    BY <2>1, FindInternal DEF ObjectOf, Chained, Unmapped
  <2>3. /\ thread_map' = [thread_map EXCEPT ![g] = new]
        /\ pc' = [pc EXCEPT ![t] = "have"]
        /\ UNCHANGED <<tid, thread, got, fault>>
    BY <1>4, <2>1, <2>2 DEF thread_map_add, Goto
  <2>4. old \in Seq(Node) /\ Len(old) \in Nat /\ DOMAIN old = 1 .. Len(old)
    BY <1>0, <2>1, LenProperties DEF TypeOK
  <2>5. /\ new \in Seq(Node)
        /\ DOMAIN new = 1 .. (Len(old) + 1)
        /\ new[1] = n
        /\ \A i \in 2 .. (Len(old) + 1) : i - 1 \in DOMAIN old /\ new[i] = old[i - 1]
        /\ \A i \in DOMAIN old : i + 1 \in DOMAIN new /\ new[i + 1] = old[i]
    BY <2>1, <2>4
  <2> HIDE DEF new
  <2>6. \A h \in Bucket \ {g} : thread_map'[h] = thread_map[h]
    BY <1>0, <2>3 DEF TypeOK
  <2>7. thread_map'[g] = new
    BY <1>0, <2>1, <2>3 DEF TypeOK
  <2>8. TypeOK'
    BY <1>0, <2>3, <2>5 DEF TypeOK
  <2>9. \A h \in Bucket : \A i \in DOMAIN thread_map'[h] :
          \/ h = g /\ i = 1 /\ thread_map'[h][i] = n
          \/ h = g /\ i - 1 \in DOMAIN old /\ thread_map'[h][i] = old[i - 1] /\ i \in Int
          \/ h # g /\ i \in DOMAIN thread_map[h] /\ thread_map'[h][i] = thread_map[h][i]
    BY <2>4, <2>5, <2>6, <2>7
  <2>10. OneObjectPerTid'
    <3> SUFFICES ASSUME NEW h \in Bucket, NEW k \in Bucket,
                        NEW i \in DOMAIN thread_map'[h], NEW j \in DOMAIN thread_map'[k]
                 PROVE  /\ tid[thread_map'[h][i]] \in Tid /\ HashOf(tid[thread_map'[h][i]]) = h
                        /\ tid[thread_map'[h][i]] = tid[thread_map'[k][j]] => h = k /\ i = j
      BY <2>3 DEF OneObjectPerTid
    <3>1. tid[thread_map'[h][i]] \in Tid /\ HashOf(tid[thread_map'[h][i]]) = h
      BY <2>1, <2>9 DEF OneObjectPerTid
    <3>2. \A q \in Bucket : \A m \in DOMAIN thread_map[q] : tid[thread_map[q][m]] # tid[n]
      BY <2>1 DEF Unmapped
    <3>3. ASSUME tid[thread_map'[h][i]] = tid[thread_map'[k][j]] PROVE h = k /\ i = j
      <4>1. tid[thread_map'[k][j]] \in Tid /\ HashOf(tid[thread_map'[k][j]]) = k
        BY <2>1, <2>9 DEF OneObjectPerTid
      <4>2. h = k
        BY <3>1, <3>3, <4>1
      <4>3. CASE h # g
        BY <2>6, <3>3, <4>2, <4>3 DEF OneObjectPerTid
      <4>4. CASE h = g
        <5>1. /\ i \in 1 .. (Len(old) + 1) /\ j \in 1 .. (Len(old) + 1)
              /\ tid[new[i]] = tid[new[j]]
          BY <2>5, <2>7, <3>3, <4>2, <4>4
        <5>2. \A m \in 2 .. (Len(old) + 1) : tid[new[m]] # tid[n]
          BY <2>1, <2>5, <3>2
        <5>3. CASE i = 1 \/ j = 1
          <6>1. i \notin 2 .. (Len(old) + 1) /\ j \notin 2 .. (Len(old) + 1)
            BY <2>4, <2>5, <5>1, <5>2, <5>3
          <6> QED
            BY <2>4, <4>2, <5>1, <6>1
        <5>4. CASE i # 1 /\ j # 1
          <6>1. i \in 2 .. (Len(old) + 1) /\ j \in 2 .. (Len(old) + 1)
            BY <2>4, <5>1, <5>4
          <6>2. i - 1 \in DOMAIN old /\ j - 1 \in DOMAIN old /\ tid[old[i - 1]] = tid[old[j - 1]]
            BY <2>5, <5>1, <6>1
          <6>3. i - 1 = j - 1
            BY <2>1, <6>2 DEF OneObjectPerTid
          <6> QED
            BY <2>4, <4>2, <5>1, <6>3
        <5> QED
          BY <5>3, <5>4
      <4> QED
        BY <4>3, <4>4
    <3> QED
      BY <3>1, <3>3
  <2>11. \A m : Chained(m) \/ m = n => Chained(m)'
    <3> SUFFICES ASSUME NEW m, Chained(m) \/ m = n PROVE Chained(m)'
      OBVIOUS
    <3>1. CASE m = n
      <4>1. 1 \in DOMAIN new /\ new[1] = m
        BY <2>4, <2>5, <3>1
      <4> QED
        BY <2>1, <2>7, <4>1 DEF Chained
    <3>2. CASE Chained(m)
      <4>1. PICK h \in Bucket : \E i \in DOMAIN thread_map[h] : thread_map[h][i] = m
        BY <3>2 DEF Chained
      <4>2. PICK i \in DOMAIN thread_map[h] : thread_map[h][i] = m
        BY <4>1
      <4>3. CASE h = g
        BY <2>5, <2>7, <4>2, <4>3 DEF Chained
      <4>4. CASE h # g
        BY <2>6, <4>2, <4>4 DEF Chained
      <4> QED
        BY <4>3, <4>4
    <3> QED
      BY <3>1, <3>2
  <2>12. \A u, m : ObjectOf(u, m) => ObjectOf(u, m)'
    BY <2>3, <2>11 DEF ObjectOf
  <2>13. \A u \in Tid \ {t} : Unmapped(u) => Unmapped(u)'
    BY <2>1, <2>3, <2>9 DEF Unmapped
  <2>14. AddingIsNew'
    BY <1>0, <2>3, <2>13 DEF TypeOK, AddingIsNew
  <2>15. HasObject'
    <3>1. ObjectOf(t, thread[t])'
      BY <2>1, <2>3, <2>11 DEF ObjectOf
    <3> QED
      BY <1>0, <2>3, <2>12, <3>1 DEF TypeOK, HasObject
  <2>16. GotObject'
    BY <2>3, <2>12 DEF GotObject
  <2> QED
    BY <2>8, <2>10, <2>14, <2>15, <2>16
<1>5. CASE HandlerReturns(t)
  <2> USE <1>5 DEF HandlerReturns, Goto
  <2>1. ObjectOf(t, thread[t])
    BY DEF HasObject
  <2>2. TypeOK'
    BY <1>0 DEF TypeOK
  <2>3. OneObjectPerTid'
    BY DEF OneObjectPerTid
  <2>4. \A u, m : ObjectOf(u, m) => ObjectOf(u, m)'
    BY DEF ObjectOf, Chained
  <2>5. GotObject'
    BY <1>0, <2>1, <2>4 DEF TypeOK, GotObject
  <2>6. AddingIsNew' /\ HasObject'
    BY <1>0, <2>4 DEF TypeOK, AddingIsNew, HasObject, Unmapped
  <2> QED
    BY <2>2, <2>3, <2>5, <2>6
<1>6. CASE thread_map_del(t)
  <2>1. /\ pc' = [pc EXCEPT ![t] = "deleted"]
        /\ fault' \in BOOLEAN
        /\ UNCHANGED <<thread_map, tid, thread, got>>
    BY <1>6 DEF thread_map_del, Goto
  <2>2. TypeOK'
    BY <1>0, <2>1 DEF TypeOK
  <2>3. OneObjectPerTid' /\ GotObject'
    BY <2>1 DEF OneObjectPerTid, GotObject, ObjectOf, Chained
  <2>4. AddingIsNew' /\ HasObject'
    BY <1>0, <2>1 DEF TypeOK, AddingIsNew, HasObject, Unmapped, ObjectOf, Chained
  <2> QED
    BY <2>2, <2>3, <2>4
<1> QED
  BY <1>1, <1>2, <1>3, <1>4, <1>5, <1>6 DEF Step

\* IInv holds in every state of the handlers (thread.c:45-88,
\* hook_main.c:46-53, 96-103).
THEOREM Invariance == Spec => []IInv
<1>1. IInv /\ [Next]_vars => IInv'
  <2> SUFFICES ASSUME IInv, [Next]_vars PROVE IInv'
    OBVIOUS
  <2>1. CASE Next
    BY <2>1, StepIInv DEF Next
  <2>2. CASE UNCHANGED vars
    BY <2>2 DEF vars, IInv, TypeOK, OneObjectPerTid, AddingIsNew, HasObject, GotObject,
                Unmapped, ObjectOf, Chained
  <2> QED
    BY <2>1, <2>2
<1> QED
  BY <1>1, InitIInv, PTL DEF Spec

-----------------------------------------------------------------------------
(***************************************************************************)
(* What follows from it                                                    *)
(***************************************************************************)

\* The variables of the thread map keep their types.
THEOREM TypeCorrect == Spec => []TypeOK
<1>1. IInv => TypeOK
  BY DEF IInv
<1> QED
  BY <1>1, Invariance, PTL

\* However many threads trap at once, the map never holds two objects of one
\* thread, although find and add are separate critical sections
\* (thread.c:59-88).
THEOREM OneObject == Spec => []OneObjectPerTid
<1>1. IInv => OneObjectPerTid
  BY DEF IInv
<1> QED
  BY <1>1, Invariance, PTL

\* thread_map_add never refuses the handlers' object, so they may ignore its
\* result (hook_main.c:52, 102).
THEOREM AddSucceeds == Spec => []AddIsNotRejected
<1>1. IInv => AddIsNotRejected
  BY DEF IInv, HasObject, AddIsNotRejected, ObjectOf
<1> QED
  BY <1>1, Invariance, PTL

\* A thread that has had an object has the same one at every later trap: the
\* second trap of a single step finds the singlestep_bp of the first
\* (hook_main.c:48, 61, 77).
THEOREM ObjectStays == Spec => SameObjectForEver
<1>1. IInv /\ [Next]_vars => [\A t \in Tid : got[t] # NULL => got'[t] = got[t]]_vars
  <2> SUFFICES ASSUME IInv, Next, NEW t \in Tid, got[t] # NULL
               PROVE  got'[t] = got[t]
    OBVIOUS
  <2>1. PICK u \in Tid : Step(u)
    BY DEF Next
  <2>2. CASE HandlerReturns(u)
    <3>1. ObjectOf(u, thread[u]) /\ ObjectOf(t, got[t])
      BY <2>2 DEF IInv, HasObject, GotObject, HandlerReturns
    <3>2. got' = [got EXCEPT ![u] = thread[u]]
      BY <2>2 DEF HandlerReturns
    <3>3. u = t => thread[u] = got[t]
      BY <3>1, ObjectIsUnique DEF IInv
    <3> QED
      BY <3>2, <3>3 DEF IInv, TypeOK
  <2>3. CASE ~HandlerReturns(u)
    BY <2>1, <2>3 DEF Step, Trap, thread_map_find, thread_new, thread_map_add, thread_map_del
  <2> QED
    BY <2>2, <2>3
<1> QED
  BY <1>1, Invariance, PTL DEF Spec, SameObjectForEver
=============================================================================
