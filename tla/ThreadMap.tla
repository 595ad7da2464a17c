----------------------------- MODULE ThreadMap ------------------------------
(***************************************************************************)
(* signal_test/thread.c: the hash map from thread ids to thread_t objects, *)
(* and the code at the head of both SIGTRAP handlers (hook_main.c) that    *)
(* finds or creates the object of the trapping thread.                     *)
(*                                                                         *)
(* A bucket is a chain of thread_t objects, newest first.  Every operation *)
(* on the map runs under thread_map_lock and is one step.                  *)
(***************************************************************************)
EXTENDS Naturals, Sequences, FiniteSets

CONSTANTS
  Tid,              \* thread ids the kernel hands out
  Node,             \* thread_t objects
  NULL,
  THREAD_MAP_SIZE

ASSUME MapAssumption ==
  /\ Tid \subseteq Nat
  /\ THREAD_MAP_SIZE \in Nat \ {0}
  /\ NULL \notin Node \cup Tid

VARIABLES
  thread_map,  \* thread_map[h]: chain of bucket h
  tid,         \* tid[n]: the tid field of n, NULL before thread_new
  pc,          \* pc[t]: where thread t is in a handler
  thread,      \* thread[t]: the handler's local variable thread
  got,         \* got[t]: the object t's handler used last time
  fault        \* a null pointer was followed

vars == <<thread_map, tid, pc, thread, got, fault>>

Bucket == 0 .. (THREAD_MAP_SIZE - 1)
HashOf(t) == t % THREAD_MAP_SIZE

\* thread_map_init
Init ==
  /\ thread_map = [h \in Bucket |-> <<>>]
  /\ tid = [n \in Node |-> NULL]
  /\ pc = [t \in Tid |-> "run"]
  /\ thread = [t \in Tid |-> NULL]
  /\ got = [t \in Tid |-> NULL]
  /\ fault = FALSE

Goto(t, l) == pc' = [pc EXCEPT ![t] = l]

-----------------------------------------------------------------------------
\* Mutant of thread_map_find_internal: only the first object is looked at.
thread_map_find_internal_HeadOnly(t) ==
  LET chain == thread_map[HashOf(t)] IN
  IF chain # <<>> /\ tid[chain[1]] = t THEN chain[1] ELSE NULL

\* The loop of thread_map_find_internal: the first object of the bucket
\* that has this tid.
thread_map_find_internal(t) ==
  LET chain == thread_map[HashOf(t)]
      hits  == {i \in DOMAIN chain : tid[chain[i]] = t}
  IN  IF hits = {} THEN NULL
      ELSE chain[CHOOSE i \in hits : \A j \in hits : i <= j]

\* A thread traps and its handler looks for the object.
Trap(t) ==
  /\ pc[t] = "run"
  /\ Goto(t, "find")
  /\ UNCHANGED <<thread_map, tid, thread, got, fault>>

\* Mutant of thread_map_find: the search never succeeds.
thread_map_find_Misses(t) ==
  /\ pc[t] = "find"
  /\ thread' = [thread EXCEPT ![t] = NULL]
  /\ Goto(t, "new")
  /\ UNCHANGED <<thread_map, tid, got, fault>>

thread_map_find(t) ==
  /\ pc[t] = "find"
  /\ thread' = [thread EXCEPT ![t] = thread_map_find_internal(t)]
  /\ Goto(t, IF thread_map_find_internal(t) = NULL THEN "new" ELSE "have")
  /\ UNCHANGED <<thread_map, tid, got, fault>>

\* thread_new and the store of its tid.
thread_new(t) ==
  /\ pc[t] = "new"
  /\ \E n \in Node :
       /\ tid[n] = NULL
       /\ tid' = [tid EXCEPT ![n] = t]
       /\ thread' = [thread EXCEPT ![t] = n]
  /\ Goto(t, "add")
  /\ UNCHANGED <<thread_map, got, fault>>

\* Mutant of thread_map_add: the handler links its stale local.
thread_map_add_NoObject(t) ==
  /\ pc[t] = "add"
  /\ thread_map' = [thread_map EXCEPT ![HashOf(t)] = <<got[t]>> \o @]
  /\ Goto(t, "have")
  /\ UNCHANGED <<tid, thread, got, fault>>

\* Mutant of thread_map_add: the bucket is overwritten.
thread_map_add_OneBucket(t) ==
  /\ pc[t] = "add"
  /\ thread_map' = [thread_map EXCEPT ![HashOf(t)] = <<thread[t]>>]
  /\ Goto(t, "have")
  /\ UNCHANGED <<tid, thread, got, fault>>

\* thread_map_add: refuse an object whose tid is there, or link it at the
\* head of its bucket.  The handlers do not look at the result: rejected
\* tells the two ways on apart.
thread_map_add(t) ==
  /\ pc[t] = "add"
  /\ IF thread_map_find_internal(tid[thread[t]]) # NULL
     THEN Goto(t, "rejected") /\ UNCHANGED thread_map
     ELSE /\ thread_map' = [thread_map EXCEPT
                              ![HashOf(tid[thread[t]])] = <<thread[t]>> \o @]
          /\ Goto(t, "have")
  /\ UNCHANGED <<tid, thread, got, fault>>

\* The handler goes on with the object and returns.
HandlerReturns(t) ==
  /\ pc[t] \in {"have", "rejected"}
  /\ got' = [got EXCEPT ![t] = thread[t]]
  /\ thread' = [thread EXCEPT ![t] = NULL]
  /\ Goto(t, "run")
  /\ UNCHANGED <<thread_map, tid, fault>>

\* thread_map_del, for a thread that ends.  The test at thread.c:99 is
\* inverted: an object that is there stays there, and when there is none
\* list_del follows the null pointer.
thread_map_del(t) ==
  /\ pc[t] = "run"
  /\ Goto(t, "deleted")
  /\ fault' = (thread_map_find_internal(t) = NULL)
  /\ UNCHANGED <<thread_map, tid, thread, got>>

\* The library never calls thread_map_del; a client of thread.h may.
Step(t) ==
  \/ Trap(t) \/ thread_map_find(t) \/ thread_new(t) \/ thread_map_add(t)
  \/ HandlerReturns(t) \/ thread_map_del(t)

Next == ~fault /\ \E t \in Tid : Step(t)

Spec == Init /\ [][Next]_vars

-----------------------------------------------------------------------------
(***************************************************************************)
(* Properties                                                              *)
(***************************************************************************)
Chained(n) == \E h \in Bucket : \E i \in DOMAIN thread_map[h] : thread_map[h][i] = n

\* Every variable has its type.
TypeOK ==
  /\ thread_map \in [Bucket -> Seq(Node)]
  /\ tid \in [Node -> Tid \cup {NULL}]
  /\ pc \in [Tid -> {"run", "find", "new", "add", "have", "rejected", "deleted"}]
  /\ thread \in [Tid -> Node \cup {NULL}]
  /\ got \in [Tid -> Node \cup {NULL}]
  /\ fault \in BOOLEAN

\* The map holds at most one thread_t for a tid, in the bucket of that tid,
\* linked once, although thread_map_find and thread_map_add lock the map
\* separately (thread.c:68-88).
OneObjectPerTid ==
  \A g, h \in Bucket : \A i \in DOMAIN thread_map[g], j \in DOMAIN thread_map[h] :
    /\ tid[thread_map[g][i]] \in Tid /\ HashOf(tid[thread_map[g][i]]) = g
    /\ tid[thread_map[g][i]] = tid[thread_map[h][j]] => g = h /\ i = j

\* The handlers ignore what thread_map_add returns (hook_main.c:52, 102).
\* They may: between a thread's failed find and its add nobody else adds
\* its tid, so the add succeeds and the object is reachable.
AddIsNotRejected ==
  \A t \in Tid : pc[t] # "rejected" /\ (pc[t] = "have" => Chained(thread[t]))

\* A thread's later traps find the thread_t of its first one, in which
\* singlestep_bp is kept between the two traps of a single step
\* (hook_main.c:48, 61, 77), whatever other threads add in between.
SameObjectForEver ==
  [][\A t \in Tid : got[t] # NULL => got'[t] = got[t]]_vars
=============================================================================
