----------------------------- MODULE ObjectList -----------------------------
(***************************************************************************)
(* signal_test/object.c: the list of executable file mappings, which       *)
(* object_load brings up to date from /proc/self/maps and breakpoint_add   *)
(* searches by address.                                                    *)
(*                                                                         *)
(* A mapping of the process is a record: the address range [start, end),   *)
(* whether it is executable, its inode (0 for an anonymous one) and its    *)
(* name.  The dynamic linker and dlopen add mappings while loads are under *)
(* way.  The library knows them only by the text of the maps file, which   *)
(* MapsParse takes apart.                                                  *)
(***************************************************************************)
EXTENDS MapsParse, FiniteSets

CONSTANTS
  Loader,     \* callers of object_load
  Region,     \* mappings that may exist
  Early,      \* the ones that exist at start-up
  Self,       \* address of object_parse_mmap in the library's own text
  Exe,        \* the name that readlink("/proc/self/exe") gives
  e_entry,    \* the entry point in the header of that file
  MaxLoads    \* bound: calls of object_load per caller

\* The kernel writes addresses that fit a word and names without newlines
\* that begin with "/" or "[".  File mappings have names.
ASSUME RegionAssumption ==
  \A r \in Region :
    /\ r.start \in Nat /\ r.end \in Nat /\ r.exec \in BOOLEAN
    /\ r.inode \in Nat /\ r.name \in Seq(STRING)
    /\ r.start < r.end /\ r.end < WordSize
    /\ "\n" \notin ToSet(r.name)
    /\ r.name # <<>> => Head(r.name) # " "
    /\ r.inode # 0 => r.name # <<>>

\* Mappings are disjoint, and executable ones do not touch.  The executable
\* is mapped before the program starts, and the text of the library is
\* executable.
ASSUME LayoutAssumption ==
  /\ \A r, q \in Region : r # q => r.end <= q.start \/ q.end <= r.start
  /\ \A r, q \in Region : r.exec /\ q.exec => r.end # q.start
  /\ Early \subseteq Region
  /\ \A r \in Region : r.name = Exe => r \in Early
  /\ Self \in Nat
  /\ \A r \in Region : r.start <= Self /\ Self < r.end => r.exec
  /\ MaxLoads \in Nat

ASSUME EntryAssumption == e_entry \in Nat

VARIABLES
  mapped,   \* mappings of the process
  objects,  \* the list, oldest first
  pc,       \* pc[l]: where l is in object_load
  maps,     \* maps[l]: the text of /proc/self/maps that l has not parsed yet
  reached,  \* reached[l]: l has read every mapping below this address
  atcall,   \* atcall[l]: mappings that existed when l called object_load
  loads     \* loads[l]: calls made

vars == <<mapped, objects, pc, maps, reached, atcall, loads>>

Init ==
  /\ mapped = Early
  /\ objects = <<>>
  /\ pc = [l \in Loader |-> "idle"]
  /\ maps = [l \in Loader |-> <<>>]
  /\ reached = [l \in Loader |-> 0]
  /\ atcall = [l \in Loader |-> {}]
  /\ loads = [l \in Loader |-> 0]

Goto(l, p) == pc' = [pc EXCEPT ![l] = p]

-----------------------------------------------------------------------------
\* The linker or dlopen maps another file.
Map(r) ==
  /\ r \notin mapped
  /\ mapped' = mapped \cup {r}
  /\ UNCHANGED <<objects, pc, maps, reached, atcall, loads>>

object_load(l) ==
  /\ pc[l] = "idle" /\ loads[l] < MaxLoads
  /\ loads' = [loads EXCEPT ![l] = @ + 1]
  /\ reached' = [reached EXCEPT ![l] = 0]
  /\ atcall' = [atcall EXCEPT ![l] = mapped]
  /\ Goto(l, "read")
  /\ UNCHANGED <<mapped, objects, maps>>

(***************************************************************************)
(* object_get_mmap reads the file in pieces and appends them; the kernel   *)
(* resumes each read at the address where the last one ended, so a mapping *)
(* made meanwhile is seen or not depending on where it lies.               *)
(***************************************************************************)
object_get_mmap(l) ==
  LET rest == {r \in mapped : r.start >= reached[l]} IN
  /\ pc[l] = "read"
  /\ IF rest = {}
     THEN Goto(l, "parse") /\ UNCHANGED <<maps, reached>>
     ELSE LET r == CHOOSE r \in rest : \A q \in rest : r.start <= q.start IN
          /\ maps' = [maps EXCEPT ![l] = @ \o show_map_vma(r)]
          /\ reached' = [reached EXCEPT ![l] = r.end]
          /\ UNCHANGED pc
  /\ UNCHANGED <<mapped, objects, atcall, loads>>

\* The search of object_parse_mmap: an object with this range.
Exists(line) ==
  \E i \in DOMAIN objects : objects[i].text_start = line.start /\ objects[i].text_end = line.end

\* Mutants of Skip: the search is left out; only the last object is looked
\* at, as if ranges arrived in ascending order.
Skip_NoSearch(line) == line.inode = 0 \/ "x" \notin line.attr
Skip_LastOnly(line) ==
  \/ line.inode = 0 \/ "x" \notin line.attr
  \/ objects # <<>> /\ Last(objects).text_start >= line.start

\* Anonymous mappings, ones that are not executable, and ones that are
\* listed already.
Skip(line) == line.inode = 0 \/ "x" \notin line.attr \/ Exists(line)

\* A line of object_parse_mmap, up to the end of the search under
\* object_lock; a range that cannot be parsed makes object_load abort.
SearchLine(l) ==
  LET line == ParseLine(maps[l]) IN
  /\ pc[l] = "parse" /\ maps[l] # <<>>
  /\ IF ~line.ok
     THEN Goto(l, "abort") /\ UNCHANGED maps
     ELSE IF Skip(line)
          THEN maps' = [maps EXCEPT ![l] = line.rest] /\ UNCHANGED pc
          ELSE Goto(l, "append") /\ UNCHANGED maps
  /\ UNCHANGED <<mapped, objects, reached, atcall, loads>>

\* Mutant of NewObject: NO_BKPT is not set.
NewObject_Unmarked(line) ==
  [text_start |-> line.start, text_end |-> line.end, file_name |-> line.file,
   text_attr |-> line.attr]

\* object_new and the fields set after it.  The library's own text is marked
\* NO_BKPT.
NewObject(line) ==
  [text_start |-> line.start, text_end |-> line.end, file_name |-> line.file,
   text_attr |-> line.attr \cup {f \in {"NO_BKPT"} : line.start <= Self /\ Self <= line.end}]

\* Mutant of list_add_tail: list_add.
list_add_tail_AtHead(o) == objects' = <<o>> \o objects

list_add_tail(o) == objects' = Append(objects, o)

\* The new object is appended in a critical section of its own.
AppendObject(l) ==
  LET line == ParseLine(maps[l]) IN
  /\ pc[l] = "append"
  /\ list_add_tail(NewObject(line))
  /\ maps' = [maps EXCEPT ![l] = line.rest]
  /\ Goto(l, "parse")
  /\ UNCHANGED <<mapped, reached, atcall, loads>>

LoadReturns(l) ==
  /\ pc[l] = "parse" /\ maps[l] = <<>>
  /\ Goto(l, "idle")
  /\ UNCHANGED <<mapped, objects, maps, reached, atcall, loads>>

Next ==
  \/ \E r \in Region : Map(r)
  \/ \E l \in Loader : \/ object_load(l) \/ object_get_mmap(l) \/ SearchLine(l)
                       \/ AppendObject(l) \/ LoadReturns(l)

Spec == Init /\ [][Next]_vars

-----------------------------------------------------------------------------
(***************************************************************************)
(* The lookups: the index of the object found in the list, 0 for NULL.     *)
(***************************************************************************)
FirstOf(S) == IF S = {} THEN 0 ELSE CHOOSE i \in S : \A j \in S : i <= j

object_get_by_file(f) == FirstOf({i \in DOMAIN objects : objects[i].file_name = f})

object_get_by_address(a) ==
  FirstOf({i \in DOMAIN objects : objects[i].text_start <= a /\ a <= objects[i].text_end})

\* readlink of /proc/self/exe.
object_get_self_exe == Exe

\* The header is read as an Elf32_Ehdr: the low half of an Elf64 word.
object_get_exe_entrypoint(f) == e_entry % Power(16, WORD_DIGITS \div 2)

\* 0 when the executable is not in the list.
object_get_self_entrypoint ==
  LET i == object_get_by_file(object_get_self_exe)
  IN  IF i = 0 THEN 0
      ELSE objects[i].text_start + object_get_exe_entrypoint(object_get_self_exe)

-----------------------------------------------------------------------------
(***************************************************************************)
(* Properties                                                              *)
(***************************************************************************)
\* The executable mappings that the code takes for mappings of a file.
Traced(r) == r.exec /\ r.inode % IntSize # 0

IsObjectOf(o, r) ==
  /\ o.text_start = r.start /\ o.text_end = r.end
  /\ o.file_name = r.name

\* Every variable has its type.  No load has aborted: the text that the
\* kernel prints for a mapping always parses.
TypeOK ==
  /\ mapped \in SUBSET Region
  /\ \A i \in DOMAIN objects : objects[i].text_attr \subseteq {"r", "w", "x", "p", "NO_BKPT"}
  /\ pc \in [Loader -> {"idle", "read", "parse", "append"}]
  /\ \A l \in Loader : maps[l] # <<>> => Last(maps[l]) = "\n"
  /\ reached \in [Loader -> Nat]
  /\ atcall \in [Loader -> SUBSET Region]
  /\ loads \in [Loader -> 0 .. MaxLoads]

\* What the scanners made of a line, and the mapping it was printed for.
ReadsBack(line, r) ==
  /\ line.ok /\ line.start = r.start /\ line.end = r.end
  /\ "x" \in line.attr <=> r.exec
  /\ line.inode = r.inode % IntSize
  /\ line.inode # 0 => line.file = r.name

\* Whatever a load has still to parse begins with the line of a mapping, and
\* the scanners (object.c:50-229) read that line back: the range up to the
\* full width of a word, the permission, the whole name, and the inode as its
\* remainder in an int, wherever the lines before it have been cut off.
LinesReadBack ==
  \A l \in Loader : maps[l] # <<>> => \E r \in mapped : ReadsBack(ParseLine(maps[l]), r)

\* When object_load returns, every executable file mapping that existed when
\* it was called is listed (object.c:475-495), even though the maps file was
\* read piecemeal while mappings were added.  A file whose inode atoi reads
\* as 0 (a multiple of the size of an int) is not listed: it is not Traced.
LoadIsComplete ==
  \A l \in Loader : pc[l] = "idle" =>
    \A r \in atcall[l] : Traced(r) => \E i \in DOMAIN objects : IsObjectOf(objects[i], r)

\* The list names nothing else: every object is an executable mapping of a
\* file, with the range and the whole name the kernel knows it by
\* (object.c:50-230), wherever its line was cut off the text, however wide
\* its numbers are and whatever its name contains.
ObjectsAreMappings ==
  \A i \in DOMAIN objects : \E r \in mapped : Traced(r) /\ IsObjectOf(objects[i], r)

\* object.c:294, "skip the entries that are in the list already".  The search
\* and the append are critical sections of their own, so loads that overlap
\* may both list a mapping; but no load lists what an earlier one of the same
\* caller has: a mapping has at most one object per caller.
BoundedDuplicates ==
  \A i \in DOMAIN objects :
    Cardinality({j \in DOMAIN objects : objects[j].text_start = objects[i].text_start})
      <= Cardinality(Loader)

\* An address in the library's own text, which its handlers run in, is
\* looked up as an object with NO_BKPT (object.c:317-322, 538-553), so that
\* breakpoint_add refuses it, whichever load lists it.
SelfText == UNION {r.start .. (r.end - 1) : r \in {q \in Region : q.start <= Self /\ Self < q.end}}

SelfIsMarked ==
  \A a \in SelfText :
    LET i == object_get_by_address(a) IN i # 0 => "NO_BKPT" \in objects[i].text_attr

\* The lowest executable segment of the executable.
LowestText ==
  CHOOSE r \in Region : /\ Traced(r) /\ r.name = Exe
                        /\ \A q \in Region : Traced(q) /\ q.name = Exe => r.start <= q.start

\* object_get_self_entrypoint (object.c:447-468) adds the entry point it has
\* read to the first object of the file; that is the lowest executable
\* segment from the moment any is listed, although the executable may have
\* several and although loads overlap.  The sum is where the kernel starts
\* the program only if that segment is linked at 0; nothing checks that.
EntryBaseIsLowest ==
  object_get_by_file(Exe) # 0 =>
    object_get_self_entrypoint = LowestText.start + object_get_exe_entrypoint(Exe)

\* object_get_by_file (object.c:520-536) finds an object it has found before,
\* whatever is loaded later: callers keep pointers to objects.
Files == {r.name : r \in {q \in Region : q.inode # 0}}

FileLookupIsStable ==
  [][\A f \in Files : object_get_by_file(f) # 0 =>
       objects'[object_get_by_file(f)'] = objects[object_get_by_file(f)]]_vars
=============================================================================
