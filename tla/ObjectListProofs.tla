-------------------------- MODULE ObjectListProofs --------------------------
(***************************************************************************)
(* Proofs about ObjectList, for any number of callers, mappings and loads: *)
(* object_load lists every executable file mapping and nothing else,       *)
(* however the loads overlap, and the lookups find the right object.       *)
(*                                                                         *)
(* What the scanners make of the text is proved down to its digits: every  *)
(* number that the kernel prints is read as what it is, and then where a   *)
(* line ends, where its fields are and what the rest of the text is.       *)
(***************************************************************************)
EXTENDS ObjectList, TLAPS, WellFoundedInduction, FiniteSetTheorems

\* Digits only, so that the scanners can tell where a numeral ends.
IsNumeral(s) ==
  s \in Seq(ToSet(LowDigits)) /\ s # <<>> /\ \A c \in {"-", " ", "\n"} : c \notin ToSet(s)

\* The ends of the range survive printing and reading; of the inode, its
\* remainder in an int does.
NumeralRead(r) ==
  /\ \A n \in {r.start, r.end} :
       /\ IsNumeral(Numeral(16, n))
       /\ hex_to_int(Numeral(16, n)).ok /\ hex_to_int(Numeral(16, n)).data = n
  /\ IsNumeral(Numeral(10, r.inode))
  /\ atoi(Numeral(10, r.inode)) = r.inode % IntSize

NumeralsRead == \A r \in Region : NumeralRead(r)

\* The characters of the lines of mappings.
Char ==
  {"-", " ", "\n", "r", "x", "p", "0", "8", ":", "1"}
    \cup UNION {ToSet(r.name) \cup ToSet(Numeral(16, r.start)) \cup ToSet(Numeral(16, r.end))
                  \cup ToSet(Numeral(10, r.inode)) : r \in Region}

\* The text m has s behind position p.
Part(m, p, s) == p + Len(s) <= Len(m) /\ \A i \in 1 .. Len(s) : m[p + i] = s[i]

\* The text has r's line behind position p.
LineAt(m, p, r) == Part(m, p, show_map_vma(r))

\* The positions behind which a line begins, and the last one.
Cuts(m) == {0} \cup {p \in DOMAIN m : m[p] = "\n"}

Has(m, r) == \E p \in Cuts(m) : LineAt(m, p, r)

\* A text of whole lines of mappings of R, in ascending order.
IsText(m, R) ==
  /\ m \in Seq(Char)
  /\ Len(m) \in Cuts(m)
  /\ \A p \in Cuts(m) : p < Len(m) => \E r \in R : LineAt(m, p, r)
  /\ \A p, q \in Cuts(m), r, s \in Region :
       p < q /\ LineAt(m, p, r) /\ LineAt(m, q, s) => r.end <= s.start

\* What a caller has read and not parsed yet.
TextOK ==
  /\ maps \in [Loader -> Seq(Char)]
  /\ \A l \in Loader :
       /\ IsText(maps[l], mapped)
       /\ pc[l] = "idle" => maps[l] = <<>>
       /\ pc[l] = "read" => \A r \in Region : Has(maps[l], r) => r.end <= reached[l]
       /\ pc[l] = "append" => \E r \in mapped : Traced(r) /\ LineAt(maps[l], 0, r)

Listed(r) == \E i \in DOMAIN objects : IsObjectOf(objects[i], r)

\* A mapping that existed at the call is listed, or in the text, or will be
\* read.
Covered ==
  /\ Early \subseteq mapped
  /\ \A l \in Loader :
       /\ atcall[l] \subseteq mapped
       /\ pc[l] # "idle" => Early \subseteq atcall[l]
       /\ \A r \in atcall[l] : Traced(r) =>
            Listed(r) \/ Has(maps[l], r) \/ (pc[l] = "read" /\ reached[l] <= r.start)

Object ==
  [text_start : Nat, text_end : Nat, file_name : Seq(STRING),
   text_attr : SUBSET {"r", "w", "x", "p", "NO_BKPT"}]

\* Every object is an executable file mapping, and marked when it is the
\* library's own.
IsMapping(o, r) ==
  /\ Traced(r) /\ IsObjectOf(o, r)
  /\ r.start <= Self /\ Self <= r.end => "NO_BKPT" \in o.text_attr

ObjectsOK ==
  /\ objects \in Seq(Object)
  /\ \A i \in DOMAIN objects : \E r \in mapped : IsMapping(objects[i], r)

\* A segment of the executable is listed before the ones above it.
ExeOrder ==
  \A i \in DOMAIN objects : \A t \in Region :
    /\ objects[i].file_name = Exe
    /\ Traced(t) /\ t.name = Exe /\ t.start < objects[i].text_start
    => \E j \in DOMAIN objects : j < i /\ IsObjectOf(objects[j], t)

\* The variables other than the list and the texts.
Control ==
  /\ mapped \in SUBSET Region
  /\ pc \in [Loader -> {"idle", "read", "parse", "append"}]
  /\ reached \in [Loader -> Nat]
  /\ atcall \in [Loader -> SUBSET Region]
  /\ loads \in [Loader -> 0 .. MaxLoads]

IInv ==
  /\ Control
  /\ TextOK
  /\ Covered
  /\ ObjectsOK
  /\ ExeOrder

\* The objects of the mapping at s, and the callers about to append one.
ObjectsAt(s) == {j \in DOMAIN objects : objects[j].text_start = s}
Appending(s) == {l \in Loader : pc[l] = "append" /\ ParseLine(maps[l]).start = s}

\* A caller decides to append only when there is no object yet.
CountOK ==
  \A s \in Nat : Cardinality(ObjectsAt(s)) + Cardinality(Appending(s)) <= Cardinality(Loader)

-----------------------------------------------------------------------------
(***************************************************************************)
(* Numbers                                                                  *)
(***************************************************************************)

\* A set of naturals has a least element.
LEMMA LeastNat ==
  ASSUME NEW T \in SUBSET Nat, T # {}
  PROVE  \E x \in T : \A y \in T : x <= y
<1> DEFINE R == OpToRel(<, Nat)
<1>1. IsWellFoundedOn(R, Nat)
  BY NatLessThanWellFounded
<1>2. PICK x \in T : \A y \in T : ~(<<y, x>> \in R)
  <2> HIDE DEF R
  <2> QED
    BY <1>1, WFMin
<1>3. \A y \in T : ~(y < x)
  BY <1>2 DEF OpToRel
<1> QED
  BY <1>3

\* f are the values of a loop that begins with b and computes, in its k-th
\* round, a value from the one before.
IsRun(n, b, F, f) ==
  /\ f \in [0 .. n -> Nat] /\ f[0] = b
  /\ \A k \in 1 .. n : f[k] = F[<<k, f[k - 1]>>]

\* Such a loop has a value after each of its rounds.
LEMMA Rounds ==
  ASSUME NEW n \in Nat, NEW b \in Nat, NEW F \in [(1 .. n) \X Nat -> Nat]
  PROVE  \E f : IsRun(n, b, F, f)
<1> DEFINE Run(j, f) == /\ f \in [0 .. n -> Nat] /\ f[0] = b
                        /\ \A k \in 1 .. j : f[k] = F[<<k, f[k - 1]>>]
           T == {j \in 0 .. n : \A f : ~Run(j, f)}
<1>1. T = {}
  <2> SUFFICES ASSUME T # {}
               PROVE  FALSE
    OBVIOUS
  <2>1. PICK j \in T : \A i \in T : j <= i
    <3>1. T \in SUBSET Nat
      OBVIOUS
    <3> HIDE DEF T
    <3> QED
      BY <3>1, LeastNat
  <2>2. j \in 0 .. n /\ \A f : ~Run(j, f)
    OBVIOUS
  <2>3. CASE j = 0
    <3> DEFINE f == [k \in 0 .. n |-> b]
    <3>1. Run(0, f)
      OBVIOUS
    <3> HIDE DEF f, Run
    <3> QED
      BY <2>2, <2>3, <3>1
  <2>4. CASE j # 0
    <3>1. j - 1 \in 0 .. n /\ j - 1 \notin T
      <4> HIDE DEF T
      <4> QED
        BY <2>1, <2>2, <2>4
    <3>2. PICK f : Run(j - 1, f)
      BY <3>1
    <3> DEFINE v == F[<<j, f[j - 1]>>]
               g == [f EXCEPT ![j] = v]
    <3>3. v \in Nat
      <4>1. j \in 1 .. n /\ f[j - 1] \in Nat
        BY <2>2, <2>4, <3>1, <3>2
      <4>2. <<j, f[j - 1]>> \in (1 .. n) \X Nat
        BY <4>1
      <4> QED
        BY <4>2
    <3> HIDE DEF v
    <3>4. g \in [0 .. n -> Nat] /\ g[j] = v /\ \A k \in 0 .. n : k # j => g[k] = f[k]
      BY <2>2, <3>2, <3>3
    <3> HIDE DEF g
    <3>5. g[0] = b
      BY <2>2, <2>4, <3>2, <3>4
    <3>6. ASSUME NEW k \in 1 .. j
          PROVE  g[k] = F[<<k, g[k - 1]>>]
      <4>1. k - 1 \in 0 .. n /\ k - 1 # j /\ g[k - 1] = f[k - 1]
        BY <2>2, <3>4
      <4>2. CASE k = j
        BY <3>4, <4>1, <4>2 DEF v
      <4>3. CASE k # j
        <5>1. k \in 1 .. (j - 1) /\ k \in 0 .. n
          BY <2>2, <4>3
        <5> QED
          BY <3>2, <3>4, <4>1, <4>3, <5>1
      <4> QED
        BY <4>2, <4>3
    <3>7. Run(j, g)
      BY <3>4, <3>5, <3>6
    <3> HIDE DEF Run
    <3> QED
      BY <2>2, <3>7
  <2> QED
    BY <2>3, <2>4
<1>2. PICK f : Run(n, f)
  <2>1. n \in 0 .. n /\ n \notin T
    <3> HIDE DEF T
    <3> QED
      BY <1>1
  <2> QED
    BY <2>1
<1> QED
  BY <1>2 DEF IsRun

\* f are the powers of b up to the n-th.
ArePowers(b, n, f) ==
  /\ f \in [0 .. n -> Nat \ {0}] /\ f[0] = 1
  /\ \A k \in 1 .. n : f[k] = b * f[k - 1]

\* Power, which gives the sizes of a word and an int, multiplies.
LEMMA PowerIs ==
  ASSUME NEW b \in Nat \ {0}, NEW n \in Nat
  PROVE  \E f : ArePowers(b, n, f) /\ f[n] = Power(b, n)
<1> DEFINE F == [p \in (1 .. n) \X Nat |-> b * p[2]]
<1>1. F \in [(1 .. n) \X Nat -> Nat]
  OBVIOUS
<1>2. \A k \in 1 .. n, x \in Nat : F[<<k, x>>] = b * x
  OBVIOUS
<1> HIDE DEF F
<1>3. PICK f \in [0 .. n -> Nat] : f[0] = 1 /\ \A k \in 1 .. n : f[k] = F[<<k, f[k - 1]>>]
  <2>1. PICK f : IsRun(n, 1, F, f)
    BY <1>1, Rounds
  <2> QED
    BY <2>1 DEF IsRun
<1>4. \A k \in 1 .. n : f[k] = b * f[k - 1]
  <2> TAKE k \in 1 .. n
  <2>1. f[k - 1] \in Nat
    BY <1>3
  <2> QED
    BY <1>2, <1>3, <2>1
<1>5. f = [k \in 0 .. n |-> IF k = 0 THEN 1 ELSE b * f[k - 1]]
  BY <1>3, <1>4
<1> DEFINE g == CHOOSE g : g = [k \in 0 .. n |-> IF k = 0 THEN 1 ELSE b * g[k - 1]]
<1>6. Power(b, n) = g[n]
  BY DEF Power
<1>7. g = [k \in 0 .. n |-> IF k = 0 THEN 1 ELSE b * g[k - 1]]
  BY <1>5
<1> HIDE DEF g
<1>8. g[0] = 1 /\ \A k \in 1 .. n : g[k] = b * g[k - 1]
  BY <1>7
<1>9. \A k \in 0 .. n : g[k] \in Nat \ {0}
  <2> DEFINE T == {k \in 0 .. n : g[k] \notin Nat \ {0}}
  <2> SUFFICES ASSUME T # {}
               PROVE  FALSE
    OBVIOUS
  <2>1. PICK k \in T : \A i \in T : k <= i
    <3>1. T \in SUBSET Nat
      OBVIOUS
    <3> HIDE DEF T
    <3> QED
      BY <3>1, LeastNat
  <2>2. k \in 1 .. n /\ g[k] \notin Nat \ {0}
    BY <1>8
  <2>3. k - 1 \in 0 .. n /\ k - 1 \notin T
    <3> HIDE DEF T
    <3> QED
      BY <2>1, <2>2
  <2>4. g[k - 1] \in Nat \ {0}
    BY <2>3
  <2>5. b * g[k - 1] \in Nat \ {0}
    <3>1. \A x, y \in Nat \ {0} : x * y \in Nat /\ x * y # 0
      BY SMT
    <3> QED
      BY <2>4, <3>1
  <2> QED
    BY <1>8, <2>2, <2>5
<1>10. g \in [0 .. n -> Nat \ {0}]
  <2> HIDE DEF g
  <2> QED
    BY <1>7, <1>9
<1> QED
  BY <1>6, <1>8, <1>10 DEF ArePowers

\* A power is a positive number.
LEMMA PowerType ==
  ASSUME NEW b \in Nat \ {0}, NEW n \in Nat
  PROVE  Power(b, n) \in Nat \ {0}
<1>1. PICK f : ArePowers(b, n, f) /\ f[n] = Power(b, n)
  BY PowerIs
<1>2. n \in 0 .. n /\ f \in [0 .. n -> Nat \ {0}]
  BY <1>1 DEF ArePowers
<1> QED
  BY <1>1, <1>2

\* The values of Accumulate's variable.
IsAccumulation(base, size, v, f) ==
  /\ f \in [0 .. Len(v) -> Nat] /\ f[0] = 0
  /\ \A k \in 1 .. Len(v) : f[k] = (f[k - 1] * base + v[k]) % size

\* What the loop of hex_to_int computes (object.c:66-78).
LEMMA AccumulateIs ==
  ASSUME NEW base \in Nat, NEW size \in Nat \ {0}, NEW v \in Seq(Nat)
  PROVE  \E f : IsAccumulation(base, size, v, f) /\ Accumulate(base, size, v) = f[Len(v)]
<1>0. PICK n \in Nat : n = Len(v) /\ \A k \in 1 .. n : v[k] \in Nat
  OBVIOUS
<1> DEFINE F == [p \in (1 .. n) \X Nat |-> (p[2] * base + v[p[1]]) % size]
<1>1. \A k \in 1 .. n, x \in Nat : (x * base + v[k]) % size \in Nat
  <2>1. \A y \in Nat : y % size \in Nat
    OBVIOUS
  <2>2. \A x, y \in Nat : x * base + y \in Nat
    OBVIOUS
  <2> QED
    BY <1>0, <2>1, <2>2
<1>2. F \in [(1 .. n) \X Nat -> Nat]
  <2>1. \A p \in (1 .. n) \X Nat : p[1] \in 1 .. n /\ p[2] \in Nat
    OBVIOUS
  <2> QED
    BY <1>1, <2>1
<1>f. \A k \in 1 .. n, x \in Nat : F[<<k, x>>] = (x * base + v[k]) % size
  OBVIOUS
<1> HIDE DEF F
<1>3. PICK f \in [0 .. n -> Nat] : f[0] = 0 /\ \A k \in 1 .. n : f[k] = F[<<k, f[k - 1]>>]
  <2>1. PICK f : IsRun(n, 0, F, f)
    BY <1>2, Rounds
  <2> QED
    BY <2>1 DEF IsRun
<1>4. \A k \in 1 .. n : f[k] = (f[k - 1] * base + v[k]) % size
  <2> TAKE k \in 1 .. n
  <2>1. f[k - 1] \in Nat
    BY <1>3
  <2> QED
    BY <1>f, <1>3, <2>1
<1>5. f = [k \in 0 .. n |-> IF k = 0 THEN 0 ELSE (f[k - 1] * base + v[k]) % size]
  <2> DEFINE Round(k) == (f[k - 1] * base + v[k]) % size
  <2>1. \A k \in 1 .. n : f[k] = Round(k)
    BY <1>4
  <2> HIDE DEF Round
  <2>2. \A k \in 0 .. n : k # 0 => k \in 1 .. n
    BY <1>0
  <2>3. \A k \in 0 .. n : f[k] = IF k = 0 THEN 0 ELSE Round(k)
    BY <1>3, <2>1, <2>2
  <2>4. f = [k \in 0 .. n |-> f[k]]
    BY <1>3
  <2>5. f = [k \in 0 .. n |-> IF k = 0 THEN 0 ELSE Round(k)]
    BY <2>3, <2>4
  <2> QED
    BY <2>5, Zenon DEF Round
<1> DEFINE g == CHOOSE g : g = [k \in 0 .. n |-> IF k = 0 THEN 0 ELSE (g[k - 1] * base + v[k]) % size]
<1>6. Accumulate(base, size, v) = g[n]
  BY <1>0 DEF Accumulate
<1>7. g = [k \in 0 .. n |-> IF k = 0 THEN 0 ELSE (g[k - 1] * base + v[k]) % size]
  BY <1>5
<1> HIDE DEF g
<1>8. g[0] = 0 /\ \A k \in 1 .. n : g[k] = (g[k - 1] * base + v[k]) % size
  BY <1>7
<1>9. \A k \in 0 .. n : g[k] \in Nat
  <2> DEFINE T == {k \in 0 .. n : g[k] \notin Nat}
  <2> SUFFICES ASSUME T # {}
               PROVE  FALSE
    OBVIOUS
  <2>1. PICK k \in T : \A i \in T : k <= i
    <3>1. T \in SUBSET Nat
      BY <1>0
    <3> HIDE DEF T
    <3> QED
      BY <3>1, LeastNat
  <2>2. k \in 1 .. n /\ g[k] \notin Nat
    BY <1>0, <1>8
  <2>3. k - 1 \in 0 .. n /\ k - 1 \notin T
    <3> HIDE DEF T
    <3> QED
      BY <1>0, <2>1, <2>2
  <2>4. g[k - 1] \in Nat
    BY <2>3
  <2>5. (g[k - 1] * base + v[k]) % size \in Nat
    BY <1>1, <2>2, <2>4
  <2>6. g[k] = (g[k - 1] * base + v[k]) % size
    BY <1>8, <2>2
  <2> QED
    BY <2>2, <2>5, <2>6, Zenon
<1>10. g \in [0 .. n -> Nat]
  BY <1>7, <1>9
<1> QED
  BY <1>0, <1>6, <1>8, <1>10 DEF IsAccumulation

\* One digit.
LEMMA AccumulateOne ==
  ASSUME NEW base \in Nat, NEW size \in Nat \ {0}, NEW v \in Seq(Nat), Len(v) = 1
  PROVE  Accumulate(base, size, v) = v[1] % size
<1>1. PICK f : IsAccumulation(base, size, v, f) /\ Accumulate(base, size, v) = f[Len(v)]
  BY AccumulateIs
<1>2. f[1] = (f[0] * base + v[1]) % size /\ f[0] = 0
  BY <1>1 DEF IsAccumulation
<1>3. 0 * base + v[1] = v[1]
  <2>1. v[1] \in Nat
    <3>1. v \in [1 .. Len(v) -> Nat]
      OBVIOUS
    <3> QED
      BY <3>1
  <2>2. 0 * base = 0
    OBVIOUS
  <2>3. 0 + v[1] = v[1]
    BY <2>1
  <2> QED
    BY <2>2, <2>3
<1> QED
  BY <1>1, <1>2, <1>3

\* w is v with one element more.
Longer(w, v) ==
  /\ v \in Seq(Nat) /\ w \in Seq(Nat)
  /\ Len(w) = Len(v) + 1 /\ \A k \in 1 .. Len(v) : w[k] = v[k]

\* One digit more.
LEMMA AccumulateMore ==
  ASSUME NEW base \in Nat, NEW size \in Nat \ {0}, NEW v, NEW w, Longer(w, v)
  PROVE  /\ Accumulate(base, size, v) \in Nat
         /\ Accumulate(base, size, w) = (Accumulate(base, size, v) * base + w[Len(w)]) % size
<1> USE DEF Longer
<1>0. PICK n \in Nat : n = Len(v) /\ Len(w) = n + 1
  OBVIOUS
<1>1. PICK f : IsAccumulation(base, size, v, f) /\ Accumulate(base, size, v) = f[Len(v)]
  BY AccumulateIs
<1>2. PICK g : IsAccumulation(base, size, w, g) /\ Accumulate(base, size, w) = g[Len(w)]
  BY AccumulateIs
<1>3. /\ f[0] = 0 /\ g[0] = 0 /\ f[n] \in Nat
      /\ \A k \in 1 .. n : f[k] = (f[k - 1] * base + v[k]) % size
      /\ \A k \in 1 .. (n + 1) : g[k] = (g[k - 1] * base + w[k]) % size
  <2>1. IsAccumulation(base, size, v, f) /\ IsAccumulation(base, size, w, g)
    BY <1>1, <1>2
  <2>2. f \in [0 .. n -> Nat] /\ f[0] = 0 /\ g[0] = 0
    BY <1>0, <2>1 DEF IsAccumulation
  <2>3. \A k \in 1 .. n : f[k] = (f[k - 1] * base + v[k]) % size
    BY <1>0, <2>1 DEF IsAccumulation
  <2>4. \A k \in 1 .. (n + 1) : g[k] = (g[k - 1] * base + w[k]) % size
    BY <1>0, <2>1 DEF IsAccumulation
  <2> QED
    BY <2>2, <2>3, <2>4
<1>4. \A k \in 0 .. n : f[k] = g[k]
  <2> DEFINE T == {k \in 0 .. n : f[k] # g[k]}
  <2> SUFFICES ASSUME T # {}
               PROVE  FALSE
    OBVIOUS
  <2>1. PICK k \in T : \A i \in T : k <= i
    <3>1. T \in SUBSET Nat
      BY <1>0
    <3> HIDE DEF T
    <3> QED
      BY <3>1, LeastNat
  <2>2. k \in 1 .. n /\ f[k] # g[k]
    BY <1>0, <1>3
  <2>3. k - 1 \in 0 .. n /\ k - 1 \notin T
    <3> HIDE DEF T
    <3> QED
      BY <1>0, <2>1, <2>2
  <2>4. f[k - 1] = g[k - 1]
    BY <2>3
  <2>5. w[k] = v[k] /\ k \in 1 .. (n + 1)
    BY <1>0, <2>2
  <2> QED
    BY <1>3, <2>2, <2>4, <2>5
<1>5. n \in 0 .. n /\ n + 1 \in 1 .. (n + 1) /\ (n + 1) - 1 = n
  BY <1>0
<1>6. f[n] = g[n] /\ g[n + 1] = (g[n] * base + w[n + 1]) % size
  BY <1>3, <1>4, <1>5
<1> QED
  BY <1>0, <1>1, <1>2, <1>3, <1>6

\* A multiple of m between -m and m is 0.
LEMMA SmallMultiple ==
  ASSUME NEW m \in Nat \ {0}, NEW y \in Int, -m < y * m, y * m < m
  PROVE  y = 0
<1>1. CASE y >= 1
  <2>1. (y - 1) * m >= 0
    BY <1>1
  <2>2. (y - 1) * m = y * m - m
    OBVIOUS
  <2> QED
    BY <2>1, <2>2
<1>2. CASE y <= -1
  <2>1. (-1 - y) * m >= 0
    BY <1>2
  <2>2. (-1 - y) * m = -m - y * m
    OBVIOUS
  <2> QED
    BY <2>1, <2>2
<1> QED
  BY <1>1, <1>2

\* Numbers that differ by a multiple of m have the same remainder.
LEMMA SameRemainder ==
  ASSUME NEW m \in Nat \ {0}, NEW a \in Nat, NEW t \in Nat
  PROVE  (t * m + a) % m = a % m
<1> DEFINE c == t * m + a
<1>0. c \in Nat /\ c = t * m + a
  OBVIOUS
<1> HIDE DEF c
<1>1. ASSUME NEW x \in Nat
      PROVE  /\ x \div m \in Int /\ x % m \in Nat /\ x % m < m
             /\ x = m * (x \div m) + (x % m)
  BY <1>1
<1>2. PICK p \in Int, q \in Int : c = m * p + (c % m) /\ a = m * q + (a % m)
  BY <1>0, <1>1
<1>3. c % m \in Nat /\ c % m < m /\ a % m \in Nat /\ a % m < m
  BY <1>0, <1>1
<1> DEFINE y == p - q - t
<1>4. y * m = (a % m) - (c % m)
  <2>1. y * m = m * p - m * q - t * m
    OBVIOUS
  <2> QED
    BY <1>0, <1>2, <1>3, <2>1
<1>5. y \in Int /\ -m < y * m /\ y * m < m
  BY <1>3, <1>4
<1> HIDE DEF y
<1>6. y = 0
  BY <1>5, SmallMultiple
<1>7. y * m = 0
  BY <1>6
<1> QED
  BY <1>0, <1>3, <1>4, <1>7

\* Reading the digit d in base b behind the number x gives the same remainder
\* of m whether x was cut to its remainder before or not.
SameRead(m, x, d, b) == ((x % m) * b + d) % m = (x * b + d) % m

\* Only the remainder of what a variable would hold matters for the next round.
LEMMA RemainderNext ==
  ASSUME NEW m \in Nat \ {0}, NEW x \in Nat, NEW d \in Nat, NEW b \in Nat
  PROVE  SameRead(m, x, d, b)
<1>1. /\ x \div m \in Nat /\ x % m \in Nat
      /\ x = (x \div m) * m + (x % m)
  <2>1. x \div m \in Int /\ x % m \in Nat /\ x % m < m /\ x = m * (x \div m) + (x % m)
    OBVIOUS
  <2>2. x \div m >= 0
    OBVIOUS
  <2> QED
    BY <2>1, <2>2
<1>2. PICK q \in Nat, r \in Nat : x = q * m + r /\ r = x % m
  BY <1>1
<1>3. x * b + d = (q * b) * m + (r * b + d)
  <2>1. (q * m + r) * b = (q * b) * m + r * b
    OBVIOUS
  <2> QED
    BY <1>2, <2>1
<1>4. q * b \in Nat /\ r * b + d \in Nat
  OBVIOUS
<1>5. ((q * b) * m + (r * b + d)) % m = (r * b + d) % m
  BY <1>4, SameRemainder
<1> QED
  BY <1>2, <1>3, <1>5 DEF SameRead

\* The digits, one by one.
LEMMA DigitsAre ==
  /\ LowDigits = <<"0", "1", "2", "3", "4", "5", "6", "7", "8", "9", "a", "b", "c", "d", "e", "f">>
  /\ DOMAIN LowDigits = 1 .. 16 /\ DOMAIN DecDigits = 1 .. 10
  /\ \A i \in 1 .. 10 : DecDigits[i] = LowDigits[i]
<1> DEFINE L == <<"0", "1", "2", "3", "4", "5", "6", "7", "8", "9", "a", "b", "c", "d", "e", "f">>
<1>1. LowDigits = L
  <2> DEFINE X == <<"a", "b", "c", "d", "e", "f">>
  <2>1. PICK S : DecDigits \in Seq(S) /\ X \in Seq(S) /\ L \in Seq(S)
    <3> DEFINE S == {"0", "1", "2", "3", "4", "5", "6", "7", "8", "9", "a", "b", "c", "d", "e", "f"}
    <3>1. DecDigits \in Seq(S)
      BY DEF DecDigits
    <3>2. X \in Seq(S) /\ L \in Seq(S)
      OBVIOUS
    <3> QED
      BY <3>1, <3>2
  <2>2. LowDigits = DecDigits \o X /\ Len(DecDigits) = 10 /\ Len(X) = 6 /\ Len(L) = 16
    BY DEF LowDigits, DecDigits
  <2>3. /\ Len(DecDigits \o X) = Len(DecDigits) + Len(X) /\ DecDigits \o X \in Seq(S)
        /\ \A i \in 1 .. Len(DecDigits) : (DecDigits \o X)[i] = DecDigits[i]
        /\ \A i \in 1 .. Len(X) : (DecDigits \o X)[i + Len(DecDigits)] = X[i]
    <3> HIDE DEF X
    <3> QED
      BY <2>1
  <2>4. /\ Len(LowDigits) = 16 /\ LowDigits \in Seq(S)
        /\ \A i \in 1 .. 10 : LowDigits[i] = DecDigits[i]
        /\ \A i \in 1 .. 6 : LowDigits[i + 10] = X[i]
    <3> HIDE DEF X, L
    <3>1. LowDigits = DecDigits \o X /\ Len(DecDigits) = 10 /\ Len(X) = 6
      BY <2>2
    <3>2. Len(LowDigits) = 10 + 6 /\ LowDigits \in Seq(S)
      BY <2>3, <3>1
    <3>3. \A i \in 1 .. 10 : LowDigits[i] = DecDigits[i]
      BY <2>3, <3>1
    <3>4. \A i \in 1 .. 6 : LowDigits[i + 10] = X[i]
      BY <2>3, <3>1
    <3> QED
      BY <3>2, <3>3, <3>4
  <2>6. ASSUME NEW i \in 1 .. 16
        PROVE  LowDigits[i] = L[i]
    <3>1. CASE i <= 10
      <4>1. i = 1 \/ i = 2 \/ i = 3 \/ i = 4 \/ i = 5 \/ i = 6 \/ i = 7 \/ i = 8 \/ i = 9 \/ i = 10
        BY <3>1
      <4>2. LowDigits[i] = DecDigits[i]
        <5> HIDE DEF X, L
        <5> QED
          BY <2>4, <3>1
      <4> QED
        BY <4>1, <4>2 DEF DecDigits
    <3>2. CASE ~(i <= 10)
      <4>1. i = 11 \/ i = 12 \/ i = 13 \/ i = 14 \/ i = 15 \/ i = 16
        BY <3>2
      <4>2. i - 10 \in 1 .. 6 /\ (i - 10) + 10 = i
        BY <3>2
      <4>3. LowDigits[i] = X[i - 10]
        <5> HIDE DEF X
        <5> QED
          BY <2>4, <4>2
      <4> QED
        BY <4>1, <4>3
    <3> QED
      BY <3>1, <3>2
  <2>7. \A i \in 1 .. Len(L) : LowDigits[i] = L[i]
    BY <2>2, <2>6
  <2>8. Len(LowDigits) = Len(L) /\ LowDigits \in Seq(S) /\ L \in Seq(S)
    BY <2>1, <2>2, <2>4
  <2> HIDE DEF L
  <2> QED
    BY <2>7, <2>8
<1>2. DOMAIN L = 1 .. 16 /\ DOMAIN DecDigits = 1 .. 10
  BY DEF DecDigits
<1>3. \A i \in 1 .. 10 : DecDigits[i] = L[i]
  <2> TAKE i \in 1 .. 10
  <2>1. i = 1 \/ i = 2 \/ i = 3 \/ i = 4 \/ i = 5 \/ i = 6 \/ i = 7 \/ i = 8 \/ i = 9 \/ i = 10
    OBVIOUS
  <2> QED
    BY <2>1 DEF DecDigits
<1> QED
  BY <1>1, <1>2, <1>3

\* No two digits are the same, and none is a character that ends a field.
LEMMA DigitsDiffer ==
  /\ \A i, j \in 1 .. 16 : LowDigits[i] = LowDigits[j] => i = j
  /\ \A i \in 1 .. 16 : LowDigits[i] \notin {"-", " ", "\n"}
<1>1. ASSUME NEW i \in 1 .. 16
      PROVE  i = 1 \/ i = 2 \/ i = 3 \/ i = 4 \/ i = 5 \/ i = 6 \/ i = 7 \/ i = 8
             \/ i = 9 \/ i = 10 \/ i = 11 \/ i = 12 \/ i = 13 \/ i = 14 \/ i = 15 \/ i = 16
  OBVIOUS
<1> DEFINE order == [c \in {"0", "1", "2", "3", "4", "5", "6", "7", "8", "9", "a", "b", "c", "d", "e", "f"} |->
                      CASE c = "0" -> 1 [] c = "1" -> 2 [] c = "2" -> 3 [] c = "3" -> 4
                        [] c = "4" -> 5 [] c = "5" -> 6 [] c = "6" -> 7 [] c = "7" -> 8
                        [] c = "8" -> 9 [] c = "9" -> 10 [] c = "a" -> 11 [] c = "b" -> 12
                        [] c = "c" -> 13 [] c = "d" -> 14 [] c = "e" -> 15 [] c = "f" -> 16]
<1>2. \A i \in 1 .. 16 : order[LowDigits[i]] = i
  BY <1>1, DigitsAre
<1>3. \A i \in 1 .. 16 : LowDigits[i] \notin {"-", " ", "\n"}
  <2> TAKE i \in 1 .. 16
  <2>1. LowDigits[i] \in {"0", "1", "2", "3", "4", "5", "6", "7", "8", "9", "a", "b", "c", "d", "e", "f"}
    BY <1>1, DigitsAre
  <2> QED
    BY <2>1
<1> HIDE DEF order
<1>4. ASSUME NEW i \in 1 .. 16, NEW j \in 1 .. 16, LowDigits[i] = LowDigits[j]
      PROVE  i = j
  BY <1>2, <1>4
<1> QED
  BY <1>3, <1>4

\* A digit is read as the number that it was printed for.
LEMMA DigitValue ==
  ASSUME NEW j \in 0 .. 15
  PROVE  /\ HexValue(LowDigits[j + 1]) = j
         /\ j < 10 => ValueIn(DecDigits, LowDigits[j + 1]) = j
         /\ LowDigits[j + 1] \in ToSet(LowDigits)
<1> DEFINE c == LowDigits[j + 1]
<1>0. j + 1 \in 1 .. 16 /\ (j + 1) - 1 = j /\ (j < 10 => j + 1 \in 1 .. 10)
  OBVIOUS
<1>1. c \in ToSet(LowDigits)
  BY <1>0, DigitsAre DEF ToSet
<1>2. ValueIn(LowDigits, c) = j
  <2>1. \A i \in DOMAIN LowDigits : LowDigits[i] = c <=> i = j + 1
    BY <1>0, DigitsAre, DigitsDiffer
  <2>2. (CHOOSE i \in DOMAIN LowDigits : LowDigits[i] = c) = j + 1
    <3>1. j + 1 \in DOMAIN LowDigits
      BY <1>0, DigitsAre
    <3> HIDE DEF c
    <3> QED
      BY <2>1, <3>1
  <2> QED
    BY <1>0, <2>2 DEF ValueIn
<1>3. ASSUME j < 10
      PROVE  ValueIn(DecDigits, c) = j
  <2>1. \A i \in DOMAIN DecDigits : DecDigits[i] = c <=> i = j + 1
    BY <1>0, <1>3, DigitsAre, DigitsDiffer
  <2>2. (CHOOSE i \in DOMAIN DecDigits : DecDigits[i] = c) = j + 1
    <3>1. j + 1 \in DOMAIN DecDigits
      BY <1>0, <1>3, DigitsAre
    <3> HIDE DEF c
    <3> QED
      BY <2>1, <3>1
  <2> QED
    BY <1>0, <2>2 DEF ValueIn
<1> QED
  BY <1>1, <1>2, <1>3 DEF HexValue

\* The bases that the kernel prints numbers in.
Base == {10, 16}
DigitOf(base) == 0 .. (base - 1)

\* Both are among the digits that hex_to_int knows.
LEMMA Bases ==
  /\ 10 \in Base /\ 16 \in Base
  /\ \A b \in Base : /\ b \in Nat \ {0}
                     /\ \A j \in DigitOf(b) : j \in 0 .. 15 /\ j \in Nat /\ (b # 16 => j < 10)
                     /\ \A j \in Nat : j < b => j \in DigitOf(b)
  BY DEF Base, DigitOf

\* The digits of the numbers up to n, as the kernel prints them.
IsPrinter(base, n, D) ==
  \A k \in 0 .. n :
    D[k] = IF k < base THEN <<LowDigits[k + 1]>>
           ELSE Append(D[k \div base], LowDigits[(k % base) + 1])

\* A number is made of its last digit and the number that the others make.
Splits(base, k) ==
  /\ k \div base \in Nat /\ k % base \in DigitOf(base)
  /\ (k \div base) * base + (k % base) = k
  /\ k >= base => k \div base < k

\* Every number splits so.
LEMMA LastDigit ==
  ASSUME NEW base \in Base, NEW k \in Nat
  PROVE  Splits(base, k)
<1>1. CASE base = 10
  <2>1. k \div 10 \in Nat /\ k % 10 \in DigitOf(10) /\ (k >= 10 => k \div 10 < k)
    BY DEF DigitOf
  <2>2. (k \div 10) * 10 + (k % 10) = k
    OBVIOUS
  <2> QED
    BY <1>1, <2>1, <2>2 DEF Splits
<1>2. CASE base = 16
  <2>1. k \div 16 \in Nat /\ k % 16 \in DigitOf(16) /\ (k >= 16 => k \div 16 < k)
    BY DEF DigitOf
  <2>2. (k \div 16) * 16 + (k % 16) = k
    OBVIOUS
  <2> QED
    BY <1>2, <2>1, <2>2 DEF Splits
<1> QED
  BY <1>1, <1>2 DEF Base

\* Numeral is defined by the recursion it is written with.
LEMMA NumeralIs ==
  ASSUME NEW base \in Base, NEW n \in Nat
  PROVE  \E D : IsPrinter(base, n, D) /\ Numeral(base, n) = D[n]
<1> DEFINE Digits(D, k) == IF k < base THEN <<LowDigits[k + 1]>>
                           ELSE Append(D[k \div base], LowDigits[(k % base) + 1])
           Good(j, D) == D = [k \in 0 .. n |-> IF k <= j THEN Digits(D, k) ELSE <<>>]
           T == {j \in 0 .. n : \A D : ~Good(j, D)}
<1>0. base \in Nat /\ base > 0
  BY Bases
<1>1. T = {}
  <2> SUFFICES ASSUME T # {}
               PROVE  FALSE
    OBVIOUS
  <2>1. PICK j \in T : \A i \in T : j <= i
    <3>1. T \in SUBSET Nat
      OBVIOUS
    <3> HIDE DEF T
    <3> QED
      BY <3>1, LeastNat
  <2>2. j \in 0 .. n /\ \A D : ~Good(j, D)
    OBVIOUS
  <2>3. CASE j = 0
    <3> DEFINE D == [k \in 0 .. n |-> IF k = 0 THEN <<LowDigits[1]>> ELSE <<>>]
    <3>1. \A k \in 0 .. n : k <= 0 => k = 0 /\ Digits(D, k) = <<LowDigits[1]>>
      <4>1. 0 + 1 = 1
        OBVIOUS
      <4> QED
        BY <1>0, <4>1
    <3>2. Good(0, D)
      <4> HIDE DEF Digits
      <4> QED
        BY <3>1
    <3> HIDE DEF D, Good
    <3> QED
      BY <2>2, <2>3, <3>2
  <2>4. CASE j # 0
    <3>1. j - 1 \in 0 .. n /\ j - 1 \notin T
      <4> HIDE DEF T
      <4> QED
        BY <2>1, <2>2, <2>4
    <3>2. PICK D : Good(j - 1, D)
      BY <3>1
    <3> DEFINE v == Digits(D, j)
               E == [D EXCEPT ![j] = v]
    <3>3. ASSUME NEW k \in 0 .. j
          PROVE  Digits(E, k) = Digits(D, k)
      <4>1. CASE k < base
        BY <4>1
      <4>2. CASE ~(k < base)
        <5>1. k \div base \in Nat /\ k \div base < k
          <6>1. k \in Nat
            OBVIOUS
          <6>2. Splits(base, k)
            BY <6>1, LastDigit
          <6> QED
            BY <1>0, <4>2, <6>1, <6>2 DEF Splits
        <5>2. k \div base # j /\ k \div base \in 0 .. n
          BY <2>2, <5>1
        <5>3. E[k \div base] = D[k \div base]
          <6> HIDE DEF v
          <6> QED
            BY <3>2, <5>2
        <5> HIDE DEF E
        <5> QED
          BY <4>2, <5>3
      <4> QED
        BY <4>1, <4>2
    <3>4. E = [k \in 0 .. n |-> IF k = j THEN v ELSE D[k]]
      <4> HIDE DEF v, Digits
      <4> QED
        BY <2>2, <3>2
    <3>5. \A k \in 0 .. n : k # j => D[k] = IF k <= j THEN Digits(D, k) ELSE <<>>
      <4>1. \A k \in 0 .. n : D[k] = IF k <= j - 1 THEN Digits(D, k) ELSE <<>>
        <5> HIDE DEF Digits
        <5> QED
          BY <3>2
      <4>2. \A k \in 0 .. n : k # j => (k <= j - 1 <=> k <= j)
        BY <2>2
      <4> HIDE DEF Digits
      <4> QED
        BY <4>1, <4>2
    <3>6. \A k \in 0 .. n : E[k] = IF k <= j THEN Digits(E, k) ELSE <<>>
      <4> TAKE k \in 0 .. n
      <4>1. k <= j => k \in 0 .. j
        BY <2>2
      <4>2. E[k] = IF k = j THEN v ELSE D[k]
        BY <3>4
      <4>3. k = j => k <= j
        BY <2>2
      <4>4. k <= j => Digits(E, k) = Digits(D, k)
        BY <3>3, <4>1
      <4> HIDE DEF Digits, E
      <4> QED
        BY <3>5, <4>2, <4>3, <4>4
    <3>7. Good(j, E)
      <4> HIDE DEF E, Digits, v
      <4> QED
        BY <3>4, <3>6
    <3> HIDE DEF Good, E
    <3> QED
      BY <2>2, <3>7
  <2> QED
    BY <2>3, <2>4
<1>2. PICK D : Good(n, D)
  <2>1. n \in 0 .. n /\ n \notin T
    <3> HIDE DEF T
    <3> QED
      BY <1>1
  <2> QED
    BY <2>1
<1>3. D = [k \in 0 .. n |-> Digits(D, k)]
  <2>1. \A k \in 0 .. n : k <= n
    OBVIOUS
  <2> HIDE DEF Digits
  <2> QED
    BY <1>2, <2>1
<1> DEFINE E == CHOOSE F : F = [k \in 0 .. n |-> Digits(F, k)]
<1>4. Numeral(base, n) = E[n]
  BY DEF Numeral
<1>5. E = [k \in 0 .. n |-> Digits(E, k)]
  BY <1>3
<1> HIDE DEF E
<1>6. \A k \in 0 .. n : E[k] = Digits(E, k)
  <2> HIDE DEF Digits
  <2> QED
    BY <1>5
<1> QED
  BY <1>4, <1>6 DEF IsPrinter

\* The digits of s as hex_to_int and atoi take them.
Values(base, s) ==
  [i \in DOMAIN s |-> IF base = 16 THEN HexValue(s[i]) ELSE ValueIn(DecDigits, s[i])]

IsDigits(base, s) ==
  /\ s \in Seq(ToSet(LowDigits)) /\ s # <<>> /\ Values(base, s) \in Seq(Nat)
  /\ Len(Values(base, s)) = Len(s)

\* A numeral of one digit.
LEMMA OneDigit ==
  ASSUME NEW base \in Base, NEW j \in DigitOf(base)
  PROVE  LET s == <<LowDigits[j + 1]>>
         IN  IsDigits(base, s) /\ Len(s) = 1 /\ Values(base, s)[1] = j
<1> DEFINE c == LowDigits[j + 1]
           s == <<c>>
<1>1. j \in 0 .. 15 /\ j \in Nat /\ (base # 16 => j < 10)
  BY Bases
<1>2. (IF base = 16 THEN HexValue(c) ELSE ValueIn(DecDigits, c)) = j /\ c \in ToSet(LowDigits)
  BY <1>1, DigitValue
<1> HIDE DEF c
<1>3. s \in Seq(ToSet(LowDigits)) /\ Len(s) = 1 /\ s # <<>> /\ DOMAIN s = 1 .. 1 /\ s[1] = c
  BY <1>2
<1> HIDE DEF s
<1>4. Values(base, s) = [i \in 1 .. 1 |-> j]
  <2>1. \A i \in 1 .. 1 : i = 1
    OBVIOUS
  <2> QED
    BY <1>2, <1>3, <2>1 DEF Values
<1>5. Values(base, s) \in Seq(Nat) /\ Len(Values(base, s)) = 1 /\ Values(base, s)[1] = j
  <2> DEFINE v == [i \in 1 .. 1 |-> j]
  <2>1. v \in Seq(Nat) /\ Len(v) = 1 /\ v[1] = j
    BY <1>1
  <2> QED
    BY <1>4, <2>1
<1>6. IsDigits(base, s) /\ Len(s) = 1 /\ Values(base, s)[1] = j
  BY <1>3, <1>5 DEF IsDigits
<1> QED
  BY <1>6 DEF s, c

\* t is the numeral s with the digit j behind it.
OneMore(base, s, j, t) ==
  /\ IsDigits(base, t) /\ Len(t) = Len(s) + 1
  /\ Values(base, t)[Len(t)] = j
  /\ \A k \in 1 .. Len(s) : Values(base, t)[k] = Values(base, s)[k]

\* A numeral with one digit more.
LEMMA MoreDigits ==
  ASSUME NEW base \in Base, NEW j \in DigitOf(base), NEW s, IsDigits(base, s),
         NEW t, t = Append(s, LowDigits[j + 1])
  PROVE  OneMore(base, s, j, t)
<1> DEFINE c == LowDigits[j + 1]
<1>t. t = Append(s, c)
  OBVIOUS
<1>1. j \in 0 .. 15 /\ j \in Nat /\ (base # 16 => j < 10)
  BY Bases
<1>2. (IF base = 16 THEN HexValue(c) ELSE ValueIn(DecDigits, c)) = j /\ c \in ToSet(LowDigits)
  BY <1>1, DigitValue
<1> HIDE DEF c
<1>3. /\ s \in Seq(ToSet(LowDigits)) /\ Values(base, s) \in Seq(Nat) /\ Len(Values(base, s)) = Len(s)
  BY DEF IsDigits
<1>4. PICK n \in Nat : n = Len(s) /\ DOMAIN s = 1 .. n
  BY <1>3
<1>5. /\ t \in Seq(ToSet(LowDigits)) /\ Len(t) = n + 1 /\ t # <<>> /\ DOMAIN t = 1 .. (n + 1)
      /\ t[n + 1] = c /\ \A k \in 1 .. n : t[k] = s[k]
  BY <1>2, <1>3, <1>4, <1>t
<1> DEFINE v == Values(base, s)
           w == Values(base, t)
<1>6. /\ w = [i \in 1 .. (n + 1) |-> IF base = 16 THEN HexValue(t[i]) ELSE ValueIn(DecDigits, t[i])]
      /\ v = [i \in 1 .. n |-> IF base = 16 THEN HexValue(s[i]) ELSE ValueIn(DecDigits, s[i])]
  BY <1>4, <1>5 DEF Values
<1>v. v \in Seq(Nat) /\ Len(v) = n
  BY <1>3, <1>4
<1> HIDE DEF v, w
<1>7. w[n + 1] = j
  <2>1. n + 1 \in 1 .. (n + 1)
    OBVIOUS
  <2>2. w[n + 1] = IF base = 16 THEN HexValue(t[n + 1]) ELSE ValueIn(DecDigits, t[n + 1])
    BY <1>6, <2>1
  <2> QED
    BY <1>2, <1>5, <2>2
<1>8. \A k \in 1 .. n : w[k] = v[k] /\ v[k] \in Nat
  <2> TAKE k \in 1 .. n
  <2>1. k \in 1 .. (n + 1)
    OBVIOUS
  <2>2. w[k] = IF base = 16 THEN HexValue(t[k]) ELSE ValueIn(DecDigits, t[k])
    BY <1>6, <2>1
  <2>3. v[k] = IF base = 16 THEN HexValue(s[k]) ELSE ValueIn(DecDigits, s[k])
    BY <1>6
  <2>4. v[k] \in Nat
    BY <1>v
  <2> QED
    BY <1>5, <2>2, <2>3, <2>4
<1>9. w \in Seq(Nat) /\ Len(w) = n + 1
  <2>1. \A k \in 1 .. (n + 1) : w[k] \in Nat
    <3> TAKE k \in 1 .. (n + 1)
    <3>1. k \in 1 .. n \/ k = n + 1
      OBVIOUS
    <3> QED
      BY <1>1, <1>7, <1>8, <3>1
  <2>2. DOMAIN w = 1 .. (n + 1) /\ w = [k \in 1 .. (n + 1) |-> w[k]]
    BY <1>6
  <2>3. w \in [1 .. (n + 1) -> Nat]
    BY <2>1, <2>2
  <2>4. n + 1 \in Nat
    OBVIOUS
  <2> QED
    BY <2>3, <2>4
<1>10. IsDigits(base, t)
  BY <1>5, <1>9 DEF IsDigits, w
<1> QED
  BY <1>4, <1>5, <1>7, <1>8, <1>10 DEF v, w, OneMore

\* In a variable of that size, the numeral s reads as q.
ReadsAs(base, size, s, q) ==
  IsDigits(base, s) /\ Accumulate(base, size, Values(base, s)) = q % size

\* What one digit more does to the number that is read.
LEMMA ValueNext ==
  ASSUME NEW base \in Base, NEW size \in Nat \ {0}, NEW q \in Nat, NEW j \in DigitOf(base),
         NEW s, ReadsAs(base, size, s, q),
         NEW t, t = Append(s, LowDigits[j + 1])
  PROVE  ReadsAs(base, size, t, q * base + j)
<1>s. IsDigits(base, s) /\ Accumulate(base, size, Values(base, s)) = q % size
  BY DEF ReadsAs
<1>0. base \in Nat /\ j \in Nat
  BY Bases
<1>1. /\ IsDigits(base, t) /\ Len(t) = Len(s) + 1
      /\ Values(base, t)[Len(t)] = j
      /\ \A i \in 1 .. Len(s) : Values(base, t)[i] = Values(base, s)[i]
  <2>1. OneMore(base, s, j, t)
    BY <1>s, MoreDigits
  <2> QED
    BY <2>1 DEF OneMore
<1> DEFINE v == Values(base, s)
           w == Values(base, t)
<1>2. v \in Seq(Nat) /\ w \in Seq(Nat) /\ Len(v) = Len(s) /\ Len(w) = Len(t)
  BY <1>s, <1>1 DEF IsDigits
<1>3. /\ Len(w) = Len(v) + 1 /\ w[Len(w)] = j /\ (\A i \in 1 .. Len(v) : w[i] = v[i])
      /\ Accumulate(base, size, v) = q % size
  BY <1>s, <1>1, <1>2
<1> HIDE DEF v, w
<1>4. Accumulate(base, size, w) = (Accumulate(base, size, v) * base + w[Len(w)]) % size
  <2>1. Longer(w, v)
    BY <1>2, <1>3 DEF Longer
  <2> QED
    BY <1>0, <2>1, AccumulateMore
<1>5. ((q % size) * base + j) % size = (q * base + j) % size
  <2>1. size \in Nat \ {0} /\ q \in Nat /\ j \in Nat /\ base \in Nat
    BY <1>0
  <2>2. SameRead(size, q, j, base)
    BY <2>1, RemainderNext
  <2> QED
    BY <2>2 DEF SameRead
<1> QED
  BY <1>1, <1>3, <1>4, <1>5 DEF w, ReadsAs

\* A numeral stands for the number it was printed from: reading its digits into
\* a variable of any size gives that number, less what the variable cannot hold.
LEMMA NumeralValue ==
  ASSUME NEW base \in Base, NEW size \in Nat \ {0}, NEW n \in Nat,
         NEW D, IsPrinter(base, n, D)
  PROVE  \A k \in 0 .. n : ReadsAs(base, size, D[k], k)
<1> DEFINE T == {k \in 0 .. n : ~ReadsAs(base, size, D[k], k)}
<1> SUFFICES ASSUME T # {}
             PROVE  FALSE
  OBVIOUS
<1>0. base \in Nat /\ base > 0
  BY Bases
<1>1. PICK k \in T : \A i \in T : k <= i
  <2>1. T \in SUBSET Nat
    OBVIOUS
  <2> HIDE DEF T
  <2> QED
    BY <2>1, LeastNat
<1>2. k \in 0 .. n /\ k \in Nat /\ ~ReadsAs(base, size, D[k], k)
  OBVIOUS
<1>3. CASE k < base
  <2>1. D[k] = <<LowDigits[k + 1]>> /\ k \in DigitOf(base)
    <3> HIDE DEF T
    <3>1. k \in DigitOf(base)
      BY <1>2, <1>3, Bases
    <3>2. D[k] = <<LowDigits[k + 1]>>
      BY <1>2, <1>3 DEF IsPrinter
    <3> QED
      BY <3>1, <3>2
  <2>2. IsDigits(base, D[k]) /\ Len(D[k]) = 1 /\ Values(base, D[k])[1] = k
    BY <2>1, OneDigit
  <2>3. Values(base, D[k]) \in Seq(Nat) /\ Len(Values(base, D[k])) = 1
    BY <2>2 DEF IsDigits
  <2>4. Accumulate(base, size, Values(base, D[k])) = k % size
    BY <1>0, <2>2, <2>3, AccumulateOne
  <2> QED
    BY <1>2, <2>2, <2>4 DEF ReadsAs
<1>4. CASE ~(k < base)
  <2> DEFINE q == k \div base
             j == k % base
             s == D[q]
             t == D[k]
  <2>1. q \in Nat /\ j \in DigitOf(base) /\ q * base + j = k /\ q < k
    <3> HIDE DEF T
    <3>1. Splits(base, k)
      BY <1>2, LastDigit
    <3> QED
      BY <1>0, <1>2, <1>4, <3>1 DEF Splits
  <2>2. t = Append(s, LowDigits[j + 1])
    BY <1>2, <1>4 DEF IsPrinter
  <2> HIDE DEF q, j
  <2>3. q \in 0 .. n /\ q \notin T
    <3> HIDE DEF T
    <3> QED
      BY <1>1, <1>2, <2>1
  <2>4. ReadsAs(base, size, s, q)
    BY <2>3
  <2>5. ReadsAs(base, size, t, q * base + j)
    <3> HIDE DEF s, t, T
    <3> QED
      BY <2>1, <2>2, <2>4, ValueNext
  <2> QED
    BY <1>2, <2>1, <2>5
<1> QED
  BY <1>3, <1>4

\* A number below the d-th power of 16 has at most d hexadecimal digits.
LEMMA NumeralLen ==
  ASSUME NEW n \in Nat, NEW D, IsPrinter(16, n, D), NEW d \in Nat \ {0}, n < Power(16, d)
  PROVE  Len(D[n]) <= d
<1>1. PICK p \in [0 .. d -> Nat \ {0}] :
        p[0] = 1 /\ p[d] = Power(16, d) /\ \A k \in 1 .. d : p[k] = 16 * p[k - 1]
  <2>1. 16 \in Nat \ {0} /\ d \in Nat
    OBVIOUS
  <2>2. PICK p : ArePowers(16, d, p) /\ p[d] = Power(16, d)
    BY <2>1, PowerIs
  <2> QED
    BY <2>2 DEF ArePowers
<1>2. \A k \in 0 .. n : IsDigits(16, D[k])
  <2>1. 1 \in Nat \ {0}
    OBVIOUS
  <2>2. \A k \in 0 .. n : ReadsAs(16, 1, D[k], k)
    BY <2>1, Bases, NumeralValue
  <2> QED
    BY <2>2 DEF ReadsAs
<1> DEFINE Short(i) == \A k \in 0 .. n : k < p[i] => Len(D[k]) <= i
           T == {i \in 1 .. d : ~Short(i)}
<1> SUFFICES T = {}
  <2>1. d \in 1 .. d /\ n \in 0 .. n
    OBVIOUS
  <2>2. ASSUME T = {}
        PROVE  Short(d)
    BY <2>1, <2>2
  <2> QED
    BY <1>1, <2>1, <2>2
<1> SUFFICES ASSUME T # {}
             PROVE  FALSE
  OBVIOUS
<1>3. PICK i \in T : \A x \in T : i <= x
  <2>1. T \in SUBSET Nat
    OBVIOUS
  <2> HIDE DEF T
  <2> QED
    BY <2>1, LeastNat
<1>4. PICK k \in 0 .. n : k < p[i] /\ ~(Len(D[k]) <= i)
  OBVIOUS
<1>5. i \in 1 .. d /\ p[i] = 16 * p[i - 1] /\ p[i - 1] \in Nat
  BY <1>1
<1>6. CASE k < 16
  <2>1. D[k] = <<LowDigits[k + 1]>>
    BY <1>6 DEF IsPrinter
  <2>2. Len(D[k]) = 1
    BY <2>1
  <2> QED
    BY <1>4, <1>5, <2>2
<1>7. CASE ~(k < 16)
  <2>1. D[k] = Append(D[k \div 16], LowDigits[(k % 16) + 1])
    BY <1>7 DEF IsPrinter
  <2>2. k \div 16 \in 0 .. n /\ k \div 16 < p[i - 1]
    <3>1. PICK x \in Nat : x = p[i - 1]
      BY <1>5
    <3>2. k \in Nat /\ k <= n /\ k < 16 * x
      BY <1>4, <1>5, <3>1
    <3>3. k \div 16 \in Nat /\ k \div 16 <= k /\ k \div 16 < x
      <4> HIDE DEF Short, T
      <4> QED
        BY <3>2
    <3> QED
      BY <3>1, <3>2, <3>3
  <2>3. IsDigits(16, D[k \div 16]) /\ k % 16 \in DigitOf(16)
    BY <1>2, <2>2 DEF DigitOf
  <2>4. Len(D[k]) = Len(D[k \div 16]) + 1 /\ Len(D[k \div 16]) \in Nat
    <3>1. OneMore(16, D[k \div 16], k % 16, D[k])
      BY <2>1, <2>3, Bases, MoreDigits
    <3> QED
      BY <2>3, <3>1 DEF OneMore, IsDigits
  <2>5. i # 1
    BY <1>1, <1>4, <1>5, <1>7
  <2>6. i - 1 \in 1 .. d /\ i - 1 \notin T
    <3> HIDE DEF T
    <3> QED
      BY <1>3, <1>5, <2>5
  <2>7. Len(D[k \div 16]) <= i - 1
    BY <2>2, <2>6
  <2>8. i \in Nat /\ ~(Len(D[k]) <= i)
    BY <1>4, <1>5
  <2> HIDE DEF T, Short
  <2>9. Len(D[k \div 16]) + 1 <= i
    BY <2>4, <2>7, <2>8
  <2> QED
    BY <2>4, <2>8, <2>9
<1> QED
  BY <1>6, <1>7

\* hex_to_int (object.c:50-81) reads an address that fits a word as what it is.
LEMMA HexRead ==
  ASSUME NEW n \in Nat, n < WordSize
  PROVE  /\ Numeral(16, n) \in Seq(ToSet(LowDigits)) /\ Numeral(16, n) # <<>>
         /\ hex_to_int(Numeral(16, n)).ok /\ hex_to_int(Numeral(16, n)).data = n
<1> DEFINE s == Numeral(16, n)
<1>1. PICK D : IsPrinter(16, n, D) /\ s = D[n]
  BY Bases, NumeralIs
<1>2. WordSize \in Nat \ {0}
  BY WidthAssumption, PowerType DEF WordSize
<1>3. IsDigits(16, s) /\ Accumulate(16, WordSize, Values(16, s)) = n % WordSize
  <2>1. n \in 0 .. n
    OBVIOUS
  <2> QED
    BY <1>1, <1>2, <2>1, Bases, NumeralValue DEF ReadsAs
<1>4. n % WordSize = n
  BY <1>2
<1>5. Len(s) <= WORD_DIGITS
  BY <1>1, WidthAssumption, NumeralLen DEF WordSize
<1> HIDE DEF s
<1>6. s \in Seq(ToSet(LowDigits)) /\ s # <<>>
  BY <1>3 DEF IsDigits
<1>7. ToSet(s) \subseteq ToSet(LowDigits)
  BY <1>6 DEF ToSet
<1>8. ~(Len(s) - 1 > WORD_DIGITS)
  BY <1>5, <1>6, WidthAssumption
<1>9. [i \in DOMAIN s |-> HexValue(s[i])] = Values(16, s)
  BY DEF Values
<1>10. hex_to_int(s) = [ok |-> TRUE, data |-> n]
  BY <1>3, <1>4, <1>7, <1>8, <1>9 DEF hex_to_int
<1> QED
  BY <1>6, <1>10 DEF s

\* atoi reads a number as what is left of it in an int.
LEMMA DecRead ==
  ASSUME NEW n \in Nat
  PROVE  /\ Numeral(10, n) \in Seq(ToSet(LowDigits)) /\ Numeral(10, n) # <<>>
         /\ atoi(Numeral(10, n)) = n % IntSize
<1> DEFINE s == Numeral(10, n)
<1>1. PICK D : IsPrinter(10, n, D) /\ s = D[n]
  BY Bases, NumeralIs
<1>2. IntSize \in Nat \ {0}
  BY WidthAssumption, PowerType DEF IntSize
<1>3. IsDigits(10, s) /\ Accumulate(10, IntSize, Values(10, s)) = n % IntSize
  <2>1. n \in 0 .. n
    OBVIOUS
  <2> QED
    BY <1>1, <1>2, <2>1, Bases, NumeralValue DEF ReadsAs
<1> HIDE DEF s
<1>4. s \in Seq(ToSet(LowDigits)) /\ s # <<>>
  BY <1>3 DEF IsDigits
<1>5. [i \in DOMAIN s |-> ValueIn(DecDigits, s[i])] = Values(10, s)
  BY DEF Values
<1>6. atoi(s) = n % IntSize
  BY <1>3, <1>5 DEF atoi
<1> QED
  BY <1>4, <1>6 DEF s

\* A sequence of digits has none of the characters that end a field.
LEMMA DigitsEndNoField ==
  ASSUME NEW s \in Seq(ToSet(LowDigits)), s # <<>>
  PROVE  IsNumeral(s)
<1>1. \A c \in ToSet(LowDigits) : c \notin {"-", " ", "\n"}
  BY DigitsAre, DigitsDiffer DEF ToSet
<1>2. ToSet(s) \subseteq ToSet(LowDigits)
  BY DEF ToSet
<1> QED
  BY <1>1, <1>2 DEF IsNumeral

\* The numerals of every mapping are read back.
LEMMA NumeralsAreRead ==
  NumeralsRead
<1> SUFFICES ASSUME NEW r \in Region
             PROVE  NumeralRead(r)
  BY DEF NumeralsRead
<1>1. r.start \in Nat /\ r.end \in Nat /\ r.inode \in Nat /\ r.end < WordSize
  BY RegionAssumption
<1>2. r.start < WordSize
  <2>1. WordSize \in Nat
    BY WidthAssumption, PowerType DEF WordSize
  <2>2. r.start < r.end
    BY RegionAssumption
  <2> QED
    BY <1>1, <2>1, <2>2
<1>3. ASSUME NEW n \in {r.start, r.end}
      PROVE  /\ IsNumeral(Numeral(16, n))
             /\ hex_to_int(Numeral(16, n)).ok /\ hex_to_int(Numeral(16, n)).data = n
  <2>1. n \in Nat /\ n < WordSize
    BY <1>1, <1>2
  <2> QED
    BY <2>1, HexRead, DigitsEndNoField
<1>4. IsNumeral(Numeral(10, r.inode)) /\ atoi(Numeral(10, r.inode)) = r.inode % IntSize
  BY <1>1, DecRead, DigitsEndNoField
<1> QED
  BY <1>3, <1>4 DEF NumeralRead

-----------------------------------------------------------------------------
(***************************************************************************)
(* Sequences and lines                                                     *)
(***************************************************************************)

\* A concatenation, its length and its parts.
Cat(S, u, s, t) == s \in Seq(S) /\ t \in Seq(S) /\ u = s \o t

\* The length of a concatenation.
LEMMA CatLen ==
  ASSUME NEW S, NEW u, NEW s, NEW t, Cat(S, u, s, t)
  PROVE  u \in Seq(S) /\ Len(u) = Len(s) + Len(t)
  BY DEF Cat

\* A text that has a concatenation has both of its parts, one behind the
\* other.
LEMMA CatParts ==
  ASSUME NEW S, NEW u, NEW s, NEW t, Cat(S, u, s, t),
         NEW m, NEW p \in Nat, Len(m) \in Nat, Part(m, p, u)
  PROVE  Part(m, p, s) /\ Part(m, p + Len(s), t)
<1> s \in Seq(S) /\ t \in Seq(S) /\ u = s \o t
  BY DEF Cat
<1>1. /\ Len(s \o t) = Len(s) + Len(t) /\ Len(s) \in Nat /\ Len(t) \in Nat
      /\ \A i \in 1 .. Len(s) : (s \o t)[i] = s[i]
      /\ \A i \in 1 .. Len(t) : (s \o t)[Len(s) + i] = t[i]
  OBVIOUS
<1>2. \A i \in 1 .. (Len(s) + Len(t)) : m[p + i] = (s \o t)[i]
  BY <1>1 DEF Part
<1>3. ASSUME NEW i \in 1 .. Len(s) PROVE m[p + i] = s[i]
  BY <1>1, <1>2
<1>4. ASSUME NEW i \in 1 .. Len(t) PROVE m[p + Len(s) + i] = t[i]
  <2>1. Len(s) + i \in 1 .. (Len(s) + Len(t)) /\ p + (Len(s) + i) = p + Len(s) + i
    BY <1>1
  <2> QED
    BY <2>1, <1>1, <1>2
<1>5. p + Len(s) <= Len(m) /\ p + Len(s) + Len(t) <= Len(m)
  BY <1>1 DEF Part
<1> QED
  BY <1>3, <1>4, <1>5 DEF Part

\* Short sequences.
LEMMA Tuple1 ==
  ASSUME NEW S, NEW c1 \in S
  PROVE  <<c1>> \in Seq(S) /\ Len(<<c1>>) = 1 /\ <<c1>>[1] = c1
  OBVIOUS

\* The same for two characters, the separators of the padding.
LEMMA Tuple2 ==
  ASSUME NEW S, NEW c1 \in S, NEW c2 \in S
  PROVE  /\ <<c1, c2>> \in Seq(S) /\ Len(<<c1, c2>>) = 2
         /\ <<c1, c2>>[1] = c1 /\ <<c1, c2>>[2] = c2
  OBVIOUS

\* The same for five, the permissions.
LEMMA Tuple5 ==
  ASSUME NEW S, NEW c1 \in S, NEW c2 \in S, NEW c3 \in S, NEW c4 \in S, NEW c5 \in S
  PROVE  LET s == <<c1, c2, c3, c4, c5>>
         IN  /\ s \in Seq(S) /\ Len(s) = 5
             /\ s[1] = c1 /\ s[2] = c2 /\ s[3] = c3 /\ s[4] = c4 /\ s[5] = c5
  OBVIOUS

\* The same for six, offset and device.
LEMMA Tuple6 ==
  ASSUME NEW S, NEW c1 \in S, NEW c2 \in S, NEW c3 \in S, NEW c4 \in S, NEW c5 \in S,
         NEW c6 \in S
  PROVE  LET s == <<c1, c2, c3, c4, c5, c6>>
         IN  /\ s \in Seq(S) /\ Len(s) = 6
             /\ s[1] = c1 /\ s[2] = c2 /\ s[3] = c3 /\ s[4] = c4 /\ s[5] = c5 /\ s[6] = c6
  OBVIOUS

\* A sequence is one over any set that has its elements.
LEMMA SeqOver ==
  ASSUME NEW S, NEW T, NEW s \in Seq(S), \A i \in 1 .. Len(s) : s[i] \in T
  PROVE  s \in Seq(T)
  OBVIOUS

\* The fields of a line are over Char.
LEMMA FieldsOverChar ==
  ASSUME NEW r \in Region
  PROVE  /\ Numeral(16, r.start) \in Seq(Char) /\ Numeral(16, r.end) \in Seq(Char)
         /\ Numeral(10, r.inode) \in Seq(Char) /\ r.name \in Seq(Char)
<1> DEFINE C == ToSet(r.name) \cup ToSet(Numeral(16, r.start)) \cup ToSet(Numeral(16, r.end))
                  \cup ToSet(Numeral(10, r.inode))
<1>1. C \subseteq Char
  BY DEF Char
<1>2. /\ \A s \in {Numeral(16, r.start), Numeral(16, r.end), Numeral(10, r.inode)} :
             s \in Seq(ToSet(LowDigits)) /\ ToSet(s) \subseteq C
      /\ r.name \in Seq(STRING) /\ ToSet(r.name) \subseteq C
  BY NumeralsAreRead, RegionAssumption DEF NumeralsRead, NumeralRead, IsNumeral
<1> HIDE DEF C
<1>3. ASSUME NEW T, NEW s \in Seq(T), ToSet(s) \subseteq C PROVE s \in Seq(Char)
  <2>1. \A i \in 1 .. Len(s) : s[i] \in Char
    BY <1>1, <1>3 DEF ToSet
  <2> QED
    BY <2>1, SeqOver
<1> QED
  BY <1>2, <1>3

\* The number of characters of the fields of r's line, and the positions of
\* the last character of the range, of the device and of the padding.
StartLen(r)   == Len(Numeral(16, r.start))
EndLen(r)     == Len(Numeral(16, r.end))
InodeLen(r)   == Len(Numeral(10, r.inode))
RangeEnd(r)   == StartLen(r) + EndLen(r) + 1
DeviceEnd(r)  == RangeEnd(r) + 11
PaddingEnd(r) == DeviceEnd(r) + InodeLen(r) + 2 + (IF r.name = <<>> THEN 0 ELSE 2)

\* The positions are numbers: the numerals and the name are sequences.
LEMMA Positions ==
  ASSUME NEW r \in Region
  PROVE  /\ StartLen(r) \in Nat /\ EndLen(r) \in Nat /\ InodeLen(r) \in Nat
         /\ Len(r.name) \in Nat /\ RangeEnd(r) \in Nat /\ DeviceEnd(r) \in Nat
         /\ PaddingEnd(r) \in Nat
<1>1. /\ StartLen(r) \in Nat /\ EndLen(r) \in Nat /\ InodeLen(r) \in Nat
      /\ Len(r.name) \in Nat
  BY FieldsOverChar DEF StartLen, EndLen, InodeLen
<1>2. RangeEnd(r) \in Nat /\ DeviceEnd(r) \in Nat
  BY <1>1 DEF RangeEnd, DeviceEnd
<1>3. PaddingEnd(r) \in Nat
  BY <1>1, <1>2 DEF PaddingEnd
<1> QED
  BY <1>1, <1>2, <1>3

\* The fields of a text that begins with r's line, where the scanners look
\* for them.
Fields(m, r) ==
  /\ PaddingEnd(r) + Len(r.name) + 1 <= Len(m)
  /\ Part(m, 0, Numeral(16, r.start)) /\ m[StartLen(r) + 1] = "-"
  /\ Part(m, StartLen(r) + 1, Numeral(16, r.end)) /\ m[RangeEnd(r) + 1] = " "
  /\ m[RangeEnd(r) + 2] = "r" /\ m[RangeEnd(r) + 3] = "-"
  /\ m[RangeEnd(r) + 4] = (IF r.exec THEN "x" ELSE "-")
  /\ m[RangeEnd(r) + 5] = "p" /\ m[RangeEnd(r) + 6] = " "
  /\ m[RangeEnd(r) + 7] = "0" /\ m[RangeEnd(r) + 8] = " "
  /\ m[RangeEnd(r) + 9] = "8" /\ m[RangeEnd(r) + 10] = ":"
  /\ m[RangeEnd(r) + 11] = "1" /\ m[RangeEnd(r) + 12] = " "
  /\ Part(m, DeviceEnd(r) + 1, Numeral(10, r.inode))
  /\ \A i \in (DeviceEnd(r) + InodeLen(r) + 2) .. PaddingEnd(r) : m[i] = " "
  /\ Part(m, PaddingEnd(r), r.name)
  /\ m[PaddingEnd(r) + Len(r.name) + 1] = "\n"

\* A concatenation of the form of a line, and where its parts are.
Line(A, d, B, b, P, O, C, W, N, e) ==
  A \o d \o B \o b \o P \o O \o C \o b \o W \o N \o e

Single(s) == Len(s) = 1

LineOver(S, A, d, B, b, P, O, C, W, N, e) ==
  /\ A \in Seq(S) /\ B \in Seq(S) /\ C \in Seq(S) /\ P \in Seq(S) /\ O \in Seq(S)
  /\ W \in Seq(S) /\ N \in Seq(S) /\ d \in Seq(S) /\ b \in Seq(S) /\ e \in Seq(S)
  /\ Single(d) /\ Single(b) /\ Single(e)

LineParts(m, A, d, B, b, P, O, C, W, N, e) ==
  LET x == Len(A) + Len(B) + 2
      y == x + Len(P) + Len(O)
      z == y + Len(C) + 1
  IN  /\ Len(Line(A, d, B, b, P, O, C, W, N, e)) = z + Len(W) + Len(N) + 1
      /\ Part(m, 0, A) /\ Part(m, Len(A), d) /\ Part(m, Len(A) + 1, B)
      /\ Part(m, x - 1, b) /\ Part(m, x, P) /\ Part(m, x + Len(P), O)
      /\ Part(m, y, C) /\ Part(m, z - 1, b) /\ Part(m, z, W)
      /\ Part(m, z + Len(W), N) /\ Part(m, z + Len(W) + Len(N), e)

\* Where the parts of a line begin, counted from the lengths of the ones
\* before.
LEMMA Layout ==
  ASSUME NEW S, NEW A, NEW d, NEW B, NEW b, NEW P, NEW O, NEW C, NEW W, NEW N, NEW e,
         LineOver(S, A, d, B, b, P, O, C, W, N, e),
         NEW m
  PROVE  /\ Line(A, d, B, b, P, O, C, W, N, e) \in Seq(S)
         /\ Len(m) \in Nat /\ Part(m, 0, Line(A, d, B, b, P, O, C, W, N, e)) =>
              LineParts(m, A, d, B, b, P, O, C, W, N, e)
<1> /\ A \in Seq(S) /\ B \in Seq(S) /\ C \in Seq(S) /\ P \in Seq(S) /\ O \in Seq(S)
    /\ W \in Seq(S) /\ N \in Seq(S) /\ d \in Seq(S) /\ b \in Seq(S) /\ e \in Seq(S)
    /\ Single(d) /\ Single(b) /\ Single(e)
  BY DEF LineOver
<1> DEFINE s1  == A \o d
           s2  == s1 \o B
           s3  == s2 \o b
           s4  == s3 \o P
           s5  == s4 \o O
           s6  == s5 \o C
           s7  == s6 \o b
           s8  == s7 \o W
           s9  == s8 \o N
           s10 == s9 \o e
           x   == Len(A) + Len(B) + 2
           y   == x + Len(P) + Len(O)
           z   == y + Len(C) + 1
<1>1. Line(A, d, B, b, P, O, C, W, N, e) = s10
  BY DEF Line
<1>2. Cat(S, s1, A, d) /\ s1 \in Seq(S) /\ Len(s1) = Len(A) + Len(d)
  <2>1. Cat(S, s1, A, d)
    BY DEF Cat
  <2> HIDE DEF s1
  <2> QED
    BY <2>1, CatLen
<1> HIDE DEF s1
<1>3. Cat(S, s2, s1, B) /\ s2 \in Seq(S) /\ Len(s2) = Len(s1) + Len(B)
  <2>1. Cat(S, s2, s1, B)
    BY <1>2 DEF Cat
  <2> HIDE DEF s2
  <2> QED
    BY <2>1, CatLen
<1> HIDE DEF s2
<1>4. Cat(S, s3, s2, b) /\ s3 \in Seq(S) /\ Len(s3) = Len(s2) + Len(b)
  <2>1. Cat(S, s3, s2, b)
    BY <1>3 DEF Cat
  <2> HIDE DEF s3
  <2> QED
    BY <2>1, CatLen
<1> HIDE DEF s3
<1>5. Cat(S, s4, s3, P) /\ s4 \in Seq(S) /\ Len(s4) = Len(s3) + Len(P)
  <2>1. Cat(S, s4, s3, P)
    BY <1>4 DEF Cat
  <2> HIDE DEF s4
  <2> QED
    BY <2>1, CatLen
<1> HIDE DEF s4
<1>6. Cat(S, s5, s4, O) /\ s5 \in Seq(S) /\ Len(s5) = Len(s4) + Len(O)
  <2>1. Cat(S, s5, s4, O)
    BY <1>5 DEF Cat
  <2> HIDE DEF s5
  <2> QED
    BY <2>1, CatLen
<1> HIDE DEF s5
<1>7. Cat(S, s6, s5, C) /\ s6 \in Seq(S) /\ Len(s6) = Len(s5) + Len(C)
  <2>1. Cat(S, s6, s5, C)
    BY <1>6 DEF Cat
  <2> HIDE DEF s6
  <2> QED
    BY <2>1, CatLen
<1> HIDE DEF s6
<1>8. Cat(S, s7, s6, b) /\ s7 \in Seq(S) /\ Len(s7) = Len(s6) + Len(b)
  <2>1. Cat(S, s7, s6, b)
    BY <1>7 DEF Cat
  <2> HIDE DEF s7
  <2> QED
    BY <2>1, CatLen
<1> HIDE DEF s7
<1>9. Cat(S, s8, s7, W) /\ s8 \in Seq(S) /\ Len(s8) = Len(s7) + Len(W)
  <2>1. Cat(S, s8, s7, W)
    BY <1>8 DEF Cat
  <2> HIDE DEF s8
  <2> QED
    BY <2>1, CatLen
<1> HIDE DEF s8
<1>10. Cat(S, s9, s8, N) /\ s9 \in Seq(S) /\ Len(s9) = Len(s8) + Len(N)
  <2>1. Cat(S, s9, s8, N)
    BY <1>9 DEF Cat
  <2> HIDE DEF s9
  <2> QED
    BY <2>1, CatLen
<1> HIDE DEF s9
<1>11. Cat(S, s10, s9, e) /\ s10 \in Seq(S) /\ Len(s10) = Len(s9) + Len(e)
  <2>1. Cat(S, s10, s9, e)
    BY <1>10 DEF Cat
  <2> HIDE DEF s10
  <2> QED
    BY <2>1, CatLen
<1> HIDE DEF s10
<1> SUFFICES ASSUME Len(m) \in Nat, Part(m, 0, Line(A, d, B, b, P, O, C, W, N, e))
             PROVE  LineParts(m, A, d, B, b, P, O, C, W, N, e)
  BY <1>1, <1>11
<1>12. Part(m, 0, s10)
  BY <1>1
<1>13. Part(m, 0, s9) /\ Part(m, 0 + Len(s9), e)
  BY <1>12, <1>11, CatParts
<1>14. Part(m, 0, s8) /\ Part(m, 0 + Len(s8), N)
  BY <1>13, <1>10, CatParts
<1>15. Part(m, 0, s7) /\ Part(m, 0 + Len(s7), W)
  BY <1>14, <1>9, CatParts
<1>16. Part(m, 0, s6) /\ Part(m, 0 + Len(s6), b)
  BY <1>15, <1>8, CatParts
<1>17. Part(m, 0, s5) /\ Part(m, 0 + Len(s5), C)
  BY <1>16, <1>7, CatParts
<1>18. Part(m, 0, s4) /\ Part(m, 0 + Len(s4), O)
  BY <1>17, <1>6, CatParts
<1>19. Part(m, 0, s3) /\ Part(m, 0 + Len(s3), P)
  BY <1>18, <1>5, CatParts
<1>20. Part(m, 0, s2) /\ Part(m, 0 + Len(s2), b)
  BY <1>19, <1>4, CatParts
<1>21. Part(m, 0, s1) /\ Part(m, 0 + Len(s1), B)
  BY <1>20, <1>3, CatParts
<1>22. Part(m, 0, A) /\ Part(m, 0 + Len(A), d)
  BY <1>21, <1>2, CatParts
<1>23. /\ Len(A) \in Nat /\ Len(B) \in Nat /\ Len(C) \in Nat /\ Len(P) \in Nat
       /\ Len(O) \in Nat /\ Len(W) \in Nat /\ Len(N) \in Nat
  OBVIOUS
<1>24. /\ Len(s1) = Len(A) + 1 /\ Len(s2) = x - 1 /\ Len(s3) = x /\ Len(s4) = x + Len(P)
       /\ Len(s5) = y /\ Len(s6) = z - 1 /\ Len(s7) = z /\ Len(s8) = z + Len(W)
       /\ Len(s9) = z + Len(W) + Len(N) /\ Len(s10) = z + Len(W) + Len(N) + 1
  BY <1>2, <1>3, <1>4, <1>5, <1>6, <1>7, <1>8, <1>9, <1>10, <1>11, <1>23 DEF Single
<1>25. /\ Len(Line(A, d, B, b, P, O, C, W, N, e)) = z + Len(W) + Len(N) + 1
  BY <1>1, <1>11, <1>24
<1>26. /\ Part(m, 0, A) /\ Part(m, Len(A), d) /\ Part(m, Len(A) + 1, B)
       /\ Part(m, x - 1, b) /\ Part(m, x, P) /\ Part(m, x + Len(P), O)
       /\ Part(m, y, C) /\ Part(m, z - 1, b) /\ Part(m, z, W)
       /\ Part(m, z + Len(W), N) /\ Part(m, z + Len(W) + Len(N), e)
  BY <1>13, <1>14, <1>15, <1>16, <1>17, <1>18, <1>19, <1>20, <1>21, <1>22, <1>23, <1>24
<1> QED
  BY <1>25, <1>26 DEF LineParts

\* A text that begins with r's line has the fields of r, and the line ends
\* with the newline behind them.
LEMMA LineFields ==
  ASSUME NEW r \in Region, NEW m
  PROVE  /\ show_map_vma(r) \in Seq(Char)
         /\ Len(m) \in Nat /\ LineAt(m, 0, r) =>
              Fields(m, r) /\ Len(show_map_vma(r)) = PaddingEnd(r) + Len(r.name) + 1
<1> DEFINE A   == Numeral(16, r.start)
           B   == Numeral(16, r.end)
           C   == Numeral(10, r.inode)
           P   == <<"r", "-", IF r.exec THEN "x" ELSE "-", "p", " ">>
           O   == <<"0", " ", "8", ":", "1", " ">>
           W   == IF r.name = <<>> THEN <<>> ELSE <<" ", " ">>
           d   == <<"-">>
           b   == <<" ">>
           e   == <<"\n">>
<1>1. show_map_vma(r) = Line(A, d, B, b, P, O, C, W, r.name, e)
  BY DEF show_map_vma, Line
<1>2. A \in Seq(Char) /\ B \in Seq(Char) /\ C \in Seq(Char) /\ r.name \in Seq(Char)
  BY FieldsOverChar
<1>c. /\ " " \in Char /\ "-" \in Char /\ "\n" \in Char /\ "r" \in Char /\ "x" \in Char
      /\ "p" \in Char /\ "0" \in Char /\ "8" \in Char /\ ":" \in Char /\ "1" \in Char
  BY DEF Char
<1>3. /\ P \in Seq(Char) /\ Len(P) = 5
      /\ P[1] = "r" /\ P[2] = "-" /\ P[3] = (IF r.exec THEN "x" ELSE "-")
      /\ P[4] = "p" /\ P[5] = " "
  <2>1. (IF r.exec THEN "x" ELSE "-") \in Char
    BY <1>c
  <2> QED
    BY <1>c, <2>1, Tuple5
<1>4. /\ O \in Seq(Char) /\ Len(O) = 6
      /\ O[1] = "0" /\ O[2] = " " /\ O[3] = "8" /\ O[4] = ":" /\ O[5] = "1" /\ O[6] = " "
  BY <1>c, Tuple6
<1>5. /\ W \in Seq(Char) /\ Len(W) = (IF r.name = <<>> THEN 0 ELSE 2)
      /\ r.name # <<>> => W[1] = " " /\ W[2] = " "
  <2>1. CASE r.name = <<>>
    <3>1. W = <<>>
      BY <2>1
    <3> QED
      BY <3>1, <2>1
  <2>2. CASE r.name # <<>>
    <3>1. W = <<" ", " ">>
      BY <2>2
    <3>2. W \in Seq(Char) /\ Len(W) = 2 /\ W[1] = " " /\ W[2] = " "
      BY <3>1, <1>c, Tuple2
    <3> HIDE DEF W
    <3> QED
      BY <3>2, <2>2
  <2> QED
    BY <2>1, <2>2
<1>6. /\ d \in Seq(Char) /\ Single(d) /\ d[1] = "-"
      /\ b \in Seq(Char) /\ Single(b) /\ b[1] = " "
      /\ e \in Seq(Char) /\ Single(e) /\ e[1] = "\n"
  BY <1>c, Tuple1 DEF Single
<1> HIDE DEF A, B, C, P, O, W, d, b, e
<1>t. /\ P \in Seq(Char) /\ O \in Seq(Char) /\ W \in Seq(Char)
      /\ d \in Seq(Char) /\ b \in Seq(Char) /\ e \in Seq(Char)
      /\ Single(d) /\ Single(b) /\ Single(e)
  BY <1>3, <1>4, <1>5, <1>6
<1>n. /\ Len(P) = 5 /\ Len(O) = 6 /\ Len(W) = (IF r.name = <<>> THEN 0 ELSE 2)
  BY <1>3, <1>4, <1>5
<1>o. LineOver(Char, A, d, B, b, P, O, C, W, r.name, e)
  BY <1>2, <1>t DEF LineOver
<1> SUFFICES ASSUME Len(m) \in Nat, LineAt(m, 0, r)
             PROVE  Fields(m, r) /\ Len(show_map_vma(r)) = PaddingEnd(r) + Len(r.name) + 1
  BY <1>1, <1>o, Layout
<1> DEFINE x == Len(A) + Len(B) + 2
           y == x + Len(P) + Len(O)
           z == y + Len(C) + 1
<1>7. LineParts(m, A, d, B, b, P, O, C, W, r.name, e)
  <2>1. Part(m, 0, Line(A, d, B, b, P, O, C, W, r.name, e))
    BY <1>1 DEF LineAt
  <2> QED
    BY <2>1, <1>o, Layout
<1>8. /\ Len(Line(A, d, B, b, P, O, C, W, r.name, e)) = z + Len(W) + Len(r.name) + 1
      /\ Part(m, 0, A) /\ Part(m, Len(A), d) /\ Part(m, Len(A) + 1, B)
      /\ Part(m, x - 1, b) /\ Part(m, x, P) /\ Part(m, x + Len(P), O)
      /\ Part(m, y, C) /\ Part(m, z - 1, b) /\ Part(m, z, W)
      /\ Part(m, z + Len(W), r.name) /\ Part(m, z + Len(W) + Len(r.name), e)
  BY <1>7 DEF LineParts
<1>9. /\ Len(A) = StartLen(r) /\ Len(B) = EndLen(r) /\ Len(C) = InodeLen(r)
      /\ StartLen(r) \in Nat /\ EndLen(r) \in Nat /\ InodeLen(r) \in Nat /\ Len(r.name) \in Nat
  BY <1>2 DEF A, B, C, StartLen, EndLen, InodeLen
<1>10. /\ x = RangeEnd(r) + 1 /\ y = DeviceEnd(r) + 1 /\ z = DeviceEnd(r) + InodeLen(r) + 2
       /\ z + Len(W) = PaddingEnd(r)
       /\ RangeEnd(r) \in Nat /\ DeviceEnd(r) \in Nat /\ PaddingEnd(r) \in Nat
  <2>1. RangeEnd(r) \in Nat /\ x = RangeEnd(r) + 1
    BY <1>9 DEF RangeEnd
  <2>2. DeviceEnd(r) \in Nat /\ y = DeviceEnd(r) + 1
    <3> HIDE DEF x
    <3> QED
      BY <2>1, <1>n DEF DeviceEnd
  <2>3. z = DeviceEnd(r) + InodeLen(r) + 2
    <3> HIDE DEF x, y
    <3> QED
      BY <2>2, <1>9
  <2>4. z + Len(W) = PaddingEnd(r) /\ PaddingEnd(r) \in Nat
    <3> HIDE DEF x, y, z
    <3> QED
      BY <2>2, <2>3, <1>9, <1>n DEF PaddingEnd
  <2> HIDE DEF x, y, z
  <2> QED
    BY <2>1, <2>2, <2>3, <2>4
<1> HIDE DEF x, y, z
\* The parts by the names of their positions.
<1>11. /\ Part(m, 0, A) /\ Part(m, StartLen(r), d) /\ Part(m, StartLen(r) + 1, B)
       /\ Part(m, RangeEnd(r), b) /\ Part(m, RangeEnd(r) + 1, P) /\ Part(m, RangeEnd(r) + 6, O)
       /\ Part(m, DeviceEnd(r) + 1, C) /\ Part(m, DeviceEnd(r) + InodeLen(r) + 1, b)
       /\ Part(m, DeviceEnd(r) + InodeLen(r) + 2, W)
       /\ Part(m, PaddingEnd(r), r.name) /\ Part(m, PaddingEnd(r) + Len(r.name), e)
  <2>1. x - 1 = RangeEnd(r)
    BY <1>10
  <2>2. x + Len(P) = RangeEnd(r) + 6
    BY <1>10, <1>n
  <2>3. z - 1 = DeviceEnd(r) + InodeLen(r) + 1
    <3>1. /\ z = DeviceEnd(r) + InodeLen(r) + 2
          /\ DeviceEnd(r) \in Nat /\ InodeLen(r) \in Nat
      BY <1>9, <1>10, Zenon
    <3> QED
      BY <3>1
  <2> QED
    BY <2>1, <2>2, <2>3, <1>8, <1>9, <1>10
<1>12. ASSUME NEW p \in Nat, NEW s, Single(s), Part(m, p, s) PROVE m[p + 1] = s[1]
  BY <1>12 DEF Part, Single
<1>13. /\ m[StartLen(r) + 1] = d[1] /\ m[RangeEnd(r) + 1] = b[1]
       /\ m[DeviceEnd(r) + InodeLen(r) + 2] = b[1]
       /\ m[PaddingEnd(r) + Len(r.name) + 1] = e[1]
  <2>1. /\ m[StartLen(r) + 1] = d[1] /\ m[RangeEnd(r) + 1] = b[1]
    BY <1>t, <1>9, <1>10, <1>11, <1>12
  <2>2. m[DeviceEnd(r) + InodeLen(r) + 1 + 1] = b[1]
    <3>1. DeviceEnd(r) + InodeLen(r) + 1 \in Nat
      BY Positions
    <3> QED
      BY <3>1, <1>t, <1>11, <1>12
  <2>3. m[PaddingEnd(r) + Len(r.name) + 1] = e[1]
    <3>1. PaddingEnd(r) + Len(r.name) \in Nat
      BY Positions
    <3> QED
      BY <3>1, <1>t, <1>11, <1>12
  <2>4. DeviceEnd(r) + InodeLen(r) + 1 + 1 = DeviceEnd(r) + InodeLen(r) + 2
    BY Positions
  <2> QED
    BY <2>1, <2>2, <2>3, <2>4
<1>14. /\ m[RangeEnd(r) + 2] = P[1] /\ m[RangeEnd(r) + 3] = P[2] /\ m[RangeEnd(r) + 4] = P[3]
       /\ m[RangeEnd(r) + 5] = P[4] /\ m[RangeEnd(r) + 6] = P[5]
  <2>1. \A i \in 1 .. 5 : m[RangeEnd(r) + 1 + i] = P[i]
    BY <1>n, <1>11 DEF Part
  <2>2. /\ m[RangeEnd(r) + 1 + 1] = P[1] /\ m[RangeEnd(r) + 1 + 2] = P[2]
        /\ m[RangeEnd(r) + 1 + 3] = P[3] /\ m[RangeEnd(r) + 1 + 4] = P[4]
        /\ m[RangeEnd(r) + 1 + 5] = P[5]
    BY <2>1
  <2>3. /\ RangeEnd(r) + 1 + 1 = RangeEnd(r) + 2 /\ RangeEnd(r) + 1 + 2 = RangeEnd(r) + 3
        /\ RangeEnd(r) + 1 + 3 = RangeEnd(r) + 4 /\ RangeEnd(r) + 1 + 4 = RangeEnd(r) + 5
        /\ RangeEnd(r) + 1 + 5 = RangeEnd(r) + 6
    <3> DEFINE last == RangeEnd(r)
    <3>1. last \in Nat
      BY Positions
    <3> HIDE DEF last
    <3>2. last + 1 + 1 = last + 2 /\ last + 1 + 2 = last + 3 /\ last + 1 + 3 = last + 4 /\ last + 1 + 4 = last + 5
      BY <3>1
    <3>3. last + 1 + 5 = last + 6
      BY <3>1
    <3> QED
      BY <3>2, <3>3 DEF last
  <2> QED
    BY <2>2, <2>3
<1>15. /\ m[RangeEnd(r) + 7] = O[1] /\ m[RangeEnd(r) + 8] = O[2] /\ m[RangeEnd(r) + 9] = O[3]
       /\ m[RangeEnd(r) + 10] = O[4] /\ m[RangeEnd(r) + 11] = O[5] /\ m[RangeEnd(r) + 12] = O[6]
  <2>1. \A i \in 1 .. 6 : m[RangeEnd(r) + 6 + i] = O[i]
    BY <1>n, <1>11 DEF Part
  <2>2. /\ m[RangeEnd(r) + 6 + 1] = O[1] /\ m[RangeEnd(r) + 6 + 2] = O[2]
        /\ m[RangeEnd(r) + 6 + 3] = O[3] /\ m[RangeEnd(r) + 6 + 4] = O[4]
        /\ m[RangeEnd(r) + 6 + 5] = O[5] /\ m[RangeEnd(r) + 6 + 6] = O[6]
    BY <2>1
  <2>3. /\ RangeEnd(r) + 6 + 1 = RangeEnd(r) + 7 /\ RangeEnd(r) + 6 + 2 = RangeEnd(r) + 8
        /\ RangeEnd(r) + 6 + 3 = RangeEnd(r) + 9 /\ RangeEnd(r) + 6 + 4 = RangeEnd(r) + 10
        /\ RangeEnd(r) + 6 + 5 = RangeEnd(r) + 11 /\ RangeEnd(r) + 6 + 6 = RangeEnd(r) + 12
    <3>1. RangeEnd(r) \in Nat
      BY Positions
    <3> QED
      BY <3>1
  <2> QED
    BY <2>2, <2>3
<1>16. \A i \in (DeviceEnd(r) + InodeLen(r) + 2) .. PaddingEnd(r) : m[i] = " "
  <2> TAKE i \in (DeviceEnd(r) + InodeLen(r) + 2) .. PaddingEnd(r)
  <2> DEFINE q == DeviceEnd(r) + InodeLen(r) + 2
  <2>0. q \in Nat /\ Part(m, q, W) /\ i \in q .. PaddingEnd(r) /\ PaddingEnd(r) = q + Len(W)
    <3>1. q \in Nat /\ i \in q .. PaddingEnd(r)
      BY Positions
    <3>2. PaddingEnd(r) = q + Len(W)
      <4>1. z = q
        BY <1>10
      <4> HIDE DEF q
      <4> QED
        BY <4>1, <1>10
    <3> QED
      BY <3>1, <3>2, <1>11
  <2>1. q \in Nat /\ (i = q \/ (r.name # <<>> /\ (i = q + 1 \/ i = q + 2)))
    <3> HIDE DEF q
    <3>1. CASE r.name = <<>>
      BY <3>1, <2>0, <1>n
    <3>2. CASE r.name # <<>>
      BY <3>2, <2>0, <1>n
    <3> QED
      BY <3>1, <3>2
  <2>2. r.name # <<>> => m[q + 1] = W[1] /\ m[q + 2] = W[2]
    <3> HIDE DEF q
    <3> QED
      BY <2>0, <1>n DEF Part
  <2> HIDE DEF q
  <2>3. CASE i = q
    BY <2>3, <1>6, <1>13 DEF q
  <2>4. CASE i # q
    <3>1. m[i] = W[1] \/ m[i] = W[2]
      BY <2>1, <2>2, <2>4
    <3>2. r.name # <<>>
      BY <2>1, <2>4
    <3> QED
      BY <3>1, <3>2, <1>5
  <2> QED
    BY <2>3, <2>4
<1>17. Len(show_map_vma(r)) = PaddingEnd(r) + Len(r.name) + 1
  BY <1>1, <1>8, <1>10
<1>18. PaddingEnd(r) + Len(r.name) + 1 <= Len(m)
  <2>1. 0 + Len(show_map_vma(r)) <= Len(m)
    BY DEF LineAt, Part
  <2>2. /\ PaddingEnd(r) \in Nat /\ Len(r.name) \in Nat
        /\ Len(show_map_vma(r)) = PaddingEnd(r) + Len(r.name) + 1
    BY <1>17, Positions
  <2>3. 0 + Len(show_map_vma(r)) = PaddingEnd(r) + Len(r.name) + 1
    BY <2>2
  <2> QED
    BY <2>1, <2>3
<1>19. Fields(m, r)
  <2>1. /\ Part(m, 0, Numeral(16, r.start)) /\ Part(m, StartLen(r) + 1, Numeral(16, r.end))
        /\ Part(m, DeviceEnd(r) + 1, Numeral(10, r.inode)) /\ Part(m, PaddingEnd(r), r.name)
    BY <1>11 DEF A, B, C
  <2>2. /\ m[StartLen(r) + 1] = "-" /\ m[RangeEnd(r) + 1] = " "
        /\ m[PaddingEnd(r) + Len(r.name) + 1] = "\n"
    BY <1>6, <1>13
  <2>3. /\ m[RangeEnd(r) + 2] = "r" /\ m[RangeEnd(r) + 3] = "-"
        /\ m[RangeEnd(r) + 4] = (IF r.exec THEN "x" ELSE "-")
        /\ m[RangeEnd(r) + 5] = "p" /\ m[RangeEnd(r) + 6] = " "
    BY <1>3, <1>14
  <2>4. /\ m[RangeEnd(r) + 7] = "0" /\ m[RangeEnd(r) + 8] = " "
        /\ m[RangeEnd(r) + 9] = "8" /\ m[RangeEnd(r) + 10] = ":"
        /\ m[RangeEnd(r) + 11] = "1" /\ m[RangeEnd(r) + 12] = " "
    BY <1>4, <1>15
  <2> QED
    BY <1>16, <1>18, <2>1, <2>2, <2>3, <2>4 DEF Fields
<1> QED
  BY <1>17, <1>19

-----------------------------------------------------------------------------
(***************************************************************************)
(* The scanners                                                            *)
(***************************************************************************)

\* A loop that looks for a character stops at the first one (object.c:96-103
\* and the like).
StopsAt(m, i, j, S) ==
  /\ Len(m) \in Nat /\ i \in Nat /\ j \in i .. Len(m)
  /\ m[j] \in S /\ \A k \in i .. (j - 1) : m[k] \notin S

\* Find gives the position where such a loop stops.
LEMMA FindAt ==
  ASSUME NEW m, NEW i, NEW j, NEW S, StopsAt(m, i, j, S)
  PROVE  Find(m, i, S) = j
<1> /\ Len(m) \in Nat /\ i \in Nat /\ j \in i .. Len(m)
    /\ m[j] \in S /\ \A k \in i .. (j - 1) : m[k] \notin S
  BY DEF StopsAt
<1> DEFINE First(x) == m[x] \in S /\ \A k \in i .. (x - 1) : m[k] \notin S
<1>1. First(j)
  OBVIOUS
<1>2. ASSUME NEW x \in i .. Len(m), First(x) PROVE x = j
  <2>1. ~(x < j) /\ ~(j < x)
    BY <1>1, <1>2
  <2> QED
    BY <2>1
<1> HIDE DEF First
<1>3. (CHOOSE x \in i .. Len(m) : First(x)) = j
  BY <1>1, <1>2
<1> QED
  BY <1>3 DEF Find, First

\* A piece of the text that is copied out.
LEMMA SubSeqPart ==
  ASSUME NEW S, NEW T, NEW m \in Seq(S), NEW s \in Seq(T), NEW p \in Nat, Part(m, p, s)
  PROVE  SubSeq(m, p + 1, p + Len(s)) = s
<1> DEFINE u == SubSeq(m, p + 1, p + Len(s))
<1>1. /\ Len(s) \in Nat /\ Len(m) \in Nat /\ p + Len(s) <= Len(m)
      /\ \A i \in 1 .. Len(s) : m[p + i] = s[i]
  BY DEF Part
<1>2. /\ u \in Seq(S) /\ Len(u) = Len(s)
      /\ \A i \in 1 .. Len(s) : u[i] = m[p + i]
  BY <1>1
<1> HIDE DEF u
<1>3. u = [i \in 1 .. Len(u) |-> u[i]] /\ s = [i \in 1 .. Len(s) |-> s[i]]
  BY <1>2
<1>4. u = s
  BY <1>1, <1>2, <1>3
<1> QED
  BY <1>4 DEF u

\* A character that a part does not have.
LEMMA PartWithout ==
  ASSUME NEW T, NEW m, NEW s \in Seq(T), NEW p \in Nat, Part(m, p, s),
         NEW c, c \notin ToSet(s)
  PROVE  \A k \in (p + 1) .. (p + Len(s)) : m[k] # c
<1> TAKE k \in (p + 1) .. (p + Len(s))
<1>1. k - p \in 1 .. Len(s) /\ p + (k - p) = k
  OBVIOUS
<1>2. m[k] = s[k - p]
  BY <1>1 DEF Part
<1>3. s[k - p] \in ToSet(s)
  BY <1>1 DEF ToSet
<1> QED
  BY <1>2, <1>3

\* parse_mmap_range reads the range of the mapping (object.c:84-127).
LEMMA RangeRead ==
  ASSUME NEW r \in Region, NEW m \in Seq(Char), Fields(m, r)
  PROVE  /\ parse_mmap_range(m, 1).ok
         /\ parse_mmap_range(m, 1).start = r.start
         /\ parse_mmap_range(m, 1).end = r.end
         /\ parse_mmap_range(m, 1).next = RangeEnd(r) + 2
<1> DEFINE a == StartLen(r)
           e == RangeEnd(r)
<1>1. a \in Nat /\ EndLen(r) \in Nat /\ e = a + EndLen(r) + 1 /\ e \in Nat /\ Len(m) \in Nat
  BY Positions DEF RangeEnd
<1>2. e + 1 <= Len(m)
  <2>1. PaddingEnd(r) + Len(r.name) + 1 <= Len(m)
    BY DEF Fields
  <2>2. e + 13 <= PaddingEnd(r)
    <3>1. e \in Nat /\ InodeLen(r) \in Nat
      BY Positions
    <3> QED
      BY <3>1 DEF PaddingEnd, DeviceEnd
  <2> DEFINE p == PaddingEnd(r)
             c == Len(r.name)
  <2>3. e \in Nat /\ p \in Nat /\ c \in Nat /\ Len(m) \in Nat
    BY <1>1, Positions
  <2> HIDE DEF e, p, c
  <2>4. p + c + 1 <= Len(m) /\ e + 13 <= p
    BY <2>1, <2>2 DEF p, c
  <2> QED
    BY <2>3, <2>4
<1>3. /\ Part(m, 0, Numeral(16, r.start)) /\ m[a + 1] = "-"
      /\ Part(m, a + 1, Numeral(16, r.end)) /\ m[e + 1] = " "
  BY DEF Fields
<1>4. /\ IsNumeral(Numeral(16, r.start)) /\ IsNumeral(Numeral(16, r.end))
      /\ hex_to_int(Numeral(16, r.start)).ok /\ hex_to_int(Numeral(16, r.start)).data = r.start
      /\ hex_to_int(Numeral(16, r.end)).ok /\ hex_to_int(Numeral(16, r.end)).data = r.end
  BY NumeralsAreRead DEF NumeralsRead, NumeralRead
<1>5. \A k \in 1 .. a : m[k] # "-" /\ m[k] # " "
  <2>1. \A k \in (0 + 1) .. (0 + Len(Numeral(16, r.start))) : m[k] # "-"
    BY <1>3, <1>4, PartWithout DEF IsNumeral
  <2>2. \A k \in (0 + 1) .. (0 + Len(Numeral(16, r.start))) : m[k] # " "
    BY <1>3, <1>4, PartWithout DEF IsNumeral
  <2>3. 0 + 1 = 1 /\ 0 + Len(Numeral(16, r.start)) = a
    BY <1>1 DEF StartLen
  <2> QED
    BY <2>1, <2>2, <2>3
<1>6. \A k \in (a + 2) .. e : m[k] # " "
  <2>1. \A k \in (a + 1 + 1) .. (a + 1 + Len(Numeral(16, r.end))) : m[k] # " "
    <3>0. a + 1 \in Nat
      BY <1>1
    <3>1. a + 1 \in Nat /\ Part(m, a + 1, Numeral(16, r.end))
      BY <3>0, <1>3
    <3>2. Numeral(16, r.end) \in Seq(ToSet(LowDigits)) /\ " " \notin ToSet(Numeral(16, r.end))
      BY <1>4 DEF IsNumeral
    <3> QED
      BY <3>1, <3>2, PartWithout
  <2>2. a + 1 + 1 = a + 2 /\ a + 1 + Len(Numeral(16, r.end)) = e
    BY <1>1 DEF EndLen
  <2> QED
    BY <2>1, <2>2
<1> HIDE DEF a, e
<1>7. Find(m, 1, {"-", " "}) = a + 1
  <2>1. a + 1 \in 1 .. Len(m) /\ (a + 1) - 1 = a
    BY <1>1, <1>2
  <2>2. m[a + 1] \in {"-", " "} /\ \A k \in 1 .. ((a + 1) - 1) : m[k] \notin {"-", " "}
    BY <2>1, <1>3, <1>5
  <2>s. StopsAt(m, 1, a + 1, {"-", " "})
    BY <2>1, <2>2, <1>1 DEF StopsAt
  <2> QED
    BY <2>s, FindAt
<1>8. Find(m, 1, {" "}) = e + 1
  <2>1. e + 1 \in 1 .. Len(m) /\ (e + 1) - 1 = e
    BY <1>1, <1>2
  <2>2. ASSUME NEW k \in 1 .. e PROVE m[k] # " "
    <3>1. k \in 1 .. a \/ k = a + 1 \/ k \in (a + 2) .. e
      BY <1>1
    <3>2. "-" # " "
      OBVIOUS
    <3> QED
      BY <3>1, <3>2, <1>3, <1>5, <1>6
  <2>3. m[e + 1] \in {" "} /\ \A k \in 1 .. ((e + 1) - 1) : m[k] \notin {" "}
    BY <2>1, <2>2, <1>3
  <2>4. Len(m) \in Nat
    OBVIOUS
  <2>s. StopsAt(m, 1, e + 1, {" "})
    BY <2>1, <2>3, <2>4 DEF StopsAt
  <2> QED
    BY <2>s, FindAt
<1>9. SubSeq(m, 1, (a + 1) - 1) = Numeral(16, r.start)
  <2>1. SubSeq(m, 0 + 1, 0 + Len(Numeral(16, r.start))) = Numeral(16, r.start)
    <3>1. Part(m, 0, Numeral(16, r.start)) /\ Numeral(16, r.start) \in Seq(ToSet(LowDigits))
      BY <1>3, <1>4 DEF IsNumeral
    <3>2. 0 \in Nat
      OBVIOUS
    <3> QED
      BY <3>1, <3>2, SubSeqPart
  <2>2. 0 + 1 = 1 /\ 0 + Len(Numeral(16, r.start)) = (a + 1) - 1
    BY <1>1 DEF StartLen, a
  <2> QED
    BY <2>1, <2>2
<1>10. SubSeq(m, (a + 1) + 1, (e + 1) - 1) = Numeral(16, r.end)
  <2>1. SubSeq(m, (a + 1) + 1, (a + 1) + Len(Numeral(16, r.end))) = Numeral(16, r.end)
    <3>0. a + 1 \in Nat
      BY <1>1
    <3>1. a + 1 \in Nat /\ Part(m, a + 1, Numeral(16, r.end))
      BY <3>0, <1>3
    <3>2. Numeral(16, r.end) \in Seq(ToSet(LowDigits))
      BY <1>4 DEF IsNumeral
    <3> QED
      BY <3>1, <3>2, SubSeqPart
  <2>2. (a + 1) + Len(Numeral(16, r.end)) = (e + 1) - 1
    BY <1>1 DEF EndLen
  <2> QED
    BY <2>1, <2>2
<1>11. (e + 1) + 1 = e + 2
  BY <1>1
<1>12. /\ parse_mmap_range(m, 1).ok
       /\ parse_mmap_range(m, 1).start = r.start /\ parse_mmap_range(m, 1).end = r.end
       /\ parse_mmap_range(m, 1).next = (e + 1) + 1
  <2> DEFINE n == e + 1
             k == a + 1
  <2>1. Find(m, 1, {" "}) = n /\ Find(m, 1, {"-", " "}) = k
    BY <1>7, <1>8
  <2>2. /\ SubSeq(m, 1, k - 1) = Numeral(16, r.start)
        /\ SubSeq(m, k + 1, n - 1) = Numeral(16, r.end)
    BY <1>9, <1>10
  <2> HIDE DEF n, k
  <2> DEFINE st == hex_to_int(SubSeq(m, 1, k - 1))
             en == hex_to_int(SubSeq(m, k + 1, n - 1))
  <2>3. st.ok /\ en.ok /\ st.data = r.start /\ en.data = r.end
    BY <2>2, <1>4
  <2>4. parse_mmap_range(m, 1) =
          [ok |-> st.ok /\ en.ok, start |-> st.data, end |-> en.data, next |-> n + 1]
    BY <2>1 DEF parse_mmap_range
  <2> HIDE DEF st, en
  <2>5. parse_mmap_range(m, 1).ok
    <3>1. (st.ok /\ en.ok) = TRUE
      BY <2>3
    <3>2. parse_mmap_range(m, 1) =
            [ok |-> TRUE, start |-> st.data, end |-> en.data, next |-> n + 1]
      BY <2>4, <3>1, Zenon
    <3> QED
      BY <3>2
  <2>6. /\ parse_mmap_range(m, 1).start = st.data /\ parse_mmap_range(m, 1).end = en.data
        /\ parse_mmap_range(m, 1).next = n + 1
    BY <2>4
  <2> QED
    BY <2>3, <2>5, <2>6 DEF n
<1> QED
  BY <1>11, <1>12 DEF e

\* Bounds of the positions of a line.
LEMMA Bounds ==
  ASSUME NEW r \in Region, NEW m \in Seq(Char), Fields(m, r)
  PROVE  /\ Len(m) \in Nat /\ RangeEnd(r) + 12 <= Len(m)
         /\ DeviceEnd(r) + InodeLen(r) + 2 <= PaddingEnd(r)
         /\ PaddingEnd(r) + Len(r.name) + 1 <= Len(m)
<1>1. Len(m) \in Nat /\ PaddingEnd(r) + Len(r.name) + 1 <= Len(m)
  <2>1. Len(m) \in Nat
    OBVIOUS
  <2> QED
    BY <2>1 DEF Fields
<1>p. /\ RangeEnd(r) \in Nat /\ DeviceEnd(r) \in Nat /\ InodeLen(r) \in Nat
      /\ PaddingEnd(r) \in Nat /\ Len(r.name) \in Nat
  BY Positions
<1>2. DeviceEnd(r) + InodeLen(r) + 2 <= PaddingEnd(r)
  BY <1>p DEF PaddingEnd
<1>3. RangeEnd(r) + 12 <= DeviceEnd(r) + InodeLen(r) + 2
  BY <1>p DEF DeviceEnd
<1>4. RangeEnd(r) + 12 <= Len(m)
  <2>1. \A a, b, c, d, l \in Nat : a + 12 <= b /\ b <= c /\ c + d + 1 <= l => a + 12 <= l
    OBVIOUS
  <2>2. DeviceEnd(r) + InodeLen(r) + 2 \in Nat
    BY <1>p
  <2> QED
    BY <1>p, <1>1, <1>2, <1>3, <2>1, <2>2
<1> QED
  BY <1>1, <1>2, <1>4, Zenon

\* parse_mmap_attr finds the letters of the permissions (object.c:129-160).
LEMMA AttrRead ==
  ASSUME NEW r \in Region, NEW m \in Seq(Char), Fields(m, r)
  PROVE  /\ parse_mmap_attr(m, RangeEnd(r) + 2).attr \subseteq {"r", "w", "x", "p"}
         /\ "x" \in parse_mmap_attr(m, RangeEnd(r) + 2).attr <=> r.exec
         /\ parse_mmap_attr(m, RangeEnd(r) + 2).next = RangeEnd(r) + 7
<1> DEFINE e == RangeEnd(r)
<1>1. e \in Nat /\ Len(m) \in Nat /\ e + 12 <= Len(m)
  BY Positions, Bounds
<1>2. /\ m[e + 2] = "r" /\ m[e + 3] = "-" /\ m[e + 4] = (IF r.exec THEN "x" ELSE "-")
      /\ m[e + 5] = "p" /\ m[e + 6] = " "
  BY DEF Fields
<1> HIDE DEF e
<1>3. Find(m, e + 2, {" "}) = e + 6
  <2>1. e + 2 \in Nat /\ e + 6 \in (e + 2) .. Len(m)
    BY <1>1
  <2>2. ASSUME NEW k \in (e + 2) .. ((e + 6) - 1) PROVE m[k] \notin {" "}
    <3>1. k = e + 2 \/ k = e + 3 \/ k = e + 4 \/ k = e + 5
      BY <1>1
    <3>2. m[k] = "r" \/ m[k] = "-" \/ m[k] = "x" \/ m[k] = "p"
      BY <3>1, <1>2
    <3> QED
      BY <3>2
  <2>3. m[e + 6] \in {" "}
    BY <1>2
  <2>4. Len(m) \in Nat
    OBVIOUS
  <2>s. StopsAt(m, e + 2, e + 6, {" "})
    BY <2>1, <2>2, <2>3, <2>4 DEF StopsAt
  <2> QED
    BY <2>s, FindAt
<1> DEFINE u == SubSeq(m, e + 2, (e + 6) - 1)
<1>4. /\ DOMAIN u = 1 .. 4
      /\ u[1] = m[e + 2] /\ u[2] = m[e + 3] /\ u[3] = m[e + 4] /\ u[4] = m[e + 5]
  <2>1. /\ u \in Seq(Char) /\ Len(u) = 4
        /\ \A i \in 1 .. 4 : u[i] = m[e + 2 + i - 1]
    BY <1>1
  <2>2. /\ e + 2 + 1 - 1 = e + 2 /\ e + 2 + 2 - 1 = e + 3 /\ e + 2 + 3 - 1 = e + 4
        /\ e + 2 + 4 - 1 = e + 5
    BY <1>1
  <2> HIDE DEF u
  <2>3. DOMAIN u = 1 .. 4
    BY <2>1
  <2> QED
    BY <2>1, <2>2, <2>3
<1>5. parse_mmap_attr(m, e + 2) = [attr |-> ToSet(u) \cap {"r", "w", "x", "p"}, next |-> (e + 6) + 1]
  BY <1>3 DEF parse_mmap_attr
<1> HIDE DEF u
<1>6. "x" \in ToSet(u) <=> r.exec
  <2>1. ToSet(u) = {u[1], u[2], u[3], u[4]}
    BY <1>4 DEF ToSet
  <2>2. ToSet(u) = {"r", "-", IF r.exec THEN "x" ELSE "-", "p"}
    BY <2>1, <1>4, <1>2
  <2> QED
    BY <2>2
<1>7. (e + 6) + 1 = e + 7
  BY <1>1
<1> QED
  BY <1>5, <1>6, <1>7 DEF e

\* parse_mmap_inode skips the offset and the device, reads what is left of
\* the inode in an int, and stops at the name or at the newline
\* (object.c:171-205).
LEMMA InodeRead ==
  ASSUME NEW r \in Region, NEW m \in Seq(Char), Fields(m, r)
  PROVE  /\ parse_mmap_inode(m, RangeEnd(r) + 7).inode = r.inode % IntSize
         /\ parse_mmap_inode(m, RangeEnd(r) + 7).next = PaddingEnd(r) + 1
<1> DEFINE e == RangeEnd(r)
           n == DeviceEnd(r) + InodeLen(r) + 2
           z == PaddingEnd(r)
<1>1. /\ e \in Nat /\ Len(m) \in Nat /\ e + 12 <= Len(m)
      /\ DeviceEnd(r) = e + 11 /\ InodeLen(r) \in Nat
      /\ n = e + 13 + InodeLen(r) /\ n \in Nat /\ z \in Nat /\ n <= z /\ z + 1 <= Len(m)
  <2>1. DeviceEnd(r) = e + 11
    BY DEF DeviceEnd
  <2>2. e \in Nat /\ InodeLen(r) \in Nat /\ z \in Nat /\ Len(r.name) \in Nat
    BY Positions
  <2>3. /\ Len(m) \in Nat /\ e + 12 <= Len(m) /\ n <= z /\ z + Len(r.name) + 1 <= Len(m)
    BY Bounds
  <2>4. n = e + 13 + InodeLen(r)
    BY <2>1, <2>2
  <2> HIDE DEF e, n, z
  <2>5. z + 1 <= Len(m)
    BY <2>2, <2>3
  <2>6. n \in Nat
    BY <2>2, <2>4
  <2> QED
    BY <2>1, <2>2, <2>3, <2>4, <2>5, <2>6
<1>2. /\ m[e + 7] = "0" /\ m[e + 8] = " " /\ m[e + 9] = "8" /\ m[e + 10] = ":"
      /\ m[e + 11] = "1" /\ m[e + 12] = " "
  BY DEF Fields
<1>3. /\ Part(m, e + 12, Numeral(10, r.inode))
      /\ \A i \in n .. z : m[i] = " "
  <2>1. DeviceEnd(r) + 1 = e + 12
    BY Positions DEF DeviceEnd
  <2> QED
    BY <2>1 DEF Fields
<1>4. m[z + 1] # " "
  <2>1. /\ Part(m, z, r.name) /\ m[z + Len(r.name) + 1] = "\n"
    BY DEF Fields
  <2>2. CASE r.name = <<>>
    <3>1. z + Len(r.name) + 1 = z + 1
      BY <2>2, <1>1
    <3> QED
      BY <2>1, <3>1
  <2>3. CASE r.name # <<>>
    <3>1. r.name \in Seq(STRING) /\ Head(r.name) # " "
      BY <2>3, RegionAssumption
    <3>2. Len(r.name) \in Nat /\ Len(r.name) >= 1 /\ Head(r.name) = r.name[1]
      <4>1. \A s \in Seq(STRING) : s # <<>> => Len(s) \in Nat /\ Len(s) >= 1 /\ Head(s) = s[1]
        OBVIOUS
      <4> QED
        BY <2>3, <3>1, <4>1
    <3>3. m[z + 1] = r.name[1]
      BY <2>1, <3>2 DEF Part
    <3> QED
      BY <3>1, <3>2, <3>3
  <2> QED
    BY <2>2, <2>3
<1> HIDE DEF e, n, z
<1>5. Len(m) \in Nat
  OBVIOUS
<1>6. Find(m, e + 7, {" "}) = e + 8
  <2>1. e + 7 \in Nat /\ e + 8 \in (e + 7) .. Len(m)
    BY <1>1
  <2>2. ASSUME NEW k \in (e + 7) .. ((e + 8) - 1) PROVE m[k] \notin {" "}
    <3>1. k = e + 7
      BY <1>1
    <3> QED
      BY <3>1, <1>2
  <2>3. m[e + 8] \in {" "}
    BY <1>2
  <2>s. StopsAt(m, e + 7, e + 8, {" "})
    BY <2>1, <2>2, <2>3, <1>5 DEF StopsAt
  <2> QED
    BY <2>s, FindAt
<1>7. Find(m, e + 9, {" "}) = e + 12
  <2>1. e + 9 \in Nat /\ e + 12 \in (e + 9) .. Len(m)
    BY <1>1
  <2>2. ASSUME NEW k \in (e + 9) .. ((e + 12) - 1) PROVE m[k] \notin {" "}
    <3>1. k = e + 9 \/ k = e + 10 \/ k = e + 11
      BY <1>1
    <3>2. m[k] = "8" \/ m[k] = ":" \/ m[k] = "1"
      BY <3>1, <1>2
    <3> QED
      BY <3>2
  <2>3. m[e + 12] \in {" "}
    BY <1>2
  <2>s. StopsAt(m, e + 9, e + 12, {" "})
    BY <2>1, <2>2, <2>3, <1>5 DEF StopsAt
  <2> QED
    BY <2>s, FindAt
<1>8. /\ IsNumeral(Numeral(10, r.inode)) /\ Numeral(10, r.inode) \in Seq(ToSet(LowDigits))
      /\ " " \notin ToSet(Numeral(10, r.inode))
      /\ atoi(Numeral(10, r.inode)) = r.inode % IntSize
  BY NumeralsAreRead DEF NumeralsRead, NumeralRead, IsNumeral
<1>9. Find(m, e + 13, {" "}) = n
  <2>1. e + 13 \in Nat /\ n \in (e + 13) .. Len(m) /\ e + 12 \in Nat
    BY <1>1
  <2>2. \A k \in (e + 12 + 1) .. (e + 12 + Len(Numeral(10, r.inode))) : m[k] # " "
    BY <2>1, <1>3, <1>8, PartWithout
  <2>3. e + 12 + 1 = e + 13 /\ e + 12 + Len(Numeral(10, r.inode)) = n - 1
    BY <1>1 DEF InodeLen
  <2>4. \A k \in (e + 13) .. (n - 1) : m[k] \notin {" "}
    BY <2>2, <2>3
  <2>5. m[n] \in {" "}
    <3>1. n \in n .. z
      BY <1>1
    <3> QED
      BY <3>1, <1>3
  <2>s. StopsAt(m, e + 13, n, {" "})
    BY <2>1, <2>4, <2>5, <1>5 DEF StopsAt
  <2> QED
    BY <2>s, FindAt
<1>10. SubSeq(m, e + 13, n - 1) = Numeral(10, r.inode)
  <2>1. e + 12 \in Nat
    BY <1>1
  <2>2. SubSeq(m, e + 12 + 1, e + 12 + Len(Numeral(10, r.inode))) = Numeral(10, r.inode)
    BY <2>1, <1>3, <1>8, SubSeqPart
  <2>3. e + 12 + 1 = e + 13 /\ e + 12 + Len(Numeral(10, r.inode)) = n - 1
    BY <1>1 DEF InodeLen
  <2> QED
    BY <2>2, <2>3
<1> DEFINE Stop(j) == m[j] # " " /\ \A k \in n .. (j - 1) : m[k] = " "
<1>11. (CHOOSE j \in n .. Len(m) : Stop(j)) = z + 1
  <2>1. z + 1 \in n .. Len(m) /\ (z + 1) - 1 = z
    BY <1>1
  <2>2. Stop(z + 1)
    BY <2>1, <1>3, <1>4
  <2>3. ASSUME NEW j \in n .. Len(m), Stop(j) PROVE j = z + 1
    <3>1. ~(j <= z)
      <4>1. j <= z => j \in n .. z
        BY <1>1
      <4> QED
        BY <2>3, <4>1, <1>3
    <3>2. ~(z + 1 <= j - 1)
      <4>1. z + 1 <= j - 1 => z + 1 \in n .. (j - 1)
        BY <1>1
      <4> QED
        BY <2>3, <4>1, <1>4
    <3> QED
      BY <3>1, <3>2, <1>1
  <2> HIDE DEF Stop
  <2> QED
    BY <2>1, <2>2, <2>3
<1>12. parse_mmap_inode(m, e + 7) = [inode |-> atoi(Numeral(10, r.inode)), next |-> z + 1]
  <2>1. (e + 8) + 1 = e + 9 /\ (e + 12) + 1 = e + 13
    BY <1>1
  <2> QED
    BY <2>1, <1>6, <1>7, <1>9, <1>10, <1>11 DEF parse_mmap_inode
<1>13. /\ parse_mmap_inode(m, e + 7).inode = atoi(Numeral(10, r.inode))
       /\ parse_mmap_inode(m, e + 7).next = z + 1
  BY <1>12
<1> QED
  BY <1>8, <1>13 DEF e, z

\* parse_mmap_file takes the whole name and stops at the newline
\* (object.c:207-230).
LEMMA FileRead ==
  ASSUME NEW r \in Region, NEW m \in Seq(Char), Fields(m, r)
  PROVE  /\ parse_mmap_file(m, PaddingEnd(r) + 1).file = r.name
         /\ parse_mmap_file(m, PaddingEnd(r) + 1).next = PaddingEnd(r) + Len(r.name) + 1
<1> DEFINE z == PaddingEnd(r)
           c == Len(r.name)
<1>1. z \in Nat /\ c \in Nat /\ Len(m) \in Nat /\ z + c + 1 <= Len(m)
  BY Positions, Bounds
<1>2. Part(m, z, r.name) /\ m[z + c + 1] = "\n"
  BY DEF Fields
<1>3. r.name \in Seq(STRING) /\ "\n" \notin ToSet(r.name)
  BY RegionAssumption
<1>4. \A k \in (z + 1) .. (z + c) : m[k] # "\n"
  BY <1>1, <1>2, <1>3, PartWithout
<1>5. SubSeq(m, z + 1, z + c) = r.name
  BY <1>1, <1>2, <1>3, SubSeqPart
<1> HIDE DEF z, c
<1>6. Find(m, z + 1, {"\n"}) = z + c + 1
  <2>1. z + 1 \in Nat /\ z + c + 1 \in (z + 1) .. Len(m) /\ (z + c + 1) - 1 = z + c
    BY <1>1
  <2>2. m[z + c + 1] \in {"\n"} /\ \A k \in (z + 1) .. ((z + c + 1) - 1) : m[k] \notin {"\n"}
    BY <2>1, <1>2, <1>4
  <2>3. Len(m) \in Nat
    OBVIOUS
  <2>s. StopsAt(m, z + 1, z + c + 1, {"\n"})
    BY <2>1, <2>2, <2>3 DEF StopsAt
  <2> QED
    BY <2>s, FindAt
<1>7. (z + c + 1) - 1 = z + c
  BY <1>1
<1>8. parse_mmap_file(m, z + 1) = [file |-> r.name, next |-> z + c + 1]
  BY <1>5, <1>6, <1>7 DEF parse_mmap_file
<1> QED
  BY <1>8 DEF z, c

\* What object_parse_mmap makes of a text that begins with r's line
\* (object.c:272-333).
LEMMA LineRead ==
  ASSUME NEW r \in Region, NEW m \in Seq(Char), LineAt(m, 0, r)
  PROVE  /\ ParseLine(m).ok
         /\ ParseLine(m).start = r.start /\ ParseLine(m).end = r.end
         /\ ParseLine(m).attr \subseteq {"r", "w", "x", "p"}
         /\ "x" \in ParseLine(m).attr <=> r.exec
         /\ ParseLine(m).inode = r.inode % IntSize
         /\ ParseLine(m).inode # 0 => ParseLine(m).file = r.name
         /\ ParseLine(m).rest = SubSeq(m, Len(show_map_vma(r)) + 1, Len(m))
<1> DEFINE range == parse_mmap_range(m, 1)
           attr  == parse_mmap_attr(m, range.next)
           inode == parse_mmap_inode(m, attr.next)
           file  == parse_mmap_file(m, inode.next)
<1>1. Len(m) \in Nat
  OBVIOUS
<1>2. Fields(m, r) /\ Len(show_map_vma(r)) = PaddingEnd(r) + Len(r.name) + 1
  BY <1>1, LineFields
<1>3. range.ok /\ range.start = r.start /\ range.end = r.end /\ range.next = RangeEnd(r) + 2
  BY <1>2, RangeRead
<1>4. ParseLine(m) =
        [ok |-> range.ok, start |-> range.start, end |-> range.end,
         attr |-> attr.attr, inode |-> inode.inode,
         file |-> IF inode.inode = 0 THEN <<>> ELSE file.file,
         rest |-> SubSeq(m, file.next + 1, Len(m))]
  BY DEF ParseLine
<1> HIDE DEF range
<1>5. /\ attr.attr \subseteq {"r", "w", "x", "p"} /\ ("x" \in attr.attr <=> r.exec)
      /\ attr.next = RangeEnd(r) + 7
  BY <1>2, <1>3, AttrRead
<1> HIDE DEF attr
<1>6. inode.inode = r.inode % IntSize /\ inode.next = PaddingEnd(r) + 1
  BY <1>2, <1>5, InodeRead
<1> HIDE DEF inode
<1>7. file.file = r.name /\ file.next = PaddingEnd(r) + Len(r.name) + 1
  BY <1>2, <1>6, FileRead
<1> HIDE DEF file
<1> DEFINE P == [ok |-> range.ok, start |-> range.start, end |-> range.end,
                 attr |-> attr.attr, inode |-> inode.inode,
                 file |-> IF inode.inode = 0 THEN <<>> ELSE file.file,
                 rest |-> SubSeq(m, file.next + 1, Len(m))]
<1>8. P.ok = range.ok
  BY Zenon
<1>a. P.start = range.start /\ P.end = range.end
  BY Zenon
<1>b. P.attr = attr.attr /\ P.inode = inode.inode
  BY Zenon
<1>c. P.file = (IF inode.inode = 0 THEN <<>> ELSE file.file)
  BY Zenon
<1>d. P.rest = SubSeq(m, file.next + 1, Len(m))
  BY Zenon
<1>e. ParseLine(m) = P
  BY <1>4, Zenon
<1> HIDE DEF P
<1>9. /\ ParseLine(m).start = range.start /\ ParseLine(m).end = range.end
      /\ ParseLine(m).attr = attr.attr /\ ParseLine(m).inode = inode.inode
      /\ ParseLine(m).file = (IF inode.inode = 0 THEN <<>> ELSE file.file)
      /\ ParseLine(m).rest = SubSeq(m, file.next + 1, Len(m))
  BY <1>a, <1>b, <1>c, <1>d, <1>e, Zenon
<1>f. ParseLine(m).ok
  BY <1>3, <1>8, <1>e, Zenon
<1>10. ParseLine(m).inode # 0 => ParseLine(m).file = r.name
  BY <1>7, <1>9
<1>11. ParseLine(m).rest = SubSeq(m, Len(show_map_vma(r)) + 1, Len(m))
  BY <1>2, <1>7, <1>9
<1> QED
  BY <1>3, <1>5, <1>6, <1>f, <1>9, <1>10, <1>11

\* A line ends with the only newline in it.
LEMMA LineShape ==
  ASSUME NEW r \in Region
  PROVE  LET L == show_map_vma(r)
         IN  /\ L \in Seq(Char) /\ Len(L) \in Nat /\ Len(L) > 0
             /\ L[Len(L)] = "\n"
             /\ \A i \in 1 .. (Len(L) - 1) : L[i] # "\n"
<1> DEFINE L == show_map_vma(r)
           a == StartLen(r)
           e == RangeEnd(r)
           n == DeviceEnd(r) + InodeLen(r) + 2
           z == PaddingEnd(r)
           c == Len(r.name)

<1>1. L \in Seq(Char) /\ Len(L) \in Nat
  <2>1. L \in Seq(Char)
    BY LineFields
  <2> HIDE DEF L
  <2> QED
    BY <2>1
<1>2. LineAt(L, 0, r)
  <2> HIDE DEF L
  <2>1. Part(L, 0, L)
    BY <1>1 DEF Part
  <2> QED
    BY <2>1 DEF LineAt, L
<1>3. Fields(L, r) /\ Len(L) = z + c + 1
  BY <1>1, <1>2, LineFields
<1>4. /\ a \in Nat /\ e \in Nat /\ n \in Nat /\ z \in Nat /\ c \in Nat
      /\ e = a + EndLen(r) + 1 /\ EndLen(r) \in Nat
      /\ n = e + 13 + InodeLen(r) /\ InodeLen(r) \in Nat /\ n <= z
  <2>1. a \in Nat /\ e \in Nat /\ z \in Nat /\ c \in Nat /\ EndLen(r) \in Nat
        /\ InodeLen(r) \in Nat /\ DeviceEnd(r) \in Nat
    BY Positions
  <2>2. n <= z
    BY <1>1, <1>3, Bounds
  <2>3. n = e + 13 + InodeLen(r)
    BY <2>1 DEF DeviceEnd
  <2>4. e = a + EndLen(r) + 1
    BY DEF RangeEnd
  <2>5. n \in Nat
    BY <2>1
  <2> QED
    BY <2>1, <2>2, <2>3, <2>4, <2>5
<1>5. /\ Part(L, 0, Numeral(16, r.start)) /\ L[a + 1] = "-"
      /\ Part(L, a + 1, Numeral(16, r.end)) /\ L[e + 1] = " "
      /\ L[e + 2] = "r" /\ L[e + 3] = "-" /\ L[e + 4] = (IF r.exec THEN "x" ELSE "-")
      /\ L[e + 5] = "p" /\ L[e + 6] = " " /\ L[e + 7] = "0" /\ L[e + 8] = " "
      /\ L[e + 9] = "8" /\ L[e + 10] = ":" /\ L[e + 11] = "1" /\ L[e + 12] = " "
      /\ \A i \in n .. z : L[i] = " "
      /\ Part(L, z, r.name) /\ L[z + c + 1] = "\n"
  BY <1>3 DEF Fields
<1>6. Part(L, e + 12, Numeral(10, r.inode))
  <2>1. DeviceEnd(r) + 1 = e + 12
    BY Positions DEF DeviceEnd
  <2> QED
    BY <2>1, <1>3 DEF Fields
<1> HIDE DEF L, a, e, n, z, c
\* A numeral and the name have no newline.
<1>7. ASSUME NEW T, NEW s \in Seq(T), "\n" \notin ToSet(s), NEW p \in Nat, Part(L, p, s)
      PROVE  \A k \in (p + 1) .. (p + Len(s)) : L[k] # "\n"
  BY <1>7, PartWithout
<1>8. /\ Numeral(16, r.start) \in Seq(ToSet(LowDigits)) /\ "\n" \notin ToSet(Numeral(16, r.start))
      /\ Numeral(16, r.end) \in Seq(ToSet(LowDigits)) /\ "\n" \notin ToSet(Numeral(16, r.end))
      /\ Numeral(10, r.inode) \in Seq(ToSet(LowDigits)) /\ "\n" \notin ToSet(Numeral(10, r.inode))
      /\ r.name \in Seq(STRING) /\ "\n" \notin ToSet(r.name)
  BY NumeralsAreRead, RegionAssumption DEF NumeralsRead, NumeralRead, IsNumeral
<1>9. \A k \in 1 .. a : L[k] # "\n"
  <2>1. \A k \in (0 + 1) .. (0 + Len(Numeral(16, r.start))) : L[k] # "\n"
    BY <1>5, <1>7, <1>8
  <2>2. 0 + 1 = 1 /\ 0 + Len(Numeral(16, r.start)) = a
    BY <1>4 DEF StartLen, a
  <2> QED
    BY <2>1, <2>2
<1>10. \A k \in (a + 2) .. e : L[k] # "\n"
  <2>1. a + 1 \in Nat
    BY <1>4
  <2>2. \A k \in (a + 1 + 1) .. (a + 1 + Len(Numeral(16, r.end))) : L[k] # "\n"
    BY <2>1, <1>5, <1>7, <1>8
  <2>3. a + 1 + 1 = a + 2 /\ a + 1 + Len(Numeral(16, r.end)) = e
    BY <1>4 DEF EndLen
  <2> QED
    BY <2>2, <2>3
<1>11. \A k \in (e + 13) .. (n - 1) : L[k] # "\n"
  <2>1. e + 12 \in Nat
    BY <1>4
  <2>2. \A k \in (e + 12 + 1) .. (e + 12 + Len(Numeral(10, r.inode))) : L[k] # "\n"
    BY <2>1, <1>6, <1>7, <1>8
  <2>3. e + 12 + 1 = e + 13 /\ e + 12 + Len(Numeral(10, r.inode)) = n - 1
    <3>1. e \in Nat /\ InodeLen(r) \in Nat /\ n = e + 13 + InodeLen(r)
      BY <1>4
    <3>2. e + 12 + 1 = e + 13 /\ e + 12 + InodeLen(r) = n - 1
      BY <3>1
    <3> QED
      BY <3>2 DEF InodeLen
  <2> QED
    BY <2>2, <2>3
<1>12. \A k \in (z + 1) .. (z + c) : L[k] # "\n"
  <2>1. z \in Nat
    BY <1>4
  <2> QED
    BY <2>1, <1>5, <1>7, <1>8 DEF c
<1>13. ASSUME NEW i \in 1 .. (Len(L) - 1) PROVE L[i] # "\n"
  <2>1. \/ i \in 1 .. a \/ i = a + 1 \/ i \in (a + 2) .. e
        \/ i \in (e + 1) .. (e + 12) \/ i \in (e + 13) .. (n - 1)
        \/ i \in n .. z \/ i \in (z + 1) .. (z + c)
    <3>1. e = a + EndLen(r) + 1 /\ EndLen(r) \in Nat /\ n = e + 13 + InodeLen(r)
          /\ InodeLen(r) \in Nat /\ n <= z
      BY <1>4
    <3>2. a \in Nat /\ e \in Nat /\ n \in Nat /\ z \in Nat /\ c \in Nat
      BY <1>4
    <3>3. i \in Nat /\ 1 <= i /\ i <= z + c
      <4>1. Len(L) = z + c + 1
        BY <1>3
      <4> QED
        BY <4>1, <3>2
    <3>4. a + 1 <= e /\ e + 13 <= n /\ n <= z
      <4>1. a + 1 <= e
        <5>1. e = a + EndLen(r) + 1 /\ a \in Nat /\ EndLen(r) \in Nat
          BY <3>1, <3>2
        <5> QED
          BY <5>1
      <4>2. e + 13 <= n
        BY <3>1, <3>2
      <4> QED
        BY <3>1, <4>1, <4>2
    <3> QED
      BY <3>2, <3>3, <3>4
  <2>2. CASE i \in (e + 1) .. (e + 12)
    <3>0. e \in Nat
      BY <1>4
    <3>1. \/ i = e + 1 \/ i = e + 2 \/ i = e + 3 \/ i = e + 4 \/ i = e + 5 \/ i = e + 6
          \/ i = e + 7 \/ i = e + 8 \/ i = e + 9 \/ i = e + 10 \/ i = e + 11 \/ i = e + 12
      BY <2>2, <3>0
    <3>2. L[i] \in {" ", "r", "-", "x", "p", "0", "8", ":", "1"}
      BY <3>1, <1>5
    <3> QED
      BY <3>2
  <2>3. CASE i = a + 1 \/ i \in n .. z
    <3>1. L[i] \in {" ", "-"}
      BY <2>3, <1>5
    <3> QED
      BY <3>1
  <2> QED
    BY <2>1, <2>2, <2>3, <1>9, <1>10, <1>11, <1>12
<1>14. Len(L) > 0 /\ L[Len(L)] = "\n"
  <2>1. Len(L) > 0
    BY <1>3, <1>4
  <2> QED
    BY <2>1, <1>3, <1>5
<1> QED
  BY <1>1, <1>13, <1>14 DEF L

-----------------------------------------------------------------------------
(***************************************************************************)
(* Texts                                                                   *)
(***************************************************************************)

\* What is left of a text behind position p.
After(m, p) == SubSeq(m, p + 1, Len(m))

\* Its characters are those of the text, p further on.
LEMMA AfterIs ==
  ASSUME NEW S, NEW m \in Seq(S), NEW p \in 0 .. Len(m)
  PROVE  /\ After(m, p) \in Seq(S) /\ Len(After(m, p)) = Len(m) - p
         /\ \A i \in 1 .. (Len(m) - p) : After(m, p)[i] = m[p + i]
<1>1. Len(m) \in Nat /\ p \in Nat /\ p <= Len(m)
  OBVIOUS
<1>2. Len(SubSeq(m, p + 1, Len(m))) = Len(m) - p
  BY <1>1
<1>3. ASSUME NEW i \in 1 .. (Len(m) - p) PROVE SubSeq(m, p + 1, Len(m))[i] = m[p + i]
  <2>1. SubSeq(m, p + 1, Len(m))[i] = m[p + 1 + i - 1] /\ p + 1 + i - 1 = p + i
    BY <1>1
  <2> QED
    BY <2>1
<1>4. SubSeq(m, p + 1, Len(m)) \in Seq(S)
  BY <1>1
<1> QED
  BY <1>2, <1>3, <1>4 DEF After

\* What it has behind q, the text has behind p + q.
LEMMA AfterPart ==
  ASSUME NEW S, NEW m \in Seq(S), NEW p \in 0 .. Len(m), NEW q \in Nat,
         NEW s, Len(s) \in Nat
  PROVE  Part(After(m, p), q, s) <=> Part(m, p + q, s)
<1> DEFINE t == After(m, p)
<1>1. Len(m) \in Nat /\ p \in Nat /\ p <= Len(m)
  OBVIOUS
<1>2. Len(t) = Len(m) - p /\ \A i \in 1 .. (Len(m) - p) : t[i] = m[p + i]
  BY AfterIs
<1> HIDE DEF t
<1>3. q + Len(s) <= Len(t) <=> p + q + Len(s) <= Len(m)
  BY <1>1, <1>2
<1>4. ASSUME q + Len(s) <= Len(t), NEW i \in 1 .. Len(s) PROVE t[q + i] = m[p + q + i]
  <2>1. q + i \in 1 .. (Len(m) - p) /\ p + (q + i) = p + q + i
    BY <1>1, <1>2, <1>4
  <2> QED
    BY <2>1, <1>2
<1> QED
  BY <1>3, <1>4 DEF Part, t

\* A mapping has one line, and a line is that of one mapping.
LEMMA LineIsUnique ==
  ASSUME NEW r \in Region, NEW s \in Region, NEW m \in Seq(Char),
         NEW p \in 0 .. Len(m), LineAt(m, p, r), LineAt(m, p, s)
  PROVE  r = s
<1>1. \A q \in Region : Len(show_map_vma(q)) \in Nat
  BY LineShape
<1>2. LineAt(After(m, p), 0, r) /\ LineAt(After(m, p), 0, s)
  <2>1. p + 0 = p
    OBVIOUS
  <2> QED
    BY <2>1, <1>1, AfterPart DEF LineAt
<1>3. After(m, p) \in Seq(Char)
  BY AfterIs
<1>4. r.start = s.start
  <2>1. ParseLine(After(m, p)).start = r.start /\ ParseLine(After(m, p)).start = s.start
    BY <1>2, <1>3, LineRead
  <2> QED
    BY <2>1
<1>5. /\ r.start \in Nat /\ r.end \in Nat /\ r.start < r.end
      /\ s.start \in Nat /\ s.end \in Nat /\ s.start < s.end
  BY RegionAssumption
<1>6. ~(r.end <= s.start \/ s.end <= r.start)
  BY <1>4, <1>5
<1> QED
  BY <1>6, LayoutAssumption

\* Cuts of what is left behind a cut.
LEMMA AfterCuts ==
  ASSUME NEW m \in Seq(Char), NEW p \in Cuts(m), NEW q \in Nat
  PROVE  q \in Cuts(After(m, p)) <=> p + q \in Cuts(m)
<1>1. Len(m) \in Nat /\ DOMAIN m = 1 .. Len(m) /\ p \in 0 .. Len(m)
  BY DEF Cuts
<1> DEFINE t == After(m, p)
<1>2. /\ Len(t) = Len(m) - p /\ t \in Seq(Char)
      /\ \A i \in 1 .. (Len(m) - p) : t[i] = m[p + i]
  BY <1>1, AfterIs
<1>3. DOMAIN t = 1 .. (Len(m) - p)
  BY <1>2
<1> HIDE DEF t
<1>4. CASE q = 0
  BY <1>1, <1>4 DEF Cuts, t
<1>5. CASE q # 0
  <2>1. q \in 1 .. (Len(m) - p) <=> p + q \in 1 .. Len(m)
    BY <1>1, <1>5
  <2>2. p + q # 0
    BY <1>1, <1>5
  <2> QED
    BY <2>1, <2>2, <1>1, <1>2, <1>3, <1>5 DEF Cuts, t
<1> QED
  BY <1>4, <1>5

\* Cuts lie within the text, and the text behind one begins there.
LEMMA CutRange ==
  ASSUME NEW m \in Seq(Char), NEW p \in Cuts(m)
  PROVE  p \in 0 .. Len(m) /\ p \in Nat /\ Len(m) \in Nat
  BY DEF Cuts

\* A text without its first line (object.c:334-340): the rest is a text, and
\* has the other lines, which are of higher mappings.
LEMMA DropLine ==
  ASSUME NEW R \in SUBSET Region, NEW m, IsText(m, R),
         NEW r \in Region, LineAt(m, 0, r)
  PROVE  LET t == SubSeq(m, Len(show_map_vma(r)) + 1, Len(m))
         IN  /\ IsText(t, R)
             /\ \A q \in Region : Has(m, q) <=> q = r \/ Has(t, q)
             /\ \A q \in Region : Has(t, q) => r.end <= q.start
<1> DEFINE k == Len(show_map_vma(r))
           t == After(m, k)
<1>1. m \in Seq(Char) /\ Len(m) \in Nat /\ DOMAIN m = 1 .. Len(m)
  BY DEF IsText
<1>2. /\ k \in Nat /\ k > 0 /\ show_map_vma(r)[k] = "\n"
      /\ \A i \in 1 .. (k - 1) : show_map_vma(r)[i] # "\n"
  BY LineShape
<1>3. k <= Len(m) /\ \A i \in 1 .. k : m[i] = show_map_vma(r)[i]
  <2>1. 0 + k <= Len(m) /\ \A i \in 1 .. k : m[0 + i] = show_map_vma(r)[i]
    BY DEF LineAt, Part
  <2>2. 0 + k = k /\ \A i \in 1 .. k : 0 + i = i
    BY <1>2
  <2> QED
    BY <2>1, <2>2
<1> HIDE DEF k
<1>4. m[k] = "\n" /\ \A i \in 1 .. (k - 1) : m[i] # "\n"
  <2>1. k \in 1 .. k /\ \A i \in 1 .. (k - 1) : i \in 1 .. k
    BY <1>2
  <2> QED
    BY <2>1, <1>2, <1>3
<1>5. k \in Cuts(m) /\ k \in 0 .. Len(m)
  <2>1. k \in 1 .. Len(m) /\ k \in 0 .. Len(m)
    BY <1>1, <1>2, <1>3
  <2> QED
    BY <2>1, <1>1, <1>4 DEF Cuts
<1>6. ASSUME NEW p \in Cuts(m) PROVE p \in Nat /\ (p = 0 \/ k <= p)
  <2>1. p \in Nat
    BY <1>1, CutRange
  <2>2. p # 0 => m[p] = "\n"
    BY DEF Cuts
  <2>3. p # 0 /\ ~(k <= p) => p \in 1 .. (k - 1)
    BY <2>1, <1>2
  <2> QED
    BY <2>1, <2>2, <2>3, <1>4
<1>7. t \in Seq(Char) /\ Len(t) = Len(m) - k
  BY <1>1, <1>5, AfterIs
<1> HIDE DEF t
<1>8. ASSUME NEW q \in Nat PROVE q \in Cuts(t) <=> k + q \in Cuts(m)
  BY <1>1, <1>5, AfterCuts DEF t
<1>9. ASSUME NEW q \in Nat, NEW s \in Region PROVE LineAt(t, q, s) <=> LineAt(m, k + q, s)
  <2>1. Len(show_map_vma(s)) \in Nat
    BY LineShape
  <2> QED
    BY <2>1, <1>1, <1>5, AfterPart DEF t, LineAt
<1>10. \A q \in Cuts(t) : q \in Nat
  BY <1>7, CutRange
<1>11. Len(t) \in Cuts(t)
  <2>1. Len(t) \in Nat /\ k + Len(t) = Len(m)
    BY <1>1, <1>2, <1>3, <1>7
  <2> QED
    BY <2>1, <1>8 DEF IsText
<1>12. ASSUME NEW p \in Cuts(t), p < Len(t) PROVE \E s \in R : LineAt(t, p, s)
  <2>1. k + p \in Cuts(m)
    BY <1>8, <1>10
  <2>2. k + p < Len(m)
    BY <1>1, <1>2, <1>7, <1>10, <1>12
  <2>3. PICK s \in R : LineAt(m, k + p, s)
    BY <2>1, <2>2 DEF IsText
  <2> QED
    BY <2>3, <1>9, <1>10
<1>13. ASSUME NEW p \in Cuts(t), NEW q \in Cuts(t), NEW x \in Region, NEW y \in Region,
              p < q, LineAt(t, p, x), LineAt(t, q, y)
       PROVE  x.end <= y.start
  <2>1. k + p \in Cuts(m) /\ k + q \in Cuts(m) /\ k + p < k + q
    BY <1>2, <1>8, <1>10, <1>13
  <2>2. LineAt(m, k + p, x) /\ LineAt(m, k + q, y)
    BY <1>9, <1>10, <1>13
  <2> QED
    BY <2>1, <2>2 DEF IsText
<1>14. IsText(t, R)
  BY <1>7, <1>11, <1>12, <1>13 DEF IsText
<1>15. ASSUME NEW q \in Region, Has(t, q) PROVE Has(m, q) /\ r.end <= q.start
  <2>1. PICK p \in Cuts(t) : LineAt(t, p, q)
    BY <1>15 DEF Has
  <2>2. k + p \in Cuts(m) /\ 0 < k + p
    BY <1>2, <1>8, <1>10
  <2>3. LineAt(m, k + p, q)
    BY <2>1, <1>9, <1>10
  <2>4. 0 \in Cuts(m)
    BY DEF Cuts
  <2> QED
    BY <2>2, <2>3, <2>4 DEF IsText, Has
<1>16. Has(m, r)
  <2>1. 0 \in Cuts(m)
    BY DEF Cuts
  <2> QED
    BY <2>1 DEF Has
<1>17. ASSUME NEW q \in Region, Has(m, q) PROVE q = r \/ Has(t, q)
  <2>1. PICK p \in Cuts(m) : LineAt(m, p, q)
    BY <1>17 DEF Has
  <2>2. CASE p = 0
    <3>1. 0 \in 0 .. Len(m)
      BY <1>1
    <3> QED
      BY <2>1, <2>2, <3>1, <1>1, LineIsUnique
  <2>3. CASE p # 0
    <3>1. p - k \in Nat /\ k + (p - k) = p
      BY <1>2, <1>6, <2>3
    <3>2. p - k \in Cuts(t) /\ LineAt(t, p - k, q)
      BY <3>1, <2>1, <1>8, <1>9
    <3> QED
      BY <3>2 DEF Has
  <2> QED
    BY <2>2, <2>3
<1>18. t = SubSeq(m, Len(show_map_vma(r)) + 1, Len(m))
  BY DEF t, k, After
<1> QED
  BY <1>14, <1>15, <1>16, <1>17, <1>18

\* A text to which object_get_mmap appends the line of a mapping above its
\* last (object.c:232-270).
LEMMA AppendLine ==
  ASSUME NEW R \in SUBSET Region, NEW m, IsText(m, R), NEW r \in R,
         \A q \in Region : Has(m, q) => q.end <= r.start
  PROVE  LET u == m \o show_map_vma(r)
         IN  /\ IsText(u, R)
             /\ \A q \in Region : Has(u, q) <=> q = r \/ Has(m, q)
<1> DEFINE L == show_map_vma(r)
           k == Len(L)
           n == Len(m)
           u == m \o L
<1>1. m \in Seq(Char) /\ n \in Nat /\ DOMAIN m = 1 .. n
  BY DEF IsText
<1>2. L \in Seq(Char) /\ k \in Nat /\ k > 0 /\ L[k] = "\n" /\ \A i \in 1 .. (k - 1) : L[i] # "\n"
  BY LineShape
<1> HIDE DEF L
<1>3. u \in Seq(Char) /\ Len(u) = n + k
  BY <1>1, <1>2
<1>4. /\ \A i \in 1 .. n : u[i] = m[i]
      /\ \A i \in 1 .. k : u[n + i] = L[i]
  BY <1>1, <1>2
<1>5. DOMAIN u = 1 .. (n + k)
  BY <1>3
<1> HIDE DEF u, n, k
<1>6. n \in Cuts(m)
  BY DEF IsText, n
<1>7. ASSUME NEW p \in Cuts(u) PROVE p \in Cuts(m) \/ p = n + k
  <2>1. CASE p = 0
    BY <2>1 DEF Cuts
  <2>2. CASE p # 0
    <3>1. p \in 1 .. (n + k) /\ u[p] = "\n"
      BY <2>2, <1>5 DEF Cuts
    <3>2. CASE p <= n
      <4>1. p \in 1 .. n
        BY <3>1, <3>2, <1>1
      <4> QED
        BY <4>1, <3>1, <1>1, <1>4 DEF Cuts
    <3>3. CASE ~(p <= n) /\ p # n + k
      <4>1. p - n \in 1 .. (k - 1) /\ p - n \in 1 .. k /\ n + (p - n) = p
        BY <3>1, <3>3, <1>1, <1>2
      <4> QED
        BY <4>1, <3>1, <1>2, <1>4
    <3> QED
      BY <3>2, <3>3
  <2> QED
    BY <2>1, <2>2
<1>8. ASSUME NEW p \in Cuts(m) PROVE p \in Cuts(u) /\ p \in Nat /\ p <= n
  <2>1. p \in Nat /\ p <= n
    BY <1>1, CutRange DEF n
  <2>2. p = 0 \/ (p \in 1 .. n /\ p \in 1 .. (n + k) /\ m[p] = "\n")
    BY <2>1, <1>1, <1>2 DEF Cuts
  <2> QED
    BY <2>1, <2>2, <1>4, <1>5 DEF Cuts
<1>9. n + k \in Cuts(u)
  <2>1. k \in 1 .. k /\ n + k \in 1 .. (n + k)
    BY <1>1, <1>2
  <2> QED
    BY <2>1, <1>2, <1>4, <1>5 DEF Cuts
<1>10. LineAt(u, n, r)
  <2>1. Part(u, n, L)
    BY <1>1, <1>2, <1>3, <1>4 DEF Part, k
  <2> QED
    BY <2>1 DEF LineAt, L
\* A line of the text is a line of the longer one.
<1>11. ASSUME NEW p \in Cuts(m), NEW q \in Region, LineAt(m, p, q) PROVE LineAt(u, p, q)
  <2>1. /\ Len(show_map_vma(q)) \in Nat
    BY LineShape
  <2>2. /\ p + Len(show_map_vma(q)) <= n
        /\ \A i \in 1 .. Len(show_map_vma(q)) : m[p + i] = show_map_vma(q)[i]
    BY <1>11 DEF LineAt, Part, n
  <2>3. p + Len(show_map_vma(q)) <= n + k
    BY <2>1, <2>2, <1>1, <1>2, <1>8
  <2>4. ASSUME NEW i \in 1 .. Len(show_map_vma(q)) PROVE p + i \in 1 .. n
    BY <2>1, <2>2, <1>1, <1>8
  <2>5. \A i \in 1 .. Len(show_map_vma(q)) : u[p + i] = show_map_vma(q)[i]
    BY <2>2, <2>4, <1>4
  <2> QED
    BY <2>3, <2>5, <1>3 DEF LineAt, Part
\* The lines of the longer text are the lines of the text and the new one.
<1>12. ASSUME NEW p \in Cuts(u), NEW q \in Region, LineAt(u, p, q)
       PROVE  \/ p \in Cuts(m) /\ p < n /\ LineAt(m, p, q)
              \/ p = n /\ q = r
  <2>1. Len(show_map_vma(q)) \in Nat /\ Len(show_map_vma(q)) > 0
    BY LineShape
  <2>2. p + Len(show_map_vma(q)) <= n + k
    BY <1>12, <1>3 DEF LineAt, Part
  <2>3. p \in 0 .. Len(u) /\ p \in Nat
    BY <1>3, CutRange
  <2>4. p # n + k
    BY <2>1, <2>2, <2>3, <1>1, <1>2
  <2>5. p \in Cuts(m)
    BY <2>4, <1>7
  <2>6. CASE p = n
    BY <2>3, <2>6, <1>3, <1>10, <1>12, LineIsUnique
  <2>7. CASE p # n
    <3>1. p < n
      BY <2>5, <2>7, <1>1, <1>8
    <3>2. PICK x \in R : LineAt(m, p, x)
      BY <2>5, <3>1 DEF IsText, n
    <3>3. x \in Region /\ LineAt(u, p, x)
      BY <2>5, <3>2, <1>11
    <3>4. x = q
      BY <2>3, <3>3, <1>3, <1>12, LineIsUnique
    <3> QED
      BY <2>5, <3>1, <3>2, <3>4
  <2> QED
    BY <2>6, <2>7
<1>13. ASSUME NEW p \in Cuts(u), p < Len(u) PROVE \E s \in R : LineAt(u, p, s)
  <2>1. p \in Cuts(m)
    <3>1. p # n + k
      BY <1>1, <1>2, <1>3, <1>13
    <3> QED
      BY <3>1, <1>7
  <2>2. CASE p = n
    BY <2>2, <1>10
  <2>3. CASE p # n
    <3>1. p < n
      BY <2>1, <2>3, <1>1, <1>8
    <3>2. PICK s \in R : LineAt(m, p, s)
      BY <2>1, <3>1 DEF IsText, n
    <3> QED
      BY <2>1, <3>2, <1>11
  <2> QED
    BY <2>2, <2>3
<1>14. ASSUME NEW p \in Cuts(u), NEW q \in Cuts(u), NEW x \in Region, NEW y \in Region,
              p < q, LineAt(u, p, x), LineAt(u, q, y)
       PROVE  x.end <= y.start
  <2>1. \/ p \in Cuts(m) /\ p < n /\ LineAt(m, p, x)
        \/ p = n /\ x = r
    BY <1>12, <1>14
  <2>2. \/ q \in Cuts(m) /\ q < n /\ LineAt(m, q, y)
        \/ q = n /\ y = r
    BY <1>12, <1>14
  <2>3. ~(p = n)
    <3>1. q \in Nat /\ q <= n
      BY <2>2, <1>1, <1>8
    <3> QED
      BY <3>1, <1>1, <1>14
  <2>4. CASE q = n
    <3>1. Has(m, x) /\ y = r
      BY <2>1, <2>2, <2>3, <2>4, <1>1 DEF Has
    <3> QED
      BY <3>1
  <2>5. CASE q # n
    BY <2>1, <2>2, <2>3, <2>5, <1>14 DEF IsText
  <2> QED
    BY <2>4, <2>5
<1>15. Len(u) \in Cuts(u)
  BY <1>3, <1>9
<1>16. IsText(u, R)
  BY <1>3, <1>13, <1>14, <1>15 DEF IsText
<1>17. ASSUME NEW q \in Region PROVE Has(u, q) <=> q = r \/ Has(m, q)
  <2>1. Has(u, q) => q = r \/ Has(m, q)
    BY <1>12 DEF Has
  <2>2. Has(m, q) => Has(u, q)
    BY <1>8, <1>11 DEF Has
  <2>3. Has(u, r)
    BY <1>6, <1>8, <1>10 DEF Has
  <2> QED
    BY <2>1, <2>2, <2>3
<1> QED
  BY <1>16, <1>17 DEF u, L

\* The text of no line.
LEMMA EmptyText ==
  ASSUME NEW R
  PROVE  IsText(<<>>, R) /\ \A r \in Region : ~Has(<<>>, r)
<1> DEFINE m == <<>>
<1>1. m \in Seq(Char) /\ Len(m) = 0 /\ DOMAIN m = {}
  OBVIOUS
<1> HIDE DEF m
<1>2. Cuts(m) = {0}
  BY <1>1 DEF Cuts
<1>3. ASSUME NEW p \in Cuts(m), NEW r \in Region PROVE ~LineAt(m, p, r)
  <2>1. Len(show_map_vma(r)) \in Nat /\ Len(show_map_vma(r)) > 0
    BY LineShape
  <2> QED
    BY <2>1, <1>1, <1>2 DEF LineAt, Part
<1>4. ~(0 < 0)
  OBVIOUS
<1>5. \A p, q \in Cuts(m), r, s \in Region :
        p < q /\ LineAt(m, p, r) /\ LineAt(m, q, s) => r.end <= s.start
  BY <1>3
<1>6. \A p \in Cuts(m) : p < Len(m) => \E r \in R : LineAt(m, p, r)
  BY <1>1, <1>2, <1>4
<1>7. IsText(m, R)
  BY <1>1, <1>2, <1>5, <1>6 DEF IsText
<1> QED
  BY <1>3, <1>7 DEF Has, m

\* A text of lines of R is one of lines of a larger set.
LEMMA TextOfMore ==
  ASSUME NEW m, NEW R, NEW Q, IsText(m, R), R \subseteq Q
  PROVE  IsText(m, Q)
  BY DEF IsText

\* A text that is not empty begins with a line and ends with a newline.
LEMMA FirstLine ==
  ASSUME NEW m, NEW R, IsText(m, R), m # <<>>
  PROVE  (\E r \in R : LineAt(m, 0, r)) /\ Last(m) = "\n"
<1>1. m \in Seq(Char) /\ Len(m) \in Nat /\ Len(m) # 0
  <2>1. \A s \in Seq(Char) : s # <<>> => Len(s) \in Nat /\ Len(s) # 0
    OBVIOUS
  <2> QED
    BY <2>1 DEF IsText
<1>2. 0 \in Cuts(m) /\ 0 < Len(m)
  BY <1>1 DEF Cuts
<1>3. m[Len(m)] = "\n"
  BY <1>1 DEF IsText, Cuts
<1> QED
  BY <1>2, <1>3 DEF IsText, Last

-----------------------------------------------------------------------------
(***************************************************************************)
(* The steps of object_load                                                *)
(***************************************************************************)

\* The ranges of mappings are not empty, and disjoint.
LEMMA Ranges ==
  ASSUME NEW r \in Region
  PROVE  /\ r.start \in Nat /\ r.end \in Nat /\ r.start < r.end
         /\ \A q \in Region : r # q => r.end <= q.start \/ q.end <= r.start
  BY RegionAssumption, LayoutAssumption

\* Mappings with the same start are the same.
LEMMA SameStart ==
  ASSUME NEW r \in Region, NEW q \in Region, r.start = q.start
  PROVE  r = q
<1>1. /\ r.start \in Nat /\ r.end \in Nat /\ r.start < r.end
      /\ q.start \in Nat /\ q.end \in Nat /\ q.start < q.end
  BY RegionAssumption
<1>2. ~(r.end <= q.start \/ q.end <= r.start)
  BY <1>1
<1> QED
  BY <1>2, LayoutAssumption

\* An object with the start of a mapping is the object of that mapping.
LEMMA ListedBy ==
  ASSUME ObjectsOK, mapped \subseteq Region,
         NEW i \in DOMAIN objects, NEW r \in Region, objects[i].text_start = r.start
  PROVE  IsObjectOf(objects[i], r)
<1>1. PICK q \in mapped : IsMapping(objects[i], q)
  BY DEF ObjectsOK
<1>2. q.start = r.start
  BY <1>1 DEF IsMapping, IsObjectOf
<1>3. q = r
  BY <1>2, SameStart
<1> QED
  BY <1>1, <1>3 DEF IsMapping

\* What a line that begins the text m is parsed as.
IsParsed(line, m, R, r) ==
  /\ LineAt(m, 0, r)
  /\ ReadsBack(line, r)
  /\ line.attr \subseteq {"r", "w", "x", "p"}
  /\ IsText(line.rest, R)
  /\ \A q \in Region : Has(m, q) <=> q = r \/ Has(line.rest, q)
  /\ \A q \in Region : Has(line.rest, q) => r.end <= q.start

\* The first line of a text is parsed as that of its mapping, and the text
\* that object_parse_mmap goes on with has the other lines (object.c:272-340).
LEMMA HeadLine ==
  ASSUME NEW R \in SUBSET Region, NEW m, IsText(m, R), NEW r \in Region,
         LineAt(m, 0, r)
  PROVE  IsParsed(ParseLine(m), m, R, r)
<1> DEFINE line == ParseLine(m)
           t == SubSeq(m, Len(show_map_vma(r)) + 1, Len(m))
<1>1. m \in Seq(Char)
  BY DEF IsText
<1>2. /\ line.ok
      /\ line.start = r.start /\ line.end = r.end
      /\ line.attr \subseteq {"r", "w", "x", "p"}
      /\ "x" \in line.attr <=> r.exec
      /\ line.inode = r.inode % IntSize
      /\ line.inode # 0 => line.file = r.name
      /\ line.rest = t
  BY <1>1, LineRead
<1>3. /\ IsText(t, R)
      /\ \A q \in Region : Has(m, q) <=> q = r \/ Has(t, q)
      /\ \A q \in Region : Has(t, q) => r.end <= q.start
  BY DropLine
<1> HIDE DEF line, t
<1>4. /\ IsText(line.rest, R)
      /\ \A q \in Region : Has(m, q) <=> q = r \/ Has(line.rest, q)
      /\ \A q \in Region : Has(line.rest, q) => r.end <= q.start
  BY <1>2, <1>3
<1>5. ReadsBack(line, r)
  BY <1>2 DEF ReadsBack
<1>6. IsParsed(line, m, R, r)
  BY <1>2, <1>4, <1>5 DEF IsParsed
<1> QED
  BY <1>6 DEF line

\* The type invariant follows: a text that is not empty ends with a newline.
LEMMA TypeFollows ==
  ASSUME IInv
  PROVE  TypeOK
<1>1. ASSUME NEW i \in DOMAIN objects
      PROVE  objects[i].text_attr \subseteq {"r", "w", "x", "p", "NO_BKPT"}
  <2>1. objects[i] \in Object
    BY DEF IInv, ObjectsOK
  <2> QED
    BY <2>1 DEF Object
<1>2. ASSUME NEW l \in Loader, maps[l] # <<>> PROVE Last(maps[l]) = "\n"
  <2>1. IsText(maps[l], mapped)
    BY DEF IInv, TextOK
  <2> QED
    BY <2>1, <1>2, FirstLine
<1> QED
  BY <1>1, <1>2 DEF IInv, Control, TypeOK

\* The invariant holds at start-up, when the list is empty.
LEMMA IInvInit ==
  ASSUME Init
  PROVE  IInv
<1>1. Control
  BY LayoutAssumption DEF Init, Control
<1>2. ASSUME NEW l \in Loader PROVE pc[l] = "idle" /\ maps[l] = <<>> /\ atcall[l] = {}
  BY DEF Init
<1>3. objects = <<>> /\ DOMAIN objects = {} /\ objects \in Seq(Object)
  BY DEF Init
<1>4. maps \in [Loader -> Seq(Char)]
  BY DEF Init
<1>5. TextOK
  BY <1>2, <1>4, EmptyText DEF TextOK
<1>6. Covered
  BY <1>2 DEF Covered, Init
<1>7. ObjectsOK /\ ExeOrder
  BY <1>3 DEF ObjectsOK, ExeOrder
<1> QED
  BY <1>1, <1>5, <1>6, <1>7 DEF IInv

\* The list is not changed: what is said about objects still holds.
LEMMA SameObjects ==
  ASSUME IInv, UNCHANGED objects, mapped \subseteq mapped'
  PROVE  /\ ObjectsOK' /\ ExeOrder'
         /\ \A r : Listed(r)' <=> Listed(r)
<1>1. ObjectsOK'
  BY DEF IInv, ObjectsOK
<1>2. ExeOrder'
  BY DEF IInv, ExeOrder
<1> QED
  BY <1>1, <1>2 DEF Listed

\* A mapping is made while loads are under way (outside the library).
LEMMA MapStep ==
  ASSUME IInv, NEW r \in Region, Map(r)
  PROVE  IInv'
<1>1. /\ mapped' = mapped \cup {r}
      /\ UNCHANGED <<objects, pc, maps, reached, atcall, loads>>
  BY DEF Map
<1>2. Control'
  BY <1>1 DEF IInv, Control
<1>3. ObjectsOK' /\ ExeOrder' /\ \A q : Listed(q)' <=> Listed(q)
  BY <1>1, SameObjects
<1>4. ASSUME NEW l \in Loader PROVE IsText(maps[l], mapped')
  <2>1. IsText(maps[l], mapped) /\ mapped \subseteq mapped'
    BY <1>1 DEF IInv, TextOK
  <2> QED
    BY <2>1, TextOfMore
<1>5. TextOK'
  BY <1>1, <1>4 DEF IInv, TextOK
<1>6. Covered'
  BY <1>1, <1>3 DEF IInv, Covered
<1> QED
  BY <1>2, <1>3, <1>5, <1>6 DEF IInv

\* The call of object_load: nothing is read yet, so every mapping is ahead.
LEMMA LoadStep ==
  ASSUME IInv, NEW l \in Loader, object_load(l)
  PROVE  IInv'
<1>1. /\ pc[l] = "idle" /\ loads[l] < MaxLoads
      /\ loads' = [loads EXCEPT ![l] = @ + 1]
      /\ reached' = [reached EXCEPT ![l] = 0]
      /\ atcall' = [atcall EXCEPT ![l] = mapped]
      /\ pc' = [pc EXCEPT ![l] = "read"]
      /\ UNCHANGED <<mapped, objects, maps>>
  BY DEF object_load, Goto
<1>2. Control
  BY DEF IInv
<1>3. Control'
  <2>1. loads' \in [Loader -> 0 .. MaxLoads]
    <3>1. loads[l] + 1 \in 0 .. MaxLoads
      BY <1>1, <1>2, LayoutAssumption DEF Control
    <3> QED
      BY <3>1, <1>1, <1>2 DEF Control
  <2> QED
    BY <2>1, <1>1, <1>2 DEF Control
<1>4. ObjectsOK' /\ ExeOrder' /\ \A q : Listed(q)' <=> Listed(q)
  BY <1>1, SameObjects
<1>5. maps[l] = <<>> /\ \A q \in Region : ~Has(maps[l], q)
  BY <1>1, EmptyText DEF IInv, TextOK
<1>6. /\ pc'[l] = "read" /\ reached'[l] = 0 /\ atcall'[l] = mapped
      /\ \A k \in Loader : k # l =>
           pc'[k] = pc[k] /\ reached'[k] = reached[k] /\ atcall'[k] = atcall[k]
  BY <1>1, <1>2 DEF Control
<1>7. TextOK'
  <2>1. maps' \in [Loader -> Seq(Char)]
    BY <1>1 DEF IInv, TextOK
  <2>2. ASSUME NEW k \in Loader
        PROVE  /\ IsText(maps[k], mapped)
               /\ pc'[k] = "idle" => maps[k] = <<>>
               /\ pc'[k] = "read" => \A r \in Region : Has(maps[k], r) => r.end <= reached'[k]
               /\ pc'[k] = "append" => \E r \in mapped : Traced(r) /\ LineAt(maps[k], 0, r)
    BY <1>5, <1>6 DEF IInv, TextOK
  <2> QED
    BY <2>1, <2>2, <1>1 DEF TextOK
<1>8. Covered'
  <2>1. ASSUME NEW r \in mapped PROVE 0 <= r.start
    <3>1. r \in Region
      BY <1>2 DEF Control
    <3>2. r.start \in Nat
      BY <3>1, Ranges
    <3> QED
      BY <3>2
  <2>2. Early \subseteq mapped'
    BY <1>1 DEF IInv, Covered
  <2>3. ASSUME NEW k \in Loader
        PROVE  /\ atcall'[k] \subseteq mapped
               /\ pc'[k] # "idle" => Early \subseteq atcall'[k]
               /\ \A r \in atcall'[k] : Traced(r) =>
                    Listed(r) \/ Has(maps[k], r) \/ (pc'[k] = "read" /\ reached'[k] <= r.start)
    BY <2>1, <1>6 DEF IInv, Covered
  <2> QED
    BY <2>2, <2>3, <1>1, <1>4 DEF Covered
<1> QED
  BY <1>3, <1>4, <1>7, <1>8 DEF IInv

\* A read of the maps file: the next mapping's line is appended, or the end
\* is reached.
LEMMA ReadStep ==
  ASSUME IInv, NEW l \in Loader, object_get_mmap(l)
  PROVE  IInv'
<1> DEFINE rest == {r \in mapped : r.start >= reached[l]}
           Least(r) == \A q \in rest : r.start <= q.start
           r == CHOOSE r \in rest : Least(r)
<1>1. pc[l] = "read" /\ UNCHANGED <<mapped, objects, atcall, loads>>
  BY DEF object_get_mmap
<1>2. \/ rest = {} /\ pc' = [pc EXCEPT ![l] = "parse"] /\ UNCHANGED <<maps, reached>>
      \/ /\ rest # {}
         /\ maps' = [maps EXCEPT ![l] = @ \o show_map_vma(r)]
         /\ reached' = [reached EXCEPT ![l] = r.end]
         /\ UNCHANGED pc
  BY DEF object_get_mmap, Goto
<1>3. Control /\ mapped \subseteq Region /\ reached[l] \in Nat
  BY DEF IInv, Control
<1>4. ObjectsOK' /\ ExeOrder' /\ \A q : Listed(q)' <=> Listed(q)
  BY <1>1, SameObjects
<1>5. /\ IsText(maps[l], mapped) /\ maps \in [Loader -> Seq(Char)]
      /\ \A q \in Region : Has(maps[l], q) => q.end <= reached[l]
  BY <1>1 DEF IInv, TextOK
<1>6. CASE rest = {}
  <2>1. pc' = [pc EXCEPT ![l] = "parse"] /\ UNCHANGED <<maps, reached>>
    BY <1>2, <1>6
  <2>2. pc'[l] = "parse" /\ \A k \in Loader : k # l => pc'[k] = pc[k]
    BY <2>1, <1>3 DEF Control
  <2>3. Control'
    BY <2>1, <1>1, <1>3 DEF Control
  <2>4. TextOK'
    <3>1. ASSUME NEW k \in Loader
          PROVE  /\ IsText(maps[k], mapped)
                 /\ pc'[k] = "idle" => maps[k] = <<>>
                 /\ pc'[k] = "read" => \A q \in Region : Has(maps[k], q) => q.end <= reached[k]
                 /\ pc'[k] = "append" => \E q \in mapped : Traced(q) /\ LineAt(maps[k], 0, q)
      BY <2>2 DEF IInv, TextOK
    <3> QED
      BY <3>1, <2>1, <1>1, <1>5 DEF TextOK
  <2>5. Covered'
    <3>1. ASSUME NEW q \in mapped PROVE ~(reached[l] <= q.start)
      <4>1. ~(q.start >= reached[l])
        BY <1>6
      <4>2. q.start \in Nat
        BY <1>3, Ranges
      <4> QED
        BY <4>1, <4>2, <1>3
    <3>2. ASSUME NEW k \in Loader
          PROVE  /\ atcall[k] \subseteq mapped
                 /\ pc'[k] # "idle" => Early \subseteq atcall[k]
                 /\ \A q \in atcall[k] : Traced(q) =>
                      Listed(q) \/ Has(maps[k], q) \/ (pc'[k] = "read" /\ reached[k] <= q.start)
      BY <3>1, <2>2, <1>1 DEF IInv, Covered
    <3> QED
      BY <3>2, <2>1, <1>1, <1>4 DEF IInv, Covered
  <2> QED
    BY <2>3, <2>4, <2>5, <1>4 DEF IInv
<1>7. CASE rest # {}
  <2>1. /\ maps' = [maps EXCEPT ![l] = @ \o show_map_vma(r)]
        /\ reached' = [reached EXCEPT ![l] = r.end]
        /\ UNCHANGED pc
    BY <1>2, <1>7
  <2>2. \E x \in rest : Least(x)
    <3> DEFINE T == {x.start : x \in rest}
    <3>1. T \in SUBSET Nat /\ T # {}
      BY <1>3, <1>7, Ranges
    <3> HIDE DEF T
    <3>2. PICK y \in T : \A z \in T : y <= z
      BY <3>1, LeastNat
    <3> USE DEF T
    <3>3. PICK x \in rest : x.start = y
      OBVIOUS
    <3> QED
      BY <3>2, <3>3
  <2>3. r \in rest /\ Least(r)
    <3> HIDE DEF rest, Least
    <3> QED
      BY <2>2
  <2> HIDE DEF r
  <2>4. /\ r \in mapped /\ r \in Region /\ r.start \in Nat /\ r.end \in Nat
        /\ reached[l] <= r.start /\ r.start < r.end
    <3>1. r \in mapped /\ r \in Region /\ r.start >= reached[l]
      BY <2>3, <1>3
    <3>2. r.start \in Nat /\ r.end \in Nat /\ r.start < r.end
      BY <3>1, Ranges
    <3> QED
      BY <3>1, <3>2, <1>3
  <2>5. ASSUME NEW q \in mapped, reached[l] <= q.start, q # r PROVE r.end <= q.start
    <3>1. q \in Region /\ q.start \in Nat /\ q.end \in Nat /\ q.start < q.end
      BY <1>3, Ranges
    <3>2. r.start <= q.start
      BY <2>3, <2>5, <3>1, <1>3
    <3>3. r.end <= q.start \/ q.end <= r.start
      BY <2>4, <2>5, <3>1, Ranges
    <3> QED
      BY <2>4, <3>1, <3>2, <3>3
  <2> HIDE DEF rest, Least
  <2> DEFINE u == maps[l] \o show_map_vma(r)
  <2>6. /\ IsText(u, mapped)
        /\ \A q \in Region : Has(u, q) <=> q = r \/ Has(maps[l], q)
    <3>1. ASSUME NEW q \in Region, Has(maps[l], q) PROVE q.end <= r.start
      <4>1. q.end <= reached[l] /\ q.end \in Nat
        BY <1>5, <3>1, Ranges
      <4> QED
        BY <4>1, <2>4, <1>3
    <3> QED
      BY <3>1, <2>4, <1>3, <1>5, AppendLine
  <2>7. /\ maps'[l] = u /\ reached'[l] = r.end
        /\ \A k \in Loader : k # l => maps'[k] = maps[k] /\ reached'[k] = reached[k]
    BY <2>1, <1>3, <1>5 DEF Control
  <2>8. u \in Seq(Char)
    BY <2>6 DEF IsText
  <2> HIDE DEF u
  <2>9. Control'
    BY <2>1, <2>4, <1>1, <1>3 DEF Control
  <2>10. maps' \in [Loader -> Seq(Char)]
    <3>1. maps' = [maps EXCEPT ![l] = u]
      BY <2>1, <1>5 DEF u
    <3> QED
      BY <3>1, <2>8, <1>5
  <2>11. TextOK'
    <3>1. ASSUME NEW q \in Region, Has(u, q) PROVE q.end <= r.end
      <4>1. CASE q = r
        BY <4>1, <2>4
      <4>2. CASE q # r
        <5>1. q.end <= reached[l] /\ q.end \in Nat
          BY <4>2, <3>1, <2>6, <1>5, Ranges
        <5> QED
          BY <5>1, <2>4, <1>3
      <4> QED
        BY <4>1, <4>2
    <3>2. ASSUME NEW k \in Loader
          PROVE  /\ IsText(maps'[k], mapped)
                 /\ pc[k] = "idle" => maps'[k] = <<>>
                 /\ pc[k] = "read" => \A q \in Region : Has(maps'[k], q) => q.end <= reached'[k]
                 /\ pc[k] = "append" => \E q \in mapped : Traced(q) /\ LineAt(maps'[k], 0, q)
      <4>1. CASE k = l
        BY <4>1, <3>1, <2>6, <2>7, <1>1
      <4>2. CASE k # l
        BY <4>2, <2>7 DEF IInv, TextOK
      <4> QED
        BY <4>1, <4>2
    <3> QED
      BY <3>2, <2>1, <2>10, <1>1 DEF TextOK
  <2>12. Covered'
    <3>1. ASSUME NEW k \in Loader, NEW q \in atcall[k], Traced(q)
          PROVE  Listed(q) \/ Has(maps'[k], q) \/ (pc[k] = "read" /\ reached'[k] <= q.start)
      <4>1. /\ q \in mapped /\ q \in Region
            /\ Listed(q) \/ Has(maps[k], q) \/ (pc[k] = "read" /\ reached[k] <= q.start)
        BY <3>1, <1>3 DEF IInv, Covered
      <4>2. CASE k = l
        BY <4>1, <4>2, <2>5, <2>6, <2>7
      <4>3. CASE k # l
        BY <4>1, <4>3, <2>7
      <4> QED
        BY <4>2, <4>3
    <3> QED
      BY <3>1, <2>1, <1>1, <1>4 DEF IInv, Covered
  <2> QED
    BY <2>9, <2>11, <2>12, <1>4 DEF IInv
<1> QED
  BY <1>6, <1>7

\* The search for a line's range: a line that is skipped is of a mapping
\* that is not traced or is listed; one that is not skipped is of a traced
\* mapping (object.c:285-312).
LEMMA SearchStep ==
  ASSUME IInv, NEW l \in Loader, SearchLine(l)
  PROVE  IInv'
<1> DEFINE line == ParseLine(maps[l])
<1>1. pc[l] = "parse" /\ maps[l] # <<>> /\ UNCHANGED <<mapped, objects, reached, atcall, loads>>
  BY DEF SearchLine
<1>2. Control /\ mapped \subseteq Region
  BY DEF IInv, Control
<1>3. IsText(maps[l], mapped) /\ maps \in [Loader -> Seq(Char)]
  BY DEF IInv, TextOK
<1>4. PICK r \in mapped : LineAt(maps[l], 0, r)
  BY <1>1, <1>3, FirstLine
<1>5. r \in Region /\ IsParsed(line, maps[l], mapped, r)
  BY <1>2, <1>3, <1>4, HeadLine
<1>6. \/ Skip(line) /\ maps' = [maps EXCEPT ![l] = line.rest] /\ UNCHANGED pc
      \/ ~Skip(line) /\ pc' = [pc EXCEPT ![l] = "append"] /\ UNCHANGED maps
  BY <1>5 DEF SearchLine, Goto, IsParsed, ReadsBack
<1> HIDE DEF line
<1>7. ObjectsOK' /\ ExeOrder' /\ \A q : Listed(q)' <=> Listed(q)
  BY <1>1, SameObjects
<1>8. CASE Skip(line) /\ maps' = [maps EXCEPT ![l] = line.rest] /\ UNCHANGED pc
  <2>1. maps'[l] = line.rest /\ \A k \in Loader : k # l => maps'[k] = maps[k]
    BY <1>3, <1>8
  <2>2. line.rest \in Seq(Char)
    BY <1>5 DEF IsParsed, IsText
  <2>3. maps' \in [Loader -> Seq(Char)]
    BY <2>2, <1>3, <1>8
  <2>4. TextOK'
    <3>1. ASSUME NEW k \in Loader
          PROVE  /\ IsText(maps'[k], mapped)
                 /\ pc[k] = "idle" => maps'[k] = <<>>
                 /\ pc[k] = "read" => \A q \in Region : Has(maps'[k], q) => q.end <= reached[k]
                 /\ pc[k] = "append" => \E q \in mapped : Traced(q) /\ LineAt(maps'[k], 0, q)
      <4>1. CASE k = l
        BY <4>1, <2>1, <1>1, <1>5 DEF IsParsed
      <4>2. CASE k # l
        BY <4>2, <2>1 DEF IInv, TextOK
      <4> QED
        BY <4>1, <4>2
    <3> QED
      BY <3>1, <2>3, <1>1, <1>8 DEF TextOK
  <2>5. Traced(r) => Listed(r)
    <3> SUFFICES ASSUME Traced(r) PROVE Listed(r)
      OBVIOUS
    <3>1. line.inode # 0 /\ "x" \in line.attr
      BY <1>5 DEF IsParsed, ReadsBack, Traced
    <3>2. PICK i \in DOMAIN objects : objects[i].text_start = line.start
      BY <3>1, <1>8 DEF Skip, Exists
    <3>3. objects[i].text_start = r.start
      BY <3>2, <1>5 DEF IsParsed, ReadsBack
    <3>4. IsObjectOf(objects[i], r)
      BY <3>3, <1>2, <1>5, ListedBy DEF IInv
    <3> QED
      BY <3>4 DEF Listed
  <2>6. Covered'
    <3>1. ASSUME NEW k \in Loader, NEW q \in atcall[k], Traced(q)
          PROVE  Listed(q) \/ Has(maps'[k], q) \/ (pc[k] = "read" /\ reached[k] <= q.start)
      <4>1. /\ q \in mapped /\ q \in Region
            /\ Listed(q) \/ Has(maps[k], q) \/ (pc[k] = "read" /\ reached[k] <= q.start)
        BY <3>1, <1>2 DEF IInv, Covered
      <4>2. CASE k = l
        BY <4>1, <4>2, <3>1, <2>1, <2>5, <1>5 DEF IsParsed
      <4>3. CASE k # l
        BY <4>1, <4>3, <2>1
      <4> QED
        BY <4>2, <4>3
    <3> QED
      BY <3>1, <1>1, <1>7, <1>8 DEF IInv, Covered
  <2>7. Control'
    BY <1>1, <1>2, <1>8 DEF Control
  <2> QED
    BY <2>4, <2>6, <2>7, <1>7 DEF IInv
<1>9. CASE ~Skip(line) /\ pc' = [pc EXCEPT ![l] = "append"] /\ UNCHANGED maps
  <2>1. pc'[l] = "append" /\ \A k \in Loader : k # l => pc'[k] = pc[k]
    BY <1>2, <1>9 DEF Control
  <2>2. Traced(r)
    BY <1>5, <1>9 DEF Skip, IsParsed, ReadsBack, Traced
  <2>3. TextOK'
    <3>1. ASSUME NEW k \in Loader
          PROVE  /\ IsText(maps[k], mapped)
                 /\ pc'[k] = "idle" => maps[k] = <<>>
                 /\ pc'[k] = "read" => \A q \in Region : Has(maps[k], q) => q.end <= reached[k]
                 /\ pc'[k] = "append" => \E q \in mapped : Traced(q) /\ LineAt(maps[k], 0, q)
      <4>1. CASE k = l
        BY <4>1, <2>1, <2>2, <1>3, <1>4
      <4>2. CASE k # l
        BY <4>2, <2>1 DEF IInv, TextOK
      <4> QED
        BY <4>1, <4>2
    <3> QED
      BY <3>1, <1>1, <1>3, <1>9 DEF TextOK
  <2>4. Covered'
    <3>1. ASSUME NEW k \in Loader
          PROVE  /\ pc'[k] # "idle" => Early \subseteq atcall[k]
                 /\ \A q \in atcall[k] : Traced(q) =>
                      Listed(q) \/ Has(maps[k], q) \/ (pc'[k] = "read" /\ reached[k] <= q.start)
      BY <2>1, <1>1 DEF IInv, Covered
    <3> QED
      BY <3>1, <1>1, <1>7, <1>9 DEF IInv, Covered
  <2>5. Control'
    BY <1>1, <1>2, <1>9 DEF Control
  <2> QED
    BY <2>3, <2>4, <2>5, <1>7 DEF IInv
<1> QED
  BY <1>6, <1>8, <1>9

\* What the object of a line is.
LEMMA NewObjectIs ==
  ASSUME NEW r \in Region, Traced(r), NEW m, NEW R, NEW line, IsParsed(line, m, R, r)
  PROVE  NewObject(line) \in Object /\ IsMapping(NewObject(line), r)
<1> DEFINE attr == line.attr \cup {f \in {"NO_BKPT"} : line.start <= Self /\ Self <= line.end}
           o == NewObject(line)
<1>1. /\ line.start = r.start /\ line.end = r.end /\ line.file = r.name
      /\ line.attr \subseteq {"r", "w", "x", "p"}
  BY DEF IsParsed, ReadsBack, Traced
<1>2. r.start \in Nat /\ r.end \in Nat /\ r.name \in Seq(STRING)
  BY RegionAssumption
<1>3. attr \in SUBSET {"r", "w", "x", "p", "NO_BKPT"}
  BY <1>1
<1>4. r.start <= Self /\ Self <= r.end => "NO_BKPT" \in attr
  BY <1>1
<1> HIDE DEF attr
<1>5. o = [text_start |-> r.start, text_end |-> r.end, file_name |-> r.name, text_attr |-> attr]
  BY <1>1 DEF NewObject, attr
<1> HIDE DEF o
<1>6. o \in Object
  BY <1>2, <1>3, <1>5 DEF Object
<1>7. /\ o.text_start = r.start /\ o.text_end = r.end /\ o.file_name = r.name
      /\ o.text_attr = attr
  BY <1>5
<1>8. IsMapping(o, r)
  BY <1>4, <1>7 DEF IsMapping, IsObjectOf
<1> QED
  BY <1>6, <1>8 DEF o

\* The list with one object more.
LEMMA Appended ==
  ASSUME NEW s \in Seq(Object), NEW o \in Object
  PROVE  LET t == Append(s, o)
             n == Len(s) + 1
         IN  /\ t \in Seq(Object) /\ DOMAIN t = DOMAIN s \cup {n}
             /\ DOMAIN s \subseteq Nat /\ n \in Nat /\ n \notin DOMAIN s
             /\ \A i \in DOMAIN s : t[i] = s[i] /\ i < n
             /\ t[n] = o
<1> DEFINE n == Len(s) + 1
           t == Append(s, o)
<1>1. Len(s) \in Nat /\ DOMAIN s = 1 .. Len(s)
  OBVIOUS
<1>2. t \in Seq(Object) /\ Len(t) = n
  OBVIOUS
<1>3. DOMAIN t = 1 .. n
  BY <1>2
<1>4. \A i \in 1 .. Len(s) : t[i] = s[i]
  BY <1>1
<1>5. t[n] = o
  BY <1>1
<1> HIDE DEF t
<1>6. 1 .. n = 1 .. Len(s) \cup {n} /\ n \in Nat /\ n \notin 1 .. Len(s)
      /\ \A i \in 1 .. Len(s) : i \in Nat /\ i < n
  BY <1>1
<1> QED
  BY <1>1, <1>2, <1>3, <1>4, <1>5, <1>6 DEF t

\* The append: the new object is that of the line's mapping.  A lower
\* segment of the executable is listed already: it existed at the call, and
\* its line is before the current one (object.c:313-333).
LEMMA AppendStep ==
  ASSUME IInv, NEW l \in Loader, AppendObject(l)
  PROVE  IInv'
<1> DEFINE line == ParseLine(maps[l])
           o == NewObject(line)
           n == Len(objects) + 1
<1>1. /\ pc[l] = "append" /\ UNCHANGED <<mapped, reached, atcall, loads>>
      /\ objects' = Append(objects, o)
      /\ maps' = [maps EXCEPT ![l] = line.rest]
      /\ pc' = [pc EXCEPT ![l] = "parse"]
  BY DEF AppendObject, list_add_tail, Goto
<1>2. Control /\ mapped \subseteq Region
  BY DEF IInv, Control
<1>3. IsText(maps[l], mapped) /\ maps \in [Loader -> Seq(Char)]
  BY DEF IInv, TextOK
<1>4. PICK r \in mapped : Traced(r) /\ LineAt(maps[l], 0, r)
  BY <1>1 DEF IInv, TextOK
<1>5. r \in Region /\ IsParsed(line, maps[l], mapped, r)
  BY <1>2, <1>3, <1>4, HeadLine
<1> HIDE DEF line
<1>6. o \in Object /\ IsMapping(o, r)
  BY <1>4, <1>5, NewObjectIs
<1> HIDE DEF o, n
<1>7. /\ objects' \in Seq(Object) /\ DOMAIN objects' = DOMAIN objects \cup {n}
      /\ DOMAIN objects \subseteq Nat /\ n \in Nat /\ n \notin DOMAIN objects
      /\ \A i \in DOMAIN objects : objects'[i] = objects[i] /\ i < n
      /\ objects'[n] = o
  BY <1>1, <1>6, Appended DEF IInv, ObjectsOK, n
<1>8. ObjectsOK'
  BY <1>1, <1>4, <1>6, <1>7 DEF IInv, ObjectsOK
<1>9. (\A q : Listed(q) => Listed(q)') /\ Listed(r)'
  BY <1>6, <1>7 DEF Listed, IsMapping
<1>10. /\ maps'[l] = line.rest /\ pc'[l] = "parse"
       /\ \A k \in Loader : k # l => maps'[k] = maps[k] /\ pc'[k] = pc[k]
  BY <1>1, <1>2, <1>3 DEF Control
<1>11. Control'
  BY <1>1, <1>2 DEF Control
<1>12. TextOK'
  <2>1. maps' \in [Loader -> Seq(Char)]
    <3>1. line.rest \in Seq(Char)
      BY <1>5 DEF IsParsed, IsText
    <3> QED
      BY <3>1, <1>1, <1>3
  <2>2. ASSUME NEW k \in Loader
        PROVE  /\ IsText(maps'[k], mapped)
               /\ pc'[k] = "idle" => maps'[k] = <<>>
               /\ pc'[k] = "read" => \A q \in Region : Has(maps'[k], q) => q.end <= reached[k]
               /\ pc'[k] = "append" => \E q \in mapped : Traced(q) /\ LineAt(maps'[k], 0, q)
    <3>1. CASE k = l
      BY <3>1, <1>5, <1>10 DEF IsParsed
    <3>2. CASE k # l
      BY <3>2, <1>10 DEF IInv, TextOK
    <3> QED
      BY <3>1, <3>2
  <2> QED
    BY <2>1, <2>2, <1>1 DEF TextOK
<1>13. Covered'
  <2>1. ASSUME NEW k \in Loader, NEW q \in atcall[k], Traced(q)
        PROVE  Listed(q)' \/ Has(maps'[k], q) \/ (pc'[k] = "read" /\ reached[k] <= q.start)
    <3>1. /\ q \in mapped /\ q \in Region
          /\ Listed(q) \/ Has(maps[k], q) \/ (pc[k] = "read" /\ reached[k] <= q.start)
      BY <2>1, <1>2 DEF IInv, Covered
    <3>2. CASE k = l
      BY <3>1, <3>2, <1>1, <1>5, <1>9, <1>10 DEF IsParsed
    <3>3. CASE k # l
      BY <3>1, <3>3, <1>9, <1>10
    <3> QED
      BY <3>2, <3>3
  <2>2. ASSUME NEW k \in Loader, pc'[k] # "idle" PROVE Early \subseteq atcall[k]
    <3>1. pc[k] # "idle"
      BY <2>2, <1>1, <1>10
    <3> QED
      BY <3>1 DEF IInv, Covered
  <2> QED
    BY <2>1, <2>2, <1>1 DEF IInv, Covered
<1>14. ExeOrder'
  <2>1. ASSUME NEW i \in DOMAIN objects', NEW t \in Region, objects'[i].file_name = Exe,
               Traced(t), t.name = Exe, t.start < objects'[i].text_start
        PROVE  \E j \in DOMAIN objects' : j < i /\ IsObjectOf(objects'[j], t)
    <3>1. CASE i \in DOMAIN objects
      <4>1. \E j \in DOMAIN objects : j < i /\ IsObjectOf(objects[j], t)
        BY <2>1, <3>1, <1>7 DEF IInv, ExeOrder
      <4> QED
        BY <4>1, <1>7
    <3>2. CASE i = n
      <4>1. t.start < r.start
        BY <2>1, <3>2, <1>6, <1>7 DEF IsMapping, IsObjectOf
      <4>2. t \in atcall[l]
        BY <2>1, <1>1, LayoutAssumption DEF IInv, Covered
      <4>3. Listed(t) \/ Has(maps[l], t)
        BY <4>2, <2>1, <1>1 DEF IInv, Covered
      <4>4. ~Has(maps[l], t)
        <5>1. /\ t.start \in Nat /\ r.start \in Nat /\ r.end \in Nat /\ r.start < r.end
          BY <1>5, Ranges
        <5>2. t # r /\ ~(r.end <= t.start)
          BY <5>1, <4>1
        <5> QED
          BY <5>2, <1>5 DEF IsParsed
      <4>5. PICK j \in DOMAIN objects : IsObjectOf(objects[j], t)
        BY <4>3, <4>4 DEF Listed
      <4> QED
        BY <4>5, <3>2, <1>7
    <3> QED
      BY <3>1, <3>2, <1>7
  <2> QED
    BY <2>1 DEF ExeOrder
<1> QED
  BY <1>8, <1>11, <1>12, <1>13, <1>14 DEF IInv

\* object_load returns when the text is used up.
LEMMA ReturnStep ==
  ASSUME IInv, NEW l \in Loader, LoadReturns(l)
  PROVE  IInv'
<1>1. /\ pc[l] = "parse" /\ maps[l] = <<>>
      /\ pc' = [pc EXCEPT ![l] = "idle"]
      /\ UNCHANGED <<mapped, objects, maps, reached, atcall, loads>>
  BY DEF LoadReturns, Goto
<1>2. Control /\ pc'[l] = "idle" /\ \A k \in Loader : k # l => pc'[k] = pc[k]
  BY <1>1 DEF IInv, Control
<1>3. ObjectsOK' /\ ExeOrder' /\ \A q : Listed(q)' <=> Listed(q)
  BY <1>1, SameObjects
<1>4. Control'
  BY <1>1, <1>2 DEF Control
<1>5. TextOK'
  <2>1. ASSUME NEW k \in Loader
        PROVE  /\ IsText(maps[k], mapped)
               /\ pc'[k] = "idle" => maps[k] = <<>>
               /\ pc'[k] = "read" => \A q \in Region : Has(maps[k], q) => q.end <= reached[k]
               /\ pc'[k] = "append" => \E q \in mapped : Traced(q) /\ LineAt(maps[k], 0, q)
    BY <1>1, <1>2 DEF IInv, TextOK
  <2> QED
    BY <2>1, <1>1 DEF IInv, TextOK
<1>6. Covered'
  <2>1. ASSUME NEW k \in Loader
        PROVE  /\ pc'[k] # "idle" => Early \subseteq atcall[k]
               /\ \A q \in atcall[k] : Traced(q) =>
                    Listed(q) \/ Has(maps[k], q) \/ (pc'[k] = "read" /\ reached[k] <= q.start)
    BY <1>1, <1>2 DEF IInv, Covered
  <2> QED
    BY <2>1, <1>1, <1>3 DEF IInv, Covered
<1> QED
  BY <1>3, <1>4, <1>5, <1>6 DEF IInv

\* The steps together.
LEMMA IInvNext ==
  ASSUME IInv, [Next]_vars
  PROVE  IInv'
<1>1. ASSUME NEW r \in Region, Map(r) PROVE IInv'
  BY <1>1, MapStep
<1>2. ASSUME NEW l \in Loader, object_load(l) PROVE IInv'
  BY <1>2, LoadStep
<1>3. ASSUME NEW l \in Loader, object_get_mmap(l) PROVE IInv'
  BY <1>3, ReadStep
<1>4. ASSUME NEW l \in Loader, SearchLine(l) PROVE IInv'
  BY <1>4, SearchStep
<1>5. ASSUME NEW l \in Loader, AppendObject(l) PROVE IInv'
  BY <1>5, AppendStep
<1>6. ASSUME NEW l \in Loader, LoadReturns(l) PROVE IInv'
  BY <1>6, ReturnStep
<1>7. CASE UNCHANGED vars
  <2>1. UNCHANGED <<mapped, objects, pc, maps, reached, atcall, loads>>
    BY <1>7 DEF vars
  <2>2. ObjectsOK' /\ ExeOrder' /\ \A q : Listed(q)' <=> Listed(q)
    BY <2>1, SameObjects
  <2>3. Control'
    BY <2>1 DEF IInv, Control
  <2>4. TextOK'
    BY <2>1 DEF IInv, TextOK
  <2>5. Covered'
    BY <2>1, <2>2 DEF IInv, Covered
  <2> QED
    BY <2>2, <2>3, <2>4, <2>5 DEF IInv
<1> QED
  BY <1>1, <1>2, <1>3, <1>4, <1>5, <1>6, <1>7 DEF Next

\* The invariant holds throughout.
THEOREM Invariance ==
  Spec => []IInv
<1>1. Init => IInv
  BY IInvInit
<1>2. IInv /\ [Next]_vars => IInv'
  BY IInvNext
<1> QED
  BY <1>1, <1>2, PTL DEF Spec

-----------------------------------------------------------------------------
(***************************************************************************)
(* The theorems                                                            *)
(***************************************************************************)

\* Every variable keeps its type: in particular no load aborts, because the
\* lines the kernel writes always parse (object.c:84-127, 272-284).
THEOREM TypeCorrect ==
  Spec => []TypeOK
<1>1. IInv => TypeOK
  BY TypeFollows
<1> QED
  BY <1>1, Invariance, PTL

\* When object_load returns, every executable file mapping that existed at
\* its call is listed, for any number of overlapping loads and mappings made
\* meanwhile (object.c:475-495).
THEOREM LoadCompletes ==
  Spec => []LoadIsComplete
<1>1. IInv => LoadIsComplete
  <2> SUFFICES ASSUME IInv, NEW l \in Loader, pc[l] = "idle", NEW r \in atcall[l], Traced(r)
               PROVE  Listed(r)
    BY DEF LoadIsComplete, Listed
  <2>1. maps[l] = <<>>
    BY DEF IInv, TextOK
  <2>2. r \in Region
    BY DEF IInv, Control, Covered
  <2>3. ~Has(maps[l], r)
    BY <2>1, <2>2, EmptyText
  <2> QED
    BY <2>3 DEF IInv, Covered
<1> QED
  BY <1>1, Invariance, PTL

\* Every object is an executable file mapping with its range and name.
THEOREM ObjectsAreTrue ==
  Spec => []ObjectsAreMappings
<1>1. IInv => ObjectsAreMappings
  BY DEF IInv, ObjectsOK, IsMapping, ObjectsAreMappings
<1> QED
  BY <1>1, Invariance, PTL

\* A lookup that finds something finds the first index of the set.
LEMMA FirstIs ==
  ASSUME NEW T \in SUBSET (Nat \ {0})
  PROVE  /\ FirstOf(T) # 0 <=> T # {}
         /\ T # {} => FirstOf(T) \in T /\ \A j \in T : FirstOf(T) <= j
<1>1. CASE T = {}
  BY <1>1 DEF FirstOf
<1>2. CASE T # {}
  <2> DEFINE Least(i) == \A j \in T : i <= j
  <2>1. \E i \in T : Least(i)
    BY <1>2, LeastNat
  <2>2. FirstOf(T) = CHOOSE i \in T : Least(i)
    BY <1>2 DEF FirstOf
  <2> HIDE DEF Least
  <2>3. FirstOf(T) \in T /\ Least(FirstOf(T))
    BY <2>1, <2>2
  <2> USE DEF Least
  <2> QED
    BY <2>3, <1>2
<1> QED
  BY <1>1, <1>2

\* What a load has still to parse begins with the line of a mapping, and its
\* scanners read that line back: the range up to the full width of a word,
\* the permission, the whole name, and what is left of the inode in an int
\* (object.c:50-229).
THEOREM LinesSurvive ==
  Spec => []LinesReadBack
<1>1. IInv => LinesReadBack
  <2> SUFFICES ASSUME IInv, NEW l \in Loader, maps[l] # <<>>
               PROVE  \E r \in mapped : ReadsBack(ParseLine(maps[l]), r)
    BY DEF LinesReadBack
  <2>1. IsText(maps[l], mapped) /\ mapped \in SUBSET Region
    BY DEF IInv, Control, TextOK
  <2>2. PICK r \in mapped : LineAt(maps[l], 0, r)
    BY <2>1, FirstLine
  <2>3. IsParsed(ParseLine(maps[l]), maps[l], mapped, r)
    BY <2>1, <2>2, HeadLine
  <2> QED
    BY <2>3 DEF IsParsed
<1> QED
  BY <1>1, Invariance, PTL

\* An address in the library's own text is looked up as an object marked
\* NO_BKPT: no other executable mapping ends or begins there
\* (object.c:317-322, 538-553).
THEOREM SelfTextIsMarked ==
  Spec => []SelfIsMarked
<1>1. IInv => SelfIsMarked
  <2> SUFFICES ASSUME IInv, NEW a \in SelfText, object_get_by_address(a) # 0
               PROVE  "NO_BKPT" \in objects[object_get_by_address(a)].text_attr
    BY DEF SelfIsMarked
  <2> DEFINE T == {i \in DOMAIN objects : objects[i].text_start <= a /\ a <= objects[i].text_end}
             i == object_get_by_address(a)
  <2>1. PICK r \in Region : r.start <= Self /\ Self < r.end /\ a \in r.start .. (r.end - 1)
    BY DEF SelfText
  <2>2. T \in SUBSET (Nat \ {0}) /\ DOMAIN objects \subseteq Nat
    <3>1. objects \in Seq(Object)
      BY DEF IInv, ObjectsOK
    <3>2. DOMAIN objects = 1 .. Len(objects) /\ Len(objects) \in Nat
      BY <3>1
    <3> QED
      BY <3>2
  <2>3. i = FirstOf(T)
    BY DEF object_get_by_address
  <2> HIDE DEF T
  <2>4. i \in T
    BY <2>2, <2>3, FirstIs
  <2> HIDE DEF i
  <2>5. i \in DOMAIN objects /\ objects[i].text_start <= a /\ a <= objects[i].text_end
    BY <2>4 DEF T
  <2>6. PICK q \in mapped : IsMapping(objects[i], q)
    BY <2>5 DEF IInv, ObjectsOK
  <2>7. q \in Region /\ q.exec /\ q.start <= a /\ a <= q.end
    BY <2>5, <2>6 DEF IInv, Control, IsMapping, IsObjectOf, Traced
  <2>8. /\ r.start \in Nat /\ r.end \in Nat /\ q.start \in Nat /\ q.end \in Nat
        /\ q # r => q.end <= r.start \/ r.end <= q.start
    BY <2>7, Ranges
  <2>9. q = r
    <3>1. r.exec /\ q.end # r.start /\ Self \in Nat
      BY <2>1, <2>7, LayoutAssumption
    <3>2. a \in Nat /\ r.start <= a /\ a < r.end
      BY <2>1, <2>8
    <3> QED
      BY <3>1, <3>2, <2>7, <2>8
  <2>10. Self <= q.end
    <3>1. Self \in Nat
      BY LayoutAssumption
    <3> QED
      BY <3>1, <2>1, <2>8, <2>9
  <2> QED
    BY <2>1, <2>6, <2>9, <2>10 DEF IsMapping, i
<1> QED
  BY <1>1, Invariance, PTL

\* The objects of a file, which object_get_by_file searches.
OfFile(f) == {i \in DOMAIN objects : objects[i].file_name = f}

\* object_get_by_file gives the first of them (object.c:520-536).
LEMMA OfFileIs ==
  ASSUME IInv, NEW f
  PROVE  /\ OfFile(f) \in SUBSET (Nat \ {0}) /\ object_get_by_file(f) = FirstOf(OfFile(f))
<1>1. objects \in Seq(Object)
  BY DEF IInv, ObjectsOK
<1>2. DOMAIN objects = 1 .. Len(objects) /\ Len(objects) \in Nat
  BY <1>1
<1>3. DOMAIN objects \subseteq Nat \ {0}
  BY <1>2
<1> QED
  BY <1>3 DEF OfFile, object_get_by_file

\* The entry point is computed from the lowest executable segment of the
\* executable, the first of its objects, whatever loads overlap
\* (object.c:447-468).
THEOREM EntryBase ==
  Spec => []EntryBaseIsLowest
<1>1. IInv => EntryBaseIsLowest
  <2> DEFINE Text == {r \in Region : Traced(r) /\ r.name = Exe}
             Is(r) == /\ Traced(r) /\ r.name = Exe
                      /\ \A q \in Region : Traced(q) /\ q.name = Exe => r.start <= q.start
             text == CHOOSE r \in Region : Is(r)
             i == object_get_by_file(Exe)
  <2> SUFFICES ASSUME IInv, i # 0
               PROVE  object_get_self_entrypoint = text.start + object_get_exe_entrypoint(Exe)
    BY DEF EntryBaseIsLowest, LowestText
  <2>1. OfFile(Exe) \in SUBSET (Nat \ {0}) /\ i = FirstOf(OfFile(Exe))
    BY OfFileIs
  <2>2. object_get_self_entrypoint = objects[i].text_start + object_get_exe_entrypoint(Exe)
    BY Zenon DEF object_get_self_entrypoint, object_get_self_exe
  <2> HIDE DEF i
  <2>3. i \in OfFile(Exe) /\ \A j \in OfFile(Exe) : i <= j
    BY <2>1, FirstIs
  <2>4. i \in DOMAIN objects /\ objects[i].file_name = Exe
    BY <2>3 DEF OfFile
  <2>5. PICK q \in mapped : IsMapping(objects[i], q)
    BY <2>4 DEF IInv, ObjectsOK
  <2>6. q \in Region /\ Traced(q) /\ q.name = Exe /\ objects[i].text_start = q.start
    BY <2>4, <2>5 DEF IInv, Control, IsMapping, IsObjectOf
  <2>7. \E r \in Region : Is(r)
    <3> DEFINE T == {r.start : r \in Text}
    <3>1. T \in SUBSET Nat /\ T # {}
      <4>1. q \in Text /\ \A r \in Text : r.start \in Nat
        BY <2>6, Ranges
      <4> QED
        BY <4>1
    <3> HIDE DEF T
    <3>2. PICK y \in T : \A z \in T : y <= z
      BY <3>1, LeastNat
    <3> USE DEF T
    <3>3. PICK r \in Text : r.start = y
      OBVIOUS
    <3>4. \A x \in Text : r.start <= x.start
      BY <3>2, <3>3
    <3> QED
      BY <3>4
  <2>8. text \in Region /\ Is(text)
    <3> HIDE DEF Is
    <3> QED
      BY <2>7
  <2> HIDE DEF text
  <2>9. /\ text.start \in Nat /\ q.start \in Nat /\ text.start <= q.start
        /\ Traced(text) /\ text.name = Exe
    BY <2>6, <2>8, Ranges
  <2>10. ~(text.start < q.start)
    <3> SUFFICES ASSUME text.start < q.start PROVE FALSE
      OBVIOUS
    <3>1. PICK j \in DOMAIN objects : j < i /\ IsObjectOf(objects[j], text)
      BY <2>4, <2>6, <2>8, <2>9 DEF IInv, ExeOrder
    <3>2. j \in OfFile(Exe)
      BY <3>1, <2>9 DEF OfFile, IsObjectOf
    <3>3. i <= j /\ i \in Nat /\ j \in Nat
      BY <3>2, <2>1, <2>3
    <3> QED
      BY <3>1, <3>3
  <2>11. objects[i].text_start = text.start
    BY <2>6, <2>9, <2>10
  <2> QED
    BY <2>2, <2>11
<1> QED
  BY <1>1, Invariance, PTL

\* The list only grows at its end (object.c:328).
LEMMA ListGrows ==
  ASSUME IInv, [Next]_vars
  PROVE  /\ DOMAIN objects \subseteq DOMAIN objects'
         /\ \A i \in DOMAIN objects : objects'[i] = objects[i]
         /\ \A i \in DOMAIN objects, j \in DOMAIN objects' : j \notin DOMAIN objects => i < j
<1>1. CASE UNCHANGED objects
  BY <1>1
<1>2. CASE \E l \in Loader : AppendObject(l)
  <2> PICK l \in Loader : AppendObject(l)
    BY <1>2
  <2> DEFINE line == ParseLine(maps[l])
  <2>1. pc[l] = "append" /\ objects' = Append(objects, NewObject(line))
    BY DEF AppendObject, list_add_tail
  <2>2. PICK r \in mapped : Traced(r) /\ LineAt(maps[l], 0, r)
    BY <2>1 DEF IInv, TextOK
  <2>3. mapped \subseteq Region /\ IsText(maps[l], mapped) /\ objects \in Seq(Object)
    BY DEF IInv, Control, TextOK, ObjectsOK
  <2>4. IsParsed(line, maps[l], mapped, r)
    BY <2>2, <2>3, HeadLine
  <2> HIDE DEF line
  <2>5. NewObject(line) \in Object
    BY <2>2, <2>3, <2>4, NewObjectIs
  <2>6. /\ DOMAIN objects' = DOMAIN objects \cup {Len(objects) + 1}
        /\ \A i \in DOMAIN objects : objects'[i] = objects[i] /\ i < Len(objects) + 1
    BY <2>1, <2>3, <2>5, Appended
  <2> QED
    BY <2>6
<1>3. (\E l \in Loader : AppendObject(l)) \/ UNCHANGED objects
  BY DEF Next, Map, object_load, object_get_mmap, SearchLine, LoadReturns, vars
<1> QED
  BY <1>1, <1>2, <1>3

\* object_get_by_file finds an object it has found before, whatever is loaded
\* later: callers keep pointers to objects (object.c:520-536).
THEOREM FileLookups ==
  Spec => FileLookupIsStable
<1>1. ASSUME IInv, [Next]_vars, NEW f, object_get_by_file(f) # 0
      PROVE  objects'[object_get_by_file(f)'] = objects[object_get_by_file(f)]
  <2>1. IInv'
    BY <1>1, IInvNext
  <2> DEFINE S == OfFile(f)
             T == OfFile(f)'
             i == object_get_by_file(f)
             j == object_get_by_file(f)'
  <2>2. S \in SUBSET (Nat \ {0}) /\ i = FirstOf(S)
    BY <1>1, OfFileIs
  <2>3. T \in SUBSET (Nat \ {0}) /\ j = FirstOf(T)
    <3>1. objects' \in Seq(Object)
      BY <2>1 DEF IInv, ObjectsOK
    <3>2. DOMAIN objects' = 1 .. Len(objects') /\ Len(objects') \in Nat
      BY <3>1
    <3>3. DOMAIN objects' \subseteq Nat \ {0}
      BY <3>2
    <3> QED
      BY <3>3 DEF OfFile, object_get_by_file
  <2>4. /\ S = {k \in DOMAIN objects : objects[k].file_name = f}
        /\ T = {k \in DOMAIN objects' : objects'[k].file_name = f}
    BY DEF OfFile
  <2>5. /\ DOMAIN objects \subseteq DOMAIN objects'
        /\ \A k \in DOMAIN objects : objects'[k] = objects[k]
        /\ \A k \in DOMAIN objects, n \in DOMAIN objects' : n \notin DOMAIN objects => k < n
    BY <1>1, ListGrows
  <2> HIDE DEF S, T, i, j
  <2>6. i \in S /\ \A k \in S : i <= k
    BY <2>2, <1>1, FirstIs DEF i
  <2>7. i \in T
    BY <2>4, <2>5, <2>6
  <2>8. j \in T /\ \A k \in T : j <= k
    BY <2>3, <2>7, FirstIs
  <2>9. i \in Nat /\ j \in Nat /\ j <= i
    BY <2>2, <2>3, <2>6, <2>7, <2>8
  <2>10. j \in S
    <3>1. ~(i < j)
      BY <2>9
    <3> QED
      BY <3>1, <2>4, <2>5, <2>6, <2>8
  <2>11. i = j
    BY <2>6, <2>9, <2>10
  <2> QED
    BY <2>4, <2>5, <2>6, <2>11 DEF i, j
<1>2. IInv /\ [Next]_vars =>
        [\A f \in Files : object_get_by_file(f) # 0 =>
           objects'[object_get_by_file(f)'] = objects[object_get_by_file(f)]]_vars
  BY <1>1
<1> QED
  BY <1>2, Invariance, PTL DEF Spec, FileLookupIsStable

\* The list's indices and the callers are finite sets.
LEMMA FiniteParts ==
  ASSUME IInv, IsFiniteSet(Loader), NEW s
  PROVE  /\ IsFiniteSet(ObjectsAt(s)) /\ Cardinality(ObjectsAt(s)) \in Nat
         /\ IsFiniteSet(Appending(s)) /\ Cardinality(Appending(s)) \in Nat
         /\ Cardinality(Appending(s)) <= Cardinality(Loader)
         /\ Cardinality(Loader) \in Nat
<1>1. IsFiniteSet(DOMAIN objects)
  <2>1. objects \in Seq(Object)
    BY DEF IInv, ObjectsOK
  <2>2. DOMAIN objects = 1 .. Len(objects) /\ Len(objects) \in Nat
    BY <2>1
  <2> QED
    BY <2>2, FS_Interval
<1>2. ObjectsAt(s) \subseteq DOMAIN objects /\ Appending(s) \subseteq Loader
  BY DEF ObjectsAt, Appending
<1> QED
  BY <1>1, <1>2, FS_Subset, FS_CardinalityType

\* A caller about to append holds the line of a traced mapping; there is room
\* for its object, because it found none when it searched.
LEMMA CountNext ==
  ASSUME IsFiniteSet(Loader), IInv, CountOK, [Next]_vars
  PROVE  CountOK'
<1>0. IInv'
  BY IInvNext
<1> SUFFICES ASSUME NEW s \in Nat
             PROVE  Cardinality(ObjectsAt(s)') + Cardinality(Appending(s)') <= Cardinality(Loader)
  BY DEF CountOK
<1>1. Cardinality(ObjectsAt(s)) + Cardinality(Appending(s)) <= Cardinality(Loader)
  BY DEF CountOK
<1>2. /\ IsFiniteSet(ObjectsAt(s)) /\ Cardinality(ObjectsAt(s)) \in Nat
      /\ IsFiniteSet(Appending(s)) /\ Cardinality(Appending(s)) \in Nat
      /\ Cardinality(Loader) \in Nat
  BY FiniteParts
<1>3. Control /\ mapped \subseteq Region /\ maps \in [Loader -> Seq(Char)]
  BY DEF IInv, Control, TextOK
\* Neither the list nor the callers about to append change.
<1>4. ASSUME UNCHANGED objects,
             \A k \in Loader : pc'[k] = "append" => pc[k] = "append" /\ maps'[k] = maps[k]
      PROVE  Cardinality(ObjectsAt(s)') + Cardinality(Appending(s)') <= Cardinality(Loader)
  <2>1. ObjectsAt(s)' = ObjectsAt(s)
    BY <1>4 DEF ObjectsAt
  <2>2. Appending(s)' \subseteq Appending(s)
    BY <1>4 DEF Appending
  <2>3. Cardinality(Appending(s)') <= Cardinality(Appending(s)) /\ Cardinality(Appending(s)') \in Nat
    BY <2>2, <1>2, FS_Subset, FS_CardinalityType
  <2> QED
    BY <2>1, <2>3, <1>1, <1>2
<1>5. ASSUME NEW l \in Loader, SearchLine(l)
      PROVE  Cardinality(ObjectsAt(s)') + Cardinality(Appending(s)') <= Cardinality(Loader)
  <2> DEFINE line == ParseLine(maps[l])
  <2>1. pc[l] = "parse" /\ maps[l] # <<>> /\ UNCHANGED objects
    BY <1>5 DEF SearchLine
  <2>2. IsText(maps[l], mapped)
    BY DEF IInv, TextOK
  <2>3. PICK r \in mapped : LineAt(maps[l], 0, r)
    BY <2>1, <2>2, FirstLine
  <2>4. r \in Region /\ IsParsed(line, maps[l], mapped, r)
    BY <2>2, <2>3, <1>3, HeadLine
  <2>5. \/ Skip(line) /\ maps' = [maps EXCEPT ![l] = line.rest] /\ UNCHANGED pc
        \/ ~Skip(line) /\ pc' = [pc EXCEPT ![l] = "append"] /\ UNCHANGED maps
    BY <2>4, <1>5 DEF SearchLine, Goto, IsParsed, ReadsBack
  <2>6. CASE Skip(line) /\ maps' = [maps EXCEPT ![l] = line.rest] /\ UNCHANGED pc
    <3>1. ASSUME NEW k \in Loader, pc'[k] = "append" PROVE pc[k] = "append" /\ maps'[k] = maps[k]
      BY <3>1, <2>1, <2>6, <1>3
    <3> QED
      BY <3>1, <2>1, <1>4
  <2>7. CASE ~Skip(line) /\ pc' = [pc EXCEPT ![l] = "append"] /\ UNCHANGED maps
    <3>1. pc'[l] = "append" /\ \A k \in Loader : k # l => pc'[k] = pc[k]
      BY <2>7, <1>3 DEF Control
    <3>2. CASE line.start = s
      <4>1. ASSUME NEW i \in ObjectsAt(s) PROVE FALSE
        <5>1. i \in DOMAIN objects /\ objects[i].text_start = r.start
          BY <3>2, <2>4 DEF ObjectsAt, IsParsed, ReadsBack
        <5>2. IsObjectOf(objects[i], r)
          BY <5>1, <2>4, <1>3, ListedBy DEF IInv
        <5>3. Exists(line)
          BY <5>1, <5>2, <2>4 DEF Exists, IsObjectOf, IsParsed, ReadsBack
        <5> QED
          BY <5>3, <2>7 DEF Skip
      <4>2. ObjectsAt(s)' = {}
        BY <4>1, <2>1 DEF ObjectsAt
      <4>3. /\ Cardinality(Appending(s)') <= Cardinality(Loader)
            /\ Cardinality(Appending(s)') \in Nat
        <5>1. Appending(s)' \subseteq Loader
          BY DEF Appending
        <5> QED
          BY <5>1, FS_Subset, FS_CardinalityType
      <4>4. Cardinality(ObjectsAt(s)') = 0
        BY <4>2, FS_EmptySet
      <4> QED
        BY <4>3, <4>4
    <3>3. CASE line.start # s
      <4>1. ObjectsAt(s)' = ObjectsAt(s)
        BY <2>1 DEF ObjectsAt
      <4>2. Appending(s)' = Appending(s)
        BY <3>1, <3>3, <2>1, <2>7 DEF Appending
      <4> QED
        BY <4>1, <4>2, <1>1
    <3> QED
      BY <3>2, <3>3
  <2> QED
    BY <2>5, <2>6, <2>7
<1>6. ASSUME NEW l \in Loader, AppendObject(l)
      PROVE  Cardinality(ObjectsAt(s)') + Cardinality(Appending(s)') <= Cardinality(Loader)
  <2> DEFINE line == ParseLine(maps[l])
             n == Len(objects) + 1
  <2>1. /\ pc[l] = "append" /\ objects' = Append(objects, NewObject(line))
        /\ maps' = [maps EXCEPT ![l] = line.rest]
        /\ pc' = [pc EXCEPT ![l] = "parse"]
    BY <1>6 DEF AppendObject, list_add_tail, Goto
  <2>2. PICK r \in mapped : Traced(r) /\ LineAt(maps[l], 0, r)
    BY <2>1 DEF IInv, TextOK
  <2>3. mapped \subseteq Region /\ IsText(maps[l], mapped) /\ objects \in Seq(Object)
    BY DEF IInv, Control, TextOK, ObjectsOK
  <2>4. r \in Region /\ IsParsed(line, maps[l], mapped, r)
    BY <2>2, <2>3, HeadLine
  <2>5. NewObject(line) \in Object /\ NewObject(line).text_start = line.start
    BY <2>2, <2>4, NewObjectIs DEF IsMapping, IsObjectOf, IsParsed, ReadsBack
  <2>6. /\ DOMAIN objects' = DOMAIN objects \cup {n} /\ n \notin DOMAIN objects
        /\ \A i \in DOMAIN objects : objects'[i] = objects[i]
        /\ objects'[n] = NewObject(line)
    BY <2>1, <2>3, <2>5, Appended
  <2>7. /\ pc'[l] = "parse"
        /\ \A k \in Loader : k # l => maps'[k] = maps[k] /\ pc'[k] = pc[k]
    BY <2>1, <1>3 DEF Control
  <2>8. CASE line.start = s
    <3>1. ObjectsAt(s)' = ObjectsAt(s) \cup {n} /\ n \notin ObjectsAt(s)
      BY <2>5, <2>6, <2>8 DEF ObjectsAt
    <3>2. Appending(s)' = Appending(s) \ {l} /\ l \in Appending(s)
      BY <2>1, <2>7, <2>8 DEF Appending
    <3>3. Cardinality(ObjectsAt(s)') = Cardinality(ObjectsAt(s)) + 1
      BY <3>1, <1>2, FS_AddElement
    <3>4. Cardinality(Appending(s)') = Cardinality(Appending(s)) - 1
      BY <3>2, <1>2, FS_RemoveElement
    <3> QED
      BY <3>3, <3>4, <1>1, <1>2
  <2>9. CASE line.start # s
    <3>1. ObjectsAt(s)' = ObjectsAt(s)
      BY <2>5, <2>6, <2>9 DEF ObjectsAt
    <3>2. Appending(s)' = Appending(s)
      BY <2>1, <2>7, <2>9 DEF Appending
    <3> QED
      BY <3>1, <3>2, <1>1
  <2> QED
    BY <2>8, <2>9
<1>7. ASSUME NEW l \in Loader, object_load(l) \/ object_get_mmap(l) \/ LoadReturns(l)
      PROVE  Cardinality(ObjectsAt(s)') + Cardinality(Appending(s)') <= Cardinality(Loader)
  <2>1. /\ UNCHANGED objects /\ pc[l] # "append" /\ pc'[l] # "append"
        /\ \A k \in Loader : k # l => pc'[k] = pc[k] /\ maps'[k] = maps[k]
    BY <1>3, <1>7 DEF Control, object_load, object_get_mmap, LoadReturns, Goto
  <2> QED
    BY <2>1, <1>4
<1>8. ASSUME UNCHANGED <<objects, pc, maps>>
      PROVE  Cardinality(ObjectsAt(s)') + Cardinality(Appending(s)') <= Cardinality(Loader)
  BY <1>4, <1>8
<1> QED
  BY <1>5, <1>6, <1>7, <1>8 DEF Next, Map, vars

\* A mapping has at most one object per caller: loads that overlap may list
\* it twice, but never a caller what it has listed before (object.c:294).
THEOREM DuplicatesAreBounded ==
  ASSUME IsFiniteSet(Loader)
  PROVE  Spec => []BoundedDuplicates
<1>1. Init => CountOK
  <2> SUFFICES ASSUME Init, NEW s \in Nat
               PROVE  Cardinality(ObjectsAt(s)) + Cardinality(Appending(s)) <= Cardinality(Loader)
    BY DEF CountOK
  <2>1. DOMAIN objects = {} /\ \A l \in Loader : pc[l] = "idle"
    BY DEF Init
  <2>2. ObjectsAt(s) = {} /\ Appending(s) = {}
    BY <2>1 DEF ObjectsAt, Appending
  <2>3. Cardinality({}) = 0 /\ Cardinality(Loader) \in Nat
    BY FS_EmptySet, FS_CardinalityType
  <2> QED
    BY <2>2, <2>3
<1>2. IInv /\ CountOK /\ [Next]_vars => CountOK'
  BY CountNext
<1>3. IInv /\ CountOK => BoundedDuplicates
  <2> SUFFICES ASSUME IInv, CountOK, NEW i \in DOMAIN objects
               PROVE  Cardinality(ObjectsAt(objects[i].text_start)) <= Cardinality(Loader)
    BY DEF BoundedDuplicates, ObjectsAt
  <2> DEFINE s == objects[i].text_start
  <2>1. s \in Nat
    <3>1. objects[i] \in Object
      BY DEF IInv, ObjectsOK
    <3> QED
      BY <3>1 DEF Object
  <2>2. Cardinality(ObjectsAt(s)) + Cardinality(Appending(s)) <= Cardinality(Loader)
    BY <2>1 DEF CountOK
  <2>3. /\ Cardinality(ObjectsAt(s)) \in Nat /\ Cardinality(Appending(s)) \in Nat
        /\ Cardinality(Loader) \in Nat
    BY FiniteParts
  <2> QED
    BY <2>2, <2>3
<1> QED
  BY <1>1, <1>2, <1>3, Invariance, PTL DEF Spec
=============================================================================
