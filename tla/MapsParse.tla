----------------------------- MODULE MapsParse ------------------------------
(***************************************************************************)
(* signal_test/object.c: the scanners that take a line of /proc/self/maps  *)
(* apart.  A text is a sequence of characters (strings of length one).     *)
(* Each parse_mmap_* operator takes a text and a position and gives a      *)
(* record with the fields it stores through its pointers and, in next, the *)
(* position it returns.                                                    *)
(***************************************************************************)
EXTENDS Naturals, Sequences, SequencesExt

CONSTANTS
  WORD_DIGITS,  \* hexadecimal digits of a uint64_t (16 in the code)
  INT_BITS      \* bits of an int (32)

ASSUME WidthAssumption == WORD_DIGITS \in Nat \ {0} /\ INT_BITS \in Nat \ {0}

\* b to the n-th power.
Power(b, n) ==
  LET power[k \in 0 .. n] == IF k = 0 THEN 1 ELSE b * power[k - 1] IN power[n]

WordSize == Power(16, WORD_DIGITS)  \* of a uint64_t
IntSize  == Power(2, INT_BITS)      \* of an unsigned int

DecDigits == <<"0", "1", "2", "3", "4", "5", "6", "7", "8", "9">>
LowDigits == DecDigits \o <<"a", "b", "c", "d", "e", "f">>
UppDigits == DecDigits \o <<"A", "B", "C", "D", "E", "F">>

ValueIn(digits, c) == (CHOOSE i \in DOMAIN digits : digits[i] = c) - 1

\* Mutant of HexValue: the letters count from 0.
HexValue_NoTen(c) == ValueIn(IF c \in ToSet(LowDigits) THEN LowDigits ELSE UppDigits, c) % 10

HexValue(c) == ValueIn(IF c \in ToSet(LowDigits) THEN LowDigits ELSE UppDigits, c)

\* The number with the digits v, built up from its first digit in a variable
\* that holds numbers below size.
Accumulate(base, size, v) ==
  LET data[i \in 0 .. Len(v)] ==
        IF i = 0 THEN 0 ELSE (data[i - 1] * base + v[i]) % size
  IN  data[Len(v)]

\* First position from i on of a character of S.
Find(m, i, S) == CHOOSE j \in i .. Len(m) : m[j] \in S /\ \A k \in i .. (j - 1) : m[k] \notin S

-----------------------------------------------------------------------------
\* Mutant of hex_to_int: the length check is one digit too strict.
hex_to_int_OffByOne(s) ==
  IF Len(s) + 1 > WORD_DIGITS THEN [ok |-> FALSE, data |-> 0]
  ELSE [ok   |-> TRUE,
        data |-> Accumulate(16, WordSize, [i \in DOMAIN s |-> HexValue(s[i])])]

\* The length check compares a difference of pointers, one less than the
\* length; the shift drops what does not fit the word.
hex_to_int(s) ==
  IF Len(s) - 1 > WORD_DIGITS \/ ~(ToSet(s) \subseteq ToSet(LowDigits) \cup ToSet(UppDigits))
  THEN [ok |-> FALSE, data |-> 0]
  ELSE [ok   |-> TRUE,
        data |-> Accumulate(16, WordSize, [i \in DOMAIN s |-> HexValue(s[i])])]

parse_mmap_range(m, i) ==
  LET end_pos == Find(m, i, {" "})
      sp_pos  == Find(m, i, {"-", " "})
      start   == hex_to_int(SubSeq(m, i, sp_pos - 1))
      end     == hex_to_int(SubSeq(m, sp_pos + 1, end_pos - 1))
  IN  [ok |-> start.ok /\ end.ok, start |-> start.data, end |-> end.data,
       next |-> end_pos + 1]

\* The permission letters: the flags of text_attr, by their letters.
parse_mmap_attr(m, i) ==
  LET end_pos == Find(m, i, {" "})
  IN  [attr |-> ToSet(SubSeq(m, i, end_pos - 1)) \cap {"r", "w", "x", "p"},
       next |-> end_pos + 1]

\* The C library's atoi, assigned to an unsigned int: glibc keeps the low
\* bits of a number too large for an int (inodes are below 2^63, from where
\* on it would not).
atoi(s) == Accumulate(10, IntSize, [i \in DOMAIN s |-> ValueIn(DecDigits, s[i])])

\* Skip the offset and the device, read the inode, then skip the padding up
\* to the name or the newline.
parse_mmap_inode(m, i) ==
  LET offset_end == Find(m, i, {" "})
      device_end == Find(m, offset_end + 1, {" "})
      inode_end  == Find(m, device_end + 1, {" "})
  IN  [inode |-> atoi(SubSeq(m, device_end + 1, inode_end - 1)),
       next  |-> CHOOSE j \in inode_end .. Len(m) :
                   m[j] # " " /\ \A k \in inode_end .. (j - 1) : m[k] = " "]

\* Mutant of parse_mmap_file: the name ends at a space.
parse_mmap_file_ToSpace(m, i) ==
  [file |-> SubSeq(m, i, Find(m, i, {" ", "\n"}) - 1), next |-> Find(m, i, {"\n"})]

\* The name, spaces included, up to the newline.
parse_mmap_file(m, i) ==
  LET end_pos == Find(m, i, {"\n"})
  IN  [file |-> SubSeq(m, i, end_pos - 1), next |-> end_pos]

\* One turn of the loop of object_parse_mmap, up to "mmap++": the fields of
\* the line at the head of m, and the text behind it.  An anonymous line
\* keeps no name.
ParseLine(m) ==
  LET range == parse_mmap_range(m, 1)
      attr  == parse_mmap_attr(m, range.next)
      inode == parse_mmap_inode(m, attr.next)
      file  == parse_mmap_file(m, inode.next)
  IN  [ok |-> range.ok, start |-> range.start, end |-> range.end,
       attr |-> attr.attr, inode |-> inode.inode,
       file |-> IF inode.inode = 0 THEN <<>> ELSE file.file,
       rest |-> SubSeq(m, file.next + 1, Len(m))]

-----------------------------------------------------------------------------
(***************************************************************************)
(* What the kernel writes (show_map_vma): range, permissions, offset,      *)
(* device, inode, padding and, if there is one, a name.                    *)
(***************************************************************************)
Numeral(base, n) ==
  LET digits[k \in 0 .. n] ==
        IF k < base THEN <<LowDigits[k + 1]>>
        ELSE Append(digits[k \div base], LowDigits[(k % base) + 1])
  IN  digits[n]

\* A mapping is a record [start, end, exec, inode, name]; the device and the
\* offset are not parsed.
show_map_vma(r) ==
  Numeral(16, r.start) \o <<"-">> \o Numeral(16, r.end) \o <<" ">>
    \o <<"r", "-", IF r.exec THEN "x" ELSE "-", "p", " ">>
    \o <<"0", " ", "8", ":", "1", " ">> \o Numeral(10, r.inode) \o <<" ">>
    \o (IF r.name = <<>> THEN <<>> ELSE <<" ", " ">>) \o r.name \o <<"\n">>
=============================================================================
