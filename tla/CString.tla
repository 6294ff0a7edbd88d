------------------------------ MODULE CString ------------------------------
(***************************************************************************)
(* The memory and string functions of libutils/isoc/newlib and of          *)
(* libutils/ext, and strdup and strndup: what each returns and what it     *)
(* leaves in memory.                                                       *)
(*                                                                         *)
(* Memory is a function from addresses to bytes.  A loop is the address,   *)
(* or the memory, it ends with.  newlib has most functions twice: byte by  *)
(* byte, built with -Os, and by words, built with DEBUG (-O0); fast says   *)
(* which it is.                                                            *)
(***************************************************************************)
EXTENDS Integers, Bitwise

CONSTANTS LBLOCKSIZE,  \* bytes in a word
          BYTE         \* values of a byte, a power of two

NULL == -1

(* A word in memory: unsigned, the first byte its least significant one.   *)
Word(mem, a) ==
  LET Sum[i \in 0..LBLOCKSIZE] ==
        IF i = LBLOCKSIZE THEN 0 ELSE mem[a + i] + BYTE * Sum[i + 1]
  IN  Sum[0]

(* The word that has byte d all over: mask, buffer, and the 0x01010101 and *)
(* 0x80808080 of DETECTNULL.                                               *)
Filled(d) == Word([i \in 0..LBLOCKSIZE - 1 |-> d], 0)

WordMax == BYTE ^ LBLOCKSIZE

(* Mutant: the complement is left out, so that a large byte is taken for a *)
(* null.                                                                   *)
DETECTNULL_sign(x) ==
  (((x - Filled(1)) % WordMax) & Filled(BYTE \div 2)) # 0

DETECTNULL(x) ==
  ((((x - Filled(1)) % WordMax) & (WordMax - 1 - x)) & Filled(BYTE \div 2)) # 0
DETECTCHAR(x, mask) == DETECTNULL(x ^^ mask)

UNALIGNED(a) == a % LBLOCKSIZE # 0

(* Where a pointer that starts at a and moves by step stops.               *)
Until(a, step, Stops(_)) ==
  LET Walk[b \in Nat] == IF Stops(b) THEN b ELSE Walk[b + step]
  IN  Walk[a]

-----------------------------------------------------------------------------
(* memcpy, memmove and memset.                                             *)

(* n units of size bytes each, lowest first.                               *)
CopyUp(mem, dst, src, n, size) ==
  LET Copied[k \in 0..n] ==
        IF k = 0 THEN mem
        ELSE LET m == Copied[k - 1]  at == size * (k - 1)
             IN  [a \in DOMAIN m |->
                    IF a \in dst + at..dst + at + size - 1
                    THEN m[a - dst + src] ELSE m[a]]
  IN  Copied[n]

CopyDown(mem, dst, src, n) ==
  LET Copied[k \in 0..n] ==
        IF k = 0 THEN mem
        ELSE [Copied[k - 1] EXCEPT ![dst + n - k] = Copied[k - 1][src + n - k]]
  IN  Copied[n]

(* As many words as fit when both pointers are aligned and there are at    *)
(* least four, in groups of four or not, and the rest by bytes.            *)
CopyWords(mem, dst, src, n) ==
  LET words == IF n < 4 * LBLOCKSIZE \/ UNALIGNED(dst) \/ UNALIGNED(src)
               THEN 0 ELSE n \div LBLOCKSIZE
      done  == words * LBLOCKSIZE
  IN  CopyUp(CopyUp(mem, dst, src, words, LBLOCKSIZE),
             dst + done, src + done, n - done, 1)

CopyForward(mem, dst, src, n, fast) ==
  IF fast THEN CopyWords(mem, dst, src, n) ELSE CopyUp(mem, dst, src, n, 1)

memcpy(mem, dst, src, n, fast) ==
  [mem |-> CopyForward(mem, dst, src, n, fast), ret |-> dst]

memmove(mem, dst, src, n, fast) ==
  [mem |-> IF src < dst /\ dst < src + n THEN CopyDown(mem, dst, src, n)
           ELSE CopyForward(mem, dst, src, n, fast),
   ret |-> dst]

Set(mem, from, to, v) ==
  [a \in DOMAIN mem |-> IF a \in from..to - 1 THEN v ELSE mem[a]]

(* Bytes up to a word, words of buffer, and the bytes that remain.         *)
memset(mem, m, c, n, fast) ==
  LET s     == Until(m, 1, LAMBDA a : a = m + n \/ (~ fast \/ ~ UNALIGNED(a)))
      words == IF fast THEN (m + n - s) \div LBLOCKSIZE ELSE 0
      rest  == s + words * LBLOCKSIZE
      bytes == Set(Set(mem, m, s, c % BYTE), rest, m + n, c % BYTE)
  IN  [mem |-> [a \in DOMAIN mem |->
                  IF a \in s..rest - 1
                  THEN (Filled(c % BYTE) \div BYTE ^ ((a - s) % LBLOCKSIZE))
                       % BYTE
                  ELSE bytes[a]],
       ret |-> m]

-----------------------------------------------------------------------------
(* The functions that only read.                                           *)

(* The first aligned address, or where an earlier byte stops the search.   *)
Align(a, Stops(_)) == Until(a, 1, LAMBDA x : ~ UNALIGNED(x) \/ Stops(x))

(* The first word of which Stops holds.                                    *)
FirstWord(mem, a, Stops(_)) ==
  Until(a, LBLOCKSIZE, LAMBDA w : Stops(Word(mem, w)))

memchr(mem, src, c, n, fast) ==
  LET d == c % BYTE
      end == src + n
      Stop(a) == a = end \/ mem[a] = d
      s == IF fast THEN Align(src, Stop) ELSE src
      w == IF ~ fast \/ UNALIGNED(s) THEN s
           ELSE Until(s, LBLOCKSIZE, LAMBDA a :
                  end - a < LBLOCKSIZE
                  \/ DETECTCHAR(Word(mem, a), Filled(d)))
      at == Until(w, 1, Stop)
  IN  IF at = end THEN NULL ELSE at

memcmp(mem, m1, m2, n, fast) ==
  LET words == fast /\ n >= LBLOCKSIZE /\ ~ UNALIGNED(m1) /\ ~ UNALIGNED(m2)
      i == IF ~ words THEN 0
           ELSE Until(0, LBLOCKSIZE, LAMBDA k :
                  n - k < LBLOCKSIZE \/ Word(mem, m1 + k) # Word(mem, m2 + k))
      j == Until(i, 1, LAMBDA k : k = n \/ mem[m1 + k] # mem[m2 + k])
  IN  IF j = n THEN 0 ELSE mem[m1 + j] - mem[m2 + j]

strlen(mem, str, fast) ==
  LET Null(a) == mem[a] = 0
      s == IF fast THEN Align(str, Null) ELSE str
      w == IF ~ fast \/ UNALIGNED(s) THEN s ELSE FirstWord(mem, s, DETECTNULL)
  IN  Until(w, 1, Null) - str

strnlen(mem, str, n) ==
  Until(str, 1, LAMBDA a : a = str + n \/ mem[a] = 0) - str

(* The search for the null itself has loops of its own, with the same      *)
(* steps.                                                                  *)
strchr(mem, s1, i, fast) ==
  LET c == i % BYTE
      Stop(a) == mem[a] = 0 \/ mem[a] = c
      s == IF fast THEN Align(s1, Stop) ELSE s1
      w == IF ~ fast \/ UNALIGNED(s) THEN s
           ELSE FirstWord(mem, s, LAMBDA x :
                  DETECTNULL(x) \/ DETECTCHAR(x, Filled(c)))
      at == Until(w, 1, Stop)
  IN  IF mem[at] = c THEN at ELSE NULL

(* The words with which the comparison by words stops, and whether it is   *)
(* because the strings are equal.                                          *)
strcmp(mem, s1, s2, fast) ==
  LET words == fast /\ ~ UNALIGNED(s1) /\ ~ UNALIGNED(s2)
      Differ(k) == Word(mem, s1 + k) # Word(mem, s2 + k)
      i == IF ~ words THEN 0
           ELSE Until(0, LBLOCKSIZE, LAMBDA k :
                  Differ(k) \/ DETECTNULL(Word(mem, s1 + k)))
      j == Until(i, 1, LAMBDA k :
                  mem[s1 + k] = 0 \/ mem[s1 + k] # mem[s2 + k])
  IN  IF words /\ ~ Differ(i) THEN 0 ELSE mem[s1 + j] - mem[s2 + j]

(* The bits that differ in some byte.                                      *)
buf_compare_ct(mem, s1, s2, n) ==
  LET Res[k \in 0..n] ==
        IF k = 0 THEN 0
        ELSE Res[k - 1] | (mem[s1 + k - 1] ^^ mem[s2 + k - 1])
  IN  Res[n]

-----------------------------------------------------------------------------
(* The functions that write strings.                                       *)

(* Copies until the null, or until there is room for the null only.        *)
strlcpy(mem, dst, src, siz) ==
  LET n == Until(0, 1, LAMBDA k : k + 1 >= siz \/ mem[src + k] = 0)
      m == IF siz = 0 THEN mem
           ELSE [CopyUp(mem, dst, src, n, 1) EXCEPT ![dst + n] = 0]
  IN  [mem |-> m, ret |-> strlen(m, src, FALSE)]

strlcat(mem, dst, src, siz, fast) ==
  LET dlen == strnlen(mem, dst, siz)
      len  == strlen(mem, src, fast)
      room == siz - dlen - 1
      n    == IF len < room THEN len ELSE room
      m    == IF siz = dlen THEN mem
              ELSE [CopyUp(mem, dst + dlen, src, n, 1)
                      EXCEPT ![dst + dlen + n] = 0]
  IN  [mem |-> m, ret |-> dlen + len]

(* p is what malloc returns.                                               *)
strdup(mem, s, p, fast) ==
  LET l == strlen(mem, s, fast) + 1
  IN  [mem |-> IF p = NULL THEN mem ELSE memcpy(mem, p, s, l, fast).mem,
       ret |-> p]

strndup(mem, s, n, p, fast) ==
  LET l == strnlen(mem, s, n) + 1
  IN  [mem |-> IF p = NULL THEN mem
               ELSE [memcpy(mem, p, s, l - 1, fast).mem
                       EXCEPT ![p + l - 1] = 0],
       ret |-> p]
=============================================================================
