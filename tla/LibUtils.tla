----------------------------- MODULE LibUtils -----------------------------
(***************************************************************************)
(* Calls of the functions of libutils that keep no state, and what they    *)
(* have to do: the string functions (CString), snprintf (Kprintf), qsort   *)
(* (Qsort) and the division the compiler calls (DivMod).                   *)
(*                                                                         *)
(* A call is chosen with its arguments, among them the memory it is made   *)
(* in, and is made in one step.                                            *)
(***************************************************************************)
EXTENDS CString, Kprintf, Qsort, DivMod

CONSTANT Calls  \* sequence of sets of records: a function, fn, and its
                \* arguments

VARIABLES call, result, returned
vars == <<call, result, returned>>

Init ==
  /\ \E i \in DOMAIN Calls : call \in Calls[i]
  /\ result = [ret |-> 0]
  /\ returned = FALSE

Return(fns, r) ==
  /\ ~ returned /\ call.fn \in fns
  /\ returned' = TRUE
  /\ result' = r
  /\ UNCHANGED call

-----------------------------------------------------------------------------
(* CString.  What a function that only reads returns is put beside the     *)
(* memory as it was.                                                       *)
Reads(value) == [mem |-> call.mem, ret |-> value]

Memcpy == Return({"memcpy"},
  memcpy(call.mem, call.dst, call.src, call.n, call.fast))
Memmove == Return({"memmove"},
  memmove(call.mem, call.dst, call.src, call.n, call.fast))
Memset == Return({"memset"},
  memset(call.mem, call.dst, call.c, call.n, call.fast))
Memchr == Return({"memchr"},
  Reads(memchr(call.mem, call.src, call.c, call.n, call.fast)))
Memcmp == Return({"memcmp"},
  Reads(memcmp(call.mem, call.src, call.dst, call.n, call.fast)))
BufCompareCt == Return({"buf_compare_ct"},
  Reads(buf_compare_ct(call.mem, call.src, call.dst, call.n)))
Strlen == Return({"strlen"}, Reads(strlen(call.mem, call.src, call.fast)))
Strnlen == Return({"strnlen"}, Reads(strnlen(call.mem, call.src, call.n)))
Strchr == Return({"strchr"},
  Reads(strchr(call.mem, call.src, call.c, call.fast)))
Strcmp == Return({"strcmp"},
  Reads(strcmp(call.mem, call.src, call.dst, call.fast)))
Strlcpy == Return({"strlcpy"},
  strlcpy(call.mem, call.dst, call.src, call.n))
Strlcat == Return({"strlcat"},
  strlcat(call.mem, call.dst, call.src, call.n, call.fast))
Strdup == Return({"strdup"},
  strdup(call.mem, call.src, call.dst, call.fast))
Strndup == Return({"strndup"},
  strndup(call.mem, call.src, call.n, call.dst, call.fast))

(* The others.                                                             *)
Snprintf == Return({"snprintf"},
  vsnprintf(call.bf, call.size, call.fmt, call.args))
Sort == Return({"qsort"}, [a |-> qsort(call.a, call.lo, call.n)])
Udivmod == Return({"uidivmod"}, uidivmod(call.n, call.p, call.w))
Idivmod == Return({"idivmod"}, idivmod(call.n, call.p, call.w))

(* A call of __aeabi_imod that does not return stays where it is.          *)
Imod ==
  /\ call.fn = "imod" /\ ImodReturns(call.p, call.w)
  /\ Return({"imod"}, [ret |-> imod(call.n, call.p, call.w)])

Next ==
  \/ Memcpy \/ Memmove \/ Memset \/ Memchr \/ Memcmp \/ BufCompareCt
  \/ Strlen \/ Strnlen \/ Strchr \/ Strcmp \/ Strlcpy \/ Strlcat
  \/ Strdup \/ Strndup \/ Snprintf \/ Sort \/ Udivmod \/ Idivmod \/ Imod

Spec == Init /\ [][Next]_vars

-----------------------------------------------------------------------------
(* What the functions are for.                                             *)

(* memory: c is a call, r its result.                                      *)
Slice(mem, a, n) == [i \in 0..n - 1 |-> mem[a + i]]
Written(mem, dst, bytes) ==
  [a \in DOMAIN mem |-> IF a - dst \in DOMAIN bytes THEN bytes[a - dst]
                        ELSE mem[a]]

IsLeast(n, S) == n \in S /\ \A i \in S : n <= i
Nulls(mem, a) == {n \in DOMAIN mem : a + n \in DOMAIN mem /\ mem[a + n] = 0}
LengthOf(mem, a) == CHOOSE n \in Nulls(mem, a) : IsLeast(n, Nulls(mem, a))

Ends(n, m) == IF n < m THEN n ELSE m

(* x orders the n bytes at s and at t.                                     *)
Orders(x, mem, s, t, n) ==
  LET differ == {i \in 0..n - 1 : mem[s + i] # mem[t + i]}
  IN  IF differ = {} THEN x = 0
      ELSE \E i \in differ : /\ IsLeast(i, differ)
                             /\ x < 0 <=> mem[s + i] < mem[t + i]
                             /\ x # 0

(* at is where the first of the addresses is, or NULL.                     *)
Finds(at, addresses) ==
  IF addresses = {} THEN at = NULL ELSE IsLeast(at, addresses)

Terminated(mem, a, n) == [i \in 0..n |-> IF i = n THEN 0 ELSE mem[a + i]]

(* The string at src, cut to what has room in siz bytes from at on, of     *)
(* which used are taken.                                                   *)
PutString(c, used) ==
  IF used >= c.n THEN c.mem
  ELSE Written(c.mem, c.dst + used,
         Terminated(c.mem, c.src, Ends(LengthOf(c.mem, c.src),
                                       c.n - used - 1)))

Duplicate(c, n) ==
  IF c.dst = NULL THEN c.mem
  ELSE Written(c.mem, c.dst, Terminated(c.mem, c.src, n))

StringFunctions ==
  {"memcpy", "memmove", "memset", "memchr", "memcmp", "buf_compare_ct",
   "strlen", "strnlen", "strchr", "strcmp", "strlcpy", "strlcat", "strdup",
   "strndup"}

StringCall(c, r) ==
  CASE c.fn \in {"memcpy", "memmove"} ->
         /\ r.mem = Written(c.mem, c.dst, Slice(c.mem, c.src, c.n))
         /\ r.ret = c.dst
    [] c.fn = "memset" ->
         /\ r.mem = Written(c.mem, c.dst, [i \in 0..c.n - 1 |-> c.c % BYTE])
         /\ r.ret = c.dst
    [] c.fn = "memchr" ->
         Finds(r.ret, {a \in c.src..c.src + c.n - 1 : c.mem[a] = c.c % BYTE})
    [] c.fn = "memcmp" -> Orders(r.ret, c.mem, c.src, c.dst, c.n)
    [] c.fn = "buf_compare_ct" ->
         (r.ret = 0) <=> Slice(c.mem, c.src, c.n) = Slice(c.mem, c.dst, c.n)
    [] c.fn = "strlen" -> r.ret = LengthOf(c.mem, c.src)
    [] c.fn = "strnlen" -> r.ret = Ends(LengthOf(c.mem, c.src), c.n)
    [] c.fn = "strchr" ->
         Finds(r.ret, {a \in c.src..c.src + LengthOf(c.mem, c.src) :
                         c.mem[a] = c.c % BYTE})
    [] c.fn = "strcmp" ->
         Orders(r.ret, c.mem, c.src, c.dst,
                1 + Ends(LengthOf(c.mem, c.src), LengthOf(c.mem, c.dst)))
    [] c.fn = "strlcpy" ->
         /\ r.mem = PutString(c, 0)
         /\ r.ret = LengthOf(c.mem, c.src)
    [] c.fn = "strlcat" ->
         LET used == Ends(LengthOf(c.mem, c.dst), c.n)
         IN  /\ r.mem = PutString(c, used)
             /\ r.ret = used + LengthOf(c.mem, c.src)
    [] c.fn = "strdup" ->
         r = [mem |-> Duplicate(c, LengthOf(c.mem, c.src)), ret |-> c.dst]
    [] c.fn = "strndup" ->
         r = [mem |-> Duplicate(c, Ends(LengthOf(c.mem, c.src), c.n)),
              ret |-> c.dst]

(* qsort: the same elements, in order, and nothing else touched.           *)
SortCall(c, r) ==
  LET sorted == c.lo..c.lo + c.n - 1
  IN  /\ DOMAIN r.a = DOMAIN c.a
      /\ \A i \in DOMAIN c.a \ sorted : r.a[i] = c.a[i]
      /\ {r.a[i] : i \in sorted} = {c.a[i] : i \in sorted}
      /\ \A i, j \in sorted : i < j => Cmp(r.a[i], r.a[j]) <= 0

(* Division of two's complement numbers, towards zero.                     *)
Value(x, w) == IF x >= 2 ^ (w - 1) THEN x - 2 ^ w ELSE x
Abs(x) == IF x < 0 THEN -x ELSE x

DivisionCall(c, r) ==
  IF c.fn = "uidivmod"
  THEN c.n = r.q * c.p + r.r /\ r.r \in 0..c.p - 1
  ELSE LET n == Value(c.n, c.w)  p == Value(c.p, c.w)
           q == Value(r.q, c.w)  rem == Value(r.r, c.w)
       IN  /\ (n - q * p - rem) % 2 ^ c.w = 0
           /\ Abs(rem) < Abs(p)
           /\ rem # 0 => (rem < 0 <=> n < 0)
           /\ ~ (n = -(2 ^ (c.w - 1)) /\ p = -1) => n = q * p + rem

(* snprintf.  An item of a format is a character, conv being "literal", or *)
(* a directive: its flags, the width and the precision, -1 for none, and   *)
(* whether these are arguments, the size, the conversion and the argument. *)
NumberToken(n) == <<[ch |-> "number", n |-> n]>>
Ch(c) == <<[ch |-> c, n |-> 0]>>

Tokens(it) ==
  IF it.conv = "literal" THEN Ch(it.arg)
  ELSE Ch("%") \o [i \in DOMAIN it.flags |-> Ch(it.flags[i])[1]]
       \o (IF it.star THEN Ch("*") ELSE IF it.width = 0 THEN <<>>
           ELSE NumberToken(it.width))
       \o (IF it.star THEN Ch(".") \o Ch("*") ELSE IF it.prec < 0 THEN <<>>
           ELSE IF it.prec = 0 THEN Ch(".") ELSE Ch(".") \o NumberToken(it.prec))
       \o (IF it.size = "" THEN <<>>
           ELSE IF it.size = "hh" THEN Ch("h") \o Ch("h") ELSE Ch(it.size))
       \o Ch(it.conv)

Arguments(it) ==
  (IF it.conv # "literal" /\ it.star THEN <<it.width, it.prec>> ELSE <<>>)
  \o (IF it.conv \in TakesArgument \cup {"n"} THEN <<it.arg>> ELSE <<>>)

Has(it, flag) == \E i \in DOMAIN it.flags : it.flags[i] = flag
SignedConv == {"d", "i", "D"}
HexConv == {"x", "X", "p"}
OctalConv == {"o", "O"}
IntegerConv == SignedConv \cup HexConv \cup OctalConv \cup {"u", "U"}

(* hh is no size of its own: a char that was asked for is a short.         *)
TypeBits(it) ==
  CASE it.conv \in {"D", "O", "U", "p"} -> INT_BITS
    [] it.size \in {"h", "hh"} -> SHORT_BITS
    [] it.size \in {"j", "ll", "q"} -> QUAD_BITS
    [] OTHER -> INT_BITS

ArgValue(it) ==
  IF it.conv \in SignedConv
  THEN Value(it.arg % 2 ^ TypeBits(it), TypeBits(it))
  ELSE it.arg % 2 ^ TypeBits(it)

Base(it) ==
  IF it.conv \in HexConv THEN 16 ELSE IF it.conv \in OctalConv THEN 8 ELSE 10

(* v in n digits.                                                          *)
Numeral(v, n, base, glyphs) ==
  [i \in 1..n |-> glyphs[((v \div base ^ (n - i)) % base) + 1]]

DigitCount(v, base) ==
  CHOOSE n \in 1..QUAD_BITS : v < base ^ n /\ (n = 1 \/ v >= base ^ (n - 1))

AtLeast(n, m) == IF n > m THEN n ELSE m

(* A value has as many digits as it needs and the precision asks for, one  *)
(* for 0 but with the precision 0, and one more for an octal 0.            *)
IntegerText(it) ==
  LET v == Abs(ArgValue(it))
      n == AtLeast(IF v = 0 /\ it.prec = 0 THEN 0
                  ELSE IF v # 0 /\ it.conv \in OctalConv /\ Has(it, "#")
                   THEN DigitCount(v, 8) + 1
                   ELSE DigitCount(v, Base(it)), it.prec)
  IN  Numeral(v, n, Base(it), IF it.conv = "X" THEN HEXDIGITS ELSE hexdigits)

StringArg(it) ==
  LET s == IF it.arg = <<>> THEN <<"(", "n", "u", "l", "l", ")", NUL>>
           ELSE it.arg
      cut == {i \in DOMAIN s : s[i] = NUL} \cup
             (IF it.prec >= 0 THEN {it.prec + 1} ELSE {})
  IN  SubSeq(s, 1, (CHOOSE i \in cut : IsLeast(i, cut)) - 1)

Body(it) ==
  IF it.conv \in IntegerConv THEN IntegerText(it)
  ELSE IF it.conv = "s" THEN StringArg(it)
  ELSE IF it.conv \in {"c", "literal"} THEN <<it.arg>> ELSE <<it.conv>>

SignOrBase(it) ==
  IF it.conv \in SignedConv
  THEN IF ArgValue(it) < 0 THEN <<"-">>
       ELSE IF Has(it, "+") THEN <<"+">>
       ELSE IF Has(it, " ") THEN <<" ">> ELSE <<>>
  ELSE IF it.conv = "p" THEN <<"0", "x">>
  ELSE IF it.conv \in {"x", "X"} /\ Has(it, "#") /\ ArgValue(it) # 0
  THEN <<"0", it.conv>> ELSE <<>>

(* What an item prints: its width is reached with blanks on the left, on   *)
(* the right with '-', or else with zeroes inside for '0'.                 *)
ItemText(it) ==
  IF it.conv = "literal" THEN Body(it)
  ELSE IF it.conv = "n" THEN <<>>
  ELSE LET n == Abs(it.width) - Len(SignOrBase(it)) - Len(Body(it))
           core == SignOrBase(it) \o Body(it)
       IN  IF Has(it, "-") \/ it.width < 0 THEN core \o Times(n, " ")
           ELSE IF Has(it, "0") /\ ~ (it.conv \in IntegerConv /\ it.prec >= 0)
           THEN SignOrBase(it) \o Times(n, "0") \o Body(it)
           ELSE Times(n, " ") \o core

Joined(f, items) ==
  LET Join[i \in 0..Len(items)] ==
        IF i = 0 THEN <<>> ELSE Join[i - 1] \o f[i]
  IN  Join[Len(items)]

TextOf(items) == Joined([i \in DOMAIN items |-> ItemText(items[i])], items)

(* What the items of a format that are %n write.                           *)
Counts(items) ==
  Joined([i \in DOMAIN items |->
            IF items[i].conv # "n" THEN <<>>
            ELSE <<Len(TextOf(SubSeq(items, 1, i - 1)))
                   % 2 ^ TypeBits(items[i])>>], items)

(* text in bf, cut to size with its NUL.                                   *)
CutTo(bf, size, text) ==
  LET n == Ends(Len(text), size - 1)
  IN  IF bf = <<>> \/ size = 0 THEN bf
      ELSE [i \in DOMAIN bf |-> IF i <= n THEN text[i]
                               ELSE IF i = n + 1 THEN NUL ELSE bf[i]]

PrintCall(c, r) ==
  /\ r.ret = Len(TextOf(c.items))
  /\ r.bf = CutTo(c.bf, c.size, TextOf(c.items))
  /\ r.stored = Counts(c.items)
  /\ r.used <= KPRINTF_BUFSIZE

-----------------------------------------------------------------------------
(* Every function of libutils that keeps no state (but __aeabi_imod) does  *)
(* what C says, in the build by bytes and in that by words, for every      *)
(* alignment and every length around a word and around four; memory        *)
(* outside its object is as it was.  memcpy also does where the            *)
(* destination overlaps the source from below, as rEALLOc has it do.       *)
CallsAsSpecified ==
  returned =>
    /\ call.fn \in StringFunctions => StringCall(call, result)
    /\ call.fn = "qsort" => SortCall(call, result)
    /\ (call.fn \in {"uidivmod", "idivmod"} /\ call.p # 0)
         => DivisionCall(call, result)

(* snprintf counts the characters of the whole text, puts as many of them  *)
(* as there is room for and a NUL, no number is longer than the buffer it  *)
(* is made in, and every flag, width, precision and size does what C says, *)
(* but for %#.0o of 0, which prints nothing, and hh, which is h.           *)
FormatsAsAsked ==
  (returned /\ call.fn = "snprintf") => PrintCall(call, result)
=============================================================================
