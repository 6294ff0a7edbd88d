---------------------------- MODULE MCLibUtils ----------------------------
(***************************************************************************)
(* The calls LibUtils is checked with: words of two bytes of two bits,     *)
(* short, int and long long of three, five and seven bits.                 *)
(***************************************************************************)
EXTENDS LibUtils

MCCmp(x, y) == x.key - y.key

Builds == {TRUE, FALSE}

-----------------------------------------------------------------------------
(* Six bytes that end in a null, and 24 in which a word that is copied to  *)
(* the wrong place shows.                                                  *)
Short == {[a \in 0..5 |-> IF a = 5 THEN 0 ELSE IF a = 0 THEN 3 ELSE f[a]] :
            f \in [1..4 -> 0..3]}
Shorter == {m \in Short : \A a \in 0..5 : m[a] # 2}
Long == {[a \in 0..23 |-> ((a * a) \div 3 + k * a) % 4] : k \in 0..1}

Reading ==
  {[fn |-> f, mem |-> m, src |-> s, n |-> n, fast |-> b] :
     f \in {"strlen", "strnlen"}, m \in Short, s \in 0..2, n \in {0, 2, 9},
     b \in Builds}
StrlenCalls == {c \in Reading : c.fn = "strlen" => c.n = 0}

StrchrCalls ==
  {[fn |-> "strchr", mem |-> m, src |-> s, c |-> c, fast |-> b] :
     m \in Shorter, s \in 0..1, c \in {0, 1, 7}, b \in Builds}
MemchrCalls ==
  {[fn |-> "memchr", mem |-> m, src |-> s, c |-> c, n |-> n, fast |-> b] :
     m \in Shorter, s \in 0..1, c \in {0, 6, 7}, n \in {0, 1, 2, 5},
     b \in Builds}

(* Two strings of up to four bytes in sixteen, aligned alike or not.       *)
Texts == {<<0, 1, 1, 1>>, <<1, 0, 2, 2>>, <<2, 3, 0, 1>>, <<2, 3, 0, 3>>,
          <<2, 1, 3, 0>>, <<2, 3, 3, 1>>, <<2, 3, 3, 2>>, <<2, 3, 1, 1>>}
Pair(x, y, s, t) ==
  [a \in 0..15 |-> IF a - s \in 0..3 THEN x[a - s + 1]
                   ELSE IF a - t \in 0..3 THEN y[a - t + 1] ELSE 0]
CompareCalls ==
  UNION {{[fn |-> f, mem |-> Pair(x, y, s, t), src |-> s, dst |-> t, n |-> n,
           fast |-> b] :
             f \in {"memcmp", "buf_compare_ct", "strcmp"}, n \in {0, 3, 4},
             b \in Builds} :
         x \in Texts, y \in Texts, s \in 0..1, t \in 8..9}

CopyCalls ==
  {c \in [fn : {"memcpy", "memmove"}, mem : Long, dst : {0, 2, 3, 9, 12},
          src : {0, 1, 2, 4, 10, 11}, n : {0, 1, 2, 7, 8, 9, 11, 12},
          fast : Builds] :
     c.fn = "memcpy" => ~ (c.src < c.dst /\ c.dst < c.src + c.n)}
MemsetCalls ==
  [fn : {"memset"}, mem : Long, dst : 0..3, c : {0, 2, 7}, n : 0..12,
   fast : Builds]

(* A string of up to four bytes behind one of up to three.                 *)
AppendMem(d, s) ==
  [a \in 0..23 |-> IF a \in {1 + d, 12 + s} THEN 0 ELSE 1 + (a % 3)]
AppendCalls ==
  UNION {{[fn |-> f, mem |-> AppendMem(d, s), dst |-> 1, src |-> 12, n |-> n,
           fast |-> b] :
            f \in {"strlcpy", "strlcat"}, n \in 0..8, b \in Builds} :
         d \in 0..3, s \in 0..4}
DupCalls ==
  UNION {{[fn |-> f, mem |-> AppendMem(0, s), dst |-> p, src |-> 12, n |-> n,
           fast |-> b] :
            f \in {"strdup", "strndup"}, p \in {NULL, 0, 1}, n \in {0, 2, 9},
            b \in Builds} :
         s \in 0..8}

-----------------------------------------------------------------------------
Elements(f) == [i \in DOMAIN f |-> [key |-> f[i], id |-> i]]
SortOf(f, lo, n) ==
  [fn |-> "qsort", a |-> Elements(f), lo |-> lo, n |-> n]

(* Keys that rise, fall, repeat or jump about.                             *)
Shapes(n) ==
  {[i \in 0..n - 1 |-> (k * i + j) % m] :
     k \in {1, 3, n - 1}, j \in {0, 2}, m \in {2, 5, n, n + 1}}
SortCalls ==
  UNION {{SortOf(f, 0, n) : f \in [0..n - 1 -> 1..3]} : n \in 1..4}
  \cup {SortOf(f, 0, 7) : f \in [0..6 -> 1..2]}
  \cup {SortOf(f, 1, 8) : f \in [0..9 -> 1..2]}
  \cup UNION {{SortOf(f, 0, n) : f \in Shapes(n)} : n \in {7, 9, 16, 41, 48}}

-----------------------------------------------------------------------------
DivisionCalls ==
  [fn : {"uidivmod", "idivmod", "imod"}, n : 0..15, p : 0..15, w : {4}]
  \cup [fn : {"uidivmod", "idivmod"}, n : {0, 1, 31, 32, 33, 40, 62, 63},
        p : {1, 3, 10, 31, 32, 33, 62, 63}, w : {6}]

-----------------------------------------------------------------------------
Garbage(n) == Times(n, "?")

PrintOf(items, bf, size) ==
  [fn |-> "snprintf", items |-> items, bf |-> bf, size |-> size,
   fmt |-> Joined([i \in DOMAIN items |-> Tokens(items[i])], items),
   args |-> Joined([i \in DOMAIN items |-> Arguments(items[i])], items)]

Item(flags, width, prec, star, size, conv, arg) ==
  [flags |-> flags, width |-> width, prec |-> prec, star |-> star,
   size |-> size, conv |-> conv, arg |-> arg]

Flags == {<<>>, <<"-">>, <<"0">>, <<"-", "0">>, <<"+">>, <<" ", "+">>,
          <<"+", " ">>, <<" ">>, <<"#">>, <<"#", "0">>, <<"0", "+">>}

PrintIntegers ==
  {PrintOf(<<Item(f, w, p, FALSE, "", c, v)>>, Garbage(9), 8) :
     f \in Flags, w \in {0, 1, 5}, p \in {-1, 0, 3},
     c \in {"d", "u", "o", "x", "p"}, v \in {0, 9, -3}}
PrintSizes ==
  {PrintOf(<<Item(f, 0, -1, FALSE, s, c, v)>>, Garbage(9), 9) :
     f \in {<<>>, <<"#">>}, s \in DOMAIN SizeFlag \cup {"hh"},
     c \in {"i", "u", "o", "X"},
     v \in {-64, -16, -5, -4, -1, 3, 4, 15, 63}}
  \cup
  {PrintOf(<<Item(<<>>, 0, -1, FALSE, "", c, v)>>, Garbage(9), 9) :
     c \in {"D", "O", "U"}, v \in {-16, -1, 4, 15}}
PrintStars ==
  {PrintOf(<<Item(f, w, p, TRUE, "", c, v)>>, Garbage(9), 9) :
     f \in Flags, w \in {-6, 0, 6}, p \in {-1, 0, 2}, c \in {"d", "x"},
     v \in {0, 11, -12}}
PrintStrings ==
  {PrintOf(<<Item(f, w, p, b, "", "s", v)>>, Garbage(9), 9) :
     f \in {<<>>, <<"-">>, <<"0">>, <<"+">>}, w \in {0, 4}, p \in {-1, 0, 1, 3},
     b \in BOOLEAN,
     v \in {<<>>, <<NUL>>, <<"a", NUL, "b">>, <<"a", "b", "c", "d", NUL>>}}
  \cup {PrintOf(<<Item(<<>>, w, 2, FALSE, "", "s", <<"a", "b">>)>>, Garbage(9),
                9) : w \in {0, 4}}

Literal(c) == Item(<<>>, 0, -1, FALSE, "", "literal", c)
Plain(c, v) == Item(<<>>, 0, -1, FALSE, "", c, v)
Mixed == <<
  <<Literal("a"), Plain("d", -12), Literal("b"), Plain("s", <<"c", "d", NUL>>)>>,
  <<Plain("c", "a"), Item(<<"0">>, 3, -1, FALSE, "", "c", "b"), Plain("%", 0)>>,
  <<Item(<<>>, 5, -1, FALSE, "", "u", 7), Item(<<>>, 0, -1, FALSE, "h", "n", 0),
    Plain("p", 0), Plain("n", 0), Item(<<"-">>, 2, -1, FALSE, "", "?", 0),
    Item(<<>>, 0, -1, FALSE, "ll", "n", 0)>>,
  <<>> >>
PrintMixed ==
  [i \in DOMAIN Mixed |->
     {PrintOf(Mixed[i], bf, size) : bf \in {<<>>, Garbage(12)}, size \in 0..12}]
(* A format that ends within a directive.                                  *)
PrintCut ==
  {[PrintOf(<<>>, Garbage(3), 3) EXCEPT !.fmt = f] :
     f \in {Ch("%"), Ch("%") \o Ch("0") \o Ch(".")}}

MCCalls ==
  <<StrlenCalls, StrchrCalls, MemchrCalls, CompareCalls, CopyCalls,
    MemsetCalls, AppendCalls, DupCalls, SortCalls, DivisionCalls,
    PrintIntegers, PrintSizes, PrintStars, PrintStrings, PrintCut>>
  \o PrintMixed
=============================================================================
