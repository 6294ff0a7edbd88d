------------------------------ MODULE Kprintf ------------------------------
(***************************************************************************)
(* vsnprintf and kprintf of libutils/isoc/snprintf.c.                      *)
(*                                                                         *)
(* A format is a sequence of tokens [ch, n]: a character, "ll" for two of  *)
(* them, or "number" for the digits of a width or a precision, which is n. *)
(* Arguments are integers, for %c a character and for %s a sequence of     *)
(* characters that has a NUL unless a precision ends it.  int, long,       *)
(* size_t and pointers have the same width, as they do on arm32.           *)
(***************************************************************************)
EXTENDS Integers, Sequences

CONSTANTS SHORT_BITS, INT_BITS, QUAD_BITS

NUL == "nul"
NULL_STRING == <<>>

(* (8 * 8 / 3 + 2), the longest octal number with its leading 0.           *)
KPRINTF_BUFSIZE == QUAD_BITS \div 3 + 2

hexdigits == <<"0", "1", "2", "3", "4", "5", "6", "7", "8", "9",
               "a", "b", "c", "d", "e", "f">>
HEXDIGITS == <<"0", "1", "2", "3", "4", "5", "6", "7", "8", "9",
               "A", "B", "C", "D", "E", "F">>

-----------------------------------------------------------------------------
(* A directive as it is read: the variables of kprintf, the character that *)
(* ends it (NUL at the end of the format), and what is left of the format  *)
(* and of the arguments.                                                   *)
Percent(fmt, args) ==
  [flags |-> {}, sign |-> NUL, width |-> 0, prec |-> -1, ch |-> NUL,
   fmt |-> fmt, args |-> args]

SizeFlag == [h |-> "SHORTINT", j |-> "MAXINT", l |-> "LONGINT",
             ll |-> "QUADINT", q |-> "QUADINT", t |-> "PTRINT",
             z |-> "SIZEINT"]

(* '*': a width from the arguments; a negative one stands for '-' too.     *)
ArgWidth(d) ==
  LET w == d.args[1]
  IN  [d EXCEPT !.args = Tail(@),
                !.width = IF w >= 0 THEN w ELSE -w,
                !.flags = IF w >= 0 THEN @ ELSE @ \cup {"LADJUST"}]

(* '.': "*", a number or nothing, which is 0.                              *)
Precision(d) ==
  IF d.fmt # <<>> /\ d.fmt[1].ch = "*"
  THEN [d EXCEPT !.fmt = Tail(@), !.args = Tail(@),
                 !.prec = IF d.args[1] < 0 THEN -1 ELSE d.args[1]]
  ELSE IF d.fmt # <<>> /\ d.fmt[1].ch = "number"
  THEN [d EXCEPT !.fmt = Tail(@), !.prec = d.fmt[1].n]
  ELSE [d EXCEPT !.prec = 0]

(* A token in front of the conversion.                                     *)
Modified(d, t) ==
  CASE t.ch = " " -> [d EXCEPT !.sign = IF @ = NUL THEN " " ELSE @]
    [] t.ch = "+" -> [d EXCEPT !.sign = "+"]
    [] t.ch = "#" -> [d EXCEPT !.flags = @ \cup {"ALT"}]
    [] t.ch = "-" -> [d EXCEPT !.flags = @ \cup {"LADJUST"}]
    [] t.ch = "0" -> [d EXCEPT !.flags = @ \cup {"ZEROPAD"}]
    [] t.ch = "*" -> ArgWidth(d)
    [] t.ch = "number" -> [d EXCEPT !.width = t.n]
    [] t.ch = "." -> Precision(d)
    [] OTHER -> [d EXCEPT !.flags = @ \cup {SizeFlag[t.ch]}]

Modifiers == {" ", "+", "#", "-", "0", "*", "number", "."} \cup DOMAIN SizeFlag

RECURSIVE Directive(_)
Directive(d) ==
  IF d.fmt = <<>> THEN d
  ELSE LET t == Head(d.fmt)
           rest == [d EXCEPT !.fmt = Tail(@)]
       IN  IF t.ch \in Modifiers THEN Directive(Modified(rest, t))
           ELSE [rest EXCEPT !.ch = t.ch]

-----------------------------------------------------------------------------
(* Integer arguments: SARG and UARG as _uquad holds them.                  *)

Bits(flags) ==
  IF "MAXINT" \in flags THEN QUAD_BITS
  ELSE IF flags \cap {"PTRINT", "SIZEINT"} # {} THEN INT_BITS
  ELSE IF "QUADINT" \in flags THEN QUAD_BITS
  ELSE IF "SHORTINT" \in flags /\ "LONGINT" \notin flags THEN SHORT_BITS
  ELSE INT_BITS

UARG(v, bits) == v % 2 ^ bits
Negative(v, bits) == UARG(v, bits) >= 2 ^ (bits - 1)

(* Mutant: what is negated is the int that was passed for a short.         *)
Magnitude_int(v, bits) == IF v < 0 THEN -v ELSE UARG(v, bits)

(* The magnitude of the signed value, which is what is printed.            *)
Magnitude(v, bits) ==
  IF Negative(v, bits) THEN 2 ^ bits - UARG(v, bits) ELSE UARG(v, bits)

RECURSIVE Digits(_, _, _)
Digits(v, base, xdigs) ==
  IF v < base THEN <<xdigs[v + 1]>>
  ELSE Append(Digits(v \div base, base, xdigs), xdigs[(v % base) + 1])

(* What is in bf for [diouxX]: nothing for 0 with the precision 0.         *)
Number(d, v, base, xdigs) ==
  LET digits == Digits(v, base, xdigs)
  IN  IF v = 0 /\ d.prec = 0 THEN <<>>
      ELSE IF base = 8 /\ "ALT" \in d.flags /\ digits[1] # "0"
      THEN <<"0">> \o digits
      ELSE digits

-----------------------------------------------------------------------------
(* A field: what the conversion leaves for the output below it.            *)
Field(d, text, dprec, sign, prefix) ==
  [text |-> text, dprec |-> dprec, sign |-> sign, prefix |-> prefix,
   width |-> d.width,
   flags |-> IF dprec >= 0 /\ d.ch \in {"d", "i", "D", "o", "O", "u", "U",
                                        "x", "X", "p"}
             THEN d.flags \ {"ZEROPAD"} ELSE d.flags]

(* %s stops at the first NUL, or after prec characters.                    *)
StringText(d) ==
  LET s == IF Head(d.args) = NULL_STRING
           THEN <<"(", "n", "u", "l", "l", ")", NUL>> ELSE Head(d.args)
      Ends(n) == n = d.prec \/ (n < Len(s) /\ s[n + 1] = NUL)
      size == CHOOSE n \in 0..Len(s) : Ends(n) /\ \A m \in 0..n - 1 : ~ Ends(m)
  IN  SubSeq(s, 1, size)

Signed(d, bits) ==
  Field(d, Number(d, Magnitude(Head(d.args), bits), 10, hexdigits), d.prec,
        IF Negative(Head(d.args), bits) THEN "-" ELSE d.sign, <<>>)

Unsigned(d, bits, base, xdigs, prefix) ==
  Field(d, Number(d, UARG(Head(d.args), bits), base, xdigs), d.prec, NUL,
        prefix)

HexPrefix(d, bits) ==
  IF "ALT" \in d.flags /\ UARG(Head(d.args), bits) # 0
  THEN <<"0", d.ch>> ELSE <<>>

Converted(d) ==
  LET bits == Bits(d.flags)
      long == Bits(d.flags \cup {"LONGINT"})
  IN  CASE d.ch = "c" -> Field(d, <<Head(d.args)>>, 0, NUL, <<>>)
        [] d.ch = "s" -> Field(d, StringText(d), 0, NUL, <<>>)
        [] d.ch \in {"d", "i"} -> Signed(d, bits)
        [] d.ch = "D" -> Signed(d, long)
        [] d.ch = "u" -> Unsigned(d, bits, 10, hexdigits, <<>>)
        [] d.ch = "U" -> Unsigned(d, long, 10, hexdigits, <<>>)
        [] d.ch = "o" -> Unsigned(d, bits, 8, hexdigits, <<>>)
        [] d.ch = "O" -> Unsigned(d, long, 8, hexdigits, <<>>)
        [] d.ch = "x" -> Unsigned(d, bits, 16, hexdigits, HexPrefix(d, bits))
        [] d.ch = "X" -> Unsigned(d, bits, 16, HEXDIGITS, HexPrefix(d, bits))
        [] d.ch = "p" -> Unsigned(d, INT_BITS, 16, hexdigits, <<"0", "x">>)
        [] OTHER -> Field(d, <<d.ch>>, 0, NUL, <<>>)

TakesArgument == {"c", "s", "d", "i", "D", "u", "U", "o", "O", "x", "X", "p"}

-----------------------------------------------------------------------------
(* The output of a field: blanks, prefix, zeroes, the text and blanks.     *)

Times(n, ch) == [i \in 1..n |-> ch]

Prefix(f) == IF f.sign # NUL THEN <<f.sign>> ELSE f.prefix

RealSize(f) ==
  (IF f.dprec > Len(f.text) THEN f.dprec ELSE Len(f.text)) + Len(Prefix(f))

Output(f) ==
  LET pad  == f.width - RealSize(f)
      left == "LADJUST" \in f.flags
      zero == "ZEROPAD" \in f.flags
  IN  (IF left \/ zero THEN <<>> ELSE Times(pad, " "))
      \o Prefix(f)
      \o (IF zero /\ ~ left THEN Times(pad, "0") ELSE <<>>)
      \o Times(f.dprec - Len(f.text), "0")
      \o f.text
      \o (IF left THEN Times(pad, " ") ELSE <<>>)

(* out is what has been put, ret what is counted, stored what %n has       *)
(* written, and used the most there was in bf.                             *)
RECURSIVE kprintf(_, _, _)
kprintf(fmt, args, s) ==
  IF fmt = <<>> THEN s
  ELSE IF Head(fmt).ch # "%"
  THEN kprintf(Tail(fmt), args,
               [s EXCEPT !.out = Append(@, Head(fmt).ch), !.ret = @ + 1])
  ELSE
    LET d == Directive(Percent(Tail(fmt), args))
    IN  IF d.ch = NUL THEN s
        ELSE IF d.ch = "n"
        THEN kprintf(d.fmt, Tail(d.args),
               [s EXCEPT !.stored = Append(@, UARG(s.ret, Bits(d.flags)))])
        ELSE
          LET f == Converted(d)
              n == RealSize(f)
          IN  kprintf(d.fmt,
                IF d.ch \in TakesArgument THEN Tail(d.args) ELSE d.args,
                [s EXCEPT !.out = @ \o Output(f),
                          !.ret = @ + (IF f.width > n THEN f.width ELSE n),
                          !.used = IF d.ch = "s" \/ @ > Len(f.text) THEN @
                                   ELSE Len(f.text)])

(* bf is <<>> for a null pointer, or else has at least size characters.    *)
vsnprintf(bf, size, fmt, args) ==
  LET k == kprintf(fmt, args, [out |-> <<>>, ret |-> 0, stored |-> <<>>,
                               used |-> 0])
      put == [i \in DOMAIN bf |->
                IF i <= size /\ i <= Len(k.out) THEN k.out[i] ELSE bf[i]]
  IN  [ret |-> k.ret, stored |-> k.stored, used |-> k.used,
       bf |-> IF bf = <<>> \/ size = 0 THEN bf
              ELSE [put EXCEPT ![IF size <= k.ret THEN size ELSE k.ret + 1]
                                 = NUL]]
=============================================================================
