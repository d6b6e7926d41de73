------------------------------- MODULE Printf -------------------------------
(***************************************************************************)
(* Formatted output and input (kernel/util/printf.c).                      *)
(*                                                                         *)
(* Text is a sequence of characters; a buffer is a function from offsets   *)
(* to characters.  A format is a sequence of items                         *)
(*   [conv, flags, width, prec, qual, lit]                                 *)
(* with -1 for a number that is not given; conv is "" for the character    *)
(* lit, and "ws" for white space when scanning.                            *)
(* The record p:                                                           *)
(*   mem, str, size   the buffer, and the two variables iprintf updates    *)
(*   said             the whole text that was asked for                    *)
(*   job              the conversion and argument printed alone, and then  *)
(*                    scanned; NONE for a report written with iprintf      *)
(*   got, pc          what vsscanf returned and stored; what comes next    *)
(***************************************************************************)
EXTENDS Integers, SequencesExt, FiniteSetsExt

CONSTANTS
  Conversion, Argument,    \* numbers printed alone
  Report,                  \* formats and arguments given to iprintf, formats
                           \* to scan the text with, and what that should give
  SIZE,                    \* size of the buffer
  BITS,                    \* bits of each qualifier's type
  NUL, GARBAGE, NONE

VARIABLE p
vars == <<p>>

DIGITS == <<"0", "1", "2", "3", "4", "5", "6", "7", "8", "9", "a", "b", "c", "d", "e", "f">>
LARGE == <<"0", "1", "2", "3", "4", "5", "6", "7", "8", "9", "A", "B", "C", "D", "E", "F">>
Times(n, c) == [i \in 1 .. n |-> c]
Larger(x, y) == IF x > y THEN x ELSE y
Unsigned(x, q) == x % 2 ^ BITS[q]
Signed(x, q) == LET u == Unsigned(x, q) IN IF u >= 2 ^ (BITS[q] - 1) THEN u - 2 ^ BITS[q] ELSE u

-----------------------------------------------------------------------------
(* Printing.                                                               *)
RECURSIVE ToBase(_, _, _)
ToBase(n, base, digits) ==
  (IF n >= base THEN ToBase(n \div base, base, digits) ELSE <<>>) \o <<digits[(n % base) + 1]>>

\* number: the padding is blank on one side of the text, or zeroes inside it.
number(num, base, size, precision, type) ==
  LET neg == "SIGN" \in type /\ num < 0
      sign == IF neg THEN <<"-">>
              ELSE IF "SIGN" \notin type THEN <<>>
              ELSE IF "+" \in type THEN <<"+">> ELSE IF " " \in type THEN <<" ">> ELSE <<>>
      set == IF "LARGE" \in type THEN LARGE ELSE DIGITS
      prefix == IF "#" \notin type THEN <<>>
                ELSE IF base = 8 THEN <<"0">>
                ELSE IF base = 16 THEN <<"0", IF "LARGE" \in type THEN "X" ELSE "x">> ELSE <<>>
      digits == ToBase(IF neg THEN -num ELSE Unsigned(num, "L"), base, set)
      left == "-" \in type
      zeropad == "0" \in type /\ ~left
      zeroes == Larger(precision - Len(digits), 0)
      pad == size - Len(sign) - Len(prefix) - zeroes - Len(digits)
  IN (IF left \/ zeropad THEN <<>> ELSE Times(pad, " ")) \o sign \o prefix
     \o (IF zeropad THEN Times(pad, "0") ELSE <<>>) \o Times(zeroes, "0") \o digits
     \o (IF left THEN Times(pad, " ") ELSE <<>>)

\* The argument as the qualifier takes it.
Num(c, sign, a) ==
  CASE c.qual = "L" -> Signed(a, "L")
    [] c.qual = "Z" -> Unsigned(a, "Z")
    [] OTHER -> IF sign THEN Signed(a, c.qual) ELSE Unsigned(a, c.qual)

Justified(s, width, left) == IF left THEN s \o Times(width - Len(s), " ") ELSE Times(width - Len(s), " ") \o s

\* The text of a conversion.
Text(c, a) ==
  LET sign == c.conv \in {"d", "i"}
      type == c.flags \cup (IF sign THEN {"SIGN"} ELSE {}) \cup (IF c.conv = "X" THEN {"LARGE"} ELSE {})
      base == CASE c.conv = "o" -> 8 [] c.conv \in {"x", "X"} -> 16 [] OTHER -> 10
      ptr == c.conv = "p" /\ c.width = -1
  IN CASE c.conv = "" -> <<c.lit>>
       [] c.conv = "c" -> Justified(<<a>>, c.width, "-" \in c.flags)
       [] c.conv = "s" -> Justified(IF c.prec < 0 \/ Len(a) <= c.prec THEN a ELSE SubSeq(a, 1, c.prec),
                                    c.width, "-" \in c.flags)
       [] c.conv = "n" -> <<>>    \* stores the length so far
       [] c.conv = "%" -> <<"%">>
       [] c.conv = "p" -> number(Unsigned(a, "l"), 16, IF ptr THEN BITS["l"] \div 4 ELSE c.width, c.prec,
                                 IF ptr THEN c.flags \cup {"0"} ELSE c.flags)
       [] c.conv \in {"o", "x", "X", "d", "i", "u"} -> number(Num(c, sign, a), base, c.width, c.prec, type)
       [] OTHER -> <<"%", c.conv>>

\* Characters behind end are counted and not stored.
Put(b, text) ==
  [b EXCEPT !.mem = [i \in DOMAIN @ |-> IF b.str <= i /\ i < b.str + Len(text) /\ i <= b.end
                                        THEN text[i - b.str + 1] ELSE @[i]],
            !.str = @ + Len(text)]

\* vsnprintf at offset at: the buffer and the length; args holds one argument
\* for each item.
vsnprintf(mem, at, size, fmt, args) ==
  LET b0 == [mem |-> mem, str |-> at, end |-> at + size - 1]
      Step(b, i) == Put(b, Text(fmt[i], args[i]))
      b == FoldLeft(Step, b0, [i \in DOMAIN fmt |-> i])
      last == IF b.str <= b.end THEN b.str ELSE b.end
  IN [mem |-> IF b.str <= b.end \/ size > 0 THEN [b.mem EXCEPT ![last] = NUL] ELSE b.mem, len |-> b.str - at]

\* The text of all items.
Whole(fmt, args) == FlattenSeq([i \in DOMAIN fmt |-> Text(fmt[i], args[i])])

\* Mutant: the space of the final null byte is forgotten.
iprintfFull(fmt, args) ==
  LET r == vsnprintf(p.mem, p.str, p.size, fmt, args)
      len == IF r.len < p.size THEN r.len ELSE p.size
  IN p' = [p EXCEPT !.mem = r.mem, !.str = @ + len, !.size = @ - len,
                    !.said = @ \o Whole(fmt, args), !.pc = "reported"]

iprintf(fmt, args) ==
  LET r == vsnprintf(p.mem, p.str, p.size, fmt, args)
      len == IF r.len < p.size - 1 THEN r.len ELSE p.size - 1
  IN p' = [p EXCEPT !.mem = r.mem, !.str = @ + len, !.size = @ - len,
                    !.said = @ \o Whole(fmt, args), !.pc = "reported"]

-----------------------------------------------------------------------------
(* Scanning.                                                               *)
At(s, i) == IF i <= Len(s) THEN s[i] ELSE NUL
Digit(c) == IF \E k \in 1 .. 16 : DIGITS[k] = c \/ LARGE[k] = c
            THEN (CHOOSE k \in 1 .. 16 : DIGITS[k] = c \/ LARGE[k] = c) - 1 ELSE 16

RECURSIVE Digits(_, _, _, _)
Digits(s, i, base, v) == IF Digit(At(s, i)) < base THEN Digits(s, i + 1, base, v * base + Digit(s[i])) ELSE [v |-> v, i |-> i]

\* simple_strtoul: base 0 is found out from the text.
simple_strtoul(s, i, base) ==
  IF base # 0 THEN Digits(s, i, base, 0)
  ELSE IF At(s, i) # "0" THEN Digits(s, i, 10, 0)
  ELSE IF At(s, i + 1) = "x" /\ Digit(At(s, i + 2)) < 16 THEN Digits(s, i + 2, 16, 0) ELSE Digits(s, i + 1, 8, 0)
simple_strtol(s, i, base) ==
  IF At(s, i) = "-" THEN LET r == simple_strtoul(s, i + 1, base) IN [r EXCEPT !.v = -@] ELSE simple_strtoul(s, i, base)

RECURSIVE Blank(_, _), Word(_, _, _)
Blank(s, i) == IF At(s, i) = " " THEN Blank(s, i + 1) ELSE i
Word(s, i, width) == IF At(s, i) \in {NUL, " "} \/ width = 0 THEN i ELSE Word(s, i + 1, width - 1)

\* An integer of the text, as the qualifier stores it.
ScanInt(t, c) ==
  LET base == CASE c.conv = "o" -> 8 [] c.conv \in {"x", "X"} -> 16 [] c.conv = "i" -> 0 [] OTHER -> 10
      sign == c.conv \in {"d", "i"}
      i == Blank(t.s, t.i)
      digit == IF sign /\ At(t.s, i) = "-" THEN At(t.s, i + 1) ELSE At(t.s, i)
      r == IF sign THEN simple_strtol(t.s, i, base) ELSE simple_strtoul(t.s, i, base)
      v == IF sign /\ c.qual # "Z" THEN Signed(r.v, c.qual) ELSE Unsigned(r.v, c.qual)
  IN IF Digit(digit) >= (IF base = 0 THEN 10 ELSE base) THEN [t EXCEPT !.stop = TRUE]
     ELSE [t EXCEPT !.i = r.i, !.num = @ + 1, !.vals = Append(@, v)]

\* One item of the format; a conversion that is skipped takes the text and
\* the format to the next white space.
Scan(t, c) ==
  IF t.stop \/ At(t.s, t.i) = NUL THEN [t EXCEPT !.stop = TRUE]
  ELSE IF t.skip /\ c.conv # "ws" THEN t
  ELSE CASE c.conv = "" -> IF t.s[t.i] = c.lit THEN [t EXCEPT !.i = @ + 1] ELSE [t EXCEPT !.stop = TRUE]
         [] c.conv = "ws" -> [t EXCEPT !.i = Blank(t.s, @), !.skip = FALSE]
         [] c.conv = "*" -> [t EXCEPT !.i = Word(t.s, @, Len(t.s)), !.skip = TRUE]
         [] c.conv = "c" -> LET n == Min({Larger(c.width, 1), Len(t.s) - t.i + 1})
                            IN [t EXCEPT !.i = @ + n, !.num = @ + 1, !.vals = Append(@, SubSeq(t.s, t.i, t.i + n - 1))]
         [] c.conv = "s" -> LET i == Blank(t.s, t.i)
                                j == Word(t.s, i, c.width)
                            IN [t EXCEPT !.i = j, !.num = @ + 1, !.vals = Append(@, SubSeq(t.s, i, j - 1))]
         [] c.conv = "n" -> [t EXCEPT !.vals = Append(@, t.i - 1)]
         [] c.conv = "%" -> IF t.s[t.i] = "%" THEN [t EXCEPT !.i = @ + 1] ELSE [t EXCEPT !.stop = TRUE]
         [] c.conv \in {"o", "x", "X", "d", "i", "u"} -> ScanInt(t, c)
         [] OTHER -> [t EXCEPT !.stop = TRUE]

vsscanf(s, fmt) ==
  LET t == FoldLeft(Scan, [s |-> s, i |-> 1, num |-> 0, vals |-> <<>>, stop |-> FALSE, skip |-> FALSE], fmt)
  IN [num |-> t.num, vals |-> t.vals]

-----------------------------------------------------------------------------
Fresh(job, size, pc) ==
  [mem |-> [i \in 0 .. SIZE |-> GARBAGE], str |-> 0, size |-> size, said |-> <<>>, job |-> job,
   got |-> NONE, pc |-> pc]
Init ==
  \/ \E c \in Conversion, a \in Argument, size \in {0, SIZE \div 2, SIZE} : p = Fresh(<<c, a>>, size, "print")
  \/ \E size \in 1 .. SIZE : p = Fresh(NONE, size, "report")

\* snprintf of one conversion.
snprintf ==
  /\ p.pc = "print"
  /\ LET r == vsnprintf(p.mem, 0, p.size, <<p.job[1]>>, <<p.job[2]>>)
     IN p' = [p EXCEPT !.mem = r.mem, !.str = r.len, !.said = Text(p.job[1], p.job[2]), !.pc = "scan"]

\* The buffer up to the null byte.
Stored(mem) == [i \in 1 .. Min({j \in DOMAIN mem : mem[j] = NUL}) |-> mem[i - 1]]

\* sscanf of what was printed, if all of it is there: the same conversion,
\* without what a scanning format does not have.
sscanf ==
  /\ p.pc = "scan" /\ p.str < p.size
  /\ p' = [p EXCEPT !.got = vsscanf(Stored(p.mem), <<[p.job[1] EXCEPT !.flags = {}, !.width = -1, !.prec = -1]>>), !.pc = "done"]

Iprintf == p.pc \in {"report", "reported"} /\ \E r \in Report : Len(p.said) <= SIZE /\ iprintf(r.fmt, r.args)

\* sscanf of a report of one call.
Reread ==
  /\ p.pc = "reported" /\ Len(p.said) < p.str + p.size
  /\ \E r \in Report : /\ p.said = Whole(r.fmt, r.args)
                      /\ p' = [p EXCEPT !.job = r, !.got = vsscanf(Stored(p.mem), r.scan), !.pc = "reread"]

Ended == (p.pc \in {"done", "reread"} \/ (p.pc = "scan" /\ p.str >= p.size) \/ Len(p.said) > SIZE) /\ UNCHANGED p
Next == snprintf \/ sscanf \/ Iprintf \/ Reread \/ Ended
Spec == Init /\ [][Next]_vars

-----------------------------------------------------------------------------
(* What a buffer and a text should be.                                     *)

\* The first characters of the text and a null byte, and nothing behind.
Holds(mem, size, text) ==
  LET n == Min({Len(text), size - 1})
  IN \A i \in DOMAIN mem : mem[i] = IF size = 0 \/ i > n THEN (IF i < size THEN mem[i] ELSE GARBAGE)
                                    ELSE IF i = n THEN NUL ELSE text[i + 1]

Value(digits, base) == FoldLeft(LAMBDA v, c : v * base + Digit(c), 0, digits)
IsInt(c) == c.conv \in {"o", "x", "X", "d", "i", "u"}
Base(c) == CASE c.conv = "o" -> 8 [] c.conv \in {"x", "X"} -> 16 [] OTHER -> 10
Meant(c, a) == IF c.conv \in {"d", "i"} /\ c.qual # "Z" THEN Signed(a, c.qual) ELSE Unsigned(a, c.qual)
Magnitude(n) == IF n < 0 THEN -n ELSE n

\* Blanks, sign, prefix, digits, blanks: the width is reached and not passed
\* for nothing, and the digits are the number's.
Reads(c, a, t) ==
  LET n == Meant(c, a)
      first == IF \E i \in DOMAIN t : t[i] # " " THEN Min({i \in DOMAIN t : t[i] # " "}) ELSE 1
      last == Max({i \in DOMAIN t : t[i] # " "})
      sign == IF n < 0 THEN <<"-">> ELSE IF c.conv \in {"d", "i"} /\ "+" \in c.flags THEN <<"+">> ELSE <<>>
      mark == IF "#" \notin c.flags THEN <<>>
              ELSE CASE c.conv = "o" -> <<"0">> [] c.conv = "x" -> <<"0", "x">> [] c.conv = "X" -> <<"0", "X">> [] OTHER -> <<>>
      body == SubSeq(t, first, last)
      digits == SubSeq(body, Len(sign) + Len(mark) + 1, Len(body))
  IN /\ SubSeq(body, 1, Len(sign) + Len(mark)) = sign \o mark
     /\ digits # <<>> /\ Len(digits) >= c.prec /\ Value(digits, Base(c)) = Magnitude(n)
     /\ \A i \in DOMAIN digits : Digit(digits[i]) < Base(c)
     /\ Len(t) >= c.width
     /\ last < Len(t) => "-" \in c.flags /\ Len(t) = c.width
     /\ first > 2 => "-" \notin c.flags /\ "0" \notin c.flags /\ Len(t) = c.width
     /\ Len(digits) > 1 /\ digits[1] = "0" => Len(digits) = c.prec \/ ("0" \in c.flags /\ Len(t) = c.width)

\* What is printed fits the buffer, is the number with its sign, width and
\* precision, and scanned again gives the number back, except behind a plus
\* sign, behind the marks of octal and hexadecimal numbers, and where %i
\* takes padding for the mark of an octal number; and a report written with
\* iprintf is the beginning of all that was said, from which a format reads
\* the words, characters and numbers that it names (printf.c).
PrintsAsTold ==
  /\ p.pc \in {"scan", "done"} => Holds(p.mem, p.size, p.said) /\ p.str = Len(p.said)
  /\ p.pc \in {"scan", "done"} /\ IsInt(p.job[1]) => Reads(p.job[1], p.job[2], p.said)
  /\ /\ p.pc = "done" /\ IsInt(p.job[1]) /\ p.job[1].flags \cap {"+", "#"} = {}
     /\ p.job[1].conv = "i" => "0" \notin p.job[1].flags /\ p.job[1].prec < 2
     => p.got = [num |-> 1, vals |-> <<Meant(p.job[1], p.job[2])>>]
  /\ p.pc = "reported" => Holds(p.mem, p.str + p.size, p.said) /\ p.mem[p.str] = NUL
  /\ p.pc = "reread" => p.got = [num |-> p.job.num, vals |-> p.job.vals]
=============================================================================
