--------------------------------- MODULE Ed ---------------------------------
(***************************************************************************)
(* The line editor (user/bin/ed.c).                                        *)
(*                                                                         *)
(* Lines are pointers into a temporary file, kept in an array that begins  *)
(* at zero; line 0 is no line.  In this port an error is reported and the  *)
(* command goes on.  A line of text takes one cell of the temporary file,  *)
(* which is read and written in blocks of BLK cells through two buffers.   *)
(* A command is one step; its addresses are chosen.  The record e:         *)
(*   mem, dot, dol     the array, the current line and the last one        *)
(*   addr1, addr2      the addresses of the command, NULL if not given     *)
(*   tline             where the next line of text goes                    *)
(*   file, ibuff, obuff, iblock, oblock, ichanged   the file and buffers   *)
(*   globp             a global command is being run                       *)
(*   ref, rdot         the lines and the current line as they should be,   *)
(*   wrote             whether w wrote what it should have, and            *)
(*   clean             whether no error was reported so far (history)      *)
(*   stop              "" or what the program does not come back from      *)
(***************************************************************************)
EXTENDS Integers, SequencesExt, FiniteSetsExt

CONSTANTS
  Text,        \* texts of lines
  Matches,     \* those the pattern matches
  Subst,       \* what a text becomes by substitution: Seq(Text)
  BLK,         \* cells in a block
  Cap,         \* bound: lines in the array
  MaxText,     \* bound: lines put
  MaxNew,      \* bound: lines given to one command
  NONE, NULL

VARIABLE e
vars == <<e>>

Idx == -4 .. 2 * Cap + 6
zero == 0
NoLine == [at |-> -1, mark |-> FALSE]
Ret(t, v) == [t |-> t, v |-> v]

\* error: the message is written, a global command given up, and the caller
\* goes on.
errfunc(t) == [t EXCEPT !.clean = FALSE, !.globp = FALSE]
errorIf(c, t) == IF c THEN errfunc(t) ELSE t

-----------------------------------------------------------------------------
\* blkio seeks to the number of the block.
blkwrite(t, b, buf) ==
  [t EXCEPT !.file = [c \in DOMAIN @ |-> IF b <= c /\ c < b + BLK THEN buf[c - b] ELSE @[c]]]
blkread(t, b) == [c \in 0 .. BLK - 1 |-> t.file[b + c]]

\* getblock: the block is in a buffer, or replaces the one of its kind.
getblock(t, b, iof) ==
  LET u == IF t.ichanged THEN blkwrite(t, t.iblock, t.ibuff) ELSE t
      w == IF t.oblock >= 0 THEN blkwrite(t, t.oblock, t.obuff) ELSE t
  IN IF b = t.iblock THEN Ret([t EXCEPT !.ichanged = @ \/ iof = "WRITE"], "i")
     ELSE IF b = t.oblock THEN Ret(t, "o")
     ELSE IF iof = "READ" THEN Ret([u EXCEPT !.ichanged = FALSE, !.iblock = b, !.ibuff = blkread(u, b)], "i")
     ELSE Ret([w EXCEPT !.oblock = b], "o")

\* A pointer that is none leads anywhere.
getline(t, line) ==
  LET g == getblock(t, line.at \div BLK, "READ")
  IN IF line.at < 0 THEN Ret([t EXCEPT !.stop = "wild"], NONE)
     ELSE Ret(g.t, IF g.v = "i" THEN g.t.ibuff[line.at % BLK] ELSE g.t.obuff[line.at % BLK])

putline(t, text) ==
  LET g == getblock(t, t.tline \div BLK, "WRITE")
      c == t.tline % BLK
      u == IF g.v = "i" THEN [g.t EXCEPT !.ibuff[c] = text] ELSE [g.t EXCEPT !.obuff[c] = text]
  IN Ret([u EXCEPT !.tline = @ + 1], [at |-> t.tline, mark |-> FALSE])

\* execute on a line: line 0 never matches.
execute(t, a) == LET g == getline(t, t.mem[a]) IN IF a = zero THEN Ret(t, NONE) ELSE g

-----------------------------------------------------------------------------
\* The checks on addresses.
setdot(t) ==
  LET u == IF t.addr2 = NULL THEN [t EXCEPT !.addr1 = t.dot, !.addr2 = t.dot] ELSE t
  IN errorIf(u.addr1 > u.addr2, u)
setall(t) ==
  setdot(IF t.addr2 # NULL THEN t ELSE [t EXCEPT !.addr1 = IF t.dol = zero THEN zero ELSE 1, !.addr2 = t.dol])
nonzero(t) == errorIf(t.addr1 <= zero \/ t.addr2 > t.dol, t)

\* append: the lines behind the new one move up.
Insert(t, line) ==
  [t EXCEPT !.dol = @ + 1, !.dot = @ + 1,
            !.mem = [i \in Idx |-> IF i = t.dot + 1 THEN line
                                   ELSE IF t.dot + 1 < i /\ i <= t.dol + 1 THEN @[i - 1] ELSE @[i]]]
AppendOne(t, text) == LET p == putline(t, text) IN Insert(p.t, p.v)
append(t, texts, a) == FoldLeft(AppendOne, [t EXCEPT !.dot = a], texts)

\* delete: the first line behind is copied even if there is none.
delete(t) ==
  LET u == nonzero(setdot(t))
      n == u.addr2 + 1 - u.addr1
      left == u.dol - n
  IN [u EXCEPT !.dol = left, !.dot = IF u.addr1 > left THEN left ELSE u.addr1,
               !.mem = [i \in Idx |-> IF i = u.addr1 \/ (u.addr1 < i /\ i <= left) THEN @[i + n] ELSE @[i]]]

\* reverse: the lines from aa1 up to aa2 - 1.
reverse(mem, aa1, aa2) == [i \in Idx |-> IF aa1 <= i /\ i < aa2 THEN mem[aa1 + aa2 - 1 - i] ELSE mem[i]]

\* Two neighbouring blocks change places by three reversals.
rotate(mem, a, b, c) == reverse(reverse(reverse(mem, a, b), b, c), a, c)

\* getcopy reads the lines that t copies.
CopyOne(t, i) == LET g == getline(t, t.mem[i]) IN AppendOne(g.t, g.v)

\* move, and copy: the copies are put behind the last line and moved.
move(t, cflag, adt) ==
  LET u == nonzero(setdot(t))
      c == FoldLeft(CopyOne, [u EXCEPT !.dot = u.dol], [i \in 1 .. u.addr2 - u.addr1 + 1 |-> u.addr1 + i - 1])
      v == IF cflag THEN c ELSE u
      ad1 == IF cflag THEN u.dol + 1 ELSE u.addr1
      ad2 == (IF cflag THEN c.dol ELSE u.addr2) + 1
  IN IF adt < ad1
     THEN [v EXCEPT !.dot = adt + (ad2 - ad1), !.mem = IF adt + 1 = ad1 THEN @ ELSE rotate(@, adt + 1, ad1, ad2)]
     ELSE IF adt >= ad2 THEN [v EXCEPT !.dot = adt, !.mem = rotate(@, ad1, ad2, adt + 1)]
     ELSE errfunc(v)

\* substitute: a matching line gets its new text, and the lines its text is
\* split into behind it.
RECURSIVE SubstFrom(_, _, _)
SubstFrom(t, a, found) ==
  IF a > t.addr2 THEN errorIf(~found, t)
  ELSE LET x == execute(t, a)
           new == Subst[x.v]
           p == putline(x.t, Head(new))
           u == append([p.t EXCEPT !.mem[a] = p.v], Tail(new), a)
           nl == Len(new) - 1
       IN IF x.v \notin Matches THEN SubstFrom(x.t, a + 1, found)
          ELSE SubstFrom([u EXCEPT !.addr2 = @ + nl], a + nl + 1, TRUE)
substitute(t, inglob) == LET u == nonzero(setdot(t)) IN SubstFrom(u, u.addr1, inglob)

\* One command of a global: it works on dot.
Globally(t, cmd) ==
  LET u == [t EXCEPT !.addr1 = NULL, !.addr2 = NULL]
  IN CASE cmd = "d" -> delete(u) [] cmd = "m0" -> move(u, FALSE, 0) [] cmd = "t." -> move(u, TRUE, u.dot)
       [] cmd = "s" -> substitute(u, TRUE)

\* global: the lines that match, or do not, are marked; then the command is
\* run on the first marked line, until none is marked.
Mark(t, a, k) ==
  LET x == execute(t, a)
      in == t.addr1 <= a /\ a <= t.addr2
  IN IF in THEN [x.t EXCEPT !.mem[a].mark = (x.v \in Matches) = k] ELSE [t EXCEPT !.mem[a].mark = FALSE]
RECURSIVE GlobalLoop(_, _)
GlobalLoop(t, cmd) ==
  LET marked == {a \in zero .. t.dol : t.mem[a].mark}
      a == Min(marked)
  IN IF marked = {} \/ ~t.globp THEN t
     ELSE GlobalLoop(Globally([t EXCEPT !.mem[a].mark = FALSE, !.dot = a], cmd), cmd)
global(t, k, cmd) ==
  LET u == nonzero(setall(t))
      m == FoldLeft(LAMBDA x, i : Mark(x, i - 1, k), u, [i \in 1 .. u.dol + 1 |-> i])
  IN [GlobalLoop([m EXCEPT !.globp = TRUE], cmd) EXCEPT !.globp = FALSE]

\* The search of an address: on from dot and round, dot last.  Without a
\* match the error is reported and the search goes on for ever.
RECURSIVE Search(_, _, _, _)
Search(t, a, step, n) ==
  LET b == IF a + step > t.dol THEN zero ELSE IF a + step < zero THEN t.dol ELSE a + step
      x == execute(t, b)
  IN IF n > t.dol THEN Ret([errfunc(t) EXCEPT !.stop = "search"], NULL)
     ELSE IF x.v \in Matches THEN Ret(x.t, b)
     ELSE Search(x.t, b, step, n + 1)

\* address: an error if it is outside, and it is used all the same.
address(t, a) == errorIf(a < zero \/ a > t.dol, t)

Given(t, a, b) == [address(address(t, a), b) EXCEPT !.addr1 = a, !.addr2 = b]
NotGiven(t) == [t EXCEPT !.addr1 = NULL, !.addr2 = NULL]

\* The addresses of a command: none, one or two; and some that one of the checks
\* refuses.
Addressed(t) ==
  {NotGiven(t), Given(t, zero, zero)} \cup {Given(t, i[1], i[2]) : i \in {p \in (1 .. t.dol) \X (1 .. t.dol) : p[1] <= p[2]}}
Refused(t) ==
  {Given(t, -1, -1), Given(t, t.dol + 1, t.dol + 1), Given(t, t.dol, zero), Given(t, zero, t.dol)}

\* init: everything is forgotten.
init(t) ==
  [t EXCEPT !.tline = 0, !.iblock = -1, !.oblock = -1, !.ichanged = FALSE, !.dot = zero, !.dol = zero,
            !.mem = [i \in Idx |-> NoLine], !.file = [c \in DOMAIN @ |-> NONE]]

Reads(t) == FoldLeft(LAMBDA x, i : getline(x, x.mem[i]).t, getline(t, t.mem[t.addr1]).t,
                     [i \in 1 .. t.addr2 - t.addr1 |-> t.addr1 + i])
print(t) == LET u == nonzero(setdot(t)) IN [Reads(u) EXCEPT !.dot = u.addr2]

TextAt(t, i) == getline(t, t.mem[i]).v
putfile(t) == LET u == nonzero(setall(t))
              IN Ret(Reads(u), [i \in 1 .. u.addr2 - u.addr1 + 1 |-> TextAt(u, u.addr1 + i - 1)])

\* What main starts with, and what is kept of a session that is over.
Start ==
  init([mem |-> <<>>, dot |-> 0, dol |-> 0, addr1 |-> NULL, addr2 |-> NULL, tline |-> 0,
        file |-> [c \in 0 .. 4 * (MaxText + BLK) |-> NONE], ibuff |-> [c \in 0 .. BLK - 1 |-> NONE],
        obuff |-> [c \in 0 .. BLK - 1 |-> NONE], iblock |-> -1, oblock |-> -1, ichanged |-> FALSE,
        globp |-> FALSE, ref |-> <<>>, rdot |-> 0, wrote |-> TRUE, clean |-> TRUE, stop |-> ""])

-----------------------------------------------------------------------------
(* What the commands are for, on a sequence of lines.                      *)
From(t, x) == IF x.addr1 = NULL THEN t.rdot ELSE x.addr1
Upto(t, x) == IF x.addr2 = NULL THEN t.rdot ELSE x.addr2
Before(q, a) == SubSeq(q, 1, a)
After(q, a) == SubSeq(q, a + 1, Len(q))
Splice(q, a, ins) == Before(q, a) \o ins \o After(q, a)
Cut(q, a, b) == Before(q, a - 1) \o After(q, b)
Moved(q, a, b, to) ==
  LET block == SubSeq(q, a, b)
  IN IF to < a THEN Before(q, to) \o block \o SubSeq(q, to + 1, a - 1) \o After(q, b)
     ELSE Before(q, a - 1) \o SubSeq(q, b + 1, to) \o block \o After(q, to)
Each(q, Pick(_), New(_)) == FlattenSeq([i \in DOMAIN q |-> IF Pick(i) THEN New(q[i]) ELSE <<q[i]>>])
Replaced(x) == IF x \in Matches THEN Subst[x] ELSE <<x>>
Nothing(x) == <<>>
Twice(x) == <<x, x>>
Globbed(q, a, b, k, cmd) ==
  LET Pick(i) == a <= i /\ i <= b /\ (q[i] \in Matches) = k
      Not(i) == ~Pick(i)
  IN CASE cmd = "d" -> Each(q, Pick, Nothing) [] cmd = "t." -> Each(q, Pick, Twice)
       [] cmd = "s" -> Each(q, Pick, Replaced)
       [] cmd = "m0" -> Reverse(Each(q, Not, Nothing)) \o Each(q, Pick, Nothing)

\* The command is done: r is the outcome, q and d the lines and the current
\* line there should be.  What lies behind the last line is not read again.
Writes(r, q, d, w) ==
  /\ r.dol <= Cap /\ r.tline <= MaxText
  /\ LET stop == IF r.stop # "" THEN r.stop ELSE IF r.dol < zero THEN "below" ELSE ""
         u == [NotGiven(r) EXCEPT !.globp = FALSE, !.stop = stop,
                                 !.mem = [i \in Idx |-> IF i <= r.dol THEN @[i] ELSE NoLine]]
     IN e' = IF r.clean THEN [u EXCEPT !.ref = q, !.rdot = d, !.wrote = w]
             ELSE [Start EXCEPT !.stop = stop, !.clean = FALSE]
Done(r, q, d) == Writes(r, q, d, e.wrote)

Lines == UNION {[1 .. n -> Text] : n \in 0 .. MaxNew}

-----------------------------------------------------------------------------
(* The commands.                                                           *)

\* a, and r with a file of these lines.
DoAppend(t, texts) ==
  LET u == setdot(t) IN Done(append(u, texts, u.addr2), Splice(e.ref, Upto(e, t), texts), Upto(e, t) + Len(texts))
DoInsert(t, texts) ==
  LET u == nonzero(setdot(t))
  IN Done(append(u, texts, u.addr2 - 1), Splice(e.ref, Upto(e, t) - 1, texts), Upto(e, t) - 1 + Len(texts))
DoRead(t, texts) ==
  LET u == setall(t)
      a == IF t.addr2 = NULL THEN Len(e.ref) ELSE t.addr2
  IN Done(append(u, texts, u.addr2), Splice(e.ref, a, texts), a + Len(texts))
DoChange(t, texts) ==
  LET u == delete(t)
      a == From(e, t)
  IN Done(append(u, texts, u.addr1 - 1), Splice(Cut(e.ref, a, Upto(e, t)), a - 1, texts), a - 1 + Len(texts))
DoDelete(t) ==
  LET q == Cut(e.ref, From(e, t), Upto(e, t))
  IN Done(delete(t), q, Min({From(e, t), Len(q)}))
DoMove(t, adt) ==
  LET n == Upto(e, t) - From(e, t) + 1
  IN Done(move(address(t, adt), FALSE, adt), Moved(e.ref, From(e, t), Upto(e, t), adt),
          IF adt < From(e, t) THEN adt + n ELSE adt)
DoCopy(t, adt) ==
  LET block == SubSeq(e.ref, From(e, t), Upto(e, t))
  IN Done(move(address(t, adt), TRUE, adt), Splice(e.ref, adt, block), adt + Len(block))
\* No address to move to: the error is reported, and the null pointer used.
DoMoveNowhere == e' = [Start EXCEPT !.clean = FALSE, !.stop = "null"]
DoSubstitute(t) ==
  LET Pick(i) == From(e, t) <= i /\ i <= Upto(e, t)
      r == substitute(t, FALSE)
  IN Done(r, Each(e.ref, Pick, Replaced), r.dot)
DoGlobal(t, k, cmd) ==
  LET a == IF t.addr1 = NULL THEN 1 ELSE t.addr1
      b == IF t.addr2 = NULL THEN Len(e.ref) ELSE t.addr2
      r == global(t, k, cmd)
  IN Done(r, Globbed(e.ref, a, b, k, cmd), r.dot)
DoPrint(t) == Done(print(t), e.ref, Upto(e, t))
DoSearch(step) ==
  LET s == Search(e, e.dot, step, 0)
  IN IF s.v = NULL THEN Done(s.t, e.ref, e.rdot) ELSE Done(print(Given(s.t, s.v, s.v)), e.ref, s.v)
DoWrite(t) ==
  LET p == putfile(t)
      a == IF t.addr1 = NULL THEN 1 ELSE t.addr1
      b == IF t.addr2 = NULL THEN Len(e.ref) ELSE t.addr2
  IN Writes(p.t, e.ref, e.rdot, e.wrote /\ p.v = SubSeq(e.ref, a, b))
DoEdit(texts) == Done(append(init(e), texts, zero), texts, Len(texts))
Quit == e' = [Start EXCEPT !.stop = "quit"]
Ended == (e.stop # "" \/ ~e.clean) /\ UNCHANGED e

Init == e = Start

\* Bound: a session is followed up to the end of the first command that
\* reports an error.
Going == e.stop = "" /\ e.clean

\* The commands at addresses t, given lines of T or a place of A to move to.
Commands(t, T, A) ==
  \/ \E texts \in T : DoAppend(t, texts) \/ DoInsert(t, texts) \/ DoRead(t, texts) \/ DoChange(t, texts)
  \/ \E adt \in A : DoMove(t, adt) \/ DoCopy(t, adt)
  \/ t.addr2 \in {NULL, e.dol} /\ \E k \in BOOLEAN, cmd \in {"d", "m0", "t.", "s"} : DoGlobal(t, k, cmd)
  \/ DoDelete(t) \/ DoSubstitute(t) \/ DoPrint(t) \/ DoWrite(t)

Next ==
  \/ Going /\ \E t \in Addressed(e) : Commands(t, Lines, zero .. e.dol)
  \/ Going /\ \E t \in Refused(e) : Commands(t, {<<>>}, {-1, e.dol + 1})
  \/ Going /\ (\/ DoMoveNowhere \/ Quit
                     \/ (\E step \in {1, -1} : DoSearch(step))
                     \/ (\E texts \in Lines : DoEdit(texts)))
  \/ Ended

Spec == Init /\ [][Next]_vars

-----------------------------------------------------------------------------
\* As long as no error was reported and the text fits the two buffers, the
\* lines read back through them are the ones a sequence of lines would have
\* after the same commands, so is the current line, w wrote the lines it was
\* asked to, and the editor has not gone astray (ed.c: append, delete, move,
\* substitute, global, getblock).
EditsAsTold ==
  e.clean => /\ e.stop \in {"", "quit"}
             /\ e.tline <= 2 * BLK =>
                  /\ e.dol = Len(e.ref) /\ e.dot = e.rdot /\ zero <= e.dot /\ e.dot <= e.dol
                  /\ \A i \in 1 .. e.dol : TextAt(e, i) = e.ref[i]
                  /\ e.wrote

=============================================================================
