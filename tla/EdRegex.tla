------------------------------ MODULE EdRegex ------------------------------
(***************************************************************************)
(* Patterns and substitution in the line editor (user/bin/ed.c: compile,   *)
(* execute, advance, dosub).                                               *)
(*                                                                         *)
(* A pattern is given as tokens: "^", "$", ".", "*", "\\(" and "\\)"       *)
(* written "(" and ")", ordinary characters, and bracketed classes as      *)
(* records.  A position in a line counts the characters before it.  The    *)
(* record r:                                                               *)
(*   pat, circfl, code    the pattern, whether it began with ^, expbuf     *)
(*   line, loc1, loc2, locs, bras, braes   linebuf, the match, where the   *)
(*                        last one ended, and where groups begin and end   *)
(*   rhs                  the replacement                                  *)
(*   ok, from             what execute returned, and where it began        *)
(*   pc                   what comes next                                  *)
(***************************************************************************)
EXTENDS Integers, SequencesExt, FiniteSetsExt

CONSTANTS
  Pattern,     \* patterns: sequences of tokens
  Line,        \* lines: sequences of characters
  Rhs,         \* replacements: characters, "&" and "1" for \1
  NBRA,        \* limit of groups
  MaxLine,     \* bound: length to which a line grows
  NULL

VARIABLE r
vars == <<r>>

Op(op, arg) == [op |-> op, arg |-> arg, star |-> FALSE]

-----------------------------------------------------------------------------
(* compile.                                                                *)

\* The code so far: open lists the groups not closed, nbra counts them all.
Fail(c) == [c EXCEPT !.ok = FALSE]
Emit(c, op, arg) == [c EXCEPT !.code = Append(@, Op(op, arg))]

\* One token; a star changes the last piece of code.
Compile1(c, tok, atend) ==
  CASE ~c.ok -> c
    [] tok = "(" -> IF c.nbra >= NBRA THEN Fail(c)
                    ELSE [Emit(c, "CBRA", c.nbra) EXCEPT !.nbra = @ + 1, !.open = Append(@, c.nbra)]
    [] tok = ")" -> IF c.open = <<>> THEN Fail(c)
                    ELSE [Emit(c, "CKET", Last(c.open)) EXCEPT !.open = Front(@)]
    [] tok = "." -> Emit(c, "CDOT", "")
    [] tok = "*" -> IF Last(c.code).op \in {"CBRA", "CKET"} THEN Fail(c)
                    ELSE [c EXCEPT !.code[Len(c.code)].star = TRUE]
    [] tok = "$" /\ atend -> Emit(c, "CDOL", "")
    [] tok \in {"[a]", "[^a]"} -> Emit(c, IF tok = "[a]" THEN "CCL" ELSE "NCCL", {"a"})
    [] OTHER -> Emit(c, "CCHR", tok)

compile(pat) ==
  LET circ == Head(pat) = "^"
      rest == IF circ THEN Tail(pat) ELSE pat
      c0 == [code |-> <<>>, open |-> <<>>, nbra |-> 0, ok |-> TRUE, circfl |-> circ]
      Step(c, i) == Compile1(c, rest[i], i = Len(rest))
  IN IF rest # <<>> /\ Head(rest) = "*" THEN Fail(c0)
     ELSE FoldLeft(Step, c0, [i \in 1 .. Len(rest) |-> i])

-----------------------------------------------------------------------------
(* execute and advance.                                                    *)
At(line, p) == IF p < Len(line) THEN line[p + 1] ELSE NULL

\* cclass: no class holds the end of the line.
cclass(set, c, af) == c # NULL /\ (IF af THEN c \in set ELSE c \notin set)

\* What a piece of code says of one character.
Takes(o, c) ==
  CASE o.op = "CCHR" -> c = o.arg
    [] o.op = "CDOT" -> c # NULL
    [] o.op = "CCL" -> cclass(o.arg, c, TRUE)
    [] o.op = "NCCL" -> cclass(o.arg, c, FALSE)
    [] OTHER -> FALSE

\* Mutant: a star may match nothing where the last match ended.
starForgets(locs, lp) == FALSE

\* A star is not tried where the last match ended.
star(locs, lp) == lp = locs

\* The end of the run of characters o takes from lp.
RECURSIVE RunEnd(_, _, _)
RunEnd(o, line, lp) == IF Takes(o, At(line, lp)) THEN RunEnd(o, line, lp + 1) ELSE lp

\* advance: the code from ep on at lp; a star tries the longest run first.
RECURSIVE advance(_, _, _), tryStar(_, _, _, _)
advance(m, lp, ep) ==
  LET o == m.code[ep]
  IN IF ep > Len(m.code) THEN [m EXCEPT !.loc2 = lp, !.ok = TRUE]
     ELSE IF o.star THEN tryStar(m, lp, RunEnd(o, m.line, lp), ep)
     ELSE CASE o.op = "CBRA" -> advance([m EXCEPT !.bras[o.arg] = lp], lp, ep + 1)
            [] o.op = "CKET" -> advance([m EXCEPT !.braes[o.arg] = lp], lp, ep + 1)
            [] o.op = "CDOL" -> IF At(m.line, lp) = NULL THEN advance(m, lp, ep + 1) ELSE m
            [] OTHER -> IF Takes(o, At(m.line, lp)) THEN advance(m, lp + 1, ep + 1) ELSE m
tryStar(m, curlp, lp, ep) ==
  LET a == advance(m, lp, ep + 1)
  IN IF star(m.locs, lp) THEN m
     ELSE IF a.ok THEN a
     ELSE IF lp > curlp THEN tryStar([m EXCEPT !.bras = a.bras, !.braes = a.braes], curlp, lp - 1, ep)
     ELSE [m EXCEPT !.bras = a.bras, !.braes = a.braes]

\* Every place from p1 on is tried; a first character is checked quickly.
RECURSIVE scan(_, _)
scan(m, p1) ==
  LET quick == m.code # <<>> /\ m.code[1].op = "CCHR" /\ ~m.code[1].star /\ At(m.line, p1) # m.code[1].arg
      a == IF quick THEN m ELSE advance(m, p1, 1)
  IN IF a.ok THEN [a EXCEPT !.loc1 = p1]
     ELSE IF p1 >= Len(m.line) THEN a
     ELSE scan(a, p1 + 1)

\* execute: gf for the matches after the first one.
execute(s, gf) ==
  LET from == IF gf THEN s.loc2 ELSE 0
      m == [s EXCEPT !.ok = FALSE, !.locs = IF gf THEN s.loc2 ELSE NULL, !.from = from]
  IN IF s.circfl THEN (IF gf THEN m ELSE [advance(m, 0, 1) EXCEPT !.loc1 = 0])
     ELSE scan(m, from)

-----------------------------------------------------------------------------
(* dosub and substitute.                                                   *)
place(line, l1, l2) == SubSeq(line, l1 + 1, l2)
Replacement(s) ==
  FlattenSeq([i \in DOMAIN s.rhs |-> IF s.rhs[i] = "&" THEN place(s.line, s.loc1, s.loc2)
                                     ELSE IF s.rhs[i] = "1" THEN place(s.line, s.bras[0], s.braes[0])
                                     ELSE <<s.rhs[i]>>])
dosub(s) ==
  LET head == SubSeq(s.line, 1, s.loc1) \o Replacement(s)
  IN [s EXCEPT !.line = head \o SubSeq(s.line, s.loc2 + 1, Len(s.line)), !.loc2 = Len(head)]

Init ==
  \E pat \in Pattern, line \in Line, rhs \in Rhs :
    r = [pat |-> pat, line |-> line, rhs |-> rhs, circfl |-> FALSE, code |-> <<>>, loc1 |-> 0,
         loc2 |-> 0, locs |-> NULL, from |-> 0, ok |-> FALSE, bras |-> [i \in 0 .. NBRA - 1 |-> 0],
         braes |-> [i \in 0 .. NBRA - 1 |-> 0], pc |-> "compile"]

Compile ==
  /\ r.pc = "compile"
  /\ LET c == compile(r.pat)
     IN r' = IF c.ok THEN [r EXCEPT !.circfl = c.circfl, !.code = c.code, !.pc = "first"] ELSE [r EXCEPT !.pc = "error"]

Execute ==
  /\ r.pc \in {"first", "again"}
  /\ LET x == execute(r, r.pc = "again") IN r' = [x EXCEPT !.pc = IF x.ok THEN "sub" ELSE "done"]

\* With g the rest of the line is searched, unless the match reached its end.
DoSub ==
  /\ r.pc = "sub" /\ Len(r.line) <= MaxLine
  /\ LET s == dosub(r)
     IN \E gsubf \in BOOLEAN : r' = [s EXCEPT !.pc = IF gsubf /\ s.loc2 < Len(s.line) THEN "again" ELSE "done"]

Ended == (r.pc \in {"done", "error"} \/ Len(r.line) > MaxLine) /\ UNCHANGED r
Next == Compile \/ Execute \/ DoSub \/ Ended
Spec == Init /\ [][Next]_vars

-----------------------------------------------------------------------------
(* What a match is: the pieces of code cover neighbouring stretches.       *)
Covers(o, line, i, j) ==
  IF o.star THEN \A p \in i .. j - 1 : Takes(o, line[p + 1])
  ELSE IF o.op \in {"CBRA", "CKET"} THEN i = j
  ELSE IF o.op = "CDOL" THEN i = j /\ i = Len(line)
  ELSE j = i + 1 /\ Takes(o, At(line, i))
Ways(s, i) ==
  {w \in [0 .. Len(s.code) -> i .. Len(s.line)] :
     /\ w[0] = i
     /\ \A k \in 1 .. Len(s.code) : w[k - 1] <= w[k] /\ Covers(s.code[k], s.line, w[k - 1], w[k])
                                    /\ (s.code[k].star => w[k] # s.locs)}
Longer(v, w) == \E k \in DOMAIN v : v[k] > w[k] /\ \A j \in DOMAIN v : j < k => v[j] = w[j]
Best(s, i) == CHOOSE w \in Ways(s, i) : \A v \in Ways(s, i) \ {w} : Longer(w, v)
Starts(s) == {i \in IF s.circfl THEN (IF s.locs = NULL THEN {0} ELSE {}) ELSE s.from .. Len(s.line) : Ways(s, i) # {}}

\* A search finds the first place where the pattern matches and there, star
\* by star, the longest match, with the groups that go with it; and the
\* substitutions of a line come to an end, except for a pattern that is
\* nothing but empty groups (ed.c: compile, execute, advance, dosub).
MatchesAsMeant ==
  /\ r.pc = "sub" =>
       LET i == Min(Starts(r))
           w == Best(r, i)
       IN /\ Starts(r) # {} /\ r.loc1 = i /\ r.loc2 = w[Len(r.code)]
          /\ \A k \in DOMAIN r.code : /\ r.code[k].op = "CBRA" => r.bras[r.code[k].arg] = w[k]
                                      /\ r.code[k].op = "CKET" => r.braes[r.code[k].arg] = w[k]
  /\ r.pc = "done" /\ ~r.ok => Starts(r) = {}
  /\ Len(r.line) > MaxLine => \A k \in DOMAIN r.code : r.code[k].op \in {"CBRA", "CKET"}

=============================================================================
