------------------------------ MODULE Terminal ------------------------------
(***************************************************************************)
(* Virtual terminals, the screen and the keyboard (drivers/tty/virtterm.c, *)
(* screen.c, keyboard.c).                                                  *)
(*                                                                         *)
(*   vt[n]     terminal n: its circular buffer, head, tail and top, which  *)
(*             begin rows, and the cursor, all places in the buffer        *)
(*   cur       the terminal that is shown                                  *)
(*   screen    video memory, and where the cursor is shown                 *)
(*   curmask   whether the control key is held down                        *)
(*   astray    whether the cursor was away from the screen and not in the  *)
(*             last row when a character came (history)                    *)
(***************************************************************************)
EXTENDS Integers, FiniteSets

CONSTANTS NTERMS, DISPLAY_WIDTH, DISPLAY_HEIGHT,
          ROWS,        \* rows of the scroll buffer
          Glyph,       \* characters that are displayed
          BLANK

VARIABLES vt, cur, screen, curmask, astray
vars == <<vt, cur, screen, curmask, astray>>

Term == 0 .. NTERMS - 1
DISPLAY_SIZE == DISPLAY_WIDTH * DISPLAY_HEIGHT
SCROLL_BUFSIZE == ROWS * DISPLAY_WIDTH
Place == 0 .. SCROLL_BUFSIZE - 1

circ_dist(to, from) == (to - from + SCROLL_BUFSIZE) % SCROLL_BUFSIZE
next_row(i) == ((i \div DISPLAY_WIDTH + 1) * DISPLAY_WIDTH) % SCROLL_BUFSIZE
buf_add(ptr, amt) == (ptr + amt + SCROLL_BUFSIZE) % SCROLL_BUFSIZE

-----------------------------------------------------------------------------
(* What is drawn.                                                          *)

\* vt_redraw: from top to tail, as much as the screen holds; a buffer that
\* wraps is copied in two parts.
Drawn(t) ==
  [i \in 0 .. DISPLAY_SIZE - 1 |->
     IF t.top <= t.tail
     THEN IF i < t.tail - t.top THEN t.buf[t.top + i] ELSE BLANK
     ELSE LET first == SCROLL_BUFSIZE - t.top
          IN IF i < first THEN t.buf[t.top + i] ELSE IF i - first < t.tail THEN t.buf[i - first] ELSE BLANK]
vt_cursor_redraw(t) == circ_dist(t.cursor, t.top)
vt_redraw(t) == [text |-> Drawn(t), cursor |-> vt_cursor_redraw(t)]

\* Mutant: space gained at the tail is not cleared.
clearForgets(t, from, to) == t.buf

\* The space gained at the tail is cleared.
clear(t, from, to) ==
  [i \in Place |-> IF (IF from <= to THEN from <= i /\ i < to ELSE from <= i \/ i < to) THEN BLANK ELSE t.buf[i]]

\* handle_tail: the cursor moves on to new; the tail and then the head give
\* way to it.
handle_tail(t, new) ==
  LET tail == next_row(new)
  IN IF circ_dist(new, t.cursor) < circ_dist(t.tail, t.cursor) THEN [t EXCEPT !.cursor = new]
     ELSE [t EXCEPT !.cursor = new, !.tail = tail, !.buf = clear(t, t.tail, tail),
                    !.head = IF circ_dist(t.tail, t.head) >= circ_dist(t.tail, tail) THEN next_row(tail) ELSE @]

vt_handle_char(t, c) ==
  CASE c = "back" -> [t EXCEPT !.cursor = IF @ # t.head THEN buf_add(@, -1) ELSE @]
    [] c = "return" -> [t EXCEPT !.cursor = (@ \div DISPLAY_WIDTH) * DISPLAY_WIDTH]
    [] c = "newline" -> handle_tail(t, next_row(t.cursor))
    [] OTHER -> handle_tail([t EXCEPT !.buf[t.cursor] = c], buf_add(t.cursor, 1))

\* A cursor that is not on the screen comes to its last row.
ToCursor(t) ==
  IF circ_dist(t.cursor, t.top) >= DISPLAY_SIZE
  THEN [t EXCEPT !.top = buf_add(next_row(t.cursor), -DISPLAY_SIZE)] ELSE t

\* vt_provide_char: one character is put where the cursor was, or the screen
\* drawn again if its top has moved.
vt_provide_char(n, c) ==
  LET old == vt[n]
      new == vt_handle_char(ToCursor(old), c)
      put == [screen.text EXCEPT ![circ_dist(old.cursor, new.top)] = c]
  IN /\ n = 0 \/ new.tail = DISPLAY_WIDTH      \* Bound: the other terminals have one row
     /\ vt' = [vt EXCEPT ![n] = new]
     /\ screen' = IF n # cur THEN screen
                  ELSE IF old.top # new.top THEN vt_redraw(new)
                  ELSE [text |-> IF c \in Glyph THEN put ELSE screen.text, cursor |-> vt_cursor_redraw(new)]
     /\ astray' = (astray \/ (circ_dist(old.cursor, old.top) >= DISPLAY_SIZE /\ next_row(old.cursor) # old.tail))
     /\ UNCHANGED <<cur, curmask>>

-----------------------------------------------------------------------------
(* The keyboard.                                                           *)

vt_switch(n) ==
  IF n \in Term THEN cur' = n /\ screen' = vt_redraw(vt[n]) /\ UNCHANGED vt ELSE UNCHANGED <<cur, screen, vt>>

vt_scroll(lines, up) ==
  LET t == vt[cur]
      by == lines * DISPLAY_WIDTH
      top == IF up THEN IF circ_dist(t.top, t.head) < by THEN t.head ELSE buf_add(t.top, -by)
             ELSE IF circ_dist(t.tail, t.top) < by + DISPLAY_WIDTH THEN buf_add(t.tail, -DISPLAY_WIDTH)
             ELSE buf_add(t.top, by)
  IN vt' = [vt EXCEPT ![cur].top = top] /\ screen' = vt_redraw(vt'[cur]) /\ UNCHANGED cur

Key == {"ctrl", "enter", "backspace"}

\* keyboard_intr_handler, but for the characters it hands on.  The codes that
\* announce an escaped key ("esc") have the bit of a release, so they are taken
\* for the release of some other key, of which nothing is remembered.
Release(k) == curmask' = (curmask /\ k # "ctrl") /\ UNCHANGED <<vt, cur, screen>>

Press(k) ==
  /\ curmask' = (curmask \/ k = "ctrl")
  /\ \/ curmask /\ k = "enter" /\ vt_scroll(DISPLAY_HEIGHT, FALSE)
     \/ curmask /\ k = "backspace" /\ vt_scroll(DISPLAY_HEIGHT, TRUE)
     \/ (k = "ctrl" \/ ~curmask) /\ UNCHANGED <<vt, cur, screen>>

\* A function key: there are more of them than terminals.
FunctionKey(n) == vt_switch(n) /\ UNCHANGED curmask

Init ==
  /\ vt = [n \in Term |-> [buf |-> [i \in Place |-> BLANK],
                           top |-> 0, cursor |-> 0, head |-> 0, tail |-> DISPLAY_WIDTH]]
  /\ cur = 0 /\ screen = vt_redraw(vt[0]) /\ curmask = FALSE /\ astray = FALSE

\* Bound: a cursor that has left the screen other than by its last row is
\* followed for one character.
Next ==
  \/ ~astray /\ \E n \in Term, c \in Glyph \cup {"back", "return", "newline"} : vt_provide_char(n, c)
  \/ ~astray /\ UNCHANGED astray /\ ((\E k \in {"ctrl", "esc"} : Release(k)) \/ \E k \in Key : Press(k))
  \/ ~astray /\ UNCHANGED astray /\ \E n \in 0 .. NTERMS : FunctionKey(n)
  \/ astray /\ UNCHANGED vars

Spec == Init /\ [][Next]_vars

-----------------------------------------------------------------------------
\* The cursor stays between head and tail.  As long as the cursor left the
\* screen only by the last row of the buffer, as vt_provide_char takes for
\* granted, the top of the screen is there too, and the screen shows the
\* current terminal, whether drawn whole or changed by one character.
TerminalShown ==
  /\ \A n \in Term : circ_dist(vt[n].cursor, vt[n].head) < circ_dist(vt[n].tail, vt[n].head)
  /\ ~astray => /\ screen.text = Drawn(vt[cur]) /\ screen.cursor = circ_dist(vt[cur].cursor, vt[cur].top)
                /\ \A n \in Term : circ_dist(vt[n].top, vt[n].head) < circ_dist(vt[n].tail, vt[n].head)

=============================================================================
