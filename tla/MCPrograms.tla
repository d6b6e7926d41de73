----------------------------- MODULE MCPrograms -----------------------------
(***************************************************************************)
(* Instances of Malloc, Shell, Ed, EdRegex, Linker, Quad and Printf for    *)
(* TLC.  The variable job says from the start which of them runs; st is    *)
(* its state, but for the shell, which has variables of its own.           *)
(***************************************************************************)
EXTENDS Integers, Sequences, TLC

CONSTANTS exe, liba, libb, libc, NONE, NULL, NUL, GARBAGE

VARIABLES job, st, p, tmp, stuck, mapped, lost, stop, lines

shell == <<p, tmp, stuck, mapped, lost, stop, lines>>
MCvars == <<job, st, shell>>

-----------------------------------------------------------------------------
\* A heap of four pages of eight words, two of them in use from the start.
Heap == INSTANCE Malloc WITH
  s <- st, NPages <- 4, pagesize <- 8, malloc_minsize <- 2, ADMIN <- 1, malloc_cache <- 1,
  Size <- {1, 4, 12}, MaxLive <- 2

-----------------------------------------------------------------------------
\* Two command lines, with every order of redirections that a test of the shell
\* would hardly have, and too many of them.
R(kind, from, dfd) == [kind |-> kind, from |-> from, dfd |-> dfd]
Redirs ==
  {<<>>, <<R("open", "f", 1)>>, <<R("open", "f", 1), R("dup", 1, 2)>>, <<R("dup", 1, 2), R("open", "f", 1)>>,
   <<R("open", "f", 0), R("open", "g", 0)>>, <<R("open", "f", 1), R("bad", "f", 0)>>, <<R("open", "f", 3)>>,
   <<R("dup", 5, 1)>>, <<R("open", "f", 0), R("open", "g", 1), R("open", "f", 2)>>}
Cmds == {<<>>, <<"extern">>, <<"cp">>, <<"repeat", "extern">>, <<"repeat", "cat">>, <<"parallel", "extern">>, <<"parallel", "cat">>}
CommandLines ==
  {[redirs |-> r, cmd |-> <<x>>, n |-> 0] : r \in Redirs, x \in {"extern", "cat"}} \cup
  {[redirs |-> <<R("open", "f", 1)>>, cmd |-> x, n |-> 2] : x \in Cmds} \cup
  {[redirs |-> <<>>, cmd |-> <<x>>, n |-> 0] : x \in {"priv", "null", "zero", "malloc", "sbrk", "wrnoent", "unlink", "sparse", "mkdir"}} \cup
  {[redirs |-> <<>>, cmd |-> <<"parallel", "cat">>, n |-> 3]}
Sh == INSTANCE Shell WITH
  NProc <- 5, NFILES <- 7, REDIR_MAX <- 2, MAXCMDS <- 2, Line <- CommandLines, MaxLines <- 2

-----------------------------------------------------------------------------
\* A buffer of three lines, of which a block holds two.
Editor == INSTANCE Ed WITH
  e <- st, Text <- {"x", "y"}, Matches <- {"x"}, Subst <- "x" :> <<"y", "x">>,
  BLK <- 2, Cap <- 3, MaxText <- 3, MaxNew <- 1

\* Every pattern of three items and some longer ones.
Tokens == {"^", "$", ".", "*", "(", ")", "a", "b", "[a]", "[^a]"}
Patterns ==
  UNION {[1 .. n -> Tokens] : n \in 1 .. 3}
    \cup {<<"a", "*", "b", "a">>, <<"a", "*", ".", "*">>, <<"(", "a", "*", ")", "b">>, <<"(", ".", ")", "*">>,
          <<"(", "a", ")", "(", "b">>, <<".", "*", "a", ".", "*">>, <<"[^a]", "*", "(", "a", "*">>}
Regex == INSTANCE EdRegex WITH
  r <- st, Pattern <- Patterns, Rhs <- {<<"b">>, <<"1", "&">>}, NBRA <- 1, MaxLine <- 8,
  Line <- UNION {[1 .. n -> {"a", "b"}] : n \in 0 .. 3}

-----------------------------------------------------------------------------
\* Programs for the run time linker: an executable and three libraries, with
\* the ways in which they need each other; a symbol f with every choice of
\* bindings, and a variable v that the executable copies.
BindNow == <<"L", "D", "B">>
LibraryPath == <<"L", "D", "P">>
Entry(name, val) == [name |-> name, val |-> val]
Seg(vaddr, offset, filesz, memsz) == [vaddr |-> vaddr, offset |-> offset, filesz |-> filesz, memsz |-> memsz]
Rel(type, sym) == [type |-> type, sym |-> sym]
Fn(x, y, z, w) == [m \in {exe, liba, libb, libc} |-> CASE m = exe -> x [] m = liba -> y [] m = libb -> z [] OTHER -> w]

Usual ==
  [needed |-> Fn(<<liba, libb>>, <<>>, <<>>, <<>>), rpath |-> [m \in {exe, liba, libb, libc} |-> <<>>], env |-> <<>>,
   inDir |-> [d \in {".", "lib", "usr", "own"} |-> IF d = "lib" THEN {liba, libb, libc} ELSE {}],
   sym |-> Fn([f |-> "UNDEF", v |-> "GLOBAL"], [f |-> "GLOBAL", v |-> "GLOBAL"],
              [f |-> "UNDEF", v |-> "UNDEF"], [f |-> "NONE", v |-> "NONE"]),
   rel |-> Fn(<<Rel("COPY", "v")>>, <<Rel("RELATIVE", "v"), Rel("GLOB_DAT", "v")>>,
              <<Rel("32", "v"), Rel("GLOB_DAT", "f"), Rel("RELATIVE", "f")>>, <<Rel("RELATIVE", "f")>>),
   plt |-> Fn(<<"f">>, <<"f">>, <<"f">>, <<"f">>), seg |-> [m \in {liba, libb, libc} |-> <<Seg(0, 0, 2, 2)>>],
   now |-> {}, amount |-> 100]

\* Who needs whom.
Dependencies ==
  {[Usual EXCEPT !.needed = Fn(x, y, z, w)] :
     x \in {<<liba>>, <<libb>>, <<liba, libb>>, <<libb, liba>>}, y \in {<<>>, <<libb>>, <<libc, libb>>}, z \in {<<>>, <<liba>>, <<liba, libc>>, <<libc>>},
     w \in {<<>>, <<liba>>}}

\* Whose f it is, with early or late binding.
Bindings ==
  {[Usual EXCEPT !.needed = Fn(<<liba, libb>>, y, <<libc>>, <<>>), !.now = now, !.sym[exe].f = x, !.sym[liba].f = q, !.sym[libb].f = r,
                 !.sym[libc].f = t, !.sym[exe].v = u, !.sym[libb].v = "WEAK"] :
     y \in {<<>>, <<libc>>}, now \in {{}, {libb}}, x \in {"UNDEF", "GLOBAL"}, q \in {"UNDEF", "GLOBAL", "WEAK"},
     r \in {"UNDEF", "GLOBAL", "LOCAL"}, t \in {"NONE", "WEAK", "GLOBAL"}, u \in {"GLOBAL", "WEAK"}}

\* Where libraries are found, and what the environment says.
Places ==
  {[Usual EXCEPT !.needed = Fn(<<libb>>, <<>>, <<libc>>, <<>>), !.env = e, !.inDir[d] = {libc}, !.inDir["lib"] = {libb},
                 !.rpath[libb] = r, !.amount = n] :
     e \in {<<>>, <<Entry(BindNow, <<>>)>>, <<Entry(<<"L", "A">>, <<>>), Entry(BindNow, <<>>)>>,
            <<Entry(<<"H">>, <<>>), Entry(LibraryPath, <<"usr", "own">>)>>},
     d \in {".", "lib", "usr", "own"}, r \in {<<>>, <<"own">>}, n \in {1, 5, 10, 100}}

\* Segments that begin and end anywhere in a page.
Segments ==
  {[Usual EXCEPT !.needed = Fn(<<liba>>, <<>>, <<>>, <<>>),
                 !.seg[liba] = <<Seg(0, 0, 3, 3), Seg(4 + o, 4 * k + o, fz, fz + z)>>] :
     o \in 0 .. 3, k \in 1 .. 2, fz \in 0 .. 6, z \in 0 .. 6}

World == Dependencies \cup Bindings \cup Places \cup Segments

Ld == INSTANCE Linker WITH
  s <- st, Exe <- exe, Lib <- {liba, libb, libc}, BIND_NOW <- BindNow, LIBRARY_PATH <- LibraryPath,
  default_runpath <- <<"lib">>, PAGESIZE <- 4, MaxAddr <- 20, MODULE_WORDS <- 3, ENTRY_WORDS <- 1, NOWHERE <- NONE

-----------------------------------------------------------------------------
\* A long has four bits, a quad eight.
Division == INSTANCE Quad WITH d <- st, HALF_BITS <- 2

\* Conversions, numbers and reports: an int has eight bits.
Item(conv, flags, width, prec, qual, lit) ==
  [conv |-> conv, flags |-> flags, width |-> width, prec |-> prec, qual |-> qual, lit |-> lit]
Plain(conv) == Item(conv, {}, -1, -1, "", "")

Bits == [q \in {"", "h", "l", "L", "Z"} |-> CASE q = "h" -> 4 [] q = "L" -> 10 [] OTHER -> 8]

Conversions ==
  {Item(conv, flags, width, prec, qual, "") :
     conv \in {"d", "u", "x", "X", "o"}, flags \in SUBSET {"-", "+", " ", "#", "0"},
     width \in {-1, 3, 6}, prec \in {-1, 4}, qual \in {"", "h", "L"}}
    \cup {Item(conv, flags, 6, -1, qual, "") :
            conv \in {"i", "u"}, flags \in SUBSET {"-", "+", " ", "#", "0"}, qual \in {"", "Z"}}
Numbers == {-128, -9, 0, 8, 300}

Lit(ch) == Item("", {}, -1, -1, "", ch)
Wide(conv, width) == Item(conv, {}, width, -1, "", "")
Say(fmt, args, scan, num, vals) == [fmt |-> fmt, args |-> args, scan |-> scan, num |-> num, vals |-> vals]
Reports ==
  {\* "%3s:%u" is " vm:10"
   Say(<<Wide("s", 3), Lit(":"), Plain("u")>>, <<<<"v", "m">>, 0, 10>>,
       <<Wide("s", 2), Lit(":"), Plain("n"), Plain("i")>>, 2, <<<<"v", "m">>, 4, 10>>),
   \* "%-.1s%-2c" is "vr "
   Say(<<Item("s", {"-"}, -1, 1, "", ""), Item("c", {"-"}, 2, -1, "", "")>>, <<<<"v", "m">>, "r">>,
       <<Wide("c", 2), Plain("ws"), Plain("u")>>, 1, <<<<"v", "r">>>>),
   \* "%p%%" is "05%"
   Say(<<Plain("p"), Plain("%")>>, <<5, 0>>, <<Plain("x"), Plain("%"), Plain("d")>>, 1, <<5>>),
   \* "%k 7"
   Say(<<Plain("k"), Lit(" "), Plain("d"), Plain("n")>>, <<0, 0, 7, 0>>,
       <<Plain("*"), Plain("ws"), Plain("d")>>, 1, <<7>>),
   Say(<<>>, <<>>, <<Lit("a")>>, 0, <<>>)}

Format == INSTANCE Printf WITH
  p <- st, Conversion <- Conversions, Argument <- Numbers, Report <- Reports, SIZE <- 8, BITS <- Bits

-----------------------------------------------------------------------------
Idle == p = NONE /\ tmp = NONE /\ stuck = NONE /\ mapped = NONE /\ lost = NONE /\ stop = NONE /\ lines = NONE
MCInit ==
  \/ job = "malloc" /\ Heap!Init /\ Idle
  \/ job = "sh" /\ Sh!Init /\ st = NONE
  \/ job = "ed" /\ Editor!Init /\ Idle
  \/ job = "regex" /\ Regex!Init /\ Idle
  \/ job = "ld" /\ Ld!Init /\ Idle
  \/ job = "quad" /\ Division!Init /\ Idle
  \/ job = "printf" /\ Format!Init /\ Idle
MCNext ==
  /\ UNCHANGED job
  /\ \/ job = "malloc" /\ Heap!Next /\ UNCHANGED shell
     \/ job = "sh" /\ Sh!Next /\ UNCHANGED st
     \/ job = "ed" /\ Editor!Next /\ UNCHANGED shell
     \/ job = "regex" /\ Regex!Next /\ UNCHANGED shell
     \/ job = "ld" /\ Ld!Next /\ UNCHANGED shell
     \/ job = "quad" /\ Division!Next /\ UNCHANGED shell
     \/ job = "printf" /\ Format!Next /\ UNCHANGED shell
MCSpec == MCInit /\ [][MCNext]_MCvars

-----------------------------------------------------------------------------
\* Every piece of the heap in use has one owner and is large enough, so malloc
\* hands none out twice; and the free list and the buckets hold exactly what is
\* free (malloc.c:861, :939).
HeapSound == job = "malloc" => Heap!HeapOwned /\ Heap!FreeListsExact

\* Back at the prompt the shell has waited for its children and lost descriptors
\* only on the listed paths; a command gets the files its line names; and a check
\* that reports success has seen every call succeed (sh.c: do_redirect, parse, the checks).
ShellSound == job = "sh" => Sh!ShellTidy /\ Sh!RedirectsDone /\ Sh!ChecksReport

\* The lines read back through the editor's two buffers are those a sequence of
\* lines would have; and a search finds the first and, star by star, longest
\* match (ed.c: getblock, append, substitute, execute, advance).
EditorSound == (job = "ed" => Editor!EditsAsTold) /\ (job = "regex" => Regex!MatchesAsMeant)

\* When code of a program runs, each library is there once, relocated once, every
\* symbol means the same to all, and a segment holds the bytes of its file and
\* then zeroes (ldstart.c, ldresolve.c, ldreloc_i386.c).
LinkerSound == job = "ld" => Ld!LinkedAsMeant /\ Ld!ImageExact

\* ldstart.c:480 "Load the executable and all of it's dependencies".
DependenciesLoaded == job = "ld" => Ld!DependenciesLoaded

\* Quotient, remainder and signed quotient of every pair of quads are exact, the
\* estimate of a digit and its rare correction included (math.c: __qdivrem, __divdi3).
DivisionExact == job = "quad" => Division!DivisionExact

\* What is printed fits the buffer, is the number with its sign, width and
\* precision, and reads back as itself; and a report is the beginning of all that
\* was said (printf.c: number, vsnprintf, iprintf, vsscanf).
PrintsAsTold == job = "printf" => Format!PrintsAsTold
=============================================================================
