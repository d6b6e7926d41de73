------------------------------- MODULE Linker -------------------------------
(***************************************************************************)
(* The run time linker (user/lib/ld-weenix: ldstart.c, ldresolve.c,        *)
(* ldreloc_i386.c, ldnames.c, ldalloc.c).                                  *)
(*                                                                         *)
(* A program is a record w of what its files say:                          *)
(*   needed, rpath   the libraries a module names, and its run path        *)
(*   env, inDir      the environment, and the libraries of a directory     *)
(*   sym             the binding of a module's entry for a symbol, "UNDEF" *)
(*                   for one it only uses, "NONE" without an entry         *)
(*   rel, plt        its relocations and the symbols of its PLT slots      *)
(*   seg             the segments of a library, in bytes                   *)
(*   now             the modules with DT_BIND_NOW                          *)
(*   amount          the words of the linker's pool                        *)
(* An address is a pair of module and symbol, 0 is NOWHERE.  The record s: *)
(*   pc, at          the loop of _ldstart and where it is in the chain     *)
(*   chain, names    the modules from _ldfirst on, and the names added     *)
(*   pos, fds        words taken from the pool, and open descriptors       *)
(*   runpath, bind   the run path a module was given, _ldenv.ld_bind_now   *)
(*   relocated       the modules _ldrelocobj is done with                  *)
(*   image           the file offset at an address of the module loaded    *)
(*   word, slot      a relocated word, a PLT slot: how often the base was  *)
(*                   added, the address put there, and whether a copied    *)
(*                   object's module had been relocated                    *)
(*   ran             the init and fini functions that ran                  *)
(* A segment starts at the same place in a page of memory and of the file, *)
(* and libraries are linked at 0.  Protections are left out.               *)
(***************************************************************************)
EXTENDS Integers, SequencesExt, FiniteSetsExt

CONSTANTS
  Exe, Lib,
  World,           \* the programs
  BIND_NOW, LIBRARY_PATH,   \* names of variables, as sequences of letters
  default_runpath, \* a sequence of directories
  PAGESIZE, MaxAddr,        \* bytes of a page, and bound of addresses
  MODULE_WORDS, ENTRY_WORDS,
  NOWHERE

VARIABLE s
vars == <<s>>

Module == {Exe} \cup Lib
Addr == 0 .. MaxAddr
UNMAPPED == -2
ZERO == -1
NoWord == [n |-> 0, v |-> NOWHERE, ready |-> TRUE]

-----------------------------------------------------------------------------
(* The environment, the pool and the names.                                *)

Common(p, q) == Max({k \in 0 .. Len(p) : k <= Len(q) /\ SubSeq(p, 1, k) = SubSeq(q, 1, k)})

\* _ldgetenv does not go back to the start of var for the next entry.
_ldgetenv(env, var) ==
  LET Step(a, e) == IF a.found # 0 THEN a
                    ELSE LET k == Common(e.name, a.var)
                         IN [found |-> IF k = Len(e.name) /\ k = Len(a.var) THEN a.i ELSE 0,
                             var |-> SubSeq(a.var, k + 1, Len(a.var)), i |-> a.i + 1]
  IN FoldLeft(Step, [found |-> 0, var |-> var, i |-> 1], env).found

\* The value starts with the sign =, so that its first directory is not one.
library_path(env) ==
  LET i == _ldgetenv(env, LIBRARY_PATH) IN IF i = 0 THEN <<>> ELSE <<"=">> \o Tail(env[i].val)

Die(t) == [t EXCEPT !.pc = "exit"]
_ldalloc(t, size) ==
  IF t.pc = "exit" THEN t
  ELSE IF t.pos + size > t.w.amount THEN Die(t) ELSE [t EXCEPT !.pos = @ + size]

_ldaddname(t, name) ==
  LET a == _ldalloc(t, ENTRY_WORDS) IN IF a.pc = "exit" THEN a ELSE [a EXCEPT !.names = @ \cup {name}]
_ldchkname(t, name) == name \in t.names

-----------------------------------------------------------------------------
(* Loading.                                                                *)

AddModule(t, m, name) ==
  LET a == _ldaddname(_ldalloc(_ldaddname(t, name), MODULE_WORDS), name)
  IN IF a.pc = "exit" THEN a
     ELSE [a EXCEPT !.chain = Append(@, name), !.runpath[name] = t.w.rpath[m]]

\* Mutant: names are not compared with the ones that are known.
_ldlinkobjTwice(t, m) ==
  FoldLeft(LAMBDA a, name : IF a.pc = "exit" THEN a ELSE AddModule(a, m, name), t, t.w.needed[m])

\* _ldlinkobj: a library's dependencies join the end of the chain, up to the
\* first one that is known.
_ldlinkobj(t, m) ==
  LET Step(a, name) ==
        IF a.over \/ a.t.pc = "exit" THEN a
        ELSE IF _ldchkname(a.t, name) THEN [a EXCEPT !.over = TRUE]
        ELSE [a EXCEPT !.t = AddModule(a.t, m, name)]
  IN FoldLeft(Step, [t |-> [t EXCEPT !.bind = @ \/ m \in t.w.now], over |-> FALSE], t.w.needed[m]).t

\* The bare name is tried before the directories of a path, and nothing
\* without a path.
_ldtryopen(t, name, path) ==
  path # <<>> /\ \E d \in Range(<<".">> \o path) : d \in DOMAIN t.w.inDir /\ name \in t.w.inDir[d]

trunc_page(x) == (x \div PAGESIZE) * PAGESIZE
round_page(x) == trunc_page(x + PAGESIZE - 1)

Put(image, addr, bytes) ==
  [a \in DOMAIN image |-> IF a - addr \in DOMAIN bytes THEN bytes[a - addr] ELSE image[a]]
Bytes(from, len) == [i \in 0 .. len - 1 |-> from + i]

\* _ldmapsect: whole pages of the file, then pages of zeroes into which the
\* last part of the file is read.
_ldmapsect(image, g) ==
  LET end == g.offset + g.filesz
      fileEnd == IF g.memsz > g.filesz THEN trunc_page(end) ELSE round_page(end)
      fileAddr == trunc_page(g.offset)
      file == Put(image, trunc_page(g.vaddr), Bytes(fileAddr, fileEnd - fileAddr))
      zaddr == trunc_page(g.vaddr + g.filesz)
      zlen == round_page(g.vaddr + g.memsz) - zaddr
      zeroes == Put(file, zaddr, [i \in 0 .. zlen - 1 |-> ZERO])
  IN IF g.memsz = g.filesz THEN file
     ELSE IF zlen = 0 THEN file
     ELSE Put(zeroes, zaddr, Bytes(trunc_page(end), end - trunc_page(end)))

Image(segs) == FoldLeft(_ldmapsect, [a \in Addr |-> UNMAPPED], segs)

\* _ldloadobj: found on one of three paths or not; a mapping may fail.
_ldloadobj(t, m, mapped) ==
  LET paths == <<library_path(t.w.env), t.runpath[m], default_runpath>>
  IN IF ~(\E i \in 1 .. 3 : _ldtryopen(t, m, paths[i])) THEN Die(t)
     ELSE IF ~mapped THEN Die([t EXCEPT !.fds = @ + 1])
     ELSE _ldlinkobj([t EXCEPT !.image = Image(t.w.seg[m])], m)

-----------------------------------------------------------------------------
(* Resolving and relocating.                                               *)

\* _ldsymbol: the module's entry, if it has the binding asked for.
_ldsymbol(t, m, name, binding) == IF t.w.sym[m][name] = binding THEN <<m, name>> ELSE NOWHERE

First(t, name, binding, Mods) ==
  LET at == {i \in DOMAIN t.chain : t.chain[i] \in Mods /\ _ldsymbol(t, t.chain[i], name, binding) # NOWHERE}
  IN IF at = {} THEN NOWHERE ELSE <<t.chain[Min(at)], name>>

\* _ldresolve: global in the chain, then weak, then local; exclude leaves the
\* module out of the first search only.
_ldresolve(t, m, name, exclude) ==
  LET global == First(t, name, "GLOBAL", IF exclude THEN Module \ {m} ELSE Module)
      weak == First(t, name, "WEAK", Module)
  IN IF global # NOWHERE THEN global
     ELSE IF weak # NOWHERE THEN weak ELSE _ldsymbol(t, m, name, "LOCAL")

\* One relocation; a symbol that is not found ends those of the module.
Relocated(t, m, i) ==
  LET r == t.w.rel[m][i]
      v == _ldresolve(t, m, r.sym, r.type = "COPY")
  IN IF r.type = "RELATIVE" THEN [t EXCEPT !.word[m][i].n = @ + 1]
     ELSE IF r.type = "COPY" THEN [t EXCEPT !.word[m][i] = [n |-> 0, v |-> v, ready |-> v # NOWHERE /\ v[1] \in t.relocated]]
     ELSE [t EXCEPT !.word[m][i].v = v]
_ldrelocobj(t, m) ==
  LET Step(a, i) ==
        IF a.over THEN a
        ELSE LET b == Relocated(a.t, m, i)
             IN [t |-> b, over |-> t.w.rel[m][i].type \notin {"RELATIVE", "COPY"} /\ b.word[m][i].v = NOWHERE]
      r == FoldLeft(Step, [t |-> t, over |-> FALSE], [i \in DOMAIN t.w.rel[m] |-> i])
  IN [r.t EXCEPT !.relocated = @ \cup {m}]

_ldrelocplt(t, m) == [t EXCEPT !.slot[m] = [i \in DOMAIN @ |-> [@[i] EXCEPT !.n = @ + 1]]]

\* _rtresolve and _ldbindnow put the address in the slot.
Bind(t, m, i) == [t EXCEPT !.slot[m][i].v = _ldresolve(t, m, t.w.plt[m][i], FALSE)]
_ldbindnow(t, m) == FoldLeft(LAMBDA a, i : Bind(a, m, i), t, [i \in DOMAIN t.w.plt[m] |-> i])

-----------------------------------------------------------------------------
(* _ldstart.                                                               *)

Init ==
  \E w \in World :
    s = [w |-> w, pc |-> "boot", at |-> 1, chain |-> <<Exe>>, names |-> {}, pos |-> 0, fds |-> 0, bind |-> FALSE,
         runpath |-> [m \in Lib |-> <<>>], image |-> [a \in Addr |-> UNMAPPED], relocated |-> {},
         word |-> [m \in Module |-> [i \in DOMAIN w.rel[m] |-> NoWord]],
         slot |-> [m \in Module |-> [i \in DOMAIN w.plt[m] |-> NoWord]], ran |-> <<>>]

\* The pool, the environment and the executable.
Boot ==
  /\ s.pc = "boot"
  /\ LET t == [s EXCEPT !.pc = "load", !.at = 2, !.bind = _ldgetenv(s.w.env, BIND_NOW) # 0]
     IN s' = _ldlinkobj(_ldalloc(t, MODULE_WORDS), Exe)

\* A loop over the modules of the chain, the first one included or not; t is
\* what its body makes of s for the module at hand.
Loop(pc, t, then, from) ==
  /\ s.pc = pc
  /\ s' = IF s.at <= Len(s.chain) THEN [t EXCEPT !.at = @ + 1]
          ELSE [s EXCEPT !.pc = then, !.at = from]
AtHand == s.chain[s.at]

Load == \E mapped \in BOOLEAN : Loop("load", _ldloadobj(s, AtHand, mapped), "reloc", 2)
Reloc == Loop("reloc", _ldrelocobj(s, AtHand), "relocexe", 1)

\* An object that is not found is copied from address 0, or not at all: its
\* size was never set.
RelocExe ==
  /\ s.pc = "relocexe"
  /\ LET t == _ldrelocobj(s, Exe)
     IN \/ s' = [t EXCEPT !.pc = "plt", !.at = 1]
        \/ /\ \E i \in DOMAIN s.w.rel[Exe] : s.w.rel[Exe][i].type = "COPY" /\ t.word[Exe][i].v = NOWHERE
           /\ s' = [s EXCEPT !.pc = "exit"]
RelocPlt == Loop("plt", _ldrelocplt(s, AtHand), IF s.bind THEN "bind" ELSE "init", IF s.bind THEN 1 ELSE 2)
BindNow == Loop("bind", _ldbindnow(s, AtHand), "init", 2)
RunInit == Loop("init", [s EXCEPT !.ran = Append(@, <<"init", AtHand>>)], "run", 1)

\* Code that runs calls through a slot, which leads to _rtresolve until it is
\* bound.  A symbol that is not found sends the program to address 0.
Call ==
  /\ s.pc \in {"init", "run", "fini"}
  /\ \E m \in Range(s.chain) : \E i \in DOMAIN s.slot[m] :
       LET t == IF s.slot[m][i].v = NOWHERE THEN Bind(s, m, i) ELSE s
       IN s' = IF t.slot[m][i].v = NOWHERE THEN [t EXCEPT !.pc = "exit"] ELSE t

\* The program returns to _ldcleanup.
Return == s.pc = "run" /\ s' = [s EXCEPT !.pc = "fini", !.at = 2]
RunFini == Loop("fini", [s EXCEPT !.ran = Append(@, <<"fini", AtHand>>)], "exit", 1)
Ended == s.pc = "exit" /\ UNCHANGED s

Next == Boot \/ Load \/ Reloc \/ RelocExe \/ RelocPlt \/ BindNow \/ RunInit \/ Call \/ Return \/ RunFini \/ Ended
Spec == Init /\ [][Next]_vars

-----------------------------------------------------------------------------
(* What linking is for.                                                    *)
Running == s.pc \in {"init", "run", "fini"}
Mods == Range(s.chain)
Place(m) == CHOOSE i \in DOMAIN s.chain : s.chain[i] = m

\* A dependency is left out behind one that was known before.
LeftOut(m, i) ==
  \E j \in 1 .. i - 1 : \/ \E k \in 1 .. j - 1 : s.w.needed[m][k] = s.w.needed[m][j]
                        \/ \E o \in Mods : Place(o) < Place(m) /\ s.w.needed[m][j] \in Range(s.w.needed[o])

\* The definition that everyone who names a symbol should get.
Defines(name, b) == {m \in Mods : s.w.sym[m][name] = b}
Meant(m, name) ==
  LET Earliest(S) == CHOOSE x \in S : \A y \in S : Place(x) <= Place(y)
  IN IF Defines(name, "GLOBAL") # {} THEN <<Earliest(Defines(name, "GLOBAL")), name>>
     ELSE IF Defines(name, "WEAK") # {} THEN <<Earliest(Defines(name, "WEAK")), name>>
     ELSE IF s.w.sym[m][name] = "LOCAL" THEN <<m, name>> ELSE NOWHERE

\* The relocations before one that names an unknown symbol are all done.
Reached(m, i) ==
  \A j \in 1 .. i : s.w.rel[m][j].type \in {"RELATIVE", "COPY"} \/ Meant(m, s.w.rel[m][j].sym) # NOWHERE

\* When code of a program runs, each library is there once and its init
\* function has its turn once; its dependencies are there too, but those
\* named behind one that was already known; every word reached has its base
\* added once or the definition that all modules agree on, a copied object
\* comes from a library already relocated, and a slot, bound early or late,
\* leads to the same definition (ldstart.c, ldresolve.c, ldreloc_i386.c).
LinkedAsMeant ==
  Running =>
    /\ \A i, j \in DOMAIN s.chain : s.chain[i] = s.chain[j] => i = j
    /\ \A m \in Mods : \A i \in DOMAIN s.w.needed[m] : s.w.needed[m][i] \in Mods \/ LeftOut(m, i)
    /\ s.fds = 0
    /\ \A m \in Mods : \A i \in DOMAIN s.w.rel[m] :
         LET r == s.w.rel[m][i]
             x == s.word[m][i]
         IN Reached(m, i) =>
              /\ r.type = "RELATIVE" => x.n = 1
              /\ r.type \notin {"RELATIVE", "COPY"} => x.v = Meant(m, r.sym) /\ x.n = 0
              /\ r.type = "COPY" /\ Defines(r.sym, "GLOBAL") \ {m} # {} => x.v[1] # m /\ x.ready
    /\ \A m \in Mods : \A i \in DOMAIN s.slot[m] :
         s.slot[m][i].n = 1 /\ s.slot[m][i].v \in {NOWHERE, Meant(m, s.w.plt[m][i])}
    /\ s.bind => \A m \in Mods : \A i \in DOMAIN s.slot[m] : s.slot[m][i].v = Meant(m, s.w.plt[m][i])
    /\ \A i, j \in DOMAIN s.ran : s.ran[i] = s.ran[j] => i = j
    /\ s.pc # "init" => \A m \in Mods \ {Exe} : <<"init", m>> \in Range(s.ran)

\* The memory of a library's segments holds the bytes of the file and then
\* zeroes (ldstart.c: _ldmapsect).
ImageExact ==
  s.pc \in {"load", "reloc"} /\ s.at > 2 =>
    \A k \in DOMAIN s.w.seg[s.chain[s.at - 1]] :
      LET g == s.w.seg[s.chain[s.at - 1]][k]
      IN \A x \in 0 .. g.memsz - 1 : s.image[g.vaddr + x] = IF x < g.filesz THEN g.offset + x ELSE ZERO

\* ldstart.c:480 "Load the executable and all of it's dependencies".
DependenciesLoaded == Running => \A m \in Mods : Range(s.w.needed[m]) \subseteq Mods
=============================================================================
