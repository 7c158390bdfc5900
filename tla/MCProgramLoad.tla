---------------------------- MODULE MCProgramLoad ----------------------------
(***************************************************************************)
(* ProgramLoad on two tiles with binaries that differ in layout.           *)
(***************************************************************************)
EXTENDS ProgramLoad

AllNames == Symbols \cup {"_start"}
Section1(names) == [inside |-> TRUE, symtab |-> TRUE, names |-> names]

Text(file)   == [load |-> TRUE, inside |-> TRUE, aligned |-> TRUE, dram |-> TRUE, exec |-> TRUE,
                 at |-> 0, file |-> file, mem |-> file]
Data(file)   == [load |-> TRUE, inside |-> TRUE, aligned |-> TRUE, dram |-> FALSE, exec |-> FALSE,
                 at |-> 0, file |-> file, mem |-> DmemWords]
Note         == [Data(1) EXCEPT !.load = FALSE]

Binary(names, segments, symbol) ==
  [valid |-> TRUE, sections |-> <<[Section1({}) EXCEPT !.symtab = FALSE], Section1(names)>>,
   segments |-> segments, symbol |-> symbol]

At(c, v, a, k) ==
  [s \in Symbols |-> CASE s = "config" -> c [] s = "not_loaded_val" -> v
                       [] s = "args" -> a [] s = "kernel_ptr" -> k]

\* Two programs: the kernel pointer of one is where the other has data.
First  == Binary(AllNames, <<Note, Text(2), Data(1)>>, At(1, 2, 3, 4))
Second == Binary(AllNames \ {"_start"}, <<Data(4), Text(1)>>, At(3, 1, 2, 0))

\* Binaries the loader refuses, each at another point.
NotElf    == [First EXCEPT !.valid = FALSE]
TooLarge  == [First EXCEPT !.segments[2].mem = DramWords + 1]
Truncated == [First EXCEPT !.segments[3].inside = FALSE]
Ragged    == [First EXCEPT !.segments[3].aligned = FALSE]
NoText    == [First EXCEPT !.segments[2].exec = FALSE]
NoSymbol  == [First EXCEPT !.sections[2].names = {"config"}]

\* The first program is loaded, or refused early, late or in between; the
\* second replaces it.
TwoPrograms == <<{First, NotElf, TooLarge, Truncated, Ragged, NoText, NoSymbol}, {Second}>>

SomeGroups == {{1}, {2}, {1, 2}}
=============================================================================
