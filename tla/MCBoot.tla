------------------------------- MODULE MCBoot -------------------------------
(* Boot with small command lines for TLC.                                  *)
EXTENDS Boot

Options == {"-h", "-q", "-r", "-rs", "-mlfqs", "-x"}

Plain(name, length) == [name |-> name, value |-> None, length |-> length]
Seed(n) == [name |-> "-rs", value |-> n, length |-> 5]
Task == Plain("t", 1)
Empty == Plain("", 0)

Words == {Plain("-h", 2), Plain("-q", 2), Plain("-r", 2), Plain("-x", 2),
          Plain("-mlfqs", 6), Plain("-rs", 3), Seed("1"), Seed("2"),
          Plain("run", 3), Task}

\* All lines of up to three words, some with empty words, and lines of many words
\* of one byte or none.
Lines ==
    LET short == UNION {[1..n -> Words] : n \in 0..3}
        someEmpty == [1..3 -> {Plain("run", 3), Plain("-q", 2), Empty}]
        twoRuns == {<<Plain("run", 3), Task, Plain("run", 3), w>> : w \in {Task, Plain("-q", 2)}}
        full == LOADER_ARGS_LEN \div 2 + 1
        many == {[k \in 1..n |-> Task] : n \in 4..full}
        empty == {[k \in 1..n |-> IF k <= m THEN Empty ELSE Task] :
                      n \in (full - 1)..(full + 2), m \in {1, full \div 2, full + 2}}
    IN short \union someEmpty \union twoRuns \union many \union empty

\* The page tables hold three pages each; the kernel's text is in the first.
Text == {1}

=============================================================================
