-------------------------------- MODULE Boot --------------------------------
(***************************************************************************)
(* main() of threads/init.c in the build of the threads project (without   *)
(* USERPROG and FILESYS): the command line is read and parsed, the kernel  *)
(* set up (module Paging, and module Calibration once interrupts are on),  *)
(* and the actions on the command line are run.                            *)
(*                                                                         *)
(* A word of the command line is its name, what follows the `=', and its   *)
(* length.  Names that begin with a `-' are those of Option.               *)
(*                                                                         *)
(* An entry written past the end of argv changes whatever comes after it   *)
(* in memory.  What the kernel does then is not defined: the model stops   *)
(* with the outcome "overrun".                                             *)
(*                                                                         *)
(* A definition marked `Wrong' is a fault put in to see that a property    *)
(* notices it; no action uses it.                                          *)
(***************************************************************************)
EXTENDS Calibration, Paging, SequencesExt

CONSTANTS
    Line,               \* the command lines looked at
    Option,             \* names that begin with a `-'
    None,               \* no value, no seed, no way to shut down configured
    LOADER_ARGS_LEN     \* bytes the loader has for the words

\* A word may be empty, and the last may run past the end of the loader's space,
\* whose size is even (128 in loader.h).
ASSUME LineAssumption ==
    /\ LOADER_ARGS_LEN \in Nat
    /\ LOADER_ARGS_LEN % 2 = 0
    /\ \A words \in Line :
           /\ words \in Seq(Range(words))
           /\ \A n \in DOMAIN words : words[n].length \in Nat

ASSUME OptionAssumption == {"-h", "-q", "-r", "-rs", "-mlfqs"} \subseteq Option

VARIABLES
    line,               \* what the loader has left in memory
    phase,              \* how far main() has got
    p,                  \* read_command_line's p, from the start of the words
    i,                  \* its i; later argv, as an index from 0
    thread_mlfqs,       \* -mlfqs
    seed,               \* what the random numbers start from
    how,                \* what shutdown_configure was given
    lists,              \* the thread_mlfqs that thread_init made lists for
    ran,                \* the tasks that have been started
    outcome             \* "ok", or how it all ended

bootVars == <<line, phase, p, i, thread_mlfqs, seed, how, lists, ran, outcome>>
vars == <<bootVars, calVars, pagingVars>>

argc == Len(line)
argv(n) == line[n + 1]

In(ph) == outcome = "ok" /\ phase = ph
Panic == outcome' = "panic"

-----------------------------------------------------------------------------
(* The command line.                                                       *)

\* Wrong: nothing is cleared.
BssInitNot ==
    /\ In("bss")
    /\ phase' = "read"
    /\ UNCHANGED <<line, p, i, thread_mlfqs, seed, how, lists, ran, outcome,
                   calVars, pagingVars>>

\* bss_init: variables without an initial value become 0.
BssInit ==
    /\ In("bss")
    /\ thread_mlfqs' = FALSE
    /\ seed' = None
    /\ how' = None
    /\ phase' = "read"
    /\ UNCHANGED <<line, p, i, lists, ran, outcome, calVars, pagingVars>>

\* Wrong: `p > end'.
beyond_end == p > LOADER_ARGS_LEN

at_end == p >= LOADER_ARGS_LEN

\* argv has LOADER_ARGS_LEN / 2 + 1 entries, and argv[i] is none of them.
past_argv == i > LOADER_ARGS_LEN \div 2

strnlen(word, limit) == Min({word.length, limit})

\* read_command_line, a word at a time.
ReadWord ==
    /\ In("read")
    /\ i < argc
    /\ \/ at_end /\ Panic /\ UNCHANGED <<p, i>>
       \/ ~at_end /\ past_argv /\ outcome' = "overrun" /\ UNCHANGED <<p, i>>
       \/ /\ ~at_end /\ ~past_argv
          /\ p' = p + strnlen(argv(i), LOADER_ARGS_LEN - p) + 1
          /\ i' = i + 1
          /\ UNCHANGED outcome
    /\ UNCHANGED <<line, phase, thread_mlfqs, seed, how, lists, ran, calVars,
                   pagingVars>>

\* argv[argc] = NULL.  parse_options starts at argv[0].
ReadDone ==
    /\ In("read")
    /\ i = argc
    /\ \/ past_argv /\ outcome' = "overrun" /\ UNCHANGED <<phase, i>>
       \/ ~past_argv /\ phase' = "parse" /\ i' = 0 /\ UNCHANGED outcome
    /\ UNCHANGED <<line, p, thread_mlfqs, seed, how, lists, ran, calVars, pagingVars>>

\* parse_options is at an option of the given name.
AtOption(names) ==
    /\ In("parse")
    /\ i < argc
    /\ argv(i).name \in names
    /\ i' = i + 1
    /\ UNCHANGED <<line, phase, p, lists, ran, calVars, pagingVars>>

\* -h: usage() powers off.
OptionHelp ==
    /\ AtOption({"-h"})
    /\ outcome' = "power_off"
    /\ UNCHANGED <<thread_mlfqs, seed, how>>

OptionShutdown ==
    /\ AtOption({"-q", "-r"})
    /\ how' = IF argv(i).name = "-q" THEN "power_off" ELSE "reboot"
    /\ UNCHANGED <<thread_mlfqs, seed, outcome>>

\* random_init (lib/random.c) has no effect the second time.
random_init(n) == seed' = IF seed = None THEN n ELSE seed

\* atoi asserts that there is a value.
OptionSeed ==
    /\ AtOption({"-rs"})
    /\ IF argv(i).value = None
       THEN Panic /\ UNCHANGED seed
       ELSE random_init(argv(i).value) /\ UNCHANGED outcome
    /\ UNCHANGED <<thread_mlfqs, how>>

OptionMlfqs ==
    /\ AtOption({"-mlfqs"})
    /\ thread_mlfqs' = TRUE
    /\ UNCHANGED <<seed, how, outcome>>

OptionUnknown ==
    /\ AtOption(Option \ {"-h", "-q", "-r", "-rs", "-mlfqs"})
    /\ Panic
    /\ UNCHANGED <<thread_mlfqs, seed, how>>

\* The last call of parse_options.
seed_from_time == random_init("time")

\* parse_options is at its end, and main() goes on up to paging_init;
\* thread_init makes the lists of one of the two schedulers.
OptionsDone ==
    /\ In("parse")
    /\ i < argc => argv(i).name \notin Option
    /\ seed_from_time
    /\ lists' = thread_mlfqs
    /\ phase' = "paging"
    /\ PagingStart
    /\ outcome' = IF paging' = "panic" THEN "panic" ELSE "ok"
    /\ UNCHANGED <<line, p, i, thread_mlfqs, how, ran, calVars>>

-----------------------------------------------------------------------------
(* Setting up, and the actions.                                            *)

SetUpPage ==
    /\ In("paging")
    /\ MapPage
    /\ outcome' = IF paging' = "panic" THEN "panic" ELSE "ok"
    /\ UNCHANGED <<line, phase, p, i, thread_mlfqs, seed, how, lists, ran, calVars>>

\* The page tables are in use; the interrupt handlers are set up, thread_start
\* lets interrupts in, and timer_calibrate begins.
SetUpPaging ==
    /\ In("paging")
    /\ LoadPageDir
    /\ CalibrateStart
    /\ phase' = "calibrate"
    /\ UNCHANGED <<line, p, i, thread_mlfqs, seed, how, lists, ran, outcome>>

SetUpTimer ==
    /\ In("calibrate")
    /\ Calibrate
    /\ phase' = IF search' = "done" THEN "actions" ELSE phase
    /\ outcome' = IF search' = "panic" THEN "panic" ELSE "ok"
    /\ UNCHANGED <<line, p, i, thread_mlfqs, seed, how, lists, ran, pagingVars>>

\* A task may bring the kernel down.
run_task(task) ==
    /\ ran' = Append(ran, task)
    /\ outcome' \in {"ok", "panic"}

\* Wrong: the argument of `run' is not skipped.
RunActionAgain ==
    /\ In("actions")
    /\ i < argc
    /\ IF argv(i).name # "run" \/ i + 1 = argc
       THEN Panic /\ UNCHANGED <<ran, i>>
       ELSE run_task(argv(i + 1)) /\ i' = i + 1
    /\ UNCHANGED <<line, phase, p, thread_mlfqs, seed, how, lists, calVars, pagingVars>>

\* Wrong: no check for the argument of `run'.
RunActionUnchecked ==
    /\ In("actions")
    /\ i < argc
    /\ IF argv(i).name # "run"
       THEN Panic /\ UNCHANGED <<ran, i>>
       ELSE run_task(IF i + 1 = argc THEN None ELSE argv(i + 1)) /\ i' = i + 2
    /\ UNCHANGED <<line, phase, p, thread_mlfqs, seed, how, lists, calVars, pagingVars>>

\* One round of run_actions: `run TASK' is the only action, and anything else
\* is an error, found after the actions before it have been run.
RunAction ==
    /\ In("actions")
    /\ i < argc
    /\ IF argv(i).name # "run" \/ i + 1 = argc
       THEN Panic /\ UNCHANGED <<ran, i>>
       ELSE run_task(argv(i + 1)) /\ i' = i + 2
    /\ UNCHANGED <<line, phase, p, thread_mlfqs, seed, how, lists, calVars, pagingVars>>

\* shutdown() as configured; with nothing configured main's thread exits.
Shutdown ==
    /\ In("actions")
    /\ i = argc
    /\ outcome' = IF how = None THEN "exited" ELSE how
    /\ UNCHANGED <<line, phase, p, i, thread_mlfqs, seed, how, lists, ran, calVars,
                   pagingVars>>

-----------------------------------------------------------------------------

\* Nothing has cleared the BSS yet.
Init ==
    /\ line \in Line
    /\ phase = "bss"
    /\ p = 0
    /\ i = 0
    /\ thread_mlfqs \in BOOLEAN
    /\ seed \in {None, "garbage"}
    /\ how \in {None, "reboot"}
    /\ lists = FALSE
    /\ ran = <<>>
    /\ outcome = "ok"
    /\ CalInit
    /\ PagingInit

Next ==
    \/ BssInit
    \/ ReadWord
    \/ ReadDone
    \/ OptionHelp
    \/ OptionShutdown
    \/ OptionSeed
    \/ OptionMlfqs
    \/ OptionUnknown
    \/ OptionsDone
    \/ SetUpPage
    \/ SetUpPaging
    \/ SetUpTimer
    \/ RunAction
    \/ Shutdown

\* The CPU goes on executing.
Spec == Init /\ [][Next]_vars /\ WF_vars(Next)

-----------------------------------------------------------------------------
(* What booting achieves.                                                  *)

TypeOK ==
    /\ phase \in {"bss", "read", "parse", "paging", "calibrate", "actions"}
    /\ p \in Nat
    /\ i \in 0..argc
    /\ {thread_mlfqs, lists} \subseteq BOOLEAN
    /\ how \in {None, "power_off", "reboot"}
    /\ outcome \in {"ok", "panic", "overrun", "power_off", "reboot", "exited"}
    /\ search \in {"idle", "double", "refine", "done", "panic"}
    /\ paging \in {"idle", "map", "done", "panic"}

\* read_command_line writes argv[0] to argv[argc] with a test of p, which counts
\* bytes, and none of i.  That keeps it within argv, whatever the number of words
\* and wherever the last is cut off, as long as each takes two bytes: an entry
\* is written past the end only if one of the words before it is empty.
ArgvFits == outcome = "overrun" => \E k \in 1..i : line[k].length = 0

\* How many words of the line are options before the first that is not, and
\* which of these have the given names.
Leading == CHOOSE n \in 0..argc :
    /\ \A k \in 1..n : line[k].name \in Option
    /\ n < argc => line[n + 1].name \notin Option
Named(n, names) == {k \in 1..n : line[k].name \in names}
Given(names) == Named(Leading, names)

\* The way to shut down that the last of the options at these places asks for.
LastHow(places) ==
    IF places = {} THEN None
    ELSE IF line[Max(places)].name = "-q" THEN "power_off" ELSE "reboot"

\* Once options are parsed the kernel is what they ask for, whatever was in
\* memory before: the first seed counts, the last way to shut down, and the
\* scheduler in use is the one whose lists thread_init made.
OptionsHonoured ==
    phase \in {"paging", "calibrate", "actions"} =>
        /\ thread_mlfqs <=> Given({"-mlfqs"}) # {}
        /\ lists = thread_mlfqs
        /\ seed = IF Given({"-rs"}) = {} THEN "time" ELSE line[Min(Given({"-rs"}))].value
        /\ how = LastHow(Given({"-q", "-r"}))

\* The actions of the line, and the tasks of the `run's before the first
\* error in them.
Actions == SubSeq(line, Leading + 1, argc)
Good == CHOOSE n \in 0..(Len(Actions) \div 2) :
    /\ \A k \in 1..n : Actions[2 * k - 1].name = "run"
    /\ n < Len(Actions) \div 2 => Actions[2 * n + 1].name # "run"
Tasks == [k \in 1..Good |-> Actions[2 * k]]

\* Tasks are run in the order of the line, none twice and none that is the
\* argument of another; and if the kernel gets to shutdown(), all words have
\* been used.
RunsTheLine ==
    /\ IsPrefix(ran, Tasks)
    /\ phase = "actions" /\ outcome \notin {"ok", "panic"} =>
           ran = Tasks /\ Len(Actions) = 2 * Good

\* What read_command_line keeps: the words read so far take two bytes each of
\* the loader's space, with the end of one cut off just outside it, unless one
\* is empty; and nothing is set yet.
ReadInv ==
    /\ phase \in {"bss", "read"} =>
           /\ p <= LOADER_ARGS_LEN + 1
           /\ 2 * i <= p \/ \E k \in 1..i : line[k].length = 0
    /\ phase = "read" => thread_mlfqs = FALSE /\ seed = None /\ how = None
    /\ outcome = "overrun" => phase = "read" /\ past_argv

\* What parse_options keeps: what the options before argv[i] ask for is set.
ParseInv ==
    In("parse") =>
        /\ \A k \in 1..i : line[k].name \in Option
        /\ thread_mlfqs <=> Named(i, {"-mlfqs"}) # {}
        /\ \A k \in Named(i, {"-rs"}) : line[k].value # None
        /\ seed = IF Named(i, {"-rs"}) = {} THEN None ELSE line[Min(Named(i, {"-rs"}))].value
        /\ how = LastHow(Named(i, {"-q", "-r"}))

\* What run_actions keeps: it begins at the word after the options, and each
\* task run so far has taken two words.
ActionInv ==
    /\ phase # "actions" => ran = <<>>
    /\ phase \in {"paging", "calibrate"} => i = Leading
    /\ phase = "actions" =>
           /\ i = Leading + 2 * Len(ran)
           /\ \A k \in 1..Len(ran) : ran[k] = Actions[2 * k] /\ Actions[2 * k - 1].name = "run"
           /\ outcome \notin {"ok", "panic"} => i = argc

BootInv ==
    /\ line \in Line
    /\ ran \in Seq(Range(line))
    /\ TypeOK
    /\ ReadInv
    /\ ParseInv
    /\ OptionsHonoured
    /\ ActionInv
    /\ PagingInv
    /\ CalInv

\* Booting comes to an end, whatever the machine and the options, if the tasks
\* on the line do: no loop of main() goes on for ever.
BootEnds == <>(outcome # "ok")

=============================================================================
