------------------------------- MODULE HpConf -------------------------------
(***************************************************************************)
(* hp_ini.c, the configuration table with its commands #load, #set and     *)
(* #unload.                                                                *)
(*                                                                         *)
(* A key "section/name" is the pair <<section, name>>; NoSection is the    *)
(* section of a name without one.  A file is a sequence of entries.        *)
(***************************************************************************)
EXTENDS Integers, Sequences, FiniteSets

CONSTANTS Sections, Names, Values, NoSection, Missing,
          Files,        \* the files that #load can read
          MaxCommands   \* bound: commands

Keys2 == Sections \X Names

ASSUME ConfAssumption ==
  /\ MaxCommands \in Nat /\ NoSection \in Sections
  /\ \A f \in Files : f \in Seq([key : Keys2, val : Values])

VARIABLES
  ini,        \* dict: key -> value or Missing; section: the default section
  iniLog,     \* what was stored and emptied, in order
  answer      \* the latest lookup: the key, what it returned

confVars == <<ini, iniLog, answer>>

Empty == [k \in Keys2 |-> Missing]

ConfInit ==
  /\ ini = [dict |-> Empty, section |-> NoSection]
  /\ iniLog = <<>>
  /\ answer = [key |-> <<>>, val |-> Missing]

\* Mutant: the first value of a key is kept.
Bad_StoreEntry(d, e) ==
  IF d[e.key] = Missing THEN [d EXCEPT ![e.key] = e.val] ELSE d

StoreEntry(d, e) == [d EXCEPT ![e.key] = e.val]

\* The first section of a file, whichever file it was, is the default one.
hp_config_ini_def_parser(t, e) ==
  [dict |-> StoreEntry(t.dict, e),
   section |-> IF t.section = NoSection THEN e.key[1] ELSE t.section]

\* What the table is after the first entries of a file.
Loaded(t, f) ==
  LET after[n \in 0..Len(f)] ==
        IF n = 0 THEN t ELSE hp_config_ini_def_parser(after[n - 1], f[n])
  IN  after

CommandsLeft == Cardinality({k \in DOMAIN iniLog : iniLog[k].op # "entry"}) < MaxCommands

\* #load: a file that cannot be parsed to the end leaves what was read.
Load ==
  /\ CommandsLeft
  /\ \E f \in Files : \E n \in 0..Len(f) :
       /\ ini' = Loaded(ini, f)[n]
       /\ iniLog' = Append(iniLog, [op |-> "load"]) \o
            [k \in 1..n |-> [op |-> "entry", key |-> f[k].key, val |-> f[k].val]]
  /\ UNCHANGED answer

\* #set stores the key as it is written.
Set ==
  /\ CommandsLeft
  /\ \E key \in Keys2, val \in Values :
       /\ ini' = [ini EXCEPT !.dict = StoreEntry(@, [key |-> key, val |-> val])]
       /\ iniLog' = Append(iniLog, [op |-> "set", key |-> key, val |-> val])
  /\ UNCHANGED answer

Unload ==
  /\ CommandsLeft
  /\ ini' = [dict |-> Empty, section |-> NoSection]
  /\ iniLog' = Append(iniLog, [op |-> "unload"])
  /\ UNCHANGED answer

\* A name without a section is looked up in the default one.
hp_ini_exec ==
  /\ \E key \in Keys2 :
       answer' = [key |-> key,
                  val |-> ini.dict[IF key[1] = NoSection THEN <<ini.section, key[2]>> ELSE key]]
  /\ UNCHANGED <<ini, iniLog>>

ConfNext == Load \/ Set \/ Unload \/ hp_ini_exec
ConfSpec == ConfInit /\ [][ConfNext]_confVars
-----------------------------------------------------------------------------
\* Said(log, key)[k]: what the first k commands and entries say of a key, the latest
\* first.
Said(log, key) ==
  LET said[k \in 0..Len(log)] ==
        IF k = 0 \/ log[k].op = "unload" THEN Missing
        ELSE IF log[k].op # "load" /\ log[k].key = key THEN log[k].val
        ELSE said[k - 1]
  IN  said

\* A key is what the latest file or #set since the latest #unload made it, however
\* they alternate, a failed #load included.
LatestWins == \A key \in Keys2 : ini.dict[key] = Said(iniLog, key)[Len(iniLog)]
=============================================================================
