------------------------------- MODULE HpWalks -------------------------------
(***************************************************************************)
(* The directory walks of fsutil.c as operators.  A tree is a function     *)
(* from paths to "dir" or "file".                                          *)
(***************************************************************************)
EXTENDS Integers, Sequences, FiniteSets
LOCAL INSTANCE SequencesExt
LOCAL INSTANCE FiniteSetsExt

Below(t, p) == {q \in DOMAIN t : IsPrefix(p, q)}
Children(t, p) == {q \in Below(t, p) : Len(q) = Len(p) + 1}
Without2(t, P) == [q \in DOMAIN t \ P |-> t[q]]

RECURSIVE rm_r(_, _, _), RmAll(_, _, _)

\* The entries in turn, up to the first that fails; stuck ones cannot be removed.
RmAll(t, todo, stuck) ==
  IF todo = <<>> THEN [t |-> t, rc |-> 0]
  ELSE LET one == IF t[todo[1]] = "dir" THEN rm_r(t, todo[1], stuck)
                  ELSE IF todo[1] \in stuck THEN [t |-> t, rc |-> -1]
                  ELSE [t |-> Without2(t, {todo[1]}), rc |-> 0]
       IN  IF one.rc # 0 THEN one ELSE RmAll(one.t, Tail(todo), stuck)

rm_r(t, p, stuck) ==
  LET r == RmAll(t, SetToSeq(Children(t, p)), stuck)
  IN  IF r.rc # 0 \/ p \in stuck THEN [r EXCEPT !.rc = -1]
      ELSE [t |-> Without2(r.t, {p}), rc |-> 0]

\* mkdir at every "/" and at the end; what exists stays.
mkdir_p(t, p) == {SubSeq(p, 1, k) : k \in 1..Len(p)} \cup DOMAIN t

RECURSIVE foreach_file(_, _, _), ForeachIn(_, _, _)

\* fn is called for a file with the suffix; if it fails the directory ends there.
\* What a subdirectory returns is not looked at.
ForeachIn(t, todo, fails) ==
  IF todo = <<>> THEN [seen |-> <<>>, rc |-> 0]
  ELSE LET p == todo[1]
           here == IF t[p] = "dir" THEN [foreach_file(t, p, fails) EXCEPT !.rc = 0]
                   ELSE [seen |-> <<p>>, rc |-> IF p \in fails THEN 1 ELSE 0]
           rest == IF here.rc # 0 THEN here ELSE ForeachIn(t, Tail(todo), fails)
       IN  IF here.rc # 0 THEN here
           ELSE [seen |-> here.seen \o rest.seen, rc |-> rest.rc]

foreach_file(t, p, fails) == ForeachIn(t, SetToSeq(Children(t, p)), fails)
=============================================================================
