------------------------------- MODULE HpJson -------------------------------
(***************************************************************************)
(* hp_cjson.c: values of a JSON document by path.  A document is the       *)
(* sequence of its nodes in order, each with its place (the keys from the  *)
(* root; the members of an array have none of their own) and its kind.  A  *)
(* path is a sequence of segments "x|y", each a sequence of alternatives   *)
(* with a name and an index, NoIndex if it has no "[n]".                   *)
(***************************************************************************)
EXTENDS Integers, Sequences

CONSTANTS Docs, Steps,  \* documents; the alternatives the paths are made of
          NoIndex

ASSUME JsonAssumption == \A doc \in Docs : doc \in Seq({doc[k] : k \in DOMAIN doc})

VARIABLE json           \* the latest call: fn, its inputs, ret

jsonVars == <<json>>
Null == <<"null">>

Node(doc, at) == CHOOSE k \in DOMAIN doc : doc[k].at = at
Kind(doc, at) == IF at = Null THEN "null" ELSE doc[Node(doc, at)].kind

\* The members of an array or object that are among the first nodes, in order.
IsKid(n, at) == at # Null /\ Len(n.at) = Len(at) + 1 /\ SubSeq(n.at, 1, Len(at)) = at
KidsUpTo(doc, at) ==
  LET kids[k \in 0..Len(doc)] ==
        IF k = 0 THEN <<>>
        ELSE IF IsKid(doc[k], at) THEN Append(kids[k - 1], doc[k]) ELSE kids[k - 1]
  IN  kids
Kids(doc, at) == KidsUpTo(doc, at)[Len(doc)]

\* cJSON_GetObjectItem, cJSON_GetArrayItem
GetObjectItem(doc, at, name) ==
  IF Kind(doc, at) = "obj" /\ \E n \in DOMAIN doc : doc[n].at = Append(at, name)
    THEN Append(at, name) ELSE Null
GetArrayItem(doc, at, b) ==
  IF b + 1 \in 1..Len(Kids(doc, at)) THEN Kids(doc, at)[b + 1].at ELSE Null

Clamp(b, n) == IF (IF b < 0 THEN 0 ELSE b) > n - 1 THEN n - 1 ELSE IF b < 0 THEN 0 ELSE b

\* One alternative: the node it leads to.
Alternative(doc, at, s) ==
  IF s.index = NoIndex THEN GetObjectItem(doc, at, s.name)
  ELSE LET arr == IF s.name = "" THEN at ELSE GetObjectItem(doc, at, s.name)
       IN  IF arr = Null THEN Null
           ELSE GetArrayItem(doc, arr, Clamp(s.index, Len(Kids(doc, arr))))

\* Mutant: a failed alternative does not go back to where the segment began.
Bad_GoesBack(doc, at, s, last) == FALSE

\* Back to tmp before the next alternative, but not after "continue", when the
\* array of an index is missing.
GoesBack(doc, at, s, last) ==
  ~last /\ ~(s.index # NoIndex /\ s.name # "" /\ GetObjectItem(doc, at, s.name) = Null)

\* Where the j-th alternative leaves a; the loop ends with the first that leads on.
Tried(doc, tmp, alts, j, a) ==
  LET r == Alternative(doc, a.at, alts[j])
      back == IF GoesBack(doc, a.at, alts[j], j = Len(alts)) THEN tmp ELSE Null
  IN  IF a.done THEN a
      ELSE IF r # Null THEN [at |-> r, done |-> TRUE] ELSE [at |-> back, done |-> FALSE]

Walk(doc, tmp, alts) ==
  LET a[j \in 0..Len(alts)] ==
        IF j = 0 THEN [at |-> tmp, done |-> FALSE] ELSE Tried(doc, tmp, alts, j, a[j - 1])
  IN  a

Segment(doc, tmp, alts) == Walk(doc, tmp, alts)[Len(alts)].at

Sub(doc, at, path) ==
  LET sub[k \in 0..Len(path)] ==
        IF k = 0 THEN at
        ELSE IF sub[k - 1] = Null THEN Null ELSE Segment(doc, sub[k - 1], path[k])
  IN  sub

cjson_(doc, at, path) == Sub(doc, at, path)[Len(path)]

\* cjson_exists: plain keys only
Keyed(doc, path) ==
  LET sub[k \in 0..Len(path)] ==
        IF k = 0 THEN <<>> ELSE GetObjectItem(doc, sub[k - 1], path[k][1].name)
  IN  sub

cjson_exists(doc, paths) == \A p \in paths : Keyed(doc, p)[Len(p)] # Null

\* One column of an array of objects, or nothing.
cjson_col(doc, arr, name) ==
  LET col == [k \in DOMAIN Kids(doc, arr) |-> GetObjectItem(doc, Kids(doc, arr)[k].at, name)]
  IN  IF \E k \in DOMAIN col : col[k] = Null THEN <<Null>> ELSE col

\* cjson_sval with "[b,e]": the places of val it returns, {0} for the default.
SubString(n, b, e) ==
  IF b > n - 1 \/ (IF e > n - 1 THEN n - 1 ELSE e) < b THEN {0}
  ELSE b + 1..(IF e > n - 1 THEN n - 1 ELSE e) + 1

\* sdstrim: the blanks at both ends go.
sdstrim(val) ==
  LET N == {k \in DOMAIN val : val[k] # " "}
      sp == CHOOSE k \in N : \A j \in N : k <= j
      ep == CHOOSE k \in N : \A j \in N : j <= k
  IN  IF N = {} THEN <<>> ELSE SubSeq(val, sp, ep)

check_string(val, min_len, max_len) ==
  IF Len(sdstrim(val)) \in min_len..max_len THEN sdstrim(val) ELSE Null

\* cjson_check replaces the value only if the check accepts it.
cjson_check(val, min_len, max_len) ==
  IF check_string(val, min_len, max_len) # Null THEN check_string(val, min_len, max_len) ELSE val
-----------------------------------------------------------------------------
Segments == UNION {[1..k -> Steps] : k \in 1..3}
JsonReturns(fn, in, ret) == json' = [fn |-> fn, in |-> in, ret |-> ret]

CallPath ==
  \E doc \in Docs, first \in Segments, second \in {<<>>} \cup {<<s>> : s \in Steps} :
    LET path == IF second = <<>> THEN <<first>> ELSE <<first, second>>
    IN  JsonReturns("path", <<doc, path>>, cjson_(doc, <<>>, path))

KeyPaths == UNION {[1..k -> {<<s>> : s \in {t \in Steps : t.index = NoIndex}}] : k \in 1..2}

CallExists ==
  \E doc \in Docs, p, q \in KeyPaths :
    JsonReturns("exists", <<doc, {p, q}>>, cjson_exists(doc, {p, q}))

CallCol ==
  \E doc \in Docs, s, t \in {u \in Steps : u.index = NoIndex} :
    LET arr == cjson_(doc, <<>>, <<<<s>>>>)
    IN  /\ Kind(doc, arr) = "arr"
        /\ JsonReturns("col", <<doc, arr, t.name>>, cjson_col(doc, arr, t.name))

CallSval ==
  \E n \in 0..3, b, e \in 0..4 : JsonReturns("sval", <<n, b, e>>, SubString(n, b, e))

\* A text that begins and ends with something, between blanks.
Cores == {s \in UNION {[1..n -> {"1", " "}] : n \in 0..4} :
            s # <<>> => s[1] = "1" /\ s[Len(s)] = "1"}
Padded(l, s, r) ==
  [k \in 1..l + Len(s) + r |-> IF k \in l + 1..l + Len(s) THEN s[k - l] ELSE " "]

CallCheck ==
  \E l, r \in 0..3, core \in Cores, min \in 0..2, max \in 2..3 :
    LET val == Padded(l, core, r)
    IN  JsonReturns("check", <<val, core, min, max>>, cjson_check(val, min, max))

JsonInit == json = [fn |-> "none", in |-> <<>>, ret |-> <<>>]
JsonNext ==
  /\ json.fn = "none"
  /\ CallPath \/ CallExists \/ CallCol \/ CallSval \/ CallCheck
JsonSpec == JsonInit /\ [][JsonNext]_jsonVars
-----------------------------------------------------------------------------
\* The first alternative of a segment that leads somewhere from tmp.
FirstThatLeads(doc, tmp, alts) ==
  LET K == {j \in DOMAIN alts : Alternative(doc, tmp, alts[j]) # Null}
      first == CHOOSE j \in K : \A i \in K : j <= i
  IN  IF tmp = Null \/ K = {} THEN Null ELSE Alternative(doc, tmp, alts[first])

\* Where the first segments of a path lead.
Leads(doc, path) ==
  LET to[k \in 0..Len(path)] ==
        IF k = 0 THEN <<>> ELSE FirstThatLeads(doc, to[k - 1], path[k])
  IN  to

\* A path is found whenever some alternative of each segment leads on, "failed, try
\* another one" (hp_cjson.c:236), where no alternative with an index has another one
\* behind it.
PathFinds ==
  json.fn = "path" /\ (\A k \in DOMAIN json.in[2] : \A j \in 1..Len(json.in[2][k]) - 1 :
                         json.in[2][k][j].index = NoIndex)
    => json.ret = Leads(json.in[1], json.in[2])[Len(json.in[2])]

\* cjson_exists says of plain keys what cjson_ finds.
ExistsAgrees ==
  json.fn = "exists" =>
    (json.ret <=> \A p \in json.in[2] : cjson_(json.in[1], <<>>, p) # Null)

\* A column has a value for every member of the array or is not there at all, so
\* that columns of one array can be read side by side.
ColumnWhole ==
  json.fn = "col" =>
    \/ json.ret = <<Null>>
    \/ Len(json.ret) = Len(Kids(json.in[1], json.in[2]))

\* A check keeps what is within the limits without the blanks around it, and
\* leaves anything else as it is.
CheckKeeps ==
  json.fn = "check" =>
    json.ret = IF Len(json.in[2]) \in json.in[3]..json.in[4] THEN json.in[2] ELSE json.in[1]

\* The substring [b,e] is the part between the two places that exists, or the
\* default if there is none.
SubStringExists ==
  json.fn = "sval" =>
    json.ret = LET P == {k \in 1..json.in[1] : k - 1 >= json.in[2] /\ k - 1 <= json.in[3]}
               IN  IF P = {} THEN {0} ELSE P

\* Paths, columns and substrings are what the document has, or the default.
JsonRight == PathFinds /\ ExistsAgrees /\ ColumnWhole /\ CheckKeeps /\ SubStringExists
=============================================================================
