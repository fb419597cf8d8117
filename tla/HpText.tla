------------------------------- MODULE HpText -------------------------------
(***************************************************************************)
(* The functions of the library that keep no state: those of HpStrings,    *)
(* hp_opt_argv, hp_str_find, hp_http_modify_header, and the walks of       *)
(* fsutil.c (HpWalks).  One call is one step; the properties compare its   *)
(* result with what the function is for, stated without its loop.          *)
(***************************************************************************)
EXTENDS HpStrings, HpWalks
LOCAL INSTANCE SequencesExt
LOCAL INSTANCE FiniteSetsExt

CONSTANT Trees       \* directory trees: path -> "dir" or "file"

From(s, k) == SubSeq(s, k, Len(s))
Lower(s) == [k \in DOMAIN s |-> tolower(s[k])]
-----------------------------------------------------------------------------
(* hp_opt.c *)

WordEnds(s, q) == q > Len(s) \/ s[q] = SP

\* p is the start of the word being read; it is moved at every blank.
hp_opt_argv(s) ==
  FoldLeft(LAMBDA a, q :
             IF ~WordEnds(s, q) THEN a
             ELSE [p |-> q + 1,
                   argv |-> IF q > a.p THEN Append(a.argv, SubSeq(s, a.p, q - 1))
                            ELSE a.argv],
           [p |-> 1, argv |-> <<>>],
           [q \in 1..Len(s) + 1 |-> q]).argv
-----------------------------------------------------------------------------
(* hp_str.c *)

Number(s) == FoldLeft(LAMBDA r, c : 10 * r + c - 48, 0, s)

\* Up to the first byte that is no digit, after an optional sign.
myatoi(s) ==
  LET signed == s # <<>> /\ s[1] \in {PLUS, MINUS}
      t == IF signed THEN Tail(s) ELSE s
      n == Max({k \in 0..Len(t) : \A j \in 1..k : t[j] \in Digit})
      r == Number(SubSeq(t, 1, n))
  IN  IF signed /\ s[1] = MINUS THEN -r ELSE r

\* The fields between commas, the empty ones left out.
protos(s) ==
  LET cut == {0, Len(s) + 1} \cup {k \in 1..Len(s) : s[k] = COMMA}
  IN  {myatoi(SubSeq(s, p + 1, q - 1)) :
         <<p, q>> \in {pq \in cut \X cut : pq[2] - pq[1] > 1 /\
                         \A k \in cut : ~(pq[1] < k /\ k < pq[2])}}

hp_str_find(val, s) == val \in protos(s)

ValueAt(buf, k) == {j \in k..Len(buf) : buf[j] \notin {COLON, SP, TAB}}
LineEnd(buf, k) == {j \in k..Len(buf) - 1 : buf[j] = CR /\ buf[j + 1] = LF}

NewValue(buf, v, vend, nvalue) ==
  SubSeq(buf, 1, v - 1) \o nvalue \o From(buf, vend)

\* The first place where hdr occurs, case ignored; ovalue <<>> stands for 0.
hp_http_modify_header(buf, hdr, nvalue, ovalue) ==
  LET I == {i \in 1..Len(buf) - Len(hdr) : At(Lower(hdr), i, Lower(buf))}
      v == Min(ValueAt(buf, Min(I) + Len(hdr)))
      vend == Min(LineEnd(buf, Min(I) + Len(hdr)))
      value == SubSeq(buf, v, vend - 1)
  IN  IF I = {} THEN [rc |-> 1, buf |-> buf]
      ELSE IF ovalue # <<>> /\ Lower(value) # Lower(ovalue) THEN [rc |-> -1, buf |-> buf]
      ELSE [rc |-> 0, buf |-> NewValue(buf, v, vend, nvalue)]

CallArgv == \E s \in UpTo({SP, LOWER}, MaxText + 2) : Returns("argv", s, hp_opt_argv(s))

Fields == {<<>>, <<48>>, <<49>>, <<49, 50>>, <<MINUS, 49>>}
Comma(fields) ==
  Joined([k \in DOMAIN fields |-> IF k = 1 THEN fields[k] ELSE <<COMMA>> \o fields[k]])

CallFind ==
  \E fields \in UpTo(Fields, MaxText), val \in {-1, 0, 1, 2, 12} :
    Returns("find", [fields |-> fields, val |-> val], hp_str_find(val, Comma(fields)))

\* A message: lines of a name and a value, the value perhaps empty.
Hdr == <<72, 111>>
HdrLine(name, value) == name \o <<COLON, SP>> \o value \o <<CR, LF>>
HdrLines == {HdrLine(n, v) : n \in {Hdr, <<104, 79>>, <<65>>}, v \in {<<>>, <<49>>, <<49, 50>>}}

CallModifyHeader ==
  \E lines \in UpTo(HdrLines, 2), nvalue, ovalue \in {<<>>, <<49>>, <<53, 53, 53>>} :
    Returns("header", <<lines, nvalue, ovalue>>,
            hp_http_modify_header(Joined(lines), Hdr, nvalue, ovalue))

CallRm ==
  \E t \in Trees : \E p \in {q \in DOMAIN t : t[q] = "dir"}, stuck \in SUBSET DOMAIN t :
    Returns("rm", <<t, p, stuck>>, rm_r(t, p, stuck))
CallMkdir ==
  \E t \in Trees, p \in UNION {[1..k -> {"a", "b"}] : k \in 1..3} :
    Returns("mkdir", <<DOMAIN t, p>>, mkdir_p(t, p))
CallForeach ==
  \E t \in Trees : \E p \in {q \in DOMAIN t : t[q] = "dir"}, fails \in SUBSET DOMAIN t :
    Returns("foreach", <<t, p, fails>>, foreach_file(t, p, fails))

TextNext ==
  /\ text.fn = "none"
  /\ StringCalls \/ CallArgv \/ CallFind \/ CallModifyHeader \/ CallRm \/ CallMkdir \/ CallForeach
-----------------------------------------------------------------------------
\* argv holds the words of the line: nothing empty, no blanks, nothing lost, and
\* as many as there are words.
ArgvIsWords ==
  text.fn = "argv" =>
    /\ \A k \in DOMAIN text.ret : text.ret[k] # <<>> /\ SP \notin {text.ret[k][j] : j \in DOMAIN text.ret[k]}
    /\ Joined(text.ret) = SelectSeq(text.in, LAMBDA c : c # SP)
    /\ Len(text.ret) = Cardinality({k \in DOMAIN text.in :
         text.in[k] # SP /\ (k = 1 \/ text.in[k - 1] = SP)})

\* hp_str_find finds the numbers the list was written from, and no others, empty
\* fields or not.
NumberFound ==
  text.fn = "find" =>
    (text.ret <=> \E k \in DOMAIN text.in.fields :
       text.in.fields[k] # <<>> /\ myatoi(text.in.fields[k]) = text.in.val)

\* On success exactly the first line with that name has a new value; otherwise
\* the message is as it was (hp_str.c:304-346).
HeaderReplaced ==
  text.fn = "header" =>
    LET lines == text.in[1]
        named == {k \in DOMAIN lines : Lower(SubSeq(lines[k], 1, 2)) = Lower(Hdr)}
    IN  IF text.ret.rc = 0
          THEN text.ret.buf = Joined([lines EXCEPT ![Min(named)] =
                                HdrLine(SubSeq(@, 1, 2), text.in[2])])
          ELSE text.ret.buf = Joined(lines) /\ (text.ret.rc = 1 <=> named = {})

\* rm -r removes all of a directory or, if something cannot be removed, nothing
\* outside it; mkdir -p makes every directory on the way; foreach_file sees every
\* file once, and leaves out only files of directories in which fn failed.
TreeWalks ==
  /\ text.fn = "rm" =>
       LET below == Below(text.in[1], text.in[2])
       IN  /\ text.ret.rc = 0 <=> below \cap text.in[3] = {}
           /\ text.ret.rc = 0 => DOMAIN text.ret.t = DOMAIN text.in[1] \ below
           /\ DOMAIN text.in[1] \ DOMAIN text.ret.t \subseteq below \ text.in[3]
           /\ \A q \in DOMAIN text.ret.t : \A k \in 1..Len(q) - 1 :
                SubSeq(q, 1, k) \in DOMAIN text.ret.t
  /\ text.fn = "mkdir" =>
       /\ text.in[1] \subseteq text.ret
       /\ \A q \in text.ret : \A k \in 1..Len(q) : SubSeq(q, 1, k) \in text.ret
  /\ text.fn = "foreach" =>
       LET files == {q \in Below(text.in[1], text.in[2]) : text.in[1][q] = "file"}
           seen == {text.ret.seen[k] : k \in DOMAIN text.ret.seen}
       IN  /\ seen \subseteq files /\ Cardinality(seen) = Len(text.ret.seen)
           /\ \A q \in files \ seen : \E f \in text.in[3] \cap seen :
                IsPrefix(Front(f), q)

\* Each function returns what it is for, at every boundary of its input.
TextRight == StringsRight /\ ArgvIsWords /\ NumberFound /\ HeaderReplaced /\ TreeWalks
=============================================================================
