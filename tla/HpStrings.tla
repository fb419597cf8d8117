------------------------------ MODULE HpStrings ------------------------------
(***************************************************************************)
(* Functions on strings that go over their input once: hp_urldecode,       *)
(* hp_str_replace, dumpstr and the expansion of hp_var.c, with hp_vercmp,  *)
(* byte_to_mb_kb, hp_lreserve and the output of hp_zc_buf.  A string is a  *)
(* sequence of bytes.  One call is one step; the properties compare its    *)
(* result with what the function is for.                                   *)
(***************************************************************************)
EXTENDS Integers, Sequences

CONSTANTS
  MaxText,        \* bound: length of the generated inputs
  UrlBytes,       \* bytes of the texts that are encoded
  Letters, Marks, \* bytes of what is searched, and of what replaces it
  VerParts,       \* numbers between the dots of a version
  DumpBytes,      \* bytes of the texts that are dumped
  Sizes,          \* arguments of byte_to_mb_kb
  Vmap,           \* hp_var_map: a function from names to values
  VarChars, VarNames, \* characters and variables of the texts that are expanded
  Chunk, MaxBytes \* Z_CHUNK; bound: length of a compressed text

VARIABLE text       \* the latest call: fn, its inputs, ret

textVars == <<text>>

TAB == 9   LF == 10   CR == 13   SP == 32   DOLLAR == 36   PERCENT == 37   PLUS == 43
COMMA == 44   MINUS == 45   COLON == 58   LOWER == 97   UPPER == 65
Digit == 48..57
NameChar == Digit \cup 65..90 \cup 97..122 \cup {95}

ASSUME StringsAssumption ==
  /\ MaxText \in Nat /\ UrlBytes \subseteq 0..255 /\ DumpBytes \subseteq 0..255
  /\ Letters \subseteq Nat /\ Marks \subseteq Nat /\ Letters \cap Marks = {}
  /\ VerParts \subseteq Nat /\ Sizes \subseteq Nat
  /\ \A name \in DOMAIN Vmap : Vmap[name] \in Seq(Nat)
  /\ VarChars \subseteq Nat \ {DOLLAR} /\ VarNames \subseteq Seq(NameChar) \ {<<>>}
  /\ Chunk \in Nat \ {0} /\ MaxBytes \in Nat

UpTo(S, n) == UNION {[1..k -> S] : k \in 0..n}
At(p, k, s) == k + Len(p) - 1 <= Len(s) /\ SubSeq(s, k, k + Len(p) - 1) = p
tolower(c) == IF c \in 65..90 THEN c + 32 ELSE c
Least(S) == CHOOSE m \in S : \A k \in S : m <= k
Greatest(S) == CHOOSE m \in S : \A k \in S : k <= m

\* A loop over an input that writes out[k] at place k and goes on at next[k]: all it
\* writes from each place on.
Pass(next, out) ==
  LET from[k \in 1..Len(out) + 1] ==
        IF k > Len(out) THEN <<>> ELSE out[k] \o from[next[k]]
  IN  from
Output(next, out) == Pass(next, out)[1]
Joined(parts) == Output([k \in DOMAIN parts |-> k + 1], parts)
-----------------------------------------------------------------------------
(* hp_url.c *)

IS_HEX_CHAR(c) == c \in Digit \cup 65..70 \cup 97..102
HEX_VALUE(c) == IF c \in Digit THEN c - 48 ELSE tolower(c) - 87

EscapeAt(s, k) == s[k] = PERCENT /\ k + 2 <= Len(s) /\
  IS_HEX_CHAR(s[k + 1]) /\ IS_HEX_CHAR(s[k + 2])

urldecode_ex(s) ==
  Output([k \in DOMAIN s |-> IF EscapeAt(s, k) THEN k + 3 ELSE k + 1],
         [k \in DOMAIN s |->
            IF EscapeAt(s, k) THEN <<16 * HEX_VALUE(s[k + 1]) + HEX_VALUE(s[k + 2])>>
            ELSE IF s[k] = PLUS THEN <<SP>> ELSE <<s[k]>>])
-----------------------------------------------------------------------------
(* hp_str.c *)

\* Mutant: the search goes on inside the match.
Bad_NextMatch(search, k, s) == k + 1

\* strstr after a match begins behind it.
NextMatch(search, k, s) == IF At(search, k, s) THEN k + Len(search) ELSE k + 1

hp_str_replace(search, replace, subject) ==
  Output([k \in DOMAIN subject |-> NextMatch(search, k, subject)],
         [k \in DOMAIN subject |->
            IF At(search, k, subject) THEN replace ELSE <<subject[k]>>])

\* Versions as the numbers between the dots.
VersionPart(v, k) == IF k <= Len(v) THEN v[k] ELSE 0

hp_vercmp(ver, cmp) ==
  LET n == IF Len(ver) > Len(cmp) THEN Len(ver) ELSE Len(cmp)
      D == {k \in 1..n : VersionPart(ver, k) # VersionPart(cmp, k)}
  IN  IF D = {} THEN 0
      ELSE IF VersionPart(ver, Least(D)) > VersionPart(cmp, Least(D)) THEN 1 ELSE -1

isprint(c) == c \in 32..126
Backslash == 92

sdump_chr(c) ==
  CASE c = CR -> <<Backslash, 114>> [] c = LF -> <<Backslash, 110>>
    [] c = TAB -> <<Backslash, 116>> [] c = 0 -> <<Backslash, 48>>
    [] OTHER -> <<IF isprint(c) THEN c ELSE 88>>

\* Of no bytes nothing is shown, end neither.
sdump_str(s, end) ==
  IF s = <<>> THEN <<>> ELSE Joined([k \in DOMAIN s |-> sdump_chr(s[k])]) \o end

Dots == <<46, 46, 46>>
dumpstr(s, dumplen) ==
  IF dumplen < Len(s) THEN sdump_str(SubSeq(s, 1, dumplen), Dots) ELSE sdump_str(s, <<>>)

byte_to_mb_kb(n) ==
  IF n >= 1024 * 1024 /\ n < 1024 * 1024 * 1024 THEN [v |-> n \div (1024 * 1024), unit |-> "M"]
  ELSE IF n >= 1024 * 1024 * 1024 THEN [v |-> n \div (1024 * 1024 * 1024), unit |-> "G"]
  ELSE IF n >= 1024 THEN [v |-> n \div 1024, unit |-> "K"]
  ELSE [v |-> n, unit |-> "none"]
-----------------------------------------------------------------------------
(* hp_stdlib.c: slots of an array of nmemb, n of them in use; base is      *)
(* whether there is an array                                               *)

hp_lreserve(base, nmemb, n, nreserve) ==
  IF ~base THEN IF nmemb < nreserve THEN nmemb + nreserve ELSE nmemb
  ELSE IF nmemb > 0 /\ nmemb - n < nreserve THEN nmemb + nreserve ELSE nmemb
-----------------------------------------------------------------------------
(* hp_var.c *)

NameEnd(s, p) == CHOOSE e \in p..Len(s) + 1 :
  /\ \A k \in p..e - 1 : s[k] \in NameChar
  /\ e > Len(s) \/ s[e] \notin NameChar

hp_var_map_find(name) == IF name \in DOMAIN Vmap THEN Vmap[name] ELSE <<DOLLAR>> \o name

\* A dollar sign at the end is one, too.
VarAt(s, p) == s[p] = DOLLAR /\ p < Len(s)

hp_var_do_replace(s) ==
  Output([p \in DOMAIN s |-> IF ~VarAt(s, p) THEN p + 1
                             ELSE IF s[p + 1] = DOLLAR THEN p + 2 ELSE NameEnd(s, p + 1)],
         [p \in DOMAIN s |-> IF ~VarAt(s, p) THEN <<s[p]>>
                             ELSE IF s[p + 1] = DOLLAR THEN <<DOLLAR>>
                             ELSE hp_var_map_find(SubSeq(s, p + 1, NameEnd(s, p + 1) - 1))])
-----------------------------------------------------------------------------
(* hp_z.c: n bytes come out in chunks, up to the first that is not full;   *)
(* room is *olen                                                           *)

NoRoom(room, offset, have) == room - offset < have

hp_zc_buf(n, room) ==
  LET have(offset) == IF n - offset < Chunk THEN n - offset ELSE Chunk
  IN  IF \E i \in 0..n \div Chunk : NoRoom(room, Chunk * i, have(Chunk * i))
        THEN [rc |-> 1, olen |-> room]
      ELSE [rc |-> 0, olen |-> n]
-----------------------------------------------------------------------------
Returns(fn, in, ret) == text' = [fn |-> fn, in |-> in, ret |-> ret]

\* Every way to encode a text: a byte as it is, or as two hex digits.
HexDigit(n) == IF n < 10 THEN 48 + n ELSE 55 + n
Escaped(c) == <<PERCENT, HexDigit(c \div 16), HexDigit(c % 16)>>
Plain(c) == IF c = SP THEN <<PLUS>> ELSE <<c>>
MustEscape == {PERCENT, PLUS}
Encoded(t, E) == Joined([k \in DOMAIN t |-> IF k \in E THEN Escaped(t[k]) ELSE Plain(t[k])])

CallUrldecode ==
  \E t \in UpTo(UrlBytes, MaxText) :
    \E E \in SUBSET DOMAIN t :
      /\ \A k \in DOMAIN t : t[k] \in MustEscape => k \in E
      /\ Returns("urldecode", t, urldecode_ex(Encoded(t, E)))

CallReplace ==
  \E search \in UpTo(Letters, MaxText), replace \in UpTo(Marks, MaxText),
     subject \in UpTo(Letters, MaxText + 1) :
    /\ search # <<>>
    /\ Returns("replace", <<search, replace, subject>>,
               hp_str_replace(search, replace, subject))

CallVercmp ==
  \E v, c \in UpTo(VerParts, MaxText) : Returns("vercmp", <<v, c>>, hp_vercmp(v, c))

CallDump ==
  \E s \in UpTo(DumpBytes, MaxText), n \in 0..MaxText :
    Returns("dump", <<s, n>>, dumpstr(s, n))

CallUnit == \E n \in Sizes : Returns("unit", n, byte_to_mb_kb(n))

CallReserve ==
  \E base \in BOOLEAN, nmemb \in 0..MaxText + 1 :
    \E n \in IF base THEN 0..nmemb ELSE {0}, nreserve \in 1..MaxText :
      /\ base => nmemb > 0
      /\ Returns("reserve", <<n, nreserve>>, hp_lreserve(base, nmemb, n, nreserve))

\* Texts are written from parts: a character, a dollar sign, a variable.  A variable
\* ends where no character of a name follows.
Parts == [kind : {"char"}, word : {<<c>> : c \in VarChars}]
           \cup [kind : {"dollar"}, word : {<<DOLLAR>>}] \cup [kind : {"var"}, word : VarNames]
Written(part) == IF part.kind = "char" THEN part.word ELSE <<DOLLAR>> \o part.word
Meant(part) == IF part.kind = "var" THEN hp_var_map_find(part.word) ELSE part.word
Apart(parts) == \A k \in 1..Len(parts) - 1 :
  parts[k].kind = "var" /\ parts[k + 1].kind = "char" => parts[k + 1].word[1] \notin NameChar

\* hp_var_eval, hp_var_map_replace
CallExpand ==
  \E parts \in UpTo(Parts, MaxText) :
    /\ Apart(parts)
    /\ Returns("expand", parts,
               hp_var_do_replace(Joined([k \in DOMAIN parts |-> Written(parts[k])])))

CallCompress ==
  \E n, room \in 1..MaxBytes : Returns("z", <<n, room>>, hp_zc_buf(n, room))

StringsInit == text = [fn |-> "none", in |-> <<>>, ret |-> <<>>]
StringCalls ==
  \/ CallUrldecode \/ CallReplace \/ CallVercmp \/ CallDump
  \/ CallUnit \/ CallReserve \/ CallExpand \/ CallCompress
StringsNext == text.fn = "none" /\ StringCalls
StringsSpec == StringsInit /\ [][StringsNext]_textVars
-----------------------------------------------------------------------------
\* Decoding undoes every way of encoding a text, an escape at its end included.
UrlRoundTrip == text.fn = "urldecode" => text.ret = text.in

\* Putting the searched text back for the replacement, which occurs nowhere else,
\* gives the subject again, and no match is left.
ReplacedAll ==
  text.fn = "replace" /\ text.in[2] # <<>> =>
    /\ hp_str_replace(text.in[2], text.in[1], text.ret) = text.in[3]
    /\ \A k \in DOMAIN text.ret : ~At(text.in[1], k, text.ret)

\* Versions are ordered: the other way round gives the opposite, and only zeros at
\* the end make no difference.
Significant(v) == SubSeq(v, 1, Greatest({0} \cup {k \in DOMAIN v : v[k] # 0}))
VersionsOrdered ==
  text.fn = "vercmp" =>
    /\ text.ret = -hp_vercmp(text.in[2], text.in[1])
    /\ text.ret = 0 <=> Significant(text.in[1]) = Significant(text.in[2])

\* A dump can be printed, and shows a byte by at most two.
DumpPrints ==
  text.fn = "dump" =>
    /\ \A k \in DOMAIN text.ret : isprint(text.ret[k])
    /\ Len(text.ret) <= 2 * text.in[2] + 3 /\ Len(text.ret) <= 2 * Len(text.in[1]) + 3

\* A size is shown in the unit in which it is at least 1 and, but in the largest,
\* below 1024; after hp_lreserve nreserve slots are free.
SizesFit ==
  /\ text.fn = "unit" =>
       /\ text.ret.v > 0 \/ text.in = 0
       /\ text.ret.unit = "G" \/ text.ret.v < 1024
  /\ text.fn = "reserve" => text.ret - text.in[1] >= text.in[2]

\* Every variable that is known is replaced once, its value is not read again, and
\* everything else stays, whatever stands next to it.
VarsExpand ==
  text.fn = "expand" => text.ret = Joined([k \in DOMAIN text.in |-> Meant(text.in[k])])

\* Compression succeeds exactly if the result fits, however many chunks it takes.
CompressedFits ==
  text.fn = "z" =>
    /\ text.ret.rc = 0 <=> text.in[1] <= text.in[2]
    /\ text.ret.rc = 0 => text.ret.olen = text.in[1]

\* Each function returns what it is for, at every boundary of its input.
StringsRight ==
  /\ UrlRoundTrip /\ ReplacedAll /\ VersionsOrdered /\ DumpPrints
  /\ SizesFit /\ VarsExpand /\ CompressedFits
=============================================================================
