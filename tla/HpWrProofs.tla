----------------------------- MODULE HpWrProofs -----------------------------
(***************************************************************************)
(* Proofs about the output queue HpWr, for every initial size, every       *)
(* IOV_MAX, all item lengths and any number of items.                      *)
(*                                                                         *)
(* The first part is about the operators on vectors of bytes: what the     *)
(* recursive PrefixBytes computes (its existence and its values follow     *)
(* from the least-number principle NatMin) and which bytes a writev of     *)
(* consecutive vectors takes.  The second part states the inductive        *)
(* invariant IInv and shows that every action keeps it.  The third draws   *)
(* the conclusions: the invariants that TLC checks on small instances, and *)
(* that the queue implements the ordered stream HpStream.                  *)
(***************************************************************************)
EXTENDS HpWr, SequenceTheorems, WellFoundedInduction, NaturalsInduction, TLAPS

\* Every nonempty set of naturals has a least element: the form in which
\* induction over data is used below.
LEMMA NatMin ==
  ASSUME NEW T, T \subseteq Nat, T # {}
  PROVE  \E m \in T : \A k \in T : m <= k
<1>1. IsWellFoundedOn(OpToRel(<, Nat), Nat)
  BY NatLessThanWellFounded
<1>2. PICK m \in T : \A k \in T : ~(<<k, m>> \in OpToRel(<, Nat))
  BY <1>1, WFMin, Zenon
<1>3. \A k \in T : ~(k < m)
  BY <1>2 DEF OpToRel
<1> QED BY <1>3

\* A function on 1..m is a sequence of length m.
LEMMA FcnIsSeq ==
  ASSUME NEW S, NEW m \in Nat, NEW f \in [1..m -> S]
  PROVE  f \in Seq(S) /\ Len(f) = m
<1>1. f \in Seq(S)
  BY SeqDef, Zenon
<1>2. DOMAIN f = 1..m /\ DOMAIN f = 1..Len(f) /\ Len(f) \in Nat
  BY <1>1, LenProperties
<1> QED BY <1>1, <1>2

\* v is a vector whose elements have a length.
Lengths(v) == Len(v) \in Nat /\ \A i \in 1..Len(v) : v[i].len \in Nat

\* f is a solution of the recursion of PrefixBytes up to k.
PrefixRec(v, f, k) ==
  f = [i \in 0..k |-> IF i = 0 THEN 0 ELSE f[i - 1] + v[i].len]

\* The recursive definition of PrefixBytes has a solution.
LEMMA PrefixExists ==
  ASSUME NEW v, Lengths(v)
  PROVE  \A k \in 0..Len(v) : \E f : PrefixRec(v, f, k)
<1> DEFINE T == {k \in 0..Len(v) : ~ \E f : PrefixRec(v, f, k)}
<1>0. Len(v) \in Nat
  BY DEF Lengths
<1> SUFFICES ASSUME T # {} PROVE FALSE
  OBVIOUS
<1>1. PICK m \in T : \A k \in T : m <= k
  BY <1>0, NatMin, T \subseteq Nat
<1>2. m # 0
  <2> SUFFICES ASSUME m = 0 PROVE FALSE
    OBVIOUS
  <2> DEFINE g == [i \in 0..0 |-> 0]
  <2>1. PrefixRec(v, g, 0)
    BY DEF PrefixRec
  <2> QED BY <2>1, <1>1
<1>3. PICK f : PrefixRec(v, f, m - 1)
  BY <1>0, <1>1, <1>2
<1> DEFINE g == [i \in 0..m |-> IF i = m THEN f[m - 1] + v[m].len ELSE f[i]]
<1>4. PrefixRec(v, g, m)
  <2> SUFFICES ASSUME NEW i \in 0..m
               PROVE  g[i] = IF i = 0 THEN 0 ELSE g[i - 1] + v[i].len
    BY DEF PrefixRec
  <2> HIDE DEF T
  <2>0. m \in Nat
    BY <1>0, <1>1 DEF T
  <2>1. \A j \in 0..m-1 : f[j] = IF j = 0 THEN 0 ELSE f[j - 1] + v[j].len
    BY <1>3 DEF PrefixRec
  <2>2. CASE i = m
    BY <2>0, <2>2, <1>2
  <2>3. CASE i # m
    BY <2>0, <2>1, <2>3, <1>2
  <2> QED BY <2>2, <2>3
<1> QED BY <1>4, <1>1

\* PrefixBytes, the running sum of iovec_total_bytes, satisfies its recursive
\* definition.
LEMMA PrefixDef ==
  ASSUME NEW v, Lengths(v)
  PROVE  PrefixRec(v, PrefixBytes(v), Len(v))
<1>1. PICK f : PrefixRec(v, f, Len(v))
  BY PrefixExists DEF Lengths
<1>2. PrefixBytes(v) = CHOOSE s : PrefixRec(v, s, Len(v))
  BY Zenon DEF PrefixBytes, PrefixRec
<1> QED BY <1>1, <1>2, Zenon

\* What PrefixBytes computes, one vector at a time.
LEMMA PrefixStep ==
  ASSUME NEW v, Lengths(v)
  PROVE  /\ PrefixBytes(v)[0] = 0
         /\ \A i \in 1..Len(v) :
              PrefixBytes(v)[i] = PrefixBytes(v)[i - 1] + v[i].len
<1> DEFINE s == PrefixBytes(v)
<1>0. PrefixRec(v, s, Len(v))
  BY PrefixDef
<1> HIDE DEF s
<1>1. s = [i \in 0..Len(v) |-> IF i = 0 THEN 0 ELSE s[i - 1] + v[i].len]
  BY <1>0 DEF PrefixRec
<1>2. \A i \in 0..Len(v) : s[i] = IF i = 0 THEN 0 ELSE s[i - 1] + v[i].len
  BY <1>1
<1>3. s[0] = 0 /\ \A i \in 1..Len(v) : s[i] = s[i - 1] + v[i].len
  BY <1>2 DEF Lengths
<1> QED BY <1>3 DEF s

\* The running sums are natural numbers.
LEMMA PrefixType ==
  ASSUME NEW v, Lengths(v)
  PROVE  PrefixBytes(v) \in [0..Len(v) -> Nat]
<1> DEFINE s == PrefixBytes(v)
           T == {i \in 0..Len(v) : s[i] \notin Nat}
<1>0. s[0] = 0 /\ \A i \in 1..Len(v) : s[i] = s[i - 1] + v[i].len
  BY PrefixStep
<1>1. PrefixRec(v, s, Len(v))
  BY PrefixDef
<1> HIDE DEF s
<1>2. s = [i \in 0..Len(v) |-> s[i]]
  BY <1>1 DEF PrefixRec
<1>3. T = {}
  <2> SUFFICES ASSUME T # {} PROVE FALSE
    OBVIOUS
  <2>1. PICK m \in T : \A i \in T : m <= i
    BY NatMin, T \subseteq Nat
  <2>2. m \in 1..Len(v) /\ s[m - 1] \in Nat
    BY <1>0, <2>1 DEF Lengths
  <2> QED BY <1>0, <2>1, <2>2 DEF Lengths
<1> QED BY <1>2, <1>3 DEF s

\* The position just after the last byte of a vector or item.
End(x) == x.base + x.len

\* From vector a + 1 on, each vector begins where the one before it ends.
Chain(v, a) == \A i \in a + 1 .. Len(v) - 1 : v[i + 1].base = End(v[i])

\* The bytes of consecutive vectors are the distance between their ends.
LEMMA PrefixChain ==
  ASSUME NEW v, Lengths(v), \A i \in 1..Len(v) : v[i].base \in Nat,
         NEW a \in 0..Len(v), Chain(v, a), NEW k \in a + 1 .. Len(v)
  PROVE  PrefixBytes(v)[k] - PrefixBytes(v)[a] = End(v[k]) - v[a + 1].base
<1> DEFINE s == PrefixBytes(v)
           T == {i \in a + 1 .. Len(v) : s[i] - s[a] # End(v[i]) - v[a + 1].base}
<1>0. /\ \A i \in 1..Len(v) : s[i] = s[i - 1] + v[i].len
      /\ s \in [0..Len(v) -> Nat]
  BY PrefixStep, PrefixType
<1> HIDE DEF s
<1>t. /\ Len(v) \in Nat
      /\ \A i \in 1..Len(v) : v[i].len \in Nat /\ v[i].base \in Nat
  BY DEF Lengths
<1> SUFFICES ASSUME T # {} PROVE FALSE
  BY DEF s
<1>1. PICK m \in T : \A i \in T : m <= i
  BY <1>t, NatMin, T \subseteq Nat
<1>2. /\ m \in a + 1 .. Len(v) /\ m \in 1..Len(v) /\ m - 1 \in 0..Len(v)
      /\ a + 1 \in 1..Len(v)
      /\ s[m] - s[a] # End(v[m]) - v[a + 1].base
  BY <1>1, <1>t
<1>3. s[m] = s[m - 1] + v[m].len /\ s[m] \in Nat /\ s[m - 1] \in Nat /\ s[a] \in Nat
  <2> HIDE DEF T
  <2>1. m \in 0..Len(v) /\ a \in 0..Len(v)
    BY <1>2, <1>t
  <2>2. s[m] \in Nat /\ s[m - 1] \in Nat /\ s[a] \in Nat
    BY <2>1, <1>0, <1>2, Zenon
  <2> QED BY <2>2, <1>0, <1>2, Zenon
<1>4. CASE m = a + 1
  <2>1. s[m] - s[a] = v[m].len /\ End(v[m]) - v[a + 1].base = v[m].len
    BY <1>2, <1>3, <1>4, <1>t, SMTT(30) DEF End
  <2> QED BY <2>1, <1>2
<1>5. CASE m # a + 1
  <2>1. m - 1 \in a + 1 .. Len(v) - 1 /\ m - 1 \notin T /\ m - 1 \in 1..Len(v)
    BY <1>1, <1>2, <1>5, <1>t
  <2>2. v[m].base = End(v[m - 1])
    BY <2>1, <1>2, <1>t DEF Chain
  <2>3. s[m - 1] - s[a] = End(v[m - 1]) - v[a + 1].base
    BY <2>1, <1>t
  <2>4. End(v[m]) = End(v[m - 1]) + v[m].len /\ End(v[m - 1]) \in Nat
    BY <2>2, <2>1, <1>2, <1>t DEF End
  <2>5. v[m].len \in Nat /\ v[a + 1].base \in Nat
    BY <1>2, <1>t
  <2> DEFINE x == s[m]  y == s[m - 1]  z == s[a]
             e == End(v[m - 1])  b == v[a + 1].base  l == v[m].len
  <2>6. /\ x \in Nat /\ y \in Nat /\ z \in Nat
        /\ e \in Nat /\ b \in Nat /\ l \in Nat
        /\ x = y + l /\ y - z = e - b
    BY <1>3, <2>3, <2>4, <2>5, Zenon
  <2> HIDE DEF T, x, y, z, e, b, l
  <2>7. x - z = (e + l) - b
    BY ONLY <2>6
  <2>8. s[m] - s[a] = (End(v[m - 1]) + v[m].len) - v[a + 1].base
    BY <2>7, Zenon DEF x, z, e, b, l
  <2> QED BY <1>2, <2>4, <2>8, Zenon
<1> QED BY <1>4, <1>5

\* writev of consecutive vectors takes consecutive bytes of the stream.
LEMMA GatherChain ==
  ASSUME NEW v, Lengths(v), \A i \in 1..Len(v) : v[i].base \in Nat,
         Len(v) # 0, Chain(v, 0)
  PROVE  Gather(v) = [k \in 1..(End(v[Len(v)]) - v[1].base) |-> v[1].base + k - 1]
<1> DEFINE s == PrefixBytes(v)
           Owner(k) == CHOOSE i \in 1..Len(v) : s[i - 1] < k /\ k <= s[i]
           b == v[1].base
<1>t. /\ Len(v) \in Nat \ {0}
      /\ \A i \in 1..Len(v) : v[i].len \in Nat /\ v[i].base \in Nat
      /\ \A i \in 1..Len(v) : End(v[i]) \in Nat
      /\ b \in Nat
  BY DEF Lengths, End
<1>0. s[0] = 0 /\ s \in [0..Len(v) -> Nat]
  BY PrefixStep, PrefixType
<1>1. \A i \in 1..Len(v) : s[i] = End(v[i]) - b
  <2> SUFFICES ASSUME NEW i \in 1..Len(v) PROVE s[i] = End(v[i]) - b
    OBVIOUS
  <2>1. s[i] - s[0] = End(v[i]) - v[0 + 1].base
    BY <1>t, PrefixChain
  <2>2. s[i] \in Nat
    BY <1>0, <1>t
  <2> HIDE DEF s
  <2> QED BY <2>1, <2>2, <1>0
<1>2. \A i \in 1..Len(v) : s[i - 1] = v[i].base - b
  <2> SUFFICES ASSUME NEW i \in 1..Len(v) PROVE s[i - 1] = v[i].base - b
    OBVIOUS
  <2>1. CASE i = 1
    BY <2>1, <1>0, <1>t
  <2>2. CASE i # 1
    <3>1. i - 1 \in 0 + 1 .. Len(v) - 1 /\ i - 1 \in 1..Len(v)
      BY <2>2, <1>t
    <3>2. v[i - 1 + 1].base = End(v[i - 1])
      BY <3>1 DEF Chain
    <3>3. v[i].base = End(v[i - 1])
      BY <3>2, <1>t
    <3> QED BY <3>1, <3>3, <1>1, Zenon
  <2> QED BY <2>1, <2>2
<1>3. Gather(v) = [k \in 1..s[Len(v)] |-> v[Owner(k)].base + k - 1 - s[Owner(k) - 1]]
  BY Zenon DEF Gather
<1> HIDE DEF s
<1>4. s[Len(v)] = End(v[Len(v)]) - b
  BY <1>1, <1>t
<1>5. ASSUME NEW k \in 1..s[Len(v)]
      PROVE  v[Owner(k)].base + k - 1 - s[Owner(k) - 1] = b + k - 1
  <2> DEFINE T == {i \in 1..Len(v) : k <= s[i]}
  <2>1. s[Len(v)] \in Nat /\ Len(v) \in T
    BY <1>0, <1>t
  <2>2. PICK m \in T : \A i \in T : m <= i
    BY <2>1, NatMin, T \subseteq Nat
  <2>3. s[m - 1] < k
    <3>1. CASE m = 1
      BY <3>1, <1>0
    <3>2. CASE m # 1
      <4>1. m - 1 \in 1..Len(v) /\ m - 1 \notin T
        BY <2>2, <3>2, <1>t
      <4>2. ~(k <= s[m - 1])
        BY <4>1
      <4>3. s[m - 1] \in Nat
        <5>1. m - 1 \in 0..Len(v)
          BY <4>1, <1>t
        <5> QED BY ONLY <5>1, <1>0, Zenon
      <4> QED BY <4>2, <4>3, <2>1
    <3> QED BY <3>1, <3>2
  <2>4. \E i \in 1..Len(v) : s[i - 1] < k /\ k <= s[i]
    BY <2>2, <2>3
  <2> HIDE DEF T
  <2>5. Owner(k) \in 1..Len(v)
    BY <2>4, Zenon
  <2> HIDE DEF Owner
  <2>6. s[Owner(k) - 1] = v[Owner(k)].base - b /\ v[Owner(k)].base \in Nat
    BY <2>5, <1>2, <1>t, Zenon
  <2> DEFINE x == v[Owner(k)].base  y == s[Owner(k) - 1]
  <2>7. x \in Nat /\ b \in Nat /\ y = x - b /\ k \in Int
    BY <2>6, <1>t, <2>1
  <2> HIDE DEF x, y, b
  <2>8. x + k - 1 - y = b + k - 1
    BY <2>7
  <2> QED BY <2>8, Zenon DEF x, y
<1> HIDE DEF Owner, b
<1>6. Gather(v) = [k \in 1..s[Len(v)] |-> b + k - 1]
  BY <1>3, <1>5, Zenon
<1> QED BY <1>6, <1>4, Zenon DEF b

-----------------------------------------------------------------------------
(* The inductive invariant of the output queue *)

Writing == pc \in {"writev", "written"}

\* Items are numbered in the order of the hp_wr_add calls; the released ones
\* are the first, the queued ones follow.
IdInv ==
  /\ Len(freed) + Len(o_items) = Len(ends)
  /\ \A i \in 1..Len(freed) : freed[i] = i
  /\ \A i \in 1..Len(o_items) : o_items[i].id = Len(freed) + i

\* The queued items lie one after the other in the stream.
QueueInv ==
  /\ Chain(o_items, 0)
  /\ \A i \in 1..Len(o_items) : End(o_items[i]) = ends[Len(freed) + i]
  /\ \A i, j \in 1..Len(ends) : i <= j => ends[i] <= ends[j]

\* Outside of a write the queue begins at the first byte not yet sent.
FrontInv ==
  /\ ~Writing /\ o_items # <<>> => o_items[1].base = Len(wire)
  /\ pc # "closed" /\ o_items = <<>> => Len(wire) = total
  /\ pc # "closed" => \A i \in 1..Len(freed) : ends[i] <= Len(wire)

\* Within a write vec[n + 1] begins at the first byte not yet sent.
WriteInv ==
  Writing =>
    /\ Len(vec) # 0 /\ Len(vec) <= Len(o_items)
    /\ pc = "writev" => n < Len(vec)
    /\ pc = "written" => (err = "OK" <=> n = Len(vec))
    /\ \A i \in 1..Len(vec) : End(vec[i]) = End(o_items[i])
    /\ \A i \in 1..n : End(vec[i]) <= Len(wire)
    /\ n < Len(vec) => vec[n + 1].base = Len(wire)
    /\ n = Len(vec) => End(vec[n]) = Len(wire)
    /\ Chain(vec, n)
    /\ W - nwrite = End(vec[Len(vec)]) - Len(wire)

\* The bytes on the wire are those of the stream, in order, and are counted.
WireInv ==
  /\ \A k \in 1..Len(wire) : wire[k] = k - 1
  /\ o_bytes + (IF Writing THEN nwrite ELSE 0) = Len(wire)

\* The array always has a slot, and one for every item.
SlotInv == O_ITEMS_LEN # 0 /\ SlotsSuffice

\* All of it.
IInv == TypeOK /\ IdInv /\ QueueInv /\ FrontInv /\ WriteInv /\ WireInv /\ SlotInv

\* What TypeOK says about lengths and elements of the sequences.
LEMMA Types ==
  ASSUME TypeOK
  PROVE  /\ Len(o_items) \in Nat /\ Len(vec) \in Nat /\ Len(wire) \in Nat
         /\ Len(ends) \in Nat /\ Len(freed) \in Nat /\ n \in Nat
         /\ \A i \in 1..Len(o_items) :
              o_items[i] \in Item /\ o_items[i].base \in Nat
              /\ o_items[i].len \in Nat /\ End(o_items[i]) \in Nat
         /\ \A i \in 1..Len(vec) :
              vec[i] \in Iovec /\ vec[i].base \in Nat
              /\ vec[i].len \in Nat /\ End(vec[i]) \in Nat
         /\ \A i \in 1..Len(ends) : ends[i] \in Nat
         /\ total \in Nat
<1>1. /\ Len(o_items) \in Nat /\ Len(vec) \in Nat /\ Len(wire) \in Nat
      /\ Len(ends) \in Nat /\ Len(freed) \in Nat
  BY LenProperties DEF TypeOK
<1>2. \A i \in 1..Len(o_items) : o_items[i] \in Item
  BY ElementOfSeq DEF TypeOK
<1>3. \A i \in 1..Len(vec) : vec[i] \in Iovec
  BY ElementOfSeq DEF TypeOK
<1>4. \A i \in 1..Len(ends) : ends[i] \in Nat
  BY ElementOfSeq DEF TypeOK
<1>5. total \in Nat
  <2>1. CASE ends = <<>>
    BY <2>1 DEF total
  <2>2. CASE ends # <<>>
    <3>1. Len(ends) \in 1..Len(ends)
      BY <2>2, <1>1, EmptySeq DEF TypeOK
    <3> QED BY <3>1, <1>4, <2>2 DEF total
  <2> QED BY <2>1, <2>2
<1>6. n \in Nat
  BY <1>1 DEF TypeOK
<1>7. \A i \in 1..Len(o_items) : o_items[i].base \in Nat
         /\ o_items[i].len \in Nat /\ End(o_items[i]) \in Nat
  BY <1>2 DEF Item, End
<1>8. \A i \in 1..Len(vec) : vec[i].base \in Nat
         /\ vec[i].len \in Nat /\ End(vec[i]) \in Nat
  BY <1>3 DEF Iovec, End
<1> QED BY <1>1, <1>2, <1>3, <1>4, <1>5, <1>6, <1>7, <1>8

\* hp_etio_del_n on items that agree with the queue in everything but where
\* item k + 1 begins.
LEMMA Release ==
  ASSUME TypeOK, IdInv, QueueInv,
         NEW items \in Seq(Item), NEW k \in 0..Len(items),
         Len(items) = Len(o_items),
         \A i \in 1..Len(items) :
           items[i].id = o_items[i].id /\ End(items[i]) = End(o_items[i]),
         Chain(items, k),
         hp_etio_del_n(items, k), UNCHANGED ends
  PROVE  /\ o_items' \in Seq(Item) /\ freed' \in Seq(Nat)
         /\ Len(o_items') = Len(items) - k /\ Len(freed') = Len(freed) + k
         /\ \A i \in 1..Len(items) - k : o_items'[i] = items[k + i]
         /\ IdInv' /\ QueueInv'
<1>t. /\ Len(items) \in Nat /\ Len(freed) \in Nat /\ Len(ends) \in Nat
      /\ \A i \in 1..Len(items) : items[i] \in Item
      /\ k \in Nat /\ k <= Len(items) /\ freed \in Seq(Nat)
  BY Types, LenProperties, ElementOfSeq DEF TypeOK
<1> DEFINE g == [i \in 1..k |-> items[i].id]
<1>1. g \in [1..k -> Nat]
  <2>1. \A i \in 1..k : i \in 1..Len(items)
    BY <1>t
  <2>2. \A i \in 1..k : items[i].id \in Nat
    BY <2>1, <1>t DEF Item
  <2> QED BY <2>2
<1>2. g \in Seq(Nat) /\ Len(g) = k
  <2>1. k \in Nat
    BY <1>t
  <2> QED BY ONLY <1>1, <2>1, FcnIsSeq
<1>3. freed' = freed \o g
  BY DEF hp_etio_del_n
<1>g. \A i \in 1..k : g[i] = items[i].id
  OBVIOUS
<1> HIDE DEF g
<1>4. /\ freed' \in Seq(Nat) /\ Len(freed') = Len(freed) + k
      /\ \A i \in 1..Len(freed) + k :
           freed'[i] = IF i <= Len(freed) THEN freed[i] ELSE g[i - Len(freed)]
  <2>0. freed \in Seq(Nat)
    BY <1>t
  <2>1. /\ freed \o g \in Seq(Nat) /\ Len(freed \o g) = Len(freed) + Len(g)
        /\ \A i \in 1..Len(freed) + Len(g) :
             (freed \o g)[i] = IF i <= Len(freed) THEN freed[i] ELSE g[i - Len(freed)]
    BY ONLY <1>2, <2>0, ConcatProperties, Zenon
  <2> QED BY <2>1, <1>2, <1>3, Zenon
<1>5. o_items' = SubSeq(items, k + 1, Len(items))
  BY DEF hp_etio_del_n, Rest
<1>6. \A i \in k + 1 .. Len(items) : items[i] \in Item
  BY <1>t
<1>7. /\ o_items' \in Seq(Item)
      /\ Len(o_items') = IF k + 1 <= Len(items) THEN Len(items) - (k + 1) + 1 ELSE 0
      /\ \A i \in 1 .. Len(items) - (k + 1) + 1 : o_items'[i] = items[k + 1 + i - 1]
  BY <1>5, <1>6, <1>t, SubSeqProperties
<1>8. /\ Len(o_items') = Len(items) - k
      /\ \A i \in 1..Len(items) - k : o_items'[i] = items[k + i]
  BY <1>7, <1>t
<1>9. IdInv'
  <2>1. Len(freed') + Len(o_items') = Len(ends')
    <3>1. Len(freed) + Len(items) = Len(ends')
      BY DEF IdInv
    <3>2. Len(freed') = Len(freed) + k /\ Len(o_items') = Len(items) - k
      BY <1>4, <1>8
    <3>3. k \in Nat /\ Len(items) \in Nat /\ Len(freed) \in Nat
      BY <1>t
    <3> QED BY ONLY <3>1, <3>2, <3>3
  <2>2. ASSUME NEW i \in 1..Len(freed') PROVE freed'[i] = i
    <3>1. CASE i <= Len(freed)
      <4>1. i \in 1..Len(freed) /\ freed'[i] = freed[i]
        BY <3>1, <1>4, <1>t
      <4> QED BY <4>1 DEF IdInv
    <3>2. CASE ~(i <= Len(freed))
      <4>1. i - Len(freed) \in 1..k /\ i - Len(freed) \in 1..Len(items)
        BY <3>2, <1>4, <1>t
      <4>2. freed'[i] = items[i - Len(freed)].id
        BY <4>1, <1>g, <1>4, <3>2, <1>t
      <4>3. o_items[i - Len(freed)].id = Len(freed) + (i - Len(freed))
        BY <4>1 DEF IdInv
      <4>4. freed'[i] = Len(freed) + (i - Len(freed))
        BY <4>1, <4>2, <4>3
      <4>5. i \in Int /\ Len(freed) \in Int
        BY <1>4, <1>t
      <4> QED BY <4>4, <4>5
    <3> QED BY <3>1, <3>2
  <2>3. ASSUME NEW i \in 1..Len(o_items') PROVE o_items'[i].id = Len(freed') + i
    <3>1. k + i \in 1..Len(items) /\ o_items'[i] = items[k + i]
      BY <1>8, <1>t
    <3>2. o_items[k + i].id = Len(freed) + (k + i)
      BY <3>1 DEF IdInv
    <3>3. items[k + i].id = Len(freed) + (k + i)
      BY <3>1, <3>2
    <3> QED BY <3>1, <3>3, <1>4, <1>t
  <2> QED BY <2>1, <2>2, <2>3 DEF IdInv
<1>10. QueueInv'
  <2>1. ASSUME NEW i \in 0 + 1 .. Len(o_items') - 1
        PROVE  o_items'[i + 1].base = End(o_items'[i])
    <3>1. /\ k + i \in k + 1 .. Len(items) - 1
          /\ o_items'[i] = items[k + i] /\ o_items'[i + 1] = items[k + (i + 1)]
          /\ k + (i + 1) = k + i + 1
      BY <1>8, <1>t
    <3>2. items[k + i + 1].base = End(items[k + i])
      BY <3>1 DEF Chain
    <3> QED BY <3>1, <3>2
  <2>2. ASSUME NEW i \in 1..Len(o_items')
        PROVE  End(o_items'[i]) = ends'[Len(freed') + i]
    <3>1. /\ k + i \in 1..Len(items) /\ o_items'[i] = items[k + i]
          /\ Len(freed) + (k + i) = Len(freed') + i
      BY <1>8, <1>4, <1>t
    <3>2. End(items[k + i]) = ends[Len(freed) + (k + i)]
      BY <3>1 DEF QueueInv
    <3> QED BY <3>1, <3>2
  <2> QED BY <2>1, <2>2 DEF QueueInv, Chain, End
<1> QED BY <1>4, <1>7, <1>8, <1>9, <1>10

\* hp_wr_init establishes the invariant.
LEMMA InitInv == Init => IInv
<1> SUFFICES ASSUME Init PROVE IInv
  OBVIOUS
<1>1. \A S : <<>> \in Seq(S) /\ Len(<<>>) = 0
  BY EmptySeq
<1>2. TypeOK
  <2>1. n \in 0..Len(vec)
    BY <1>1 DEF Init
  <2>2. /\ o_items \in Seq(Item) /\ vec \in Seq(Iovec)
        /\ wire \in Seq(Nat) /\ ends \in Seq(Nat) /\ freed \in Seq(Nat)
    BY <1>1, Zenon DEF Init
  <2> QED BY <2>1, <2>2, InitLenAssumption DEF Init, TypeOK, Errs
<1>3. IdInv /\ QueueInv /\ WireInv
  BY <1>1 DEF Init, IdInv, QueueInv, WireInv, Chain, Writing
<1>4. FrontInv /\ WriteInv
  BY <1>1 DEF Init, FrontInv, WriteInv, Writing, total
<1>5. SlotInv
  BY <1>1, InitLenAssumption DEF Init, SlotInv, SlotsSuffice
<1> QED BY <1>2, <1>3, <1>4, <1>5 DEF IInv

\* hp_wr_add keeps the invariant: the new item begins where the stream ended,
\* and the doubled or halved array has a slot for it.
LEMMA AddInv ==
  ASSUME IInv, NEW l \in ItemLens, hp_wr_add(l)
  PROVE  IInv'
<1> DEFINE x == [id |-> Len(ends) + 1, base |-> total, len |-> l]
           N == Len(o_items)
           E == Len(ends)
<1>t. /\ N \in Nat /\ E \in Nat /\ Len(freed) \in Nat /\ Len(wire) \in Nat
      /\ total \in Nat /\ l \in Nat /\ x \in Item /\ total + l \in Nat
      /\ \A i \in 1..E : ends[i] \in Nat
      /\ o_items \in Seq(Item) /\ ends \in Seq(Nat)
  BY Types, ItemLensAssumption DEF IInv, TypeOK, Item
<1>f. /\ Len(freed) + N = E /\ pc = "idle"
      /\ ends = <<>> <=> E = 0
      /\ E # 0 => total = ends[E]
  BY <1>t, EmptySeq DEF IInv, IdInv, hp_wr_add, total
<1>1. /\ o_items' = Append(o_items, x) /\ ends' = Append(ends, total + l)
      /\ UNCHANGED <<o_bytes, wr_err, pc, vec, n, nwrite, W, err, wire, freed>>
  BY DEF hp_wr_add, locals
<1> HIDE DEF x
<1>2. /\ o_items' \in Seq(Item) /\ o_items' # <<>> /\ Len(o_items') = N + 1
      /\ \A i \in 1..N : o_items'[i] = o_items[i]
      /\ o_items'[N + 1] = x
  BY <1>1, <1>t, AppendProperties
<1>3. /\ ends' \in Seq(Nat) /\ ends' # <<>> /\ Len(ends') = E + 1
      /\ \A i \in 1..E : ends'[i] = ends[i]
      /\ ends'[E + 1] = total + l
  BY <1>1, <1>t, AppendProperties
<1>x. x.id = E + 1 /\ x.base = total /\ End(x) = total + l
  BY DEF x, End
<1> HIDE DEF N, E
<1>4. SlotInv'
  <2>1. O_ITEMS_LEN' = hp_eto_reserve(O_ITEMS_LEN, N)
    BY DEF hp_wr_add, N
  <2>2. O_ITEMS_LEN \in Nat \ {0} /\ N <= O_ITEMS_LEN
    BY DEF IInv, SlotInv, SlotsSuffice, TypeOK, N
  <2>3. O_ITEMS_LEN' # 0 /\ N + 1 <= O_ITEMS_LEN'
    BY <2>1, <2>2, <1>t DEF hp_eto_reserve
  <2> QED BY <2>3, <1>2 DEF SlotInv, SlotsSuffice
<1>5. TypeOK'
  <2>1. O_ITEMS_LEN' \in Nat
    BY <1>t, InitLenAssumption DEF hp_wr_add, hp_eto_reserve, IInv, TypeOK
  <2> QED BY <2>1, <1>1, <1>2, <1>3 DEF IInv, TypeOK
<1>6. IdInv'
  <2>1. Len(freed') + Len(o_items') = Len(ends')
    BY <1>1, <1>2, <1>3, <1>f, <1>t
  <2>2. \A i \in 1..Len(freed') : freed'[i] = i
    BY <1>1 DEF IInv, IdInv
  <2>3. ASSUME NEW i \in 1..Len(o_items') PROVE o_items'[i].id = Len(freed') + i
    <3>1. CASE i \in 1..N
      BY <3>1, <1>1, <1>2 DEF IInv, IdInv, N
    <3>2. CASE i = N + 1
      BY <3>2, <1>1, <1>2, <1>x, <1>f, <1>t
    <3> QED BY <3>1, <3>2, <1>2, <1>t
  <2> QED BY <2>1, <2>2, <2>3 DEF IdInv
<1>q. /\ N # 0 => End(o_items[N]) = total
      /\ \A i \in 1..E : ends[i] <= total
  <2>1. N # 0 => End(o_items[N]) = ends[Len(freed) + N]
    BY <1>t DEF IInv, QueueInv, N
  <2>2. E # 0 => \A i \in 1..E : ends[i] <= ends[E]
    BY <1>t DEF IInv, QueueInv, E
  <2>3. N # 0 => E # 0
    BY <1>f, <1>t
  <2> QED BY <2>1, <2>2, <2>3, <1>f, <1>t
<1>7. QueueInv'
  <2>1. ASSUME NEW i \in 0 + 1 .. Len(o_items') - 1
        PROVE  o_items'[i + 1].base = End(o_items'[i])
    <3>1. CASE i = N
      <4>1. N \in 1..N /\ N # 0
        BY <3>1, <1>2, <1>t
      <4>2. o_items'[i + 1].base = total /\ o_items'[i] = o_items[N]
        BY <3>1, <4>1, <1>2, <1>x
      <4> QED BY <4>1, <4>2, <1>q
    <3>2. CASE i # N
      <4>1. i \in 0 + 1 .. N - 1 /\ i \in 1..N /\ i + 1 \in 1..N
        BY <3>2, <1>2, <1>t
      <4>2. o_items[i + 1].base = End(o_items[i])
        BY <4>1 DEF IInv, QueueInv, Chain, N
      <4> QED BY <4>1, <4>2, <1>2
    <3> QED BY <3>1, <3>2
  <2>2. ASSUME NEW i \in 1..Len(o_items')
        PROVE  End(o_items'[i]) = ends'[Len(freed') + i]
    <3>1. CASE i \in 1..N
      <4>1. Len(freed) + i \in 1..E
        BY <3>1, <1>f, <1>t
      <4>2. End(o_items[i]) = ends[Len(freed) + i]
        BY <3>1 DEF IInv, QueueInv, N
      <4> QED BY <3>1, <4>1, <4>2, <1>1, <1>2, <1>3
    <3>2. CASE i = N + 1
      <4>1. Len(freed) + i = E + 1
        BY <3>2, <1>f, <1>t
      <4> QED BY <3>2, <4>1, <1>1, <1>2, <1>3, <1>x
    <3> QED BY <3>1, <3>2, <1>2, <1>t
  <2>3. ASSUME NEW i \in 1..Len(ends'), NEW j \in 1..Len(ends'), i <= j
        PROVE  ends'[i] <= ends'[j]
    <3>1. CASE j \in 1..E
      <4>1. i \in 1..E
        BY <2>3, <3>1, <1>3, <1>t
      <4>2. ends[i] <= ends[j]
        BY <2>3, <3>1, <4>1 DEF IInv, QueueInv, E
      <4> QED BY <3>1, <4>1, <4>2, <1>3
    <3>2. CASE j = E + 1
      <4>1. CASE i \in 1..E
        <5>1. ends[i] \in Nat /\ ends[i] <= total /\ ends'[i] = ends[i]
          BY <4>1, <1>q, <1>t, <1>3
        <5>2. ends'[j] = total + l
          BY <3>2, <1>3
        <5> QED BY <5>1, <5>2, <1>t
      <4>2. CASE i = E + 1
        BY <4>2, <3>2, <1>3, <1>t
      <4> QED BY <4>1, <4>2, <1>3, <1>t
    <3> QED BY <3>1, <3>2, <1>3, <1>t
  <2> QED BY <2>1, <2>2, <2>3 DEF QueueInv, Chain, End
<1>8. FrontInv'
  <2>1. o_items'[1].base = Len(wire')
    <3>1. CASE N = 0
      <4>1. o_items = <<>>
        BY <3>1, <1>t, EmptySeq DEF N
      <4>2. Len(wire) = total
        BY <4>1, <1>f DEF IInv, FrontInv
      <4> QED BY <3>1, <4>2, <1>1, <1>2, <1>x
    <3>2. CASE N # 0
      <4>1. 1 \in 1..N /\ o_items # <<>>
        BY <3>2, <1>t, EmptySeq DEF N
      <4>2. o_items[1].base = Len(wire)
        BY <4>1, <1>f DEF IInv, FrontInv, Writing
      <4> QED BY <4>1, <4>2, <1>1, <1>2
    <3> QED BY <3>1, <3>2
  <2>2. ASSUME NEW i \in 1..Len(freed') PROVE ends'[i] <= Len(wire')
    <3>1. i \in 1..E /\ i \in 1..Len(freed)
      BY <1>1, <1>f, <1>t
    <3>2. ends[i] <= Len(wire)
      BY <3>1, <1>f DEF IInv, FrontInv
    <3> QED BY <3>1, <3>2, <1>1, <1>3
  <2> QED BY <2>1, <2>2, <1>2 DEF FrontInv
<1>9. WriteInv' /\ WireInv'
  BY <1>1, <1>f DEF IInv, WriteInv, WireInv, Writing
<1> QED BY <1>4, <1>5, <1>6, <1>7, <1>8, <1>9 DEF IInv

\* The items a write takes are the first of the queue, and their bytes the
\* ones between the last byte sent and their end.
LEMMA BatchFacts ==
  ASSUME IInv, pc = "batch", o_items # <<>>
  PROVE  /\ Len(Batch) \in 1..Len(o_items)
         /\ \A i \in 1..Len(Batch) : Batch[i] = o_items[i]
         /\ iovec_total_bytes(Batch) = End(o_items[Len(Batch)]) - Len(wire)
         /\ iovec_total_bytes(Batch) \in Nat
<1> DEFINE m == Minimum(IovMax, Len(o_items))
<1>t. /\ Len(o_items) \in Nat /\ Len(wire) \in Nat
      /\ \A i \in 1..Len(o_items) :
           o_items[i] \in Item /\ o_items[i].base \in Nat /\ o_items[i].len \in Nat
           /\ End(o_items[i]) \in Nat
  BY Types DEF IInv
<1>0. Len(o_items) # 0
  BY <1>t, EmptySeq DEF IInv, TypeOK
<1>1. m \in 1..Len(o_items)
  BY <1>0, <1>t, IovMaxAssumption DEF Minimum
<1> HIDE DEF m
<1>2. Batch = SubSeq(o_items, 1, m)
  BY DEF Batch, m
<1>3. \A i \in 1..m : o_items[i] \in Item
  BY <1>1, <1>t
<1>4. /\ SubSeq(o_items, 1, m) \in Seq(Item)
      /\ Len(SubSeq(o_items, 1, m)) = IF 1 <= m THEN m - 1 + 1 ELSE 0
      /\ \A i \in 1 .. m - 1 + 1 : SubSeq(o_items, 1, m)[i] = o_items[1 + i - 1]
  BY <1>3, <1>1, <1>t, SubSeqProperties
<1>5. Len(Batch) = m /\ \A i \in 1..m : Batch[i] = o_items[i]
  BY <1>2, <1>4, <1>1, <1>t
<1> DEFINE b == Batch
<1>6. /\ Len(b) \in Nat
      /\ \A i \in 1..Len(b) : b[i].len \in Nat /\ b[i].base \in Nat
  <2>1. \A i \in 1..m : i \in 1..Len(o_items)
    BY <1>1, <1>t
  <2>2. \A i \in 1..m : Batch[i].len \in Nat /\ Batch[i].base \in Nat
    BY <2>1, <1>5, <1>t
  <2> QED BY <2>2, <1>5, <1>1
<1>7. Chain(b, 0)
  <2> SUFFICES ASSUME NEW i \in 0 + 1 .. Len(b) - 1 PROVE b[i + 1].base = End(b[i])
    BY DEF Chain
  <2>1. i \in 0 + 1 .. Len(o_items) - 1 /\ i \in 1..m /\ i + 1 \in 1..m
    BY <1>5, <1>1, <1>t
  <2>2. o_items[i + 1].base = End(o_items[i])
    BY <2>1 DEF IInv, QueueInv, Chain
  <2> QED BY <2>1, <2>2, <1>5
<1>8. PrefixBytes(b)[m] - PrefixBytes(b)[0] = End(b[m]) - b[0 + 1].base
  <2>1. Lengths(b) /\ 0 \in 0..Len(b) /\ m \in 0 + 1 .. Len(b)
    BY <1>5, <1>6, <1>1, <1>t DEF Lengths
  <2> HIDE DEF b
  <2> QED BY <2>1, <1>6, <1>7, PrefixChain
<1>9. /\ PrefixBytes(b)[0] = 0 /\ PrefixBytes(b)[m] \in Nat
  <2>1. Lengths(b) /\ m \in 0..Len(b)
    BY <1>5, <1>6, <1>1, <1>t DEF Lengths
  <2> HIDE DEF b
  <2> QED BY <2>1, PrefixStep, PrefixType
<1>10. o_items[1].base = Len(wire)
  BY DEF IInv, FrontInv, Writing
<1>11. PrefixBytes(b)[m] = End(o_items[m]) - Len(wire)
  <2> DEFINE p == PrefixBytes(b)[m]
  <2>1. p \in Nat /\ p - 0 = End(o_items[m]) - Len(wire)
    BY <1>8, <1>9, <1>10, <1>5, <1>1
  <2> HIDE DEF p
  <2>2. p = End(o_items[m]) - Len(wire)
    BY <2>1
  <2> QED BY <2>2 DEF p
<1> QED BY <1>1, <1>5, <1>9, <1>11 DEF iovec_total_bytes

\* The last queued item ends at the last byte handed to hp_wr_add.
LEMMA LastIsTotal ==
  ASSUME TypeOK, IdInv, QueueInv, Len(o_items) # 0
  PROVE  End(o_items[Len(o_items)]) = total
<1>t. /\ Len(o_items) \in Nat /\ Len(freed) \in Nat /\ Len(ends) \in Nat
  BY Types
<1>1. Len(freed) + Len(o_items) = Len(ends) /\ Len(o_items) \in 1..Len(o_items)
  BY <1>t DEF IdInv
<1>2. End(o_items[Len(o_items)]) = ends[Len(ends)]
  BY <1>1 DEF QueueInv
<1>3. ends # <<>>
  BY <1>1, <1>t, EmptySeq
<1> QED BY <1>2, <1>3 DEF total

\* After a release the queue again begins at the first byte not yet sent.
LEMMA ReleaseFront ==
  ASSUME IInv, pc # "closed",
         NEW items \in Seq(Item), NEW k \in 0..Len(items),
         Len(items) = Len(o_items),
         \A i \in 1..Len(items) :
           items[i].id = o_items[i].id /\ End(items[i]) = End(o_items[i]),
         Chain(items, k),
         k # 0 => End(items[k]) <= Len(wire),
         k < Len(items) => items[k + 1].base = Len(wire),
         k = Len(items) => Len(wire) = total,
         hp_etio_del_n(items, k), UNCHANGED <<ends, wire>>
  PROVE  FrontInv'
<1>t. /\ Len(items) \in Nat /\ Len(freed) \in Nat /\ Len(ends) \in Nat
      /\ Len(wire) \in Nat /\ k \in Nat /\ k <= Len(items)
      /\ \A i \in 1..Len(ends) : ends[i] \in Nat
      /\ \A i \in 1..Len(items) : End(items[i]) \in Nat
  <2>1. TypeOK
    BY DEF IInv
  <2>2. /\ Len(o_items) \in Nat /\ Len(freed) \in Nat /\ Len(ends) \in Nat
        /\ Len(wire) \in Nat
        /\ \A i \in 1..Len(ends) : ends[i] \in Nat
        /\ \A i \in 1..Len(o_items) : End(o_items[i]) \in Nat
    BY <2>1, Types
  <2> QED BY <2>2
<1>1. /\ o_items' \in Seq(Item)
      /\ Len(o_items') = Len(items) - k /\ Len(freed') = Len(freed) + k
      /\ \A i \in 1..Len(items) - k : o_items'[i] = items[k + i]
  BY Release DEF IInv
<1>2. o_items' # <<>> => o_items'[1].base = Len(wire')
  <2> SUFFICES ASSUME o_items' # <<>> PROVE o_items'[1].base = Len(wire')
    OBVIOUS
  <2>1. Len(o_items') # 0
    BY <1>1, EmptySeq
  <2>2. 1 \in 1..Len(items) - k /\ k < Len(items)
    BY <2>1, <1>1, <1>t
  <2> QED BY <2>2, <1>1
<1>3. o_items' = <<>> => Len(wire') = total'
  <2> SUFFICES ASSUME o_items' = <<>> PROVE Len(wire') = total'
    OBVIOUS
  <2>1. Len(o_items') = 0
    BY EmptySeq
  <2>2. k = Len(items)
    BY <2>1, <1>1, <1>t
  <2> QED BY <2>2 DEF total
<1>4. ASSUME NEW i \in 1..Len(freed') PROVE ends'[i] <= Len(wire')
  <2>1. CASE i <= Len(freed)
    BY <2>1, <1>1, <1>t DEF IInv, FrontInv
  <2>2. CASE ~(i <= Len(freed))
    <3>0. Len(freed) + Len(items) = Len(ends)
      BY DEF IInv, IdInv
    <3>1. /\ k # 0 /\ k \in 1..Len(items) /\ i <= Len(freed) + k
          /\ i \in 1..Len(ends) /\ Len(freed) + k \in 1..Len(ends)
      <4>1. i \in Int /\ 1 <= i /\ i <= Len(freed) + k /\ ~(i <= Len(freed))
        BY <2>2, <1>1, <1>t
      <4>2. /\ k \in Nat /\ k <= Len(items) /\ Len(items) \in Nat
            /\ Len(freed) \in Nat /\ Len(ends) \in Nat
        BY <1>t
      <4> QED BY ONLY <4>1, <4>2, <3>0
    <3>2. ends[Len(freed) + k] = End(items[k])
      BY <3>1 DEF IInv, QueueInv
    <3>3. ends[i] <= ends[Len(freed) + k]
      BY <3>1 DEF IInv, QueueInv
    <3>4. ends[i] \in Nat /\ End(items[k]) \in Nat /\ End(items[k]) <= Len(wire)
      BY <3>1, <1>t
    <3>5. ends[i] <= Len(wire)
      BY <3>2, <3>3, <3>4, <1>t
    <3> QED BY <3>5
  <2> QED BY <2>1, <2>2
<1> QED BY <1>2, <1>3, <1>4 DEF FrontInv

\* Dropping a batch of empty items keeps the invariant.
LEMMA SkipEmptyInv ==
  ASSUME IInv, SkipEmpty
  PROVE  IInv'
<1> DEFINE k == Len(Batch)
<1>u. UNCHANGED <<O_ITEMS_LEN, o_bytes, wr_err, pc, vec, n, nwrite, W, err, wire, ends>>
  BY DEF SkipEmpty, locals
<1>0. /\ pc = "batch" /\ o_items # <<>> /\ iovec_total_bytes(Batch) = 0
      /\ hp_etio_del_n(o_items, k)
  BY DEF SkipEmpty
<1>1. k \in 1..Len(o_items) /\ 0 = End(o_items[k]) - Len(wire)
  BY <1>0, BatchFacts
<1> HIDE DEF k
<1>t. /\ Len(o_items) \in Nat /\ Len(wire) \in Nat /\ End(o_items[k]) \in Nat
      /\ o_items \in Seq(Item) /\ k \in 0..Len(o_items) /\ k \in Nat
  BY <1>1, Types DEF IInv, TypeOK
<1>2. End(o_items[k]) = Len(wire)
  BY <1>1, <1>t
<1>3. Chain(o_items, k)
  BY <1>t DEF IInv, QueueInv, Chain
<1>4. k < Len(o_items) => o_items[k + 1].base = Len(wire)
  <2> SUFFICES ASSUME k < Len(o_items) PROVE o_items[k + 1].base = Len(wire)
    OBVIOUS
  <2>1. k \in 0 + 1 .. Len(o_items) - 1
    BY <1>1, <1>t
  <2>2. o_items[k + 1].base = End(o_items[k])
    BY <2>1 DEF IInv, QueueInv, Chain
  <2> QED BY <2>2, <1>2
<1>5. k = Len(o_items) => Len(wire) = total
  BY <1>1, <1>2, LastIsTotal DEF IInv
<1>6. FrontInv'
  BY <1>u, <1>0, <1>t, <1>2, <1>3, <1>4, <1>5, ReleaseFront
<1>7. /\ o_items' \in Seq(Item) /\ freed' \in Seq(Nat)
      /\ Len(o_items') = Len(o_items) - k /\ IdInv' /\ QueueInv'
  BY <1>u, <1>0, <1>t, <1>3, Release DEF IInv
<1>8. TypeOK'
  BY <1>u, <1>7 DEF IInv, TypeOK
<1>9. SlotInv'
  <2>1. Len(o_items) <= O_ITEMS_LEN /\ O_ITEMS_LEN \in Nat /\ O_ITEMS_LEN # 0
    BY DEF IInv, SlotInv, SlotsSuffice, TypeOK
  <2>2. Len(o_items') <= O_ITEMS_LEN
    BY <2>1, <1>7, <1>t
  <2> QED BY <2>1, <2>2, <1>u DEF SlotInv, SlotsSuffice
<1>10. WriteInv' /\ WireInv'
  BY <1>u, <1>0 DEF IInv, WriteInv, WireInv, Writing
<1> QED BY <1>6, <1>7, <1>8, <1>9, <1>10 DEF IInv

\* Copying the first items of the queue to vec keeps the invariant.
LEMMA PrepareInv ==
  ASSUME IInv, PrepareBatch
  PROVE  IInv'
<1> DEFINE k == Len(Batch)
           v == [i \in 1..k |-> [base |-> o_items[i].base, len |-> o_items[i].len]]
<1>u. /\ UNCHANGED <<o_items, O_ITEMS_LEN, o_bytes, wr_err, wire, ends, freed>>
      /\ vec' = v /\ W' = iovec_total_bytes(Batch)
      /\ n' = 0 /\ nwrite' = 0 /\ err' = "OK" /\ pc' = "writev"
  BY DEF PrepareBatch, queue
<1>0. pc = "batch" /\ o_items # <<>>
  BY DEF PrepareBatch
<1>1. /\ k \in 1..Len(o_items)
      /\ iovec_total_bytes(Batch) = End(o_items[k]) - Len(wire)
      /\ iovec_total_bytes(Batch) \in Nat
  BY <1>0, BatchFacts
<1> HIDE DEF k
<1>t. /\ Len(o_items) \in Nat /\ Len(wire) \in Nat /\ k \in Nat
      /\ \A i \in 1..Len(o_items) :
           o_items[i].base \in Nat /\ o_items[i].len \in Nat
  BY <1>1, Types DEF IInv
<1>2. v \in [1..k -> Iovec]
  BY <1>1, <1>t DEF Iovec
<1>3. /\ \A i \in 1..k : v[i].base = o_items[i].base /\ End(v[i]) = End(o_items[i])
  BY DEF End
<1> HIDE DEF v
<1>4. v \in Seq(Iovec) /\ Len(v) = k
  BY <1>2, <1>t, FcnIsSeq
<1>5. TypeOK'
  BY <1>u, <1>1, <1>4, <1>t DEF IInv, TypeOK, Errs
<1>6. Chain(v, 0)
  <2> SUFFICES ASSUME NEW i \in 0 + 1 .. Len(v) - 1 PROVE v[i + 1].base = End(v[i])
    BY DEF Chain
  <2>1. i \in 0 + 1 .. Len(o_items) - 1 /\ i \in 1..k /\ i + 1 \in 1..k
    BY <1>1, <1>4, <1>t
  <2>2. o_items[i + 1].base = End(o_items[i])
    BY <2>1 DEF IInv, QueueInv, Chain
  <2> QED BY <2>1, <2>2, <1>3
<1>7. WriteInv'
  <2>1. o_items[1].base = Len(wire)
    BY <1>0 DEF IInv, FrontInv, Writing
  <2>2. /\ Len(v) # 0 /\ Len(v) <= Len(o_items) /\ 0 < Len(v)
        /\ 0 + 1 \in 1..k /\ 0 + 1 = 1 /\ k \in 1..k
    BY <1>1, <1>4, <1>t
  <2>3. v[0 + 1].base = Len(wire)
    BY <2>1, <2>2, <1>3
  <2>4. W' - 0 = End(v[Len(v)]) - Len(wire)
    <3>1. W' \in Nat /\ W' = End(o_items[k]) - Len(wire)
      BY <1>u, <1>1
    <3>2. W' - 0 = W'
      BY <3>1
    <3> QED BY <3>1, <3>2, <2>2, <1>3, <1>4
  <2>5. \A i \in 1..Len(v) : End(v[i]) = End(o_items[i])
    BY <1>3, <1>4
  <2>6. \A i \in 1..0 : FALSE
    OBVIOUS
  <2> QED BY <2>2, <2>3, <2>4, <2>5, <2>6, <1>6, <1>u DEF WriteInv, Writing, Chain, End
<1>8. IdInv' /\ QueueInv' /\ SlotInv'
  BY <1>u DEF IInv, IdInv, QueueInv, SlotInv, SlotsSuffice, Chain, End
<1>9. FrontInv'
  BY <1>u, <1>0 DEF IInv, FrontInv, Writing, total
<1>10. WireInv'
  <2>1. o_bytes \in Nat /\ o_bytes = Len(wire)
    BY <1>0, <1>t DEF IInv, WireInv, Writing, TypeOK
  <2> QED BY <2>1, <1>u DEF IInv, WireInv, Writing
<1> QED BY <1>5, <1>7, <1>8, <1>9, <1>10 DEF IInv

\* A writev that fails keeps the invariant.
LEMMA WritevFailsInv ==
  ASSUME IInv, NEW e \in {"EAGAIN", "EIO"}, WritevFails(e)
  PROVE  IInv'
<1>u. /\ UNCHANGED <<o_items, O_ITEMS_LEN, o_bytes, wr_err, vec, n, nwrite, W, wire,
                     ends, freed>>
      /\ pc = "writev" /\ err' = e /\ pc' = "written"
  BY DEF WritevFails, queue
<1>1. TypeOK'
  BY <1>u DEF IInv, TypeOK, Errs
<1>2. IdInv' /\ QueueInv' /\ SlotInv'
  BY <1>u DEF IInv, IdInv, QueueInv, SlotInv, SlotsSuffice, Chain, End
<1>3. FrontInv' /\ WireInv'
  BY <1>u DEF IInv, FrontInv, WireInv, Writing, total
<1>4. WriteInv'
  <2>1. n < Len(vec) /\ n \in Nat /\ Len(vec) \in Nat
    BY <1>u, Types DEF IInv, WriteInv, Writing
  <2>2. n # Len(vec) /\ e # "OK"
    BY <2>1
  <2> QED BY <2>2, <1>u DEF IInv, WriteInv, Writing, Chain, End
<1> QED BY <1>1, <1>2, <1>3, <1>4 DEF IInv

\* Putting the adjusted vector back and releasing the written items keeps the
\* invariant.
LEMMA AfterInv ==
  ASSUME IInv, AfterUioWrite
  PROVE  IInv'
<1> DEFINE x == [id |-> o_items[n + 1].id, base |-> vec[n + 1].base,
                 len |-> vec[n + 1].len]
           items == IF n < Len(vec) THEN [o_items EXCEPT ![n + 1] = x] ELSE o_items
<1>u. /\ UNCHANGED <<O_ITEMS_LEN, wr_err, vec, n, nwrite, W, err, wire, ends>>
      /\ pc = "written" /\ o_bytes' = o_bytes + nwrite
      /\ hp_etio_del_n(items, n)
  BY DEF AfterUioWrite, locals
<1>p. pc' \in {"batch", "idle", "error"}
  BY DEF AfterUioWrite
<1>t. /\ Len(o_items) \in Nat /\ Len(wire) \in Nat /\ Len(vec) \in Nat /\ n \in Nat
      /\ \A i \in 1..Len(o_items) : o_items[i] \in Item /\ End(o_items[i]) \in Nat
      /\ \A i \in 1..Len(vec) : vec[i].base \in Nat /\ vec[i].len \in Nat
      /\ o_items \in Seq(Item)
  BY Types DEF IInv, TypeOK
<1>w. /\ Len(vec) # 0 /\ Len(vec) <= Len(o_items) /\ n <= Len(vec)
      /\ \A i \in 1..Len(vec) : End(vec[i]) = End(o_items[i])
      /\ \A i \in 1..n : End(vec[i]) <= Len(wire)
      /\ n < Len(vec) => vec[n + 1].base = Len(wire)
      /\ n = Len(vec) => End(vec[n]) = Len(wire)
  BY <1>u, <1>t DEF IInv, WriteInv, Writing, TypeOK
<1>1. /\ items \in Seq(Item) /\ Len(items) = Len(o_items)
      /\ \A i \in 1..Len(items) : i # n + 1 => items[i] = o_items[i]
      /\ \A i \in 1..Len(items) :
           items[i].id = o_items[i].id /\ End(items[i]) = End(o_items[i])
      /\ n < Len(vec) => items[n + 1].base = Len(wire)
  <2>1. CASE n < Len(vec)
    <3>1. n + 1 \in 1..Len(o_items) /\ n + 1 \in 1..Len(vec)
      BY <2>1, <1>t, <1>w
    <3>2. x \in Item
      BY <3>1, <1>t DEF Item
    <3>3. items = [o_items EXCEPT ![n + 1] = x]
      BY <2>1
    <3>x. /\ x.id = o_items[n + 1].id /\ x.base = vec[n + 1].base
          /\ End(x) = End(vec[n + 1])
      BY DEF End
    <3> HIDE DEF x, items
    <3>4. /\ items \in Seq(Item) /\ Len(items) = Len(o_items)
          /\ \A j \in 1..Len(o_items) :
               items[j] = IF j = n + 1 THEN x ELSE o_items[j]
      BY <3>1, <3>2, <3>3, <1>t, ExceptSeq
    <3> QED BY <3>1, <3>4, <3>x, <2>1, <1>w
  <2>2. CASE ~(n < Len(vec))
    BY <2>2, <1>t
  <2> QED BY <2>1, <2>2
<1> HIDE DEF items, x
<1>2. n \in 0..Len(items) /\ Len(items) \in Nat
  BY <1>1, <1>t, <1>w
<1>3. Chain(items, n)
  <2> SUFFICES ASSUME NEW i \in n + 1 .. Len(items) - 1
               PROVE  items[i + 1].base = End(items[i])
    BY DEF Chain
  <2>1. /\ i \in 0 + 1 .. Len(o_items) - 1 /\ i + 1 \in 1..Len(items)
        /\ i \in 1..Len(items) /\ i + 1 # n + 1
    BY <1>1, <1>2, <1>t
  <2>2. o_items[i + 1].base = End(o_items[i])
    BY <2>1 DEF IInv, QueueInv, Chain
  <2> QED BY <2>1, <2>2, <1>1
<1>4. n # 0 => End(items[n]) <= Len(wire)
  <2> SUFFICES ASSUME n # 0 PROVE End(items[n]) <= Len(wire)
    OBVIOUS
  <2>1. n \in 1..n /\ n \in 1..Len(vec) /\ n \in 1..Len(items)
    BY <1>1, <1>t, <1>w
  <2> QED BY <2>1, <1>1, <1>w
<1>5. n < Len(items) => items[n + 1].base = Len(wire)
  <2>1. CASE n < Len(vec)
    BY <2>1, <1>1
  <2>2. CASE n = Len(vec) /\ n < Len(items)
    <3>1. /\ n \in 0 + 1 .. Len(o_items) - 1 /\ n \in 1..Len(vec)
          /\ n + 1 \in 1..Len(items) /\ n \in 1..Len(items) /\ n # n + 1
      BY <2>2, <1>1, <1>t, <1>w
    <3>2. o_items[n + 1].base = End(o_items[n])
      BY <3>1 DEF IInv, QueueInv, Chain
    <3>3. items[n + 1] = o_items[n + 1]
      BY <2>2, <3>1, <1>t DEF items
    <3> QED BY <2>2, <3>1, <3>2, <3>3, <1>w
  <2> QED BY <2>1, <2>2, <1>w, <1>t
<1>6. n = Len(items) => Len(wire) = total
  <2> SUFFICES ASSUME n = Len(items) PROVE Len(wire) = total
    OBVIOUS
  <2>1. n = Len(vec) /\ n = Len(o_items) /\ n \in 1..Len(vec) /\ Len(o_items) # 0
    BY <1>1, <1>t, <1>w
  <2>2. End(o_items[n]) = Len(wire)
    BY <2>1, <1>w
  <2> QED BY <2>1, <2>2, LastIsTotal DEF IInv
<1>7. FrontInv'
  BY <1>u, <1>1, <1>2, <1>3, <1>4, <1>5, <1>6, ReleaseFront
<1>8. /\ o_items' \in Seq(Item) /\ freed' \in Seq(Nat)
      /\ Len(o_items') = Len(items) - n /\ IdInv' /\ QueueInv'
  BY <1>u, <1>1, <1>2, <1>3, Release DEF IInv
<1>9. TypeOK'
  BY <1>u, <1>p, <1>8 DEF IInv, TypeOK
<1>10. SlotInv'
  <2>1. Len(o_items) <= O_ITEMS_LEN /\ O_ITEMS_LEN \in Nat /\ O_ITEMS_LEN # 0
    BY DEF IInv, SlotInv, SlotsSuffice, TypeOK
  <2>2. Len(o_items') <= O_ITEMS_LEN
    BY <2>1, <1>1, <1>8, <1>t
  <2> QED BY <2>1, <2>2, <1>u DEF SlotInv, SlotsSuffice
<1>11. WriteInv' /\ WireInv'
  <2>1. ~Writing' /\ Writing
    BY <1>p, <1>u DEF Writing
  <2>2. o_bytes' \in Nat /\ o_bytes' = Len(wire')
    BY <2>1, <1>u DEF IInv, WireInv, TypeOK
  <2> QED BY <2>1, <2>2, <1>u DEF IInv, WriteInv, WireInv
<1> QED BY <1>7, <1>8, <1>9, <1>10, <1>11 DEF IInv

\* What is left of the current batch, measured by vectors and by positions.
LEMMA WriteFacts ==
  ASSUME IInv, pc = "writev"
  PROVE  /\ Len(vec) \in Nat /\ n \in Nat /\ n < Len(vec)
         /\ PrefixBytes(vec) \in [0..Len(vec) -> Nat]
         /\ \A i \in n + 1 .. Len(vec) :
              PrefixBytes(vec)[i] - PrefixBytes(vec)[n] = End(vec[i]) - Len(wire)
         /\ Unwritten = End(vec[Len(vec)]) - Len(wire)
         /\ Unwritten = W - nwrite
         /\ \A i \in 1..Len(vec) : End(vec[i]) <= End(vec[Len(vec)])
         /\ End(vec[Len(vec)]) <= total
<1>t. /\ Len(vec) \in Nat /\ n \in Nat /\ Len(o_items) \in Nat /\ Len(ends) \in Nat
      /\ Len(freed) \in Nat /\ Len(wire) \in Nat
      /\ \A i \in 1..Len(vec) : vec[i].base \in Nat /\ vec[i].len \in Nat
      /\ \A i \in 1..Len(ends) : ends[i] \in Nat
  BY Types DEF IInv
<1>w. /\ n < Len(vec) /\ Len(vec) <= Len(o_items)
      /\ vec[n + 1].base = Len(wire) /\ Chain(vec, n)
      /\ W - nwrite = End(vec[Len(vec)]) - Len(wire)
      /\ \A i \in 1..Len(vec) : End(vec[i]) = End(o_items[i])
  BY DEF IInv, WriteInv, Writing
<1>0. Lengths(vec) /\ n \in 0..Len(vec)
  BY <1>t, <1>w DEF Lengths
<1>1. PrefixBytes(vec) \in [0..Len(vec) -> Nat]
  BY <1>0, PrefixType
<1>2. ASSUME NEW i \in n + 1 .. Len(vec)
      PROVE  PrefixBytes(vec)[i] - PrefixBytes(vec)[n] = End(vec[i]) - Len(wire)
  <2>1. PrefixBytes(vec)[i] - PrefixBytes(vec)[n] = End(vec[i]) - vec[n + 1].base
    BY <1>0, <1>t, <1>w, PrefixChain
  <2> QED BY <2>1, <1>w
<1>3. Unwritten = End(vec[Len(vec)]) - Len(wire)
  BY <1>2, <1>t, <1>w DEF Unwritten
<1>4. Len(freed) + Len(o_items) = Len(ends)
  BY DEF IInv, IdInv
<1>5. \A i \in 1..Len(vec) : End(vec[i]) = ends[Len(freed) + i]
  BY <1>t, <1>w DEF IInv, QueueInv
<1>6. \A i, j \in 1..Len(ends) : i <= j => ends[i] <= ends[j]
  BY DEF IInv, QueueInv
<1>7. ASSUME NEW i \in 1..Len(vec)
      PROVE  End(vec[i]) <= End(vec[Len(vec)])
  <2>1. /\ Len(freed) + i \in 1..Len(ends) /\ Len(freed) + Len(vec) \in 1..Len(ends)
        /\ Len(freed) + i <= Len(freed) + Len(vec) /\ Len(vec) \in 1..Len(vec)
    BY <1>4, <1>t, <1>w
  <2> QED BY <2>1, <1>5, <1>6
<1>8. End(vec[Len(vec)]) <= total
  <2>1. /\ Len(freed) + Len(vec) \in 1..Len(ends) /\ Len(ends) \in 1..Len(ends)
        /\ Len(freed) + Len(vec) <= Len(ends) /\ Len(vec) \in 1..Len(vec)
        /\ Len(ends) # 0
    BY <1>4, <1>t, <1>w
  <2>2. ends # <<>>
    BY <2>1, EmptySeq
  <2> QED BY <2>1, <2>2, <1>5, <1>6 DEF total
<1> QED BY <1>t, <1>w, <1>1, <1>2, <1>3, <1>7, <1>8

\* writev puts the next w bytes of the stream on the wire.
LEMMA WritevWire ==
  ASSUME IInv, NEW w \in 1..Unwritten, Writev(w)
  PROVE  /\ wire' \in Seq(Nat) /\ Len(wire') = Len(wire) + w
         /\ wire' = wire \o [i \in 1..w |-> Len(wire) + i - 1]
         /\ \A k \in 1..Len(wire') : wire'[k] = k - 1
         /\ w \in Nat \ {0} /\ Len(wire') <= End(vec[Len(vec)])
<1> DEFINE v == Rest(vec, n)
           L == Len(vec)
           g == Gather(v)
<1>p. pc = "writev"
  BY DEF Writev
<1>0. L \in Nat /\ n \in Nat /\ n < L /\ Unwritten = End(vec[L]) - Len(wire)
  BY <1>p, WriteFacts
<1>t. /\ Len(wire) \in Nat /\ wire \in Seq(Nat)
      /\ \A i \in 1..L : vec[i] \in Iovec /\ vec[i].base \in Nat
                         /\ vec[i].len \in Nat /\ End(vec[i]) \in Nat
  BY Types DEF IInv, TypeOK
<1>w. vec[n + 1].base = Len(wire) /\ Chain(vec, n)
  BY <1>p, <1>0 DEF IInv, WriteInv, Writing
<1>1. \A i \in n + 1 .. L : vec[i] \in Iovec
  BY <1>t, <1>0
<1>2. /\ SubSeq(vec, n + 1, L) \in Seq(Iovec)
      /\ Len(SubSeq(vec, n + 1, L)) = IF n + 1 <= L THEN L - (n + 1) + 1 ELSE 0
      /\ \A i \in 1 .. L - (n + 1) + 1 : SubSeq(vec, n + 1, L)[i] = vec[n + 1 + i - 1]
  BY <1>1, <1>0, SubSeqProperties
<1>3. Len(v) = L - n /\ \A i \in 1..L - n : v[i] = vec[n + i]
  <2>1. v = SubSeq(vec, n + 1, L)
    BY DEF Rest
  <2> HIDE DEF v, L
  <2>2. Len(v) = L - n
    BY <2>1, <1>2, <1>0
  <2>3. ASSUME NEW i \in 1..L - n PROVE v[i] = vec[n + i]
    <3>1. i \in 1 .. L - (n + 1) + 1 /\ n + 1 + i - 1 = n + i
      BY <1>0
    <3> QED BY <3>1, <2>1, <1>2
  <2> QED BY <2>2, <2>3
<1> HIDE DEF v, L
<1>4. Lengths(v) /\ (\A i \in 1..Len(v) : v[i].base \in Nat) /\ Len(v) # 0
  <2>1. ASSUME NEW i \in 1..L - n PROVE v[i].base \in Nat /\ v[i].len \in Nat
    <3>1. n + i \in 1..L
      BY <1>0
    <3> QED BY <3>1, <1>3, <1>t
  <2>2. L - n \in Nat /\ L - n # 0
    BY <1>0
  <2> QED BY <2>1, <2>2, <1>3 DEF Lengths
<1>5. Chain(v, 0)
  <2> SUFFICES ASSUME NEW i \in 0 + 1 .. Len(v) - 1 PROVE v[i + 1].base = End(v[i])
    BY DEF Chain
  <2>1. /\ n + i \in n + 1 .. L - 1 /\ v[i] = vec[n + i] /\ v[i + 1] = vec[n + (i + 1)]
        /\ n + (i + 1) = n + i + 1
    BY <1>3, <1>0
  <2>2. vec[n + i + 1].base = End(vec[n + i])
    BY <2>1, <1>w DEF Chain, L
  <2> QED BY <2>1, <2>2
<1>6. v[1].base = Len(wire) /\ v[Len(v)] = vec[L]
  <2>1. 1 \in 1..L - n /\ L - n \in 1..L - n /\ n + (L - n) = L
    BY <1>0
  <2> QED BY <2>1, <1>3, <1>w
<1>7. g = [k \in 1..(End(v[Len(v)]) - v[1].base) |-> v[1].base + k - 1]
  BY <1>4, <1>5, GatherChain
<1> DEFINE B == Len(wire)
<1>8. g = [k \in 1..Unwritten |-> B + k - 1]
  BY <1>6, <1>7, <1>0
<1>9. Unwritten \in Nat /\ w \in Nat \ {0} /\ w <= Unwritten /\ B \in Nat
      /\ End(vec[L]) \in Nat
  <2>1. End(vec[L]) \in Nat
    BY <1>0, <1>t
  <2> QED BY <2>1, <1>0, <1>t
<1>10. wire' = wire \o SubSeq(g, 1, w)
  BY DEF Writev, v
<1> HIDE DEF g, B
<1>11. \A i \in 1..w : g[i] = B + i - 1 /\ g[i] \in Nat
  BY <1>8, <1>9
<1> DEFINE d == SubSeq(g, 1, w)
<1>12. /\ d \in Seq(Nat)
       /\ Len(d) = IF 1 <= w THEN w - 1 + 1 ELSE 0
       /\ \A i \in 1 .. w - 1 + 1 : d[i] = g[1 + i - 1]
  BY <1>9, <1>11, SubSeqProperties
<1>13. d \in Seq(Nat) /\ Len(d) = w /\ \A i \in 1..w : d[i] = B + i - 1
  BY <1>12, <1>11, <1>9
<1> HIDE DEF d
<1>14. d = [i \in 1..w |-> B + i - 1]
  <2>1. d \in [1..w -> Nat]
    BY <1>13, LenProperties
  <2> QED BY <2>1, <1>13
<1>15. /\ wire \o d \in Seq(Nat) /\ Len(wire \o d) = Len(wire) + Len(d)
       /\ \A i \in 1..Len(wire) + Len(d) :
            (wire \o d)[i] = IF i <= Len(wire) THEN wire[i] ELSE d[i - Len(wire)]
  BY <1>13, <1>t, ConcatProperties, Zenon
<1>16. wire' \in Seq(Nat) /\ Len(wire') = B + w /\ wire' = wire \o d
  BY <1>10, <1>13, <1>15 DEF d, B
<1>17. ASSUME NEW k \in 1..B + w PROVE wire'[k] = k - 1
  <2>1. wire'[k] = IF k <= B THEN wire[k] ELSE d[k - B]
    BY <1>13, <1>15, <1>16 DEF B
  <2>2. CASE k <= B
    <3>1. k \in 1..B
      BY <2>2, <1>9
    <3>2. wire[k] = k - 1
      BY <3>1 DEF IInv, WireInv, B
    <3> QED BY <2>1, <2>2, <3>2
  <2>3. CASE ~(k <= B)
    <3>1. k - B \in 1..w
      BY <2>3, <1>9
    <3>2. wire'[k] = B + (k - B) - 1
      BY <3>1, <2>1, <2>3, <1>13
    <3> QED BY <3>2, <1>9
  <2> QED BY <2>2, <2>3
<1>18. B + w <= End(vec[L])
  <2>1. Unwritten = End(vec[L]) - B
    BY <1>0 DEF B
  <2> QED BY <2>1, <1>9
<1> QED BY <1>9, <1>14, <1>16, <1>17, <1>18 DEF B, L

\* before_writev finds the vector in which the last byte sent lies and lets it
\* begin at the next one.
LEMMA BeforeWritev ==
  ASSUME IInv, pc = "writev", NEW w \in Nat, w < Unwritten, before_writev(w)
  PROVE  \E i \in n + 1 .. Len(vec), left \in Nat :
           /\ left = End(vec[i]) - (Len(wire) + w)
           /\ vec' = [vec EXCEPT ![i] = [base |-> Len(wire) + w, len |-> left]]
           /\ n' = i - 1
           /\ \A j \in n + 1 .. i - 1 : End(vec[j]) <= Len(wire) + w
<1> DEFINE s == PrefixBytes(vec)
           L == Len(vec)
           P(i) == /\ w < s[i] - s[n]
                   /\ \A j \in n + 1 .. i - 1 : ~ (w < s[j] - s[n])
           i == CHOOSE i \in n + 1 .. L : P(i)
           left == s[i] - s[n] - w
           T == {k \in n + 1 .. L : w < s[k] - s[n]}
<1>0. /\ L \in Nat /\ n \in Nat /\ n < L
      /\ s \in [0..L -> Nat]
      /\ \A k \in n + 1 .. L : s[k] - s[n] = End(vec[k]) - Len(wire)
      /\ Unwritten = s[L] - s[n]
  BY WriteFacts DEF Unwritten
<1>t. /\ Len(wire) \in Nat
      /\ \A k \in 1..L : vec[k].base \in Nat /\ vec[k].len \in Nat /\ End(vec[k]) \in Nat
  BY Types DEF IInv
<1>1. /\ vec' = [vec EXCEPT ![i] = [base |-> vec[i].base + vec[i].len - left, len |-> left]]
      /\ n' = i - 1
  BY Zenon DEF before_writev
<1> HIDE DEF s, L
<1>2. \E k \in n + 1 .. L : P(k)
  <2>1. L \in T
    BY <1>0
  <2>2. PICK m \in T : \A k \in T : m <= k
    <3>1. T \subseteq Nat
      BY <1>0
    <3> HIDE DEF T
    <3> QED BY <2>1, <3>1, NatMin
  <2>3. ASSUME NEW j \in n + 1 .. m - 1 PROVE ~ (w < s[j] - s[n])
    <3>1. j \in n + 1 .. L /\ ~(m <= j)
      BY <2>2, <1>0
    <3>2. j \notin T
      BY <3>1, <2>2
    <3> QED BY <3>1, <3>2
  <2> QED BY <2>2, <2>3
<1>3. i \in n + 1 .. L /\ P(i)
  <2> HIDE DEF P
  <2> QED BY <1>2, Zenon
<1> HIDE DEF i, T
<1>4. /\ s[i] - s[n] = End(vec[i]) - Len(wire) /\ End(vec[i]) \in Nat
      /\ w < End(vec[i]) - Len(wire)
  <2>1. i \in 1..L
    BY <1>3, <1>0
  <2> QED BY <2>1, <1>3, <1>0, <1>t
<1>5. left = End(vec[i]) - (Len(wire) + w) /\ left \in Nat
  <2> DEFINE e == End(vec[i])  B == Len(wire)
  <2>1. left = (e - B) - w
    BY <1>4
  <2>2. e \in Nat /\ B \in Nat /\ w < e - B
    BY <1>4, <1>t
  <2> HIDE DEF e, B, left
  <2>3. left = e - (B + w) /\ left \in Nat
    BY <2>1, <2>2
  <2> QED BY <2>3 DEF e, B
<1> HIDE DEF left
<1>6. vec[i].base + vec[i].len - left = Len(wire) + w
  <2> DEFINE a == vec[i].base  l == vec[i].len  c == Len(wire) + w
  <2>0. i \in 1..L
    BY <1>3, <1>0
  <2>1. a \in Nat /\ l \in Nat /\ c \in Nat /\ left \in Nat /\ left = (a + l) - c
    BY <2>0, <1>5, <1>t DEF End
  <2> HIDE DEF a, l, c
  <2>2. a + l - left = c
    BY <2>1
  <2> QED BY <2>2 DEF a, l, c
<1>7. ASSUME NEW j \in n + 1 .. i - 1 PROVE End(vec[j]) <= Len(wire) + w
  <2>1. ~ (w < s[j] - s[n]) /\ j \in n + 1 .. L /\ j \in 1..L
    BY <1>3, <1>0
  <2>2. ~ (w < End(vec[j]) - Len(wire)) /\ End(vec[j]) \in Nat
    BY <2>1, <1>0, <1>t
  <2> QED BY <2>2, <1>t
<1>8. vec' = [vec EXCEPT ![i] = [base |-> Len(wire) + w, len |-> left]]
  BY <1>1, <1>6
<1> QED BY <1>1, <1>3, <1>5, <1>7, <1>8 DEF L

\* A writev of any number of bytes, with before_writev after it, keeps the
\* invariant.
LEMMA WritevInv ==
  ASSUME IInv, NEW w \in 1..Unwritten, Writev(w)
  PROVE  IInv'
<1> DEFINE L == Len(vec)
           B == Len(wire)
           last == End(vec[L])
<1>u. /\ UNCHANGED <<o_items, O_ITEMS_LEN, o_bytes, wr_err, W, ends, freed>>
      /\ nwrite' = nwrite + w /\ pc = "writev"
  BY DEF Writev, queue
<1>0. /\ L \in Nat /\ n \in Nat /\ n < L
      /\ Unwritten = last - B /\ Unwritten = W - nwrite
      /\ \A i \in 1..L : End(vec[i]) <= last
  BY <1>u, WriteFacts
<1>1. /\ wire' \in Seq(Nat) /\ Len(wire') = B + w /\ w \in Nat \ {0} /\ B + w <= last
      /\ \A k \in 1..Len(wire') : wire'[k] = k - 1
  BY WritevWire
<1>t. /\ B \in Nat /\ nwrite \in Nat /\ W \in Nat /\ last \in Nat /\ vec \in Seq(Iovec)
      /\ L \in 1..L
      /\ \A i \in 1..L : vec[i] \in Iovec /\ End(vec[i]) \in Nat
      /\ \A i \in 1..Len(ends) : ends[i] \in Nat
      /\ Len(freed) \in Nat /\ Len(ends) \in Nat /\ Len(o_items) \in Nat
  <2>1. L \in 1..L
    BY <1>0
  <2> QED BY <2>1, Types DEF IInv, TypeOK
<1>w. /\ L # 0 /\ L <= Len(o_items)
      /\ \A i \in 1..L : End(vec[i]) = End(o_items[i])
      /\ \A i \in 1..n : End(vec[i]) <= B
      /\ Chain(vec, n)
  BY <1>u DEF IInv, WriteInv, Writing
<1>2. W - nwrite' = last - Len(wire')
  <2>1. W - nwrite = last - B
    BY <1>0
  <2> HIDE DEF last, B
  <2> QED BY <2>1, <1>u, <1>1, <1>t
<1>3. /\ pc' \in {"writev", "written"} /\ vec' \in Seq(Iovec) /\ Len(vec') = L
      /\ n' \in 0..L /\ err' \in Errs /\ WriteInv'
  <2>1. CASE nwrite + w = W
    <3>1. n' = L /\ err' = "OK" /\ pc' = "written" /\ vec' = vec
      BY <2>1 DEF Writev
    <3>2. Len(wire') = last
      <4> HIDE DEF last, B
      <4> QED BY <2>1, <1>0, <1>1, <1>t
    <3>3. Chain(vec, L)
      BY <1>0 DEF Chain
    <3>4. \A i \in 1..L : End(vec[i]) <= Len(wire')
      BY <3>2, <1>0
    <3>5. WriteInv'
      BY <3>1, <3>2, <3>3, <3>4, <1>0, <1>2, <1>u, <1>w DEF WriteInv, Writing, Chain, End
    <3> QED BY <3>1, <3>5, <1>t, <1>0 DEF Errs
  <2>2. CASE nwrite + w # W
    <3>1. before_writev(w) /\ err' = err /\ pc' = "writev"
      BY <2>2, <1>u DEF Writev
    <3>2. w < Unwritten
      <4> HIDE DEF last, B
      <4> QED BY <2>2, <1>0, <1>1, <1>t
    <3>3. PICK i \in n + 1 .. L, left \in Nat :
            /\ left = End(vec[i]) - (B + w)
            /\ vec' = [vec EXCEPT ![i] = [base |-> B + w, len |-> left]]
            /\ n' = i - 1
            /\ \A j \in n + 1 .. i - 1 : End(vec[j]) <= B + w
      BY <3>1, <3>2, <1>u, <1>1, BeforeWritev
    <3> DEFINE x == [base |-> B + w, len |-> left]
    <3>4. /\ x \in Iovec /\ x.base = B + w /\ End(x) = End(vec[i]) /\ i \in 1..L
          /\ n' \in 0..L /\ n' < L /\ i = n' + 1 /\ n' \in Nat
      <4>1. i \in 1..L /\ n' \in 0..L /\ n' < L /\ i = n' + 1 /\ n' \in Nat
        BY <3>3, <1>0
      <4>2. End(vec[i]) \in Nat /\ B + w \in Nat
        <5>1. End(vec[i]) \in Nat
          BY <4>1, <1>t
        <5> HIDE DEF B
        <5>2. B + w \in Nat
          BY <1>1, <1>t
        <5> QED BY <5>1, <5>2
      <4>3. End(x) = B + w + left
        BY DEF End
      <4>4. B + w + left = End(vec[i])
        <5> DEFINE e == End(vec[i])  c == B + w
        <5>1. e \in Nat /\ c \in Nat /\ left = e - c
          BY <4>2, <3>3
        <5> HIDE DEF e, c
        <5>2. c + left = e
          BY <5>1
        <5> QED BY <5>2 DEF e, c
      <4> QED BY <4>1, <4>2, <4>3, <4>4 DEF Iovec
    <3>v. vec' = [vec EXCEPT ![i] = x]
      BY <3>3
    <3> HIDE DEF x
    <3>5. /\ vec' \in Seq(Iovec) /\ Len(vec') = L
          /\ \A j \in 1..L : vec'[j] = IF j = i THEN x ELSE vec[j]
      BY <3>4, <3>v, <1>t, ExceptSeq, SMTT(20)
    <3>6. \A j \in 1..L : End(vec'[j]) = End(vec[j])
      BY <3>4, <3>5
    <3>7. \A j \in 1..n' : End(vec'[j]) <= Len(wire')
      <4> SUFFICES ASSUME NEW j \in 1..n' PROVE End(vec'[j]) <= Len(wire')
        OBVIOUS
      <4>0. j \in 1..L
        BY <3>4, <1>0
      <4> SUFFICES End(vec[j]) <= B + w
        BY <4>0, <3>6, <1>1, Zenon
      <4>1. CASE j \in 1..n
        <5>1. End(vec[j]) <= B /\ End(vec[j]) \in Nat
          BY <4>0, <4>1, <1>w, <1>t
        <5>2. w \in Nat /\ B \in Nat
          BY <1>1, <1>t
        <5> HIDE DEF B
        <5> QED BY <5>1, <5>2
      <4>2. CASE j \notin 1..n
        <5>1. j \in n + 1 .. i - 1
          BY <4>2, <3>3, <3>4, <1>0
        <5> QED BY <5>1, <3>3
      <4> QED BY <4>1, <4>2
    <3>8. ASSUME NEW j \in n' + 1 .. L - 1 PROVE vec'[j + 1].base = End(vec'[j])
      <4>1. /\ j \in n + 1 .. L - 1 /\ j \in 1..L /\ j + 1 \in 1..L /\ j + 1 # i
        BY <3>3, <3>4, <1>0
      <4>2. vec[j + 1].base = End(vec[j])
        BY <4>1, <1>w DEF Chain
      <4> QED BY <4>1, <4>2, <3>5, <3>6
    <3>9. vec'[n' + 1].base = Len(wire')
      BY <3>4, <3>5, <1>1
    <3>10. WriteInv'
      <4>1. Len(vec') # 0 /\ Len(vec') <= Len(o_items') /\ n' < Len(vec')
        BY <3>4, <3>5, <1>u, <1>w
      <4>2. \A j \in 1..Len(vec') : End(vec'[j]) = End(o_items'[j])
        BY <3>5, <3>6, <1>u, <1>w
      <4>3. n' # Len(vec')
        BY <4>1, <3>4
      <4>4. W' - nwrite' = End(vec'[Len(vec')]) - Len(wire')
        BY <1>2, <1>u, <3>5, <3>6, <1>t
      <4>5. Chain(vec, n)'
        BY <3>8, <3>5 DEF Chain, End
      <4> HIDE DEF last, B, L
      <4> QED BY <4>1, <4>2, <4>3, <4>4, <4>5, <3>1, <3>7, <3>9 DEF WriteInv, Writing, End
    <3> QED BY <3>1, <3>4, <3>5, <3>10, <1>u DEF IInv, TypeOK
  <2> QED BY <2>1, <2>2
<1>4. TypeOK'
  <2>1. nwrite' \in Nat
    BY <1>u, <1>1, <1>t
  <2> QED BY <2>1, <1>u, <1>1, <1>3 DEF IInv, TypeOK
<1>5. IdInv' /\ QueueInv' /\ SlotInv'
  BY <1>u DEF IInv, IdInv, QueueInv, SlotInv, SlotsSuffice, Chain, End
<1>6. FrontInv'
  <2>1. Writing' /\ o_items # <<>>
    BY <1>3, <1>w, <1>t, EmptySeq DEF Writing
  <2>2. ASSUME NEW i \in 1..Len(freed) PROVE ends[i] <= Len(wire')
    <3>1. Len(freed) + Len(o_items) = Len(ends)
      BY DEF IInv, IdInv
    <3>2. i \in 1..Len(ends)
      BY <3>1, <1>t
    <3>3. ends[i] <= B
      BY <1>u DEF IInv, FrontInv
    <3>4. ends[i] \in Nat /\ B \in Nat /\ w \in Nat /\ Len(wire') = B + w
      BY <3>2, <1>1, <1>t
    <3> HIDE DEF B
    <3> QED BY <3>3, <3>4
  <2> QED BY <2>1, <2>2, <1>u DEF FrontInv
<1>7. WireInv'
  <2>1. o_bytes + nwrite = B /\ Writing' /\ o_bytes \in Nat
    BY <1>3, <1>u DEF IInv, WireInv, Writing, TypeOK
  <2>2. o_bytes' + nwrite' = Len(wire')
    <3>1. /\ o_bytes' = o_bytes /\ nwrite' = nwrite + w /\ Len(wire') = B + w
          /\ o_bytes \in Nat /\ nwrite \in Nat /\ w \in Nat /\ B \in Nat
      BY <2>1, <1>u, <1>1, <1>t
    <3> HIDE DEF B
    <3> QED BY <2>1, <3>1
  <2> QED BY <2>1, <2>2, <1>1 DEF WireInv
<1> QED BY <1>3, <1>4, <1>5, <1>6, <1>7 DEF IInv

\* The queue is torn down, by the user or by the write_error callback.
LEMMA TeardownInv ==
  ASSUME IInv, hp_wr_uninit, pc' = "closed", wr_err' \in BOOLEAN, ~Writing,
         UNCHANGED <<O_ITEMS_LEN, o_bytes, vec, n, nwrite, W, err, wire, ends>>
  PROVE  IInv'
<1>t. /\ Len(o_items) \in Nat /\ o_items \in Seq(Item)
      /\ Len(o_items) \in 0..Len(o_items)
  BY Types DEF IInv, TypeOK
<1>1. Chain(o_items, Len(o_items))
  BY <1>t DEF Chain
<1>2. hp_etio_del_n(o_items, Len(o_items))
  BY DEF hp_wr_uninit
<1>3. /\ o_items' \in Seq(Item) /\ freed' \in Seq(Nat)
      /\ Len(o_items') = Len(o_items) - Len(o_items) /\ IdInv' /\ QueueInv'
  BY <1>t, <1>1, <1>2, Release DEF IInv
<1>4. o_items' = <<>> /\ Len(o_items') = 0
  BY <1>3, <1>t, EmptySeq
<1>5. TypeOK'
  BY <1>3 DEF IInv, TypeOK
<1>6. SlotInv'
  BY <1>4 DEF IInv, SlotInv, SlotsSuffice, TypeOK
<1>7. FrontInv' /\ WriteInv' /\ WireInv'
  BY <1>4 DEF IInv, FrontInv, WriteInv, WireInv, Writing
<1> QED BY <1>3, <1>5, <1>6, <1>7 DEF IInv

\* Steps that change only the place in hp_wr_write and wr->err.
LEMMA ControlInv ==
  ASSUME IInv, ~Writing, pc # "closed", pc' \in {"idle", "batch"}, wr_err' \in BOOLEAN,
         UNCHANGED <<o_items, O_ITEMS_LEN, o_bytes, vec, n, nwrite, W, err, wire,
                     ends, freed>>
  PROVE  IInv'
<1>1. TypeOK'
  BY DEF IInv, TypeOK
<1>2. IdInv' /\ QueueInv' /\ SlotInv'
  BY DEF IInv, IdInv, QueueInv, SlotInv, SlotsSuffice, Chain, End
<1>3. FrontInv' /\ WriteInv' /\ WireInv'
  BY DEF IInv, FrontInv, WriteInv, WireInv, Writing, total
<1> QED BY <1>1, <1>2, <1>3 DEF IInv

\* A step that changes nothing keeps the invariant.
LEMMA StutterInv ==
  ASSUME IInv, UNCHANGED vars
  PROVE  IInv'
BY DEF IInv, TypeOK, IdInv, QueueInv, FrontInv, WriteInv, WireInv, SlotInv,
       SlotsSuffice, Chain, End, Writing, total, vars

\* The invariant is inductive: every action of the queue keeps it.
LEMMA NextInv ==
  ASSUME IInv, [Next]_vars
  PROVE  IInv'
<1>1. ASSUME NEW l \in ItemLens, hp_wr_add(l) PROVE IInv'
  BY <1>1, AddInv
<1>2. CASE hp_wr_write
  BY <1>2, ControlInv DEF hp_wr_write, queue, locals, Writing, IInv, TypeOK
<1>3. CASE WriteDone
  BY <1>3, ControlInv DEF WriteDone, queue, locals, Writing, IInv, TypeOK
<1>4. CASE SkipEmpty
  BY <1>4, SkipEmptyInv
<1>5. CASE PrepareBatch
  BY <1>5, PrepareInv
<1>6. CASE WritevSome
  BY <1>6, WritevInv DEF WritevSome
<1>7. ASSUME NEW e \in {"EAGAIN", "EIO"}, WritevFails(e) PROVE IInv'
  BY <1>7, WritevFailsInv
<1>8. CASE AfterUioWrite
  BY <1>8, AfterInv
<1>9. CASE WriteError
  <2>0. /\ pc = "error" /\ ~Writing /\ wr_err' \in BOOLEAN
        /\ UNCHANGED <<O_ITEMS_LEN, o_bytes, vec, n, nwrite, W, err, wire, ends>>
    BY <1>9 DEF WriteError, locals, Writing
  <2>1. CASE hp_wr_uninit /\ pc' = "closed"
    BY <2>0, <2>1, TeardownInv
  <2>2. CASE pc' = "idle" /\ UNCHANGED <<o_items, freed>>
    BY <2>0, <2>2, ControlInv
  <2> QED BY <1>9, <2>1, <2>2 DEF WriteError
<1>10. CASE Uninit
  BY <1>10, TeardownInv DEF Uninit, locals, Writing, IInv, TypeOK
<1>11. CASE UNCHANGED vars
  BY <1>11, StutterInv
<1> QED
  BY <1>1, <1>2, <1>3, <1>4, <1>5, <1>6, <1>7, <1>8, <1>9, <1>10, <1>11 DEF Next

\* The inductive invariant holds in every reachable state.
THEOREM Invariance == Spec => []IInv
<1>1. Init => IInv
  BY InitInv
<1>2. IInv /\ [Next]_vars => IInv'
  BY NextInv
<1> QED BY <1>1, <1>2, PTL DEF Spec

\* All of the queue keeps its type; in particular before_writev never makes a
\* length negative and n never runs past the vector.
THEOREM TypeCorrect == Spec => []TypeOK
<1>1. IInv => TypeOK
  BY DEF IInv
<1> QED BY <1>1, Invariance, PTL

\* hp_wr_add always writes inside the allocation and its shrinking realloc
\* never cuts off a queued item, whatever initial size was asked for.
THEOREM SlotsAlwaysSuffice == Spec => []SlotsSuffice
<1>1. IInv => SlotsSuffice
  BY DEF IInv, SlotInv
<1> QED BY <1>1, Invariance, PTL

\* hp_etio_del_n releases every item exactly once and in the order of the
\* hp_wr_add calls.
THEOREM ReleaseOrder == Spec => []ReleasedOnceInOrder
<1>1. ASSUME IInv PROVE ReleasedOnceInOrder
  <2> DEFINE N == Len(o_items)
             F == Len(freed)
             q == [i \in 1..N |-> o_items[i].id]
             r == [i \in 1..Len(ends) |-> i]
  <2>t. /\ N \in Nat /\ F \in Nat /\ Len(ends) \in Nat /\ freed \in Seq(Nat)
        /\ \A i \in 1..N : o_items[i] \in Item
    BY <1>1, Types DEF IInv, TypeOK
  <2>i. /\ F + N = Len(ends)
        /\ \A i \in 1..F : freed[i] = i
        /\ \A i \in 1..N : o_items[i].id = F + i
    BY <1>1 DEF IInv, IdInv
  <2>1. q \in [1..N -> Nat] /\ r \in [1..Len(ends) -> Nat]
    BY <2>t DEF Item
  <2>2. /\ \A i \in 1..N : q[i] = F + i
        /\ \A i \in 1..Len(ends) : r[i] = i
    BY <2>i
  <2> HIDE DEF q, r, N, F
  <2>3. q \in Seq(Nat) /\ Len(q) = N /\ r \in Seq(Nat) /\ Len(r) = Len(ends)
    BY <2>1, <2>t, FcnIsSeq
  <2>4. /\ freed \o q \in Seq(Nat) /\ Len(freed \o q) = Len(freed) + Len(q)
        /\ \A i \in 1..Len(freed) + Len(q) :
             (freed \o q)[i] = IF i <= Len(freed) THEN freed[i] ELSE q[i - Len(freed)]
    BY <2>3, <2>t, ConcatProperties, Zenon
  <2>5. Len(freed \o q) = Len(ends)
    BY <2>3, <2>4, <2>i DEF F
  <2>6. ASSUME NEW i \in 1..Len(ends) PROVE (freed \o q)[i] = r[i]
    <3>1. (freed \o q)[i] = IF i <= F THEN freed[i] ELSE q[i - F]
      BY <2>3, <2>4, <2>5 DEF F
    <3>2. CASE i <= F
      BY <3>1, <3>2, <2>i, <2>2, <2>t
    <3>3. CASE ~(i <= F)
      <4>1. i - F \in 1..N
        BY <3>3, <2>i, <2>t
      <4>2. (freed \o q)[i] = F + (i - F)
        BY <4>1, <3>1, <3>3, <2>2
      <4> QED BY <4>2, <2>2, <2>t
    <3> QED BY <3>2, <3>3
  <2>7. freed \o q = r
    BY <2>3, <2>4, <2>5, <2>6, SeqEqual
  <2> QED BY <2>7 DEF ReleasedOnceInOrder, q, r, N
<1> QED BY <1>1, Invariance, PTL

\* hp_wr_write releases no item before its last byte is on the wire.
THEOREM ReleaseAfterWrite == Spec => []NoEarlyRelease
<1>1. IInv => NoEarlyRelease
  BY DEF IInv, IdInv, FrontInv, NoEarlyRelease
<1> QED BY <1>1, Invariance, PTL

\* Whatever is queued, written and released, in whatever order: an item has a slot,
\* is released once, in order, and not before its last byte is on the wire.
THEOREM QueueSafe == Spec => []ItemsSafe
<1>1. SlotsSuffice /\ ReleasedOnceInOrder /\ NoEarlyRelease => ItemsSafe
  BY DEF ItemsSafe
<1> QED BY <1>1, SlotsAlwaysSuffice, ReleaseOrder, ReleaseAfterWrite, PTL

\* Between calls hp_wr_bytes() and o_bytes are exactly the bytes not sent and
\* the bytes sent.
THEOREM ByteCount == Spec => []BytesAccounted
<1>1. ASSUME IInv, pc = "idle"
      PROVE  o_bytes = Len(wire) /\ hp_wr_bytes = total - Len(wire)
  <2> DEFINE N == Len(o_items)
             s == PrefixBytes(o_items)
  <2>t. /\ N \in Nat /\ Len(wire) \in Nat /\ o_bytes \in Nat /\ total \in Nat
        /\ o_items \in Seq(Item)
        /\ \A i \in 1..N : o_items[i].base \in Nat /\ o_items[i].len \in Nat
    BY <1>1, Types DEF IInv, TypeOK
  <2>0. Lengths(o_items)
    BY <2>t DEF Lengths
  <2>1. o_bytes = Len(wire)
    BY <1>1, <2>t DEF IInv, WireInv, Writing
  <2>2. s[0] = 0 /\ s \in [0..N -> Nat]
    BY <2>0, PrefixStep, PrefixType
  <2>3. CASE N = 0
    <3>1. o_items = <<>>
      BY <2>3, <2>t, EmptySeq
    <3>2. Len(wire) = total
      BY <3>1, <1>1 DEF IInv, FrontInv
    <3>3. hp_wr_bytes = 0
      BY <2>2, <2>3 DEF hp_wr_bytes, iovec_total_bytes
    <3> QED BY <2>1, <3>2, <3>3, <2>t
  <2>4. CASE N # 0
    <3>1. o_items # <<>>
      BY <2>4, EmptySeq
    <3>2. o_items[0 + 1].base = Len(wire)
      BY <3>1, <1>1 DEF IInv, FrontInv, Writing
    <3>3. End(o_items[N]) = total
      BY <1>1, <2>4, LastIsTotal DEF IInv
    <3>4. s[N] - s[0] = End(o_items[N]) - o_items[0 + 1].base
      <4>1. 0 \in 0..N /\ N \in 0 + 1 .. N
        BY <2>4, <2>t
      <4>2. Chain(o_items, 0)
        BY <1>1 DEF IInv, QueueInv
      <4> QED BY <4>1, <4>2, <2>0, <2>t, PrefixChain
    <3> DEFINE x == s[N]
    <3>5. x \in Nat /\ x - 0 = total - Len(wire)
      BY <3>2, <3>3, <3>4, <2>2, <2>t
    <3> HIDE DEF x
    <3>6. x = total - Len(wire)
      BY <3>5
    <3>7. hp_wr_bytes = total - Len(wire)
      BY <3>6 DEF x, hp_wr_bytes, iovec_total_bytes
    <3> QED BY <2>1, <3>7
  <2> QED BY <2>3, <2>4
<1>2. IInv => BytesAccounted
  BY <1>1 DEF BytesAccounted
<1> QED BY <1>2, Invariance, PTL

\* Every step of the queue is a step of the ordered stream, or a stutter.
LEMMA StepSimulation ==
  ASSUME IInv, [Next]_vars
  PROVE  [Stream!Next]_(Stream!vars)
<1> SUFFICES Stream!Next \/ UNCHANGED <<total, wire, pc = "closed">>
  BY DEF Stream!vars
<1>t. Len(wire) \in Nat /\ Len(ends) \in Nat /\ total \in Nat /\ ends \in Seq(Nat)
  BY Types DEF IInv, TypeOK
<1>1. ASSUME NEW l \in ItemLens, hp_wr_add(l)
      PROVE  Stream!Next \/ UNCHANGED <<total, wire, pc = "closed">>
  <2>0. /\ pc = "idle" /\ pc' = "idle" /\ wire' = wire /\ l \in Nat
        /\ ends' = Append(ends, total + l) /\ total + l \in Nat
    BY <1>1, <1>t, ItemLensAssumption DEF hp_wr_add
  <2>1. ends' # <<>> /\ ends'[Len(ends')] = total + l
    BY <2>0, <1>t, AppendProperties
  <2>2. total' = total + l
    BY <2>1 DEF total
  <2>3. CASE l = 0
    BY <2>0, <2>2, <2>3, <1>t
  <2>4. CASE l # 0
    <3>1. total' \in Nat /\ total' > total
      BY <2>0, <2>2, <2>4, <1>t
    <3> QED BY <3>1, <2>0 DEF Stream!Next, Stream!Accept
  <2> QED BY <2>3, <2>4
<1>2. CASE WritevSome
  <2>1. PICK w \in 1..Unwritten : Writev(w)
    BY <1>2 DEF WritevSome
  <2>2. pc = "writev" /\ pc' \in {"writev", "written"} /\ ends' = ends
    BY <2>1 DEF Writev
  <2>3. /\ Len(wire') = Len(wire) + w
        /\ wire' = wire \o [i \in 1..w |-> Len(wire) + i - 1]
        /\ w \in Nat \ {0} /\ Len(wire') <= End(vec[Len(vec)])
    BY <2>1, WritevWire
  <2>4. End(vec[Len(vec)]) <= total /\ End(vec[Len(vec)]) \in Nat
    <3>1. Len(vec) \in 1..Len(vec) /\ End(vec[Len(vec)]) <= total
      BY <2>2, WriteFacts
    <3> QED BY <3>1, Types DEF IInv
  <2>5. Len(wire') \in Len(wire) + 1 .. total /\ Len(wire') - Len(wire) = w
    BY <2>3, <2>4, <1>t
  <2>6. total' = total
    BY <2>2 DEF total
  <2>7. wire' = wire \o [i \in 1..Len(wire') - Len(wire) |-> Len(wire) + i - 1]
    BY <2>3, <2>5
  <2> QED BY <2>2, <2>5, <2>6, <2>7 DEF Stream!Next, Stream!Deliver
<1>3. CASE WriteError \/ Uninit
  <2>1. pc # "closed" /\ UNCHANGED <<wire, ends>>
    BY <1>3 DEF WriteError, Uninit
  <2>2. total' = total
    BY <2>1 DEF total
  <2>3. CASE pc' = "closed"
    BY <2>1, <2>2, <2>3 DEF Stream!Next, Stream!Close
  <2>4. CASE pc' # "closed"
    BY <2>1, <2>2, <2>4
  <2> QED BY <2>3, <2>4
<1>4. CASE \/ hp_wr_write \/ WriteDone \/ SkipEmpty \/ PrepareBatch \/ AfterUioWrite
           \/ \E e \in {"EAGAIN", "EIO"} : WritevFails(e)
           \/ UNCHANGED vars
  <2>1. /\ UNCHANGED <<wire, ends>>
        /\ (pc # "closed" /\ pc' # "closed") \/ pc' = pc
    BY <1>4 DEF hp_wr_write, WriteDone, SkipEmpty, PrepareBatch, AfterUioWrite,
                WritevFails, vars
  <2>2. total' = total
    BY <2>1 DEF total
  <2> QED BY <2>1, <2>2
<1> QED BY <1>1, <1>2, <1>3, <1>4 DEF Next

\* The queue implements the ordered stream: however writev cuts the batches, no
\* byte is lost, repeated or overtaken.
THEOREM QueueIsStream == Spec => ImplementsStream
<1>1. Init => Stream!Init
  BY DEF Init, Stream!Init, total
<1>2. IInv /\ [Next]_vars => [Stream!Next]_(Stream!vars)
  BY StepSimulation
<1> QED BY <1>1, <1>2, Invariance, PTL DEF Spec, ImplementsStream, Stream!Spec
=============================================================================
