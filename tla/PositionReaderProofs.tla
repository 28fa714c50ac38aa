------------------------ MODULE PositionReaderProofs ------------------------
(***************************************************************************)
(* The catalogue and the answers of the position reader for all chains,    *)
(* any number of readers, every batch and file size.  The argument: a      *)
(* catalogue always lists the chain of its own last_tip, whatever the node *)
(* does meanwhile, because stored blocks do not move; a generation names   *)
(* at most one chain; and a refresh that is handed back has seen its       *)
(* generation unchanged at every batch.                                    *)
(***************************************************************************)
EXTENDS PositionReader, WellFoundedInduction, TLAPS

(***************************************************************************)
(* The few facts about sequences that the proofs use.                      *)
(***************************************************************************)

\* An element of a sequence over a set is in the set.
LEMMA ElementOfSeq ==
  ASSUME NEW S, NEW s \in Seq(S), NEW n \in 1 .. Len(s)
  PROVE  s[n] \in S
BY SMTT(60)

\* Only the empty sequence has length zero.
LEMMA EmptySeq ==
  ASSUME NEW S
  PROVE  /\ <<>> \in Seq(S) /\ Len(<<>>) = 0
         /\ \A s \in Seq(S) : s # <<>> => Len(s) \in Nat \ {0}
BY SMTT(60)

\* A sequence is a function on the numbers up to its length ...
LEMMA LenProperties ==
  ASSUME NEW S, NEW s \in Seq(S)
  PROVE  /\ Len(s) \in Nat /\ s \in [1 .. Len(s) -> S]
         /\ DOMAIN s = 1 .. Len(s)
BY SMTT(60)

\* ... and every such function is a sequence.
LEMMA FunctionIsSeq ==
  ASSUME NEW S, NEW n \in Nat, NEW f \in [1 .. n -> S]
  PROVE  f \in Seq(S) /\ Len(f) = n
BY SMTT(60)

\* Sequences with the same elements are the same.
LEMMA SeqEqual ==
  ASSUME NEW S, NEW s \in Seq(S), NEW t \in Seq(S),
         Len(s) = Len(t), \A i \in 1 .. Len(s) : s[i] = t[i]
  PROVE  s = t
BY SMTT(60)

\* The elements of a concatenation.
LEMMA ConcatProperties ==
  ASSUME NEW S, NEW s \in Seq(S), NEW t \in Seq(S)
  PROVE  /\ s \o t \in Seq(S) /\ Len(s \o t) = Len(s) + Len(t)
         /\ \A i \in 1 .. Len(s) + Len(t) :
              (s \o t)[i] = IF i <= Len(s) THEN s[i] ELSE t[i - Len(s)]
BY SMTT(60)

\* The elements of a part of a sequence.
LEMMA SubSeqProperties ==
  ASSUME NEW S, NEW s, NEW m \in Int, NEW n \in Int,
         \A i \in m .. n : s[i] \in S
  PROVE  /\ SubSeq(s, m, n) \in Seq(S)
         /\ Len(SubSeq(s, m, n)) = IF m <= n THEN n - m + 1 ELSE 0
         /\ \A i \in 1 .. n - m + 1 : SubSeq(s, m, n)[i] = s[m + i - 1]
BY SMTT(60)

\* The elements of a sequence with one more at its end.
LEMMA AppendProperties ==
  ASSUME NEW S, NEW s \in Seq(S), NEW e \in S
  PROVE  /\ Append(s, e) \in Seq(S) /\ Append(s, e) # <<>>
         /\ Len(Append(s, e)) = Len(s) + 1
         /\ \A i \in 1 .. Len(s) : Append(s, e)[i] = s[i]
         /\ Append(s, e)[Len(s) + 1] = e
BY SMTT(60)

\* A prefix is a sequence, of the given length, with the same elements.
LEMMA PrefixOf ==
  ASSUME NEW S, NEW t \in Seq(S), NEW n \in 0 .. Len(t)
  PROVE  /\ SubSeq(t, 1, n) \in Seq(S)
         /\ Len(SubSeq(t, 1, n)) = n
         /\ \A i \in 1 .. n : SubSeq(t, 1, n)[i] = t[i]
  <1>1. \A i \in 1 .. n : t[i] \in S
    BY LenProperties, ElementOfSeq, SMTT(60)
  <1>2. n \in Int /\ 1 \in Int /\ n - 1 + 1 = n /\ (1 <= n \/ n = 0)
    BY LenProperties, SMTT(60)
  <1>3. /\ SubSeq(t, 1, n) \in Seq(S)
        /\ Len(SubSeq(t, 1, n)) = IF 1 <= n THEN n - 1 + 1 ELSE 0
        /\ \A i \in 1 .. n - 1 + 1 : SubSeq(t, 1, n)[i] = t[1 + i - 1]
    BY <1>1, <1>2, SubSeqProperties, SMTT(60)
  <1> QED BY <1>2, <1>3, SMTT(60)

\* A prefix of a prefix is a prefix.
LEMMA PrefixOfPrefix ==
  ASSUME NEW S, NEW t \in Seq(S), NEW n \in 0 .. Len(t), NEW m \in 0 .. n
  PROVE  SubSeq(SubSeq(t, 1, n), 1, m) = SubSeq(t, 1, m)
  <1> DEFINE u == SubSeq(t, 1, n)
  <1>1. u \in Seq(S) /\ Len(u) = n /\ \A i \in 1 .. n : u[i] = t[i]
    BY PrefixOf, ZenonT(60)
  <1>2. m \in 0 .. Len(t) /\ m \in 0 .. Len(u)
    BY <1>1, LenProperties, SMTT(60)
  <1> HIDE DEF u
  <1>3. /\ SubSeq(u, 1, m) \in Seq(S) /\ Len(SubSeq(u, 1, m)) = m
        /\ \A i \in 1 .. m : SubSeq(u, 1, m)[i] = u[i]
    BY <1>1, <1>2, PrefixOf, ZenonT(60)
  <1>4. /\ SubSeq(t, 1, m) \in Seq(S) /\ Len(SubSeq(t, 1, m)) = m
        /\ \A i \in 1 .. m : SubSeq(t, 1, m)[i] = t[i]
    BY <1>2, PrefixOf, ZenonT(60)
  <1>5. \A i \in 1 .. m : i \in 1 .. n
    BY SMTT(60)
  <1>6. \A i \in 1 .. Len(SubSeq(u, 1, m)) : SubSeq(u, 1, m)[i] = SubSeq(t, 1, m)[i]
    BY <1>1, <1>3, <1>4, <1>5, ZenonT(60)
  <1>7. SubSeq(u, 1, m) = SubSeq(t, 1, m)
    BY <1>3, <1>4, <1>6, SeqEqual, ZenonT(60)
  <1> QED BY <1>7, ZenonT(60) DEF u

\* The front and the last element of a non-empty sequence.
LEMMA FrontOf ==
  ASSUME NEW S, NEW s \in Seq(S), s # <<>>
  PROVE  /\ Len(s) \in Nat \ {0}
         /\ Front(s) = SubSeq(s, 1, Len(s) - 1)
         /\ Front(s) \in Seq(S) /\ Len(Front(s)) = Len(s) - 1
         /\ \A i \in 1 .. Len(s) - 1 : Front(s)[i] = s[i]
         /\ Last(s) \in S /\ Last(s) = s[Len(s)]
  <1>1. Len(s) \in Nat \ {0} /\ Len(s) - 1 \in 0 .. Len(s) /\ Len(s) \in 1 .. Len(s)
    BY EmptySeq, SMTT(60)
  <1>2. s[Len(s)] \in S
    BY <1>1, ElementOfSeq, ZenonT(60)
  <1> QED BY <1>1, <1>2, PrefixOf, ZenonT(60) DEF Front, Last

(***************************************************************************)
(* The node's side: what is stored stays where it is, so the listing of a  *)
(* chain, the fork of two chains and a lookup mean the same whatever the   *)
(* node does next.                                                         *)
(***************************************************************************)

\* A non-empty set of integers with an upper bound has a greatest element.
LEMMA MaxOf ==
  ASSUME NEW T, T \subseteq Int, T # {}, NEW top \in Int, \A x \in T : x <= top
  PROVE  Max(T) \in T /\ \A y \in T : y <= Max(T)
<1> DEFINE R == OpToRel(<, Nat)
           U == {top - x : x \in T}
<1>1. U \subseteq Nat /\ U # {}
  <2>1. \A x \in T : top - x \in Nat
    BY SMTT(60)
  <2> QED BY <2>1, ZenonT(60)
<1>2. IsWellFoundedOn(R, Nat)
  BY NatLessThanWellFounded, ZenonT(60)
<1> HIDE DEF R, U
<1>3. PICK u \in U : \A v \in U : ~(<<v, u>> \in R)
  BY <1>1, <1>2, WFMin, ZenonT(60)
<1>4. \A v \in U : u <= v
  <2> TAKE v \in U
  <2>1. u \in Nat /\ v \in Nat /\ ~(<<v, u>> \in R)
    BY <1>1, <1>3, ZenonT(60)
  <2>2. v < u => <<v, u>> \in R
    BY <2>1, ZenonT(60) DEF R, OpToRel
  <2> QED BY <2>1, <2>2, SMTT(60)
<1>5. PICK x \in T : u = top - x
  BY ZenonT(60) DEF U
<1>6. \A y \in T : x >= y
  <2> TAKE y \in T
  <2>1. top - y \in U BY ZenonT(60) DEF U
  <2>2. u <= top - y BY <1>4, <2>1, ZenonT(60)
  <2> QED BY <1>5, <2>2, SMTT(60)
<1>7. Max(T) \in T /\ \A y \in T : Max(T) >= y
  BY <1>6, ZenonT(60) DEF Max
<1> QED BY <1>7, ZenonT(60)

-----------------------------------------------------------------------------
(* Chains and what is stored of them.                                      *)

Chain == Seq(Txs) \ {NoBlock}
Keys == Nat \X Nat

\* Every block of the chain is stored.
Stored(b) == \A n \in 1 .. Len(b) : SubSeq(b, 1, n) \in Range(stored)

\* The catalogue of a chain.
Listing(b) == [n \in 1 .. Len(b) |-> PositionOf(SubSeq(b, 1, n))]

StoreOK ==
  /\ stored \in Seq(Seq(Txs))
  /\ \A i, j \in 1 .. Len(stored) : stored[i] = stored[j] => i = j

\* A stored block has one place.
LEMMA IndexOf ==
  ASSUME StoreOK, NEW b \in Range(stored)
  PROVE  \E i \in 1 .. Len(stored) :
           /\ stored[i] = b
           /\ PositionOf(b) = <<(i - 1) \div PerFile, 2 * ((i - 1) % PerFile)>>
<1>1. DOMAIN stored = 1 .. Len(stored)
  BY LenProperties, ZenonT(60) DEF StoreOK
<1> DEFINE i == CHOOSE n \in DOMAIN stored : stored[n] = b
<1>2. i \in 1 .. Len(stored) /\ stored[i] = b
  <2>1. \E n \in DOMAIN stored : stored[n] = b
    BY ZenonT(60) DEF Range
  <2> QED BY <1>1, <2>1, ZenonT(60)
<1>3. PositionOf(b) = <<(i - 1) \div PerFile, 2 * ((i - 1) % PerFile)>>
  BY ZenonT(60) DEF PositionOf
<1> HIDE DEF i
<1> QED BY <1>2, <1>3, ZenonT(60)

\* A position is a file and an offset.
LEMMA PositionType ==
  ASSUME StoreOK, NEW b \in Range(stored)
  PROVE  PositionOf(b) \in Keys
<1>1. PICK i \in 1 .. Len(stored) :
        PositionOf(b) = <<(i - 1) \div PerFile, 2 * ((i - 1) % PerFile)>>
  BY IndexOf, ZenonT(60)
<1>2. Len(stored) \in Nat
  BY LenProperties, ZenonT(60) DEF StoreOK
<1>3. i - 1 \in Nat
  BY <1>2, SMTT(60)
<1>4. (i - 1) \div PerFile \in Nat /\ 2 * ((i - 1) % PerFile) \in Nat
  <2> DEFINE k == i - 1
             d == k \div PerFile
             m == k % PerFile
  <2>1. k \in Nat BY <1>3, ZenonT(60)
  <2> HIDE DEF k
  <2>2. d \in Int /\ m \in 0 .. PerFile - 1 /\ k = PerFile * d + m
    BY <2>1, ReaderAssumption, SMTT(60)
  <2> HIDE DEF d, m
  <2>3. d >= 0
    <3>1. CASE d <= -1
      <4>1. PerFile * d <= -PerFile BY <2>2, <3>1, ReaderAssumption, SMTT(60)
      <4> QED BY <2>1, <2>2, <4>1, ReaderAssumption, SMTT(60)
    <3> QED BY <2>2, <3>1, SMTT(60)
  <2> QED BY <2>2, <2>3, SMTT(60) DEF d, m, k
<1> QED BY <1>1, <1>4, SMTT(60) DEF Keys

\* Blocks are appended to the files and stay where they are.
LEMMA StoreGrows ==
  ASSUME StoreOK, NEW x \in Seq(Txs),
         stored' = IF x \in Range(stored) THEN stored ELSE Append(stored, x)
  PROVE  /\ StoreOK'
         /\ x \in Range(stored')
         /\ \A b \in Range(stored) :
              b \in Range(stored') /\ PositionOf(b)' = PositionOf(b)
<1>0. Len(stored) \in Nat /\ DOMAIN stored = 1 .. Len(stored)
  BY LenProperties, ZenonT(60) DEF StoreOK
<1>1. CASE x \in Range(stored)
  <2>1. stored' = stored BY <1>1, ZenonT(60)
  <2>2. \A b : PositionOf(b)' = PositionOf(b)
    BY <2>1, ZenonT(60) DEF PositionOf
  <2> QED BY <1>1, <2>1, <2>2, ZenonT(60) DEF StoreOK
<1>2. CASE x \notin Range(stored)
  <2>1. /\ stored' \in Seq(Seq(Txs)) /\ Len(stored') = Len(stored) + 1
        /\ stored'[Len(stored) + 1] = x
        /\ \A i \in 1 .. Len(stored) : stored'[i] = stored[i]
    BY <1>2, AppendProperties, SMTT(60) DEF StoreOK
  <2>2. DOMAIN stored' = 1 .. Len(stored) + 1
    BY <2>1, LenProperties, ZenonT(60)
  <2>3. \A i \in 1 .. Len(stored) : stored[i] # x
    BY <1>0, <1>2, ZenonT(60) DEF Range
  <2>4. StoreOK'
    <3> SUFFICES ASSUME NEW i \in 1 .. Len(stored) + 1,
                        NEW j \in 1 .. Len(stored) + 1, stored'[i] = stored'[j]
                 PROVE  i = j
      BY <2>1, ZenonT(60) DEF StoreOK
    <3>1. (i \in 1 .. Len(stored) \/ i = Len(stored) + 1)
          /\ (j \in 1 .. Len(stored) \/ j = Len(stored) + 1)
      BY <1>0, SMTT(60)
    <3> QED BY <2>1, <2>3, <3>1, ZenonT(60) DEF StoreOK
  <2>5. x \in Range(stored')
    <3>1. Len(stored) + 1 \in DOMAIN stored' BY <1>0, <2>2, SMTT(60)
    <3> QED BY <2>1, <3>1, ZenonT(60) DEF Range
  <2>6. ASSUME NEW b \in Range(stored)
        PROVE  b \in Range(stored') /\ PositionOf(b)' = PositionOf(b)
    <3>1. PICK i \in 1 .. Len(stored) :
            /\ stored[i] = b
            /\ PositionOf(b) = <<(i - 1) \div PerFile, 2 * ((i - 1) % PerFile)>>
      BY IndexOf, ZenonT(60)
    <3>2. i \in 1 .. Len(stored) + 1 /\ stored'[i] = b
      BY <1>0, <2>1, <3>1, SMTT(60)
    <3>3. b \in Range(stored')
      BY <2>2, <3>2, ZenonT(60) DEF Range
    <3>4. \A n \in DOMAIN stored' : stored'[n] = b => n = i
      BY <2>1, <2>2, <2>4, <3>2, ZenonT(60) DEF StoreOK
    <3>5. (CHOOSE n \in DOMAIN stored' : stored'[n] = b) = i
      BY <2>2, <3>2, <3>4, ZenonT(60)
    <3>6. PositionOf(b)' = <<(i - 1) \div PerFile, 2 * ((i - 1) % PerFile)>>
      BY <3>5, ZenonT(60) DEF PositionOf
    <3> QED BY <3>1, <3>3, <3>6, ZenonT(60)
  <2> QED BY <2>4, <2>5, <2>6, ZenonT(60)
<1> QED BY <1>1, <1>2, ZenonT(60)

\* So a stored chain stays stored and its listing does not change.
LEMMA ListingStable ==
  ASSUME \A b \in Range(stored) :
           b \in Range(stored') /\ PositionOf(b)' = PositionOf(b),
         NEW b, Stored(b)
  PROVE  Stored(b)' /\ Listing(b)' = Listing(b)
BY ZenonT(60) DEF Stored, Listing

\* The minimum of three integers.
LEMMA MinOfThree ==
  ASSUME NEW a \in Int, NEW b \in Int, NEW c \in Int
  PROVE  /\ Min({a, b, c}) \in {a, b, c}
         /\ Min({a, b, c}) <= a /\ Min({a, b, c}) <= b /\ Min({a, b, c}) <= c
<1>1. \E x \in {a, b, c} : \A y \in {a, b, c} : x <= y
  <2>1. CASE a <= b /\ a <= c BY <2>1, SMTT(60)
  <2>2. CASE b <= a /\ b <= c BY <2>2, SMTT(60)
  <2>3. CASE c <= a /\ c <= b BY <2>3, SMTT(60)
  <2> QED BY <2>1, <2>2, <2>3, SMTT(60)
<1>2. Min({a, b, c}) \in {a, b, c} /\ \A y \in {a, b, c} : Min({a, b, c}) <= y
  BY <1>1, ZenonT(60) DEF Min
<1> QED BY <1>2, ZenonT(60)

\* A listing by its elements.
LEMMA ListingIs ==
  ASSUME NEW b \in Seq(Txs)
  PROVE  /\ Len(Listing(b)) = Len(b) /\ Len(b) \in Nat
         /\ DOMAIN Listing(b) = 1 .. Len(b)
         /\ \A n \in 1 .. Len(b) : Listing(b)[n] = PositionOf(SubSeq(b, 1, n))
<1>1. Len(b) \in Nat BY LenProperties, ZenonT(60)
<1> QED BY <1>1, SMTT(60) DEF Listing

\* Up to the fork the catalogue's chain and the active one are the same.
LEMMA ForkFacts ==
  ASSUME NEW c, NEW t \in Seq(Txs), tip \in Chain,
         c.last_tip = t, c.heights = Listing(t)
  PROVE  /\ ForkHeight(c) \in -1 .. Len(tip) - 1 /\ ForkHeight(c) < Len(t)
         /\ \A n \in 1 .. ForkHeight(c) + 1 : SubSeq(t, 1, n) = SubSeq(tip, 1, n)
<1>1. /\ Len(t) \in Nat /\ Len(tip) \in Nat \ {0} /\ tip \in Seq(Txs)
      /\ Len(c.heights) = Len(t)
  BY ListingIs, LenProperties, EmptySeq, ZenonT(60) DEF Chain, NoBlock
<1>2. CASE c.heights = <<>>
  <2>1. ForkHeight(c) = -1 BY <1>2, ZenonT(60) DEF ForkHeight
  <2> QED BY <1>1, <2>1, SMTT(60)
<1>3. CASE c.heights # <<>>
  <2> DEFINE high == Min({Height(t), Height(tip), Len(c.heights) - 1})
             T == {-1} \cup {h \in 0 .. high : BlockAt(t, h) = BlockAt(tip, h)}
             f == Max(T)
  <2>1. f = ForkHeight(c)
    BY <1>3, ZenonT(60) DEF ForkHeight
  <2>2. Len(t) # 0
    <3>1. Len(t) = 0 => c.heights = <<>>
      BY SMTT(60) DEF Listing
    <3> QED BY <1>3, <3>1, ZenonT(60)
  <2>3. high \in Int /\ high >= 0 /\ high <= Len(t) - 1 /\ high <= Len(tip) - 1
    <3> DEFINE a == Len(t) - 1
               b == Len(tip) - 1
    <3>1. a \in Int /\ b \in Int /\ a >= 0 /\ b >= 0
      BY <1>1, <2>2, SMTT(60)
    <3>2. high = Min({a, b, a})
      BY <1>1, ZenonT(60) DEF Height
    <3> HIDE DEF a, b, high
    <3>3. high \in {a, b, a} /\ high <= a /\ high <= b
      BY <3>1, <3>2, MinOfThree, ZenonT(60)
    <3> QED BY <3>1, <3>3, ZenonT(60) DEF a, b
  <2> HIDE DEF high
  <2>4. T \subseteq Int /\ T # {} /\ \A x \in T : x <= high
    BY <2>3, SMTT(60)
  <2>5. f \in T
    <3> HIDE DEF T
    <3> QED BY <2>3, <2>4, MaxOf, ZenonT(60)
  <2> HIDE DEF f
  <2>6. CASE f = -1
    BY <1>1, <2>1, <2>6, SMTT(60)
  <2>7. CASE f \in 0 .. high /\ BlockAt(t, f) = BlockAt(tip, f)
    <3>1. f + 1 \in 0 .. Len(t) /\ f + 1 \in 0 .. Len(tip)
      BY <1>1, <2>3, <2>7, SMTT(60)
    <3>2. SubSeq(t, 1, f + 1) = SubSeq(tip, 1, f + 1)
      BY <2>7, ZenonT(60) DEF BlockAt
    <3>3. ASSUME NEW n \in 1 .. f + 1 PROVE SubSeq(t, 1, n) = SubSeq(tip, 1, n)
      <4>1. n \in 0 .. f + 1 BY <3>1, SMTT(60)
      <4>2. SubSeq(SubSeq(t, 1, f + 1), 1, n) = SubSeq(t, 1, n)
        BY <3>1, <4>1, PrefixOfPrefix, ZenonT(60)
      <4>3. SubSeq(SubSeq(tip, 1, f + 1), 1, n) = SubSeq(tip, 1, n)
        BY <1>1, <3>1, <4>1, PrefixOfPrefix, ZenonT(60)
      <4> QED BY <3>2, <4>2, <4>3, ZenonT(60)
    <3> QED BY <1>1, <2>1, <2>3, <2>7, <3>3, SMTT(60)
  <2> QED BY <2>5, <2>6, <2>7, ZenonT(60)
<1> QED BY <1>2, <1>3, ZenonT(60)

\* A lookup in the listing of a stored chain finds a block of the active one.
LEMMA LookupFinds ==
  ASSUME StoreOK, tip \in Chain, NEW t \in Seq(Txs), Stored(t),
         NEW c, c.heights = Listing(t), NEW p \in Keys, Lookup(c, p) # None
  PROVE  \E n \in 1 .. Len(tip) :
           Lookup(c, p) = Some([block |-> SubSeq(tip, 1, n), generation |-> c.generation])
<1> DEFINE below == {i \in DOMAIN c.heights :
                       c.heights[i][1] = p[1] /\ ~Before(p, c.heights[i])}
           found == CHOOSE i \in below :
                      \A j \in below : ~Before(c.heights[i], c.heights[j])
<1>1. /\ Len(t) \in Nat /\ DOMAIN c.heights = 1 .. Len(t) /\ Len(tip) \in Nat
      /\ \A n \in 1 .. Len(t) : c.heights[n] \in Keys
  <2>1. \A n \in 1 .. Len(t) : PositionOf(SubSeq(t, 1, n)) \in Keys
    BY PositionType, ZenonT(60) DEF Stored
  <2> QED BY <2>1, ListingIs, LenProperties, ZenonT(60) DEF Chain
<1>2. /\ below # {} /\ ~(found > Len(tip))
      /\ Lookup(c, p) = Some([block |-> BlockAt(tip, found - 1),
                              generation |-> c.generation])
  BY ZenonT(60) DEF Lookup
<1>3. found \in below
  <2> DEFINE T == {c.heights[i][2] : i \in below}
  <2>1. \A i \in below : /\ c.heights[i] \in Keys /\ c.heights[i][1] = p[1]
                         /\ c.heights[i][2] \in Nat /\ c.heights[i][2] <= p[2]
    BY <1>1, SMTT(60) DEF Before, Keys
  <2>2. T \subseteq Int /\ T # {} /\ \A x \in T : x <= p[2]
    BY <1>2, <2>1, SMTT(60)
  <2>3. p[2] \in Int
    BY SMTT(60) DEF Keys
  <2>4. PICK m \in T : \A y \in T : y <= m
    <3> HIDE DEF T
    <3> QED BY <2>2, <2>3, MaxOf, ZenonT(60)
  <2>5. PICK i \in below : m = c.heights[i][2]
    BY <2>4, ZenonT(60)
  <2>6. \A j \in below : ~Before(c.heights[i], c.heights[j])
    <3> TAKE j \in below
    <3>1. c.heights[j][2] <= c.heights[i][2]
      BY <2>4, <2>5, ZenonT(60)
    <3> QED BY <2>1, <3>1, SMTT(60) DEF Before, Keys
  <2> HIDE DEF below
  <2> QED BY <2>6, ZenonT(60)
<1> HIDE DEF found
<1>4. found \in 1 .. Len(tip) /\ found - 1 + 1 = found
  BY <1>1, <1>2, <1>3, SMTT(60)
<1> QED BY <1>2, <1>4, ZenonT(60) DEF BlockAt

-----------------------------------------------------------------------------
(* The inductive invariant.                                                *)

Catalogues == [heights : Seq(Keys), last_tip : Seq(Txs), generation : Nat]
Work == [owner : Readers, heights : Seq(Keys), fork : Int, tip : Seq(Txs),
         current : Nat]
Refs == {None} \cup {Some(x) : x \in [block : Seq(Txs), generation : Nat]}
Refresher == {"trim", "batch", "abort"}
Referring == {"resolved", "load", "cache", "read"}

NodeOK ==
  /\ StoreOK /\ tip \in Chain /\ Stored(tip) /\ generation \in Nat

ReadersOK ==
  /\ pc \in [Readers -> Reading \cup {"idle", "answered", "failed"}]
  /\ position \in [Readers -> Keys]
  /\ ref \in [Readers -> Refs]
  /\ \A r \in Readers : pc[r] \in Referring => ref[r] # None
  /\ \A r \in Readers : pc[r] \in Refresher =>
       \E w \in Work : refresh = Some(w) /\ w.owner = r

\* A catalogue lists the chain of its last_tip, which is the active chain if
\* their generations are the same.
CatalogueOK(c) ==
  /\ Stored(c.last_tip)
  /\ c.heights = Listing(c.last_tip)
  /\ generation # 0 => c.generation <= generation
  /\ generation # 0 /\ c.generation = generation => c.last_tip = tip

\* What is being refreshed lists the new chain up to the fork and, once the
\* old blocks are trimmed, nothing else.
WorkOK(w) ==
  /\ Stored(w.tip) /\ w.tip # NoBlock
  /\ w.current # 0 /\ (generation # 0 => w.current <= generation)
  /\ generation = w.current => w.tip = tip
  /\ -1 <= w.fork /\ w.fork < Len(w.tip)
  /\ \A i \in 1 .. Len(w.heights) :
       i <= w.fork + 1 \/ pc[w.owner] = "batch" =>
         i <= Len(w.tip) /\ w.heights[i] = PositionOf(SubSeq(w.tip, 1, i))

CataloguesOK ==
  /\ catalogue # None => \E c \in Catalogues : catalogue = Some(c) /\ CatalogueOK(c)
  /\ refresh # None => \E w \in Work : refresh = Some(w) /\ WorkOK(w)

Inductive == NodeOK /\ ReadersOK /\ CataloguesOK

\* Options.
LEMMA Options ==
  ASSUME NEW x, NEW y
  PROVE  Some(x) # None /\ The(Some(x)) = x /\ (Some(x) = Some(y) => x = y)
BY ZenonT(60) DEF Some, None, The

\* As long as the node does nothing, what is stored and listed stays.
LEMMA NodeFrame ==
  ASSUME UNCHANGED <<tip, generation, stored>>
  PROVE  /\ NodeOK => NodeOK'
         /\ \A b : PositionOf(b)' = PositionOf(b)
         /\ \A b : Stored(b) => Stored(b)'
         /\ \A b : Listing(b)' = Listing(b)
         /\ \A c : CatalogueOK(c) => CatalogueOK(c)'
<1>1. \A b : PositionOf(b)' = PositionOf(b)
  BY ZenonT(60) DEF PositionOf
<1>2. \A b : Stored(b)' = Stored(b)
  BY ZenonT(60) DEF Stored
<1>3. \A b : Listing(b)' = Listing(b)
  BY <1>1, ZenonT(60) DEF Listing
<1>4. StoreOK => StoreOK'
  BY ZenonT(60) DEF StoreOK
<1>5. NodeOK => NodeOK'
  BY <1>2, <1>4, ZenonT(60) DEF NodeOK
<1>6. \A c : CatalogueOK(c) => CatalogueOK(c)'
  BY <1>2, <1>3, ZenonT(60) DEF CatalogueOK
<1> QED BY <1>1, <1>2, <1>3, <1>5, <1>6, ZenonT(60)

\* ... and so does the work, unless its owner begins with the batches.
LEMMA WorkFrame ==
  ASSUME UNCHANGED <<tip, generation, stored>>, NEW w, WorkOK(w),
         pc'[w.owner] = "batch" => pc[w.owner] = "batch"
  PROVE  WorkOK(w)'
<1>1. \A b : PositionOf(b)' = PositionOf(b)
  BY NodeFrame, ZenonT(60)
<1>2. Stored(w.tip)'
  BY NodeFrame, ZenonT(60) DEF WorkOK
<1> QED BY <1>1, <1>2, ZenonT(60) DEF WorkOK

\* An empty catalogue lists the empty chain, of no generation.
LEMMA EmptyCatalogueOK ==
  ASSUME generation \in Nat
  PROVE  EmptyCatalogue \in Catalogues /\ CatalogueOK(EmptyCatalogue)
<1> DEFINE c == EmptyCatalogue
<1>1. c \in Catalogues /\ c.last_tip = <<>> /\ c.heights = <<>> /\ c.generation = 0
  BY EmptySeq, ZenonT(60) DEF EmptyCatalogue, Catalogues, NoBlock
<1>2. Stored(<<>>) /\ Listing(<<>>) = <<>>
  BY SMTT(60) DEF Stored, Listing
<1> QED BY <1>1, <1>2, SMTT(60) DEF CatalogueOK

\* At first nothing is listed and nobody reads.
LEMMA InitInductive == Init => Inductive
<1> SUFFICES ASSUME Init PROVE Inductive
  BY ZenonT(60)
<1>1. Genesis \in Seq(Txs) /\ Genesis # NoBlock /\ Len(Genesis) = 1
      /\ Genesis = SubSeq(Genesis, 1, 1)
  BY BlocksAssumption, SMTT(60) DEF Genesis, NoBlock
<1>2. NodeOK
  <2>1. StoreOK
    BY <1>1, SMTT(60) DEF Init, StoreOK
  <2>2. Genesis \in Range(stored)
    BY SMTT(60) DEF Init, Range
  <2>3. Stored(tip)
    <3>1. tip = Genesis BY ZenonT(60) DEF Init
    <3>2. Len(tip) = 1 BY <1>1, <3>1, ZenonT(60)
    <3>3. \A n \in 1 .. Len(tip) : n = 1 BY <3>2, SMTT(60)
    <3>4. SubSeq(tip, 1, 1) \in Range(stored) BY <1>1, <2>2, <3>1, ZenonT(60)
    <3> QED BY <3>3, <3>4, ZenonT(60) DEF Stored
  <2> QED BY <1>1, <2>1, <2>3, ZenonT(60) DEF Init, NodeOK, Chain
<1>3. ReadersOK
  BY ZenonT(60) DEF Init, ReadersOK, Keys, Refs, Referring, Refresher
<1>4. CataloguesOK
  <2>1. PICK c \in Catalogues : c = EmptyCatalogue /\ CatalogueOK(c)
    BY EmptyCatalogueOK, ZenonT(60) DEF Init
  <2> QED BY <2>1, ZenonT(60) DEF Init, CataloguesOK
<1> QED BY <1>2, <1>3, <1>4, ZenonT(60) DEF Inductive

\* Connecting or disconnecting a block stores at most the new tip, and the
\* generation moves on: no catalogue and no refresh is of it.
LEMMA SetTipPreserves ==
  ASSUME Inductive, SetTip
  PROVE  Inductive'
<1> USE DEF Inductive
<1>1. /\ tip \in Seq(Txs) /\ tip # <<>> /\ Len(tip) \in Nat \ {0}
      /\ StoreOK /\ Stored(tip) /\ generation \in Nat \ {0}
  BY EmptySeq, ZenonT(60) DEF NodeOK, Chain, NoBlock, SetTip
<1>2. /\ tip' \in Seq(Txs) /\ Len(tip') \in Nat \ {0}
      /\ \A n \in 1 .. Len(tip') - 1 : SubSeq(tip', 1, n) = SubSeq(tip, 1, n)
      /\ \A n \in 1 .. Len(tip') - 1 : n \in 1 .. Len(tip)
  <2>1. CASE tip' \in Children(tip)
    <3>1. PICK tx \in Txs : tip' = Append(tip, tx)
      BY <2>1, BlocksAssumption, ZenonT(60) DEF Children
    <3>2. tip' \in Seq(Txs) /\ Len(tip') = Len(tip) + 1
          /\ \A i \in 1 .. Len(tip) : tip'[i] = tip[i]
      BY <1>1, <3>1, AppendProperties, SMTT(60)
    <3>3. ASSUME NEW n \in 1 .. Len(tip') - 1
          PROVE  SubSeq(tip', 1, n) = SubSeq(tip, 1, n) /\ n \in 1 .. Len(tip)
      <4>1. n \in 0 .. Len(tip) /\ n \in 0 .. Len(tip') /\ n \in 1 .. Len(tip)
        BY <1>1, <3>2, SMTT(60)
      <4>2. /\ SubSeq(tip', 1, n) \in Seq(Txs) /\ Len(SubSeq(tip', 1, n)) = n
            /\ \A i \in 1 .. n : SubSeq(tip', 1, n)[i] = tip'[i]
        BY <3>2, <4>1, PrefixOf, ZenonT(60)
      <4>3. /\ SubSeq(tip, 1, n) \in Seq(Txs) /\ Len(SubSeq(tip, 1, n)) = n
            /\ \A i \in 1 .. n : SubSeq(tip, 1, n)[i] = tip[i]
        BY <1>1, <4>1, PrefixOf, ZenonT(60)
      <4>4. \A i \in 1 .. n : SubSeq(tip', 1, n)[i] = SubSeq(tip, 1, n)[i]
        BY <1>1, <3>2, <4>1, <4>2, <4>3, SMTT(60)
      <4> QED BY <4>1, <4>2, <4>3, <4>4, SeqEqual, ZenonT(60)
    <3>4. Len(tip') \in Nat \ {0} BY <1>1, <3>2, SMTT(60)
    <3> QED BY <3>2, <3>3, <3>4, ZenonT(60)
  <2>2. CASE Height(tip) > 0 /\ tip' = PrevHash(tip)
    <3>1. Len(tip) > 1 /\ tip' = SubSeq(tip, 1, Len(tip) - 1)
      BY <1>1, <2>2, FrontOf, SMTT(60) DEF Height, PrevHash
    <3>2. Len(tip) - 1 \in 0 .. Len(tip)
      BY <1>1, SMTT(60)
    <3>3. tip' \in Seq(Txs) /\ Len(tip') = Len(tip) - 1
      BY <1>1, <3>1, <3>2, PrefixOf, ZenonT(60)
    <3>4. ASSUME NEW n \in 1 .. Len(tip') - 1
          PROVE  SubSeq(tip', 1, n) = SubSeq(tip, 1, n) /\ n \in 1 .. Len(tip)
      <4>1. n \in 0 .. Len(tip) - 1 /\ n \in 1 .. Len(tip)
        BY <1>1, <3>3, SMTT(60)
      <4> QED BY <1>1, <3>1, <3>2, <4>1, PrefixOfPrefix, ZenonT(60)
    <3>5. Len(tip') \in Nat \ {0} BY <1>1, <3>1, <3>3, SMTT(60)
    <3> QED BY <3>3, <3>4, <3>5, ZenonT(60)
  <2> QED BY <2>1, <2>2, ZenonT(60) DEF SetTip
<1>3. /\ StoreOK' /\ tip' \in Range(stored')
      /\ \A b \in Range(stored) :
           b \in Range(stored') /\ PositionOf(b)' = PositionOf(b)
  <2> DEFINE x == tip'
  <2>1. /\ x \in Seq(Txs)
        /\ stored' = IF x \in Range(stored) THEN stored ELSE Append(stored, x)
    BY <1>2, ZenonT(60) DEF SetTip
  <2> HIDE DEF x
  <2>2. /\ StoreOK' /\ x \in Range(stored')
        /\ \A b \in Range(stored) :
             b \in Range(stored') /\ PositionOf(b)' = PositionOf(b)
    BY <1>1, <2>1, StoreGrows, ZenonT(60)
  <2> QED BY <2>2, ZenonT(60) DEF x
<1>4. \A b : Stored(b) => \A n \in 1 .. Len(b) : SubSeq(b, 1, n) \in Range(stored')
  BY <1>3, ZenonT(60) DEF Stored
<1>5. (generation' = 0 \/ generation' = generation + 1) /\ generation' \in Nat
  BY <1>1, SMTT(60) DEF SetTip, Advance
<1>6. NodeOK'
  <2>1. ASSUME NEW n \in 1 .. Len(tip') PROVE SubSeq(tip', 1, n) \in Range(stored')
    <3>1. CASE n \in 1 .. Len(tip') - 1
      BY <1>1, <1>2, <1>4, <3>1, ZenonT(60)
    <3>2. CASE n = Len(tip')
      <4>1. Len(tip') \in 0 .. Len(tip') BY <1>2, SMTT(60)
      <4>2. /\ SubSeq(tip', 1, n) \in Seq(Txs) /\ Len(SubSeq(tip', 1, n)) = n
            /\ \A i \in 1 .. n : SubSeq(tip', 1, n)[i] = tip'[i]
        BY <1>2, <3>2, <4>1, PrefixOf, ZenonT(60)
      <4>3. SubSeq(tip', 1, n) = tip'
        BY <1>2, <3>2, <4>2, SeqEqual, ZenonT(60)
      <4> QED BY <1>3, <4>3, ZenonT(60)
    <3> QED BY <1>2, <3>1, <3>2, SMTT(60)
  <2>2. Stored(tip)'
    BY <2>1, ZenonT(60) DEF Stored
  <2>3. tip' \in Chain
    BY <1>2, SMTT(60) DEF Chain, NoBlock
  <2> QED BY <1>3, <1>5, <2>2, <2>3, ZenonT(60) DEF NodeOK
<1>7. UNCHANGED <<catalogue, refresh, pc, position, ref>>
  BY ZenonT(60) DEF SetTip, local
<1>8. ReadersOK'
  BY <1>7, ZenonT(60) DEF ReadersOK
<1>9. CataloguesOK'
  <2>1. ASSUME NEW c \in Catalogues, CatalogueOK(c) PROVE CatalogueOK(c)'
    <3>1. Stored(c.last_tip)' /\ Listing(c.last_tip)' = Listing(c.last_tip)
      BY <1>3, <2>1, ListingStable, ZenonT(60) DEF CatalogueOK
    <3>2. c.generation \in Nat BY ZenonT(60) DEF Catalogues
    <3>3. generation' # 0 => c.generation < generation'
      BY <1>1, <1>5, <2>1, <3>2, SMTT(60) DEF CatalogueOK
    <3> QED BY <1>5, <2>1, <3>1, <3>2, <3>3, SMTT(60) DEF CatalogueOK
  <2>2. ASSUME NEW w \in Work, WorkOK(w) PROVE WorkOK(w)'
    <3>1. Stored(w.tip)'
      BY <1>3, <2>2, ListingStable, ZenonT(60) DEF WorkOK
    <3>2. /\ w.current \in Nat /\ w.tip \in Seq(Txs) /\ Len(w.tip) \in Nat
          /\ Len(w.heights) \in Nat /\ w.fork \in Int
      BY LenProperties, ZenonT(60) DEF Work
    <3>3. w.current # generation' /\ (generation' # 0 => w.current <= generation')
      BY <1>1, <1>5, <2>2, <3>2, SMTT(60) DEF WorkOK
    <3>4. \A i \in 1 .. Len(w.tip) :
            PositionOf(SubSeq(w.tip, 1, i))' = PositionOf(SubSeq(w.tip, 1, i))
      BY <1>3, <2>2, ZenonT(60) DEF WorkOK, Stored
    <3>5. ASSUME NEW i \in 1 .. Len(w.heights),
                 i <= w.fork + 1 \/ pc[w.owner] = "batch"
          PROVE  i <= Len(w.tip) /\ w.heights[i] = PositionOf(SubSeq(w.tip, 1, i))'
      <4>1. i <= Len(w.tip) /\ w.heights[i] = PositionOf(SubSeq(w.tip, 1, i))
        BY <2>2, <3>5, ZenonT(60) DEF WorkOK
      <4>2. i \in 1 .. Len(w.tip) BY <3>2, <4>1, SMTT(60)
      <4> QED BY <3>4, <4>1, <4>2, ZenonT(60)
    <3> QED BY <1>7, <2>2, <3>1, <3>3, <3>5, ZenonT(60) DEF WorkOK
  <2> QED BY <1>7, <2>1, <2>2, ZenonT(60) DEF CataloguesOK
<1> QED BY <1>6, <1>8, <1>9, ZenonT(60)

\* Shutdown, a failure of the index and stuttering change nothing of it.
LEMMA RestPreserves ==
  ASSUME Inductive, Withdraw \/ UNCHANGED vars
  PROVE  Inductive'
<1>1. UNCHANGED <<tip, generation, stored, catalogue, refresh, pc, position, ref>>
  BY ZenonT(60) DEF Withdraw, vars, source, local
<1>2. NodeOK' BY <1>1, NodeFrame, ZenonT(60) DEF Inductive
<1>3. ReadersOK' BY <1>1, ZenonT(60) DEF Inductive, ReadersOK
<1>4. CataloguesOK'
  <2>1. \A c : CatalogueOK(c) => CatalogueOK(c)' BY <1>1, NodeFrame, ZenonT(60)
  <2>2. \A w : WorkOK(w) => WorkOK(w)' BY <1>1, WorkFrame, ZenonT(60)
  <2> QED BY <1>1, <2>1, <2>2, ZenonT(60) DEF Inductive, CataloguesOK
<1> QED BY <1>2, <1>3, <1>4, ZenonT(60) DEF Inductive

-----------------------------------------------------------------------------
(***************************************************************************)
(* The readers' side.                                                      *)
(***************************************************************************)

\* A reader that has nothing to do with a refresh moves on.
LEMMA ReaderMoves ==
  ASSUME Inductive, NEW r \in Readers, NEW where,
         UNCHANGED <<tip, generation, stored, catalogue, refresh>>,
         pc' = [pc EXCEPT ![r] = where], pc[r] \notin Refresher,
         where \in (Reading \cup {"idle", "answered", "failed"}) \ Refresher,
         position' \in [Readers -> Keys], ref' \in [Readers -> Refs],
         \A q \in Readers : q # r => ref'[q] = ref[q],
         where \in Referring => ref'[r] # None
  PROVE  Inductive'
<1> USE DEF Inductive
<1>1. NodeOK' BY NodeFrame, ZenonT(60)
<1>2. ReadersOK'
  <2>1. pc' \in [Readers -> Reading \cup {"idle", "answered", "failed"}]
    BY ZenonT(60) DEF ReadersOK
  <2>2. \A q \in Readers : pc'[q] = IF q = r THEN where ELSE pc[q]
    BY ZenonT(60) DEF ReadersOK
  <2>3. \A q \in Readers : pc'[q] \in Referring => ref'[q] # None
    BY <2>2, ZenonT(60) DEF ReadersOK
  <2>4. \A q \in Readers : pc'[q] \in Refresher =>
          \E w \in Work : refresh = Some(w) /\ w.owner = q
    BY <2>2, ZenonT(60) DEF ReadersOK
  <2> QED BY <2>1, <2>3, <2>4, ZenonT(60) DEF ReadersOK
<1>3. CataloguesOK'
  <2>1. \A c : CatalogueOK(c) => CatalogueOK(c)' BY NodeFrame, ZenonT(60)
  <2>2. ASSUME NEW w \in Work, WorkOK(w) PROVE WorkOK(w)'
    <3>1. pc'[w.owner] = "batch" => pc[w.owner] = "batch"
      BY ZenonT(60) DEF ReadersOK, Work, Refresher
    <3> QED BY <2>2, <3>1, WorkFrame, ZenonT(60)
  <2> QED BY <2>1, <2>2, ZenonT(60) DEF CataloguesOK
<1> QED BY <1>1, <1>2, <1>3, ZenonT(60)

\* What Resolve stores is a reference to a block of the active chain.
LEMMA LookupType ==
  ASSUME Inductive, NEW c \in Catalogues, NEW t \in Seq(Txs), Stored(t),
         c.heights = Listing(t), NEW r \in Readers
  PROVE  Lookup(c, position[r]) \in Refs
<1>1. CASE Lookup(c, position[r]) = None
  BY <1>1, ZenonT(60) DEF Refs
<1>2. CASE Lookup(c, position[r]) # None
  <2>1. position[r] \in Keys BY ZenonT(60) DEF Inductive, ReadersOK
  <2>2. PICK n \in 1 .. Len(tip) :
          Lookup(c, position[r]) =
            Some([block |-> SubSeq(tip, 1, n), generation |-> c.generation])
    BY <1>2, <2>1, LookupFinds, ZenonT(60) DEF Inductive, NodeOK
  <2>3. SubSeq(tip, 1, n) \in Seq(Txs)
    <3>1. tip \in Seq(Txs) /\ n \in 0 .. Len(tip)
      BY LenProperties, SMTT(60) DEF Inductive, NodeOK, Chain
    <3> QED BY <3>1, PrefixOf, ZenonT(60)
  <2>4. c.generation \in Nat BY ZenonT(60) DEF Catalogues
  <2> QED BY <2>2, <2>3, <2>4, ZenonT(60) DEF Refs
<1> QED BY <1>1, <1>2, ZenonT(60)

\* A reader that resolves its position with a catalogue of the present.
LEMMA ResolvedPreserves ==
  ASSUME Inductive, NEW c \in Catalogues, NEW t \in Seq(Txs), Stored(t),
         c.heights = Listing(t), NEW r \in Readers,
         Resolved(r, c), pc[r] \in {"resolve", "refresh"},
         UNCHANGED <<tip, generation, stored, catalogue, refresh, position>>
  PROVE  Inductive'
<1>1. ref' = [ref EXCEPT ![r] = Lookup(c, position[r])]
  BY ZenonT(60) DEF Resolved
<1>2. /\ ref' \in [Readers -> Refs]
      /\ \A q \in Readers : q # r => ref'[q] = ref[q]
  BY <1>1, LookupType, ZenonT(60) DEF Inductive, ReadersOK
<1> DEFINE where == IF ref'[r] = None THEN "failed" ELSE "resolved"
<1>3. pc' = [pc EXCEPT ![r] = where]
  BY ZenonT(60) DEF Resolved, Go
<1>4. /\ where \in (Reading \cup {"idle", "answered", "failed"}) \ Refresher
      /\ where \in Referring => ref'[r] # None
  BY ZenonT(60) DEF Reading, Refresher, Referring
<1>5. pc[r] \notin Refresher /\ position' \in [Readers -> Keys]
  BY ZenonT(60) DEF Refresher, Inductive, ReadersOK
<1> HIDE DEF where
<1> QED BY <1>2, <1>3, <1>4, <1>5, ReaderMoves, ZenonT(60)

\* The positions asked for.
LEMMA PositionsAreKeys ==
  ASSUME Inductive
  PROVE  Positions \subseteq Keys
<1>1. StoreOK BY ZenonT(60) DEF Inductive, NodeOK
<1>2. \A b \in Range(stored) : PositionOf(b) \in Keys
  BY <1>1, PositionType, ZenonT(60)
<1>3. \A b \in Range(stored) : SpanOf(b) \in Keys
  BY <1>2, SMTT(60) DEF SpanOf, Keys
<1>4. tip \in Range(stored)
  <2>1. tip \in Seq(Txs) /\ Len(tip) \in Nat \ {0}
    BY EmptySeq, ZenonT(60) DEF Inductive, NodeOK, Chain, NoBlock
  <2>2. Len(tip) \in 1 .. Len(tip) /\ Len(tip) \in 0 .. Len(tip) BY <2>1, SMTT(60)
  <2>3. SubSeq(tip, 1, Len(tip)) \in Range(stored)
    BY <2>2, ZenonT(60) DEF Inductive, NodeOK, Stored
  <2>4. /\ SubSeq(tip, 1, Len(tip)) \in Seq(Txs)
        /\ Len(SubSeq(tip, 1, Len(tip))) = Len(tip)
        /\ \A i \in 1 .. Len(tip) : SubSeq(tip, 1, Len(tip))[i] = tip[i]
    BY <2>1, <2>2, PrefixOf, ZenonT(60)
  <2>5. SubSeq(tip, 1, Len(tip)) = tip
    BY <2>1, <2>4, SeqEqual, ZenonT(60)
  <2> QED BY <2>3, <2>5, ZenonT(60)
<1> QED BY <1>2, <1>3, <1>4, ZenonT(60) DEF Positions

\* The steps of a read that leave catalogue and refresh alone.
LEMMA ReadPreserves ==
  ASSUME Inductive, NEW r \in Readers,
         \/ Begin(r) \/ ResolveFast(r) \/ FindLayout(r) \/ LoadLayout(r)
         \/ CacheLayout(r) \/ Finish(r)
  PROVE  Inductive'
<1> USE DEF source, local, Reading, Refresher, Referring
<1>0. /\ position \in [Readers -> Keys] /\ ref \in [Readers -> Refs]
      /\ pc[r] \in Referring => ref[r] # None
  BY ZenonT(60) DEF Inductive, ReadersOK
<1>1. CASE Begin(r)
  <2>1. PICK p \in Positions : position' = [position EXCEPT ![r] = p]
    BY <1>1, ZenonT(60) DEF Begin
  <2>2. p \in Keys BY PositionsAreKeys, ZenonT(60)
  <2>3. position' \in [Readers -> Keys] BY <1>0, <2>1, <2>2, ZenonT(60)
  <2>4. /\ ref' \in [Readers -> Refs]
        /\ \A q \in Readers : q # r => ref'[q] = ref[q]
    BY <1>0, <1>1, ZenonT(60) DEF Begin, Refs
  <2>5. /\ pc' = [pc EXCEPT ![r] = "resolve"] /\ pc[r] \notin Refresher
        /\ UNCHANGED <<tip, generation, stored, catalogue, refresh>>
    BY <1>1, ZenonT(60) DEF Begin, Go
  <2> QED BY <2>3, <2>4, <2>5, ReaderMoves, ZenonT(60)
<1>2. CASE ResolveFast(r)
  <2>1. /\ pc[r] = "resolve" /\ pc[r] \notin Refresher
        /\ UNCHANGED <<tip, generation, stored, catalogue, refresh, position>>
    BY <1>2, ZenonT(60) DEF ResolveFast
  <2>2. CASE (Go(r, "failed") \/ Go(r, "refresh")) /\ UNCHANGED ref
    BY <1>0, <2>1, <2>2, ReaderMoves, ZenonT(60) DEF Go
  <2>3. CASE UpToDate /\ Resolved(r, The(catalogue))
    <3>1. PICK c \in Catalogues : catalogue = Some(c) /\ CatalogueOK(c)
      BY <2>3, ZenonT(60) DEF UpToDate, Inductive, CataloguesOK
    <3>2. Resolved(r, c)
      BY <2>3, <3>1, Options, ZenonT(60)
    <3>3. /\ c.last_tip \in Seq(Txs) /\ Stored(c.last_tip)
          /\ c.heights = Listing(c.last_tip)
      BY <3>1, ZenonT(60) DEF Catalogues, CatalogueOK
    <3> QED BY <2>1, <3>2, <3>3, ResolvedPreserves, ZenonT(60)
  <2> QED BY <1>2, <2>2, <2>3, ZenonT(60) DEF ResolveFast
<1>3. CASE FindLayout(r)
  BY <1>0, <1>3, ReaderMoves, ZenonT(60) DEF FindLayout, Go
<1>4. CASE LoadLayout(r)
  BY <1>0, <1>4, ReaderMoves, ZenonT(60) DEF LoadLayout, Go
<1>5. CASE CacheLayout(r)
  BY <1>0, <1>5, ReaderMoves, ZenonT(60) DEF CacheLayout, Go
<1>6. CASE Finish(r)
  <2>1. /\ ref' \in [Readers -> Refs]
        /\ \A q \in Readers : q # r => ref'[q] = ref[q]
    BY <1>0, <1>6, ZenonT(60) DEF Finish, Refs
  <2>2. \/ pc' = [pc EXCEPT ![r] = "answered"]
        \/ pc' = [pc EXCEPT ![r] = "failed"]
    BY <1>6, ZenonT(60) DEF Finish, Go
  <2>3. /\ pc[r] \notin Refresher /\ position' \in [Readers -> Keys]
        /\ UNCHANGED <<tip, generation, stored, catalogue, refresh>>
    BY <1>0, <1>6, ZenonT(60) DEF Finish
  <2> QED BY <2>1, <2>2, <2>3, ReaderMoves, ZenonT(60)
<1> QED BY <1>1, <1>2, <1>3, <1>4, <1>5, <1>6, ZenonT(60)

\* Taking refresh_mutex: the catalogue becomes the reader's, with the fork to
\* the chain of the moment.
LEMMA ResolveSlowPreserves ==
  ASSUME Inductive, NEW r \in Readers, ResolveSlow(r)
  PROVE  Inductive'
<1> USE DEF source, Reading, Refresher, Referring
<1>0. /\ position \in [Readers -> Keys] /\ ref \in [Readers -> Refs]
      /\ UNCHANGED <<tip, generation, stored, position>>
      /\ pc[r] = "refresh" /\ refresh = None
  BY ZenonT(60) DEF Inductive, ReadersOK, ResolveSlow
<1>1. CASE Go(r, "failed") /\ UNCHANGED <<catalogue, refresh, ref>>
  BY <1>0, <1>1, ReaderMoves, ZenonT(60) DEF Go
<1>2. ASSUME catalogue # None
      PROVE  \E c \in Catalogues :
               /\ catalogue = Some(c) /\ The(catalogue) = c /\ CatalogueOK(c)
               /\ c.last_tip \in Seq(Txs) /\ Stored(c.last_tip)
               /\ c.heights = Listing(c.last_tip)
  <2>1. PICK c \in Catalogues : catalogue = Some(c) /\ CatalogueOK(c)
    BY <1>2, ZenonT(60) DEF Inductive, CataloguesOK
  <2> QED BY <2>1, Options, ZenonT(60) DEF Catalogues, CatalogueOK
<1>3. CASE UpToDate /\ Resolved(r, The(catalogue)) /\ UNCHANGED <<catalogue, refresh>>
  <2>1. catalogue # None BY <1>3, ZenonT(60) DEF UpToDate
  <2> QED BY <1>0, <1>2, <1>3, <2>1, ResolvedPreserves, ZenonT(60)
<1>4. CASE /\ Available /\ catalogue # None
           /\ refresh' = Some([owner |-> r, heights |-> The(catalogue).heights,
                               fork |-> ForkHeight(The(catalogue)),
                               tip |-> tip, current |-> generation])
           /\ catalogue' = None /\ Go(r, "trim") /\ UNCHANGED ref
  <2>1. PICK c \in Catalogues :
               /\ The(catalogue) = c /\ CatalogueOK(c)
               /\ c.last_tip \in Seq(Txs) /\ Stored(c.last_tip)
               /\ c.heights = Listing(c.last_tip)
    BY <1>2, <1>4, ZenonT(60)
  <2> DEFINE t == c.last_tip
             f == ForkHeight(c)
  <2>2. /\ tip \in Chain /\ tip \in Seq(Txs) /\ tip # NoBlock /\ Len(tip) \in Nat
        /\ generation \in Nat /\ generation # 0 /\ Stored(tip)
    BY <1>4, LenProperties, ZenonT(60) DEF Inductive, NodeOK, Chain, Available
  <2>3. /\ f \in -1 .. Len(tip) - 1 /\ f < Len(t)
        /\ \A n \in 1 .. f + 1 : SubSeq(t, 1, n) = SubSeq(tip, 1, n)
    BY <2>1, <2>2, ForkFacts, ZenonT(60)
  <2>4. PICK w : /\ refresh' = Some(w)
                 /\ w = [owner |-> r, heights |-> c.heights, fork |-> f,
                         tip |-> tip, current |-> generation]
    BY <1>4, <2>1, ZenonT(60)
  <2> HIDE DEF f
  <2>5. /\ w \in Work /\ w.owner = r /\ w.heights = c.heights /\ w.fork = f
        /\ w.tip = tip /\ w.current = generation
    <3>1. c.heights \in Seq(Keys) BY ZenonT(60) DEF Catalogues
    <3>2. f \in Int BY <2>2, <2>3, SMTT(60)
    <3> QED BY <2>2, <2>4, <3>1, <3>2, ZenonT(60) DEF Work
  <2>6. pc' = [pc EXCEPT ![r] = "trim"] BY <1>4, ZenonT(60) DEF Go
  <2>7. NodeOK' BY <1>0, NodeFrame, ZenonT(60) DEF Inductive
  <2>8. ReadersOK'
    <3>1. pc' \in [Readers -> Reading \cup {"idle", "answered", "failed"}]
      BY <2>6, ZenonT(60) DEF Inductive, ReadersOK
    <3>2. \A q \in Readers : pc'[q] = IF q = r THEN "trim" ELSE pc[q]
      BY <2>6, ZenonT(60) DEF Inductive, ReadersOK
    <3>3. \A q \in Readers : pc'[q] \in Referring => ref'[q] # None
      BY <1>4, <3>2, ZenonT(60) DEF Inductive, ReadersOK
    <3>4. \A q \in Readers : pc[q] \notin Refresher
      BY <1>0, Options, ZenonT(60) DEF Inductive, ReadersOK
    <3>5. \A q \in Readers : pc'[q] \in Refresher =>
            \E x \in Work : refresh' = Some(x) /\ x.owner = q
      BY <2>4, <2>5, <3>2, <3>4, ZenonT(60)
    <3> QED BY <1>0, <1>4, <3>1, <3>3, <3>5, ZenonT(60) DEF ReadersOK
  <2>9. WorkOK(w)'
    <3>1. Stored(tip)' /\ \A b : PositionOf(b)' = PositionOf(b)
      BY <1>0, <2>2, NodeFrame, ZenonT(60)
    <3>2. Len(w.heights) = Len(t)
          /\ \A n \in 1 .. Len(t) : w.heights[n] = PositionOf(SubSeq(t, 1, n))
      BY <2>1, <2>5, ListingIs, ZenonT(60)
    <3>3. pc'[w.owner] # "batch"
      BY <2>5, <2>6, ZenonT(60) DEF Inductive, ReadersOK
    <3>4. ASSUME NEW i \in 1 .. Len(w.heights), i <= f + 1
          PROVE  i <= Len(tip) /\ w.heights[i] = PositionOf(SubSeq(tip, 1, i))
      <4>1. i \in 1 .. f + 1 /\ i \in 1 .. Len(t) /\ i <= Len(tip)
        BY <2>2, <2>3, <3>2, <3>4, SMTT(60)
      <4> QED BY <2>3, <3>2, <4>1, ZenonT(60)
    <3>5. \A i \in 1 .. Len(w.heights) :
            i <= w.fork + 1 \/ pc'[w.owner] = "batch" =>
              i <= Len(w.tip) /\ w.heights[i] = PositionOf(SubSeq(w.tip, 1, i))'
      BY <2>5, <3>1, <3>3, <3>4, ZenonT(60)
    <3>6. -1 <= w.fork /\ w.fork < Len(w.tip)
      BY <2>2, <2>3, <2>5, SMTT(60)
    <3>7. /\ Stored(w.tip)' /\ w.tip # NoBlock /\ w.current # 0
          /\ (generation' # 0 => w.current <= generation')
          /\ (generation' = w.current => w.tip = tip')
      BY <1>0, <2>2, <2>5, <3>1, SMTT(60)
    <3> QED BY <3>5, <3>6, <3>7, ZenonT(60) DEF WorkOK
  <2>10. CataloguesOK'
    BY <1>4, <2>4, <2>5, <2>9, ZenonT(60) DEF CataloguesOK
  <2> QED BY <2>7, <2>8, <2>10, ZenonT(60) DEF Inductive
<1> QED BY <1>1, <1>3, <1>4, ZenonT(60) DEF ResolveSlow

\* The work of the reader that refreshes, in the hands of that reader.
LEMMA Refreshing ==
  ASSUME Inductive, NEW r \in Readers, pc[r] \in Refresher
  PROVE  /\ \E w \in Work : /\ refresh = Some(w) /\ The(refresh) = w
                            /\ w.owner = r /\ WorkOK(w)
         /\ \A q \in Readers : pc[q] \in Refresher => q = r
<1>1. PICK w \in Work : refresh = Some(w) /\ w.owner = r
  BY ZenonT(60) DEF Inductive, ReadersOK
<1>2. PICK v \in Work : refresh = Some(v) /\ WorkOK(v)
  BY <1>1, Options, ZenonT(60) DEF Inductive, CataloguesOK
<1>3. v = w /\ The(refresh) = w
  BY <1>1, <1>2, Options, ZenonT(60)
<1>4. ASSUME NEW q \in Readers, pc[q] \in Refresher PROVE q = r
  <2>1. PICK u \in Work : refresh = Some(u) /\ u.owner = q
    BY <1>4, ZenonT(60) DEF Inductive, ReadersOK
  <2>2. u = w BY <1>1, <2>1, Options, ZenonT(60)
  <2> QED BY <1>1, <2>1, <2>2, ZenonT(60)
<1> QED BY <1>1, <1>2, <1>3, <1>4, ZenonT(60)

\* Replacing the heights of the work.
LEMMA WorkHeights ==
  ASSUME NEW w \in Work, NEW h \in Seq(Keys)
  PROVE  LET x == [w EXCEPT !.heights = h]
         IN  /\ x \in Work /\ x.owner = w.owner /\ x.heights = h
             /\ x.fork = w.fork /\ x.tip = w.tip /\ x.current = w.current
BY ZenonT(60) DEF Work

\* The refresher works on: its work is replaced, or its label moves.
LEMMA RefresherMoves ==
  ASSUME Inductive, NEW r \in Readers, pc[r] \in Refresher,
         NEW v \in Work, refresh' = Some(v), v.owner = r, WorkOK(v)',
         NEW where \in Refresher, pc' = [pc EXCEPT ![r] = where],
         UNCHANGED <<tip, generation, stored, catalogue, position, ref>>
  PROVE  Inductive'
<1> USE DEF Refresher, Referring, Reading
<1>1. NodeOK' BY NodeFrame, ZenonT(60) DEF Inductive
<1>2. ReadersOK'
  <2>1. /\ pc' \in [Readers -> Reading \cup {"idle", "answered", "failed"}]
        /\ \A q \in Readers : pc'[q] = IF q = r THEN where ELSE pc[q]
    BY ZenonT(60) DEF Inductive, ReadersOK
  <2>2. \A q \in Readers : pc'[q] \in Refresher => q = r
    BY <2>1, Refreshing, ZenonT(60)
  <2>3. \A q \in Readers : pc'[q] \in Referring => ref'[q] # None
    BY <2>1, ZenonT(60) DEF Inductive, ReadersOK
  <2>4. position' \in [Readers -> Keys] /\ ref' \in [Readers -> Refs]
    BY ZenonT(60) DEF Inductive, ReadersOK
  <2> QED BY <2>1, <2>2, <2>3, <2>4, ZenonT(60) DEF ReadersOK
<1>3. CataloguesOK'
  <2>1. \A c : CatalogueOK(c) => CatalogueOK(c)' BY NodeFrame, ZenonT(60)
  <2> QED BY <2>1, ZenonT(60) DEF Inductive, CataloguesOK
<1> QED BY <1>1, <1>2, <1>3, ZenonT(60) DEF Inductive

\* Trimming takes the newest block above the fork; when there is none, what is
\* left is common to both chains.
LEMMA TrimPreserves ==
  ASSUME Inductive, NEW r \in Readers, Trim(r)
  PROVE  Inductive'
<1> USE DEF Refresher, source, local
<1>1. /\ pc[r] = "trim"
      /\ UNCHANGED <<tip, generation, stored, catalogue, position, ref>>
  BY ZenonT(60) DEF Trim
<1>2. PICK w \in Work : /\ refresh = Some(w) /\ The(refresh) = w
                        /\ w.owner = r /\ WorkOK(w)
  BY <1>1, Refreshing, ZenonT(60)
<1>3. w.heights \in Seq(Keys) /\ Len(w.heights) \in Nat /\ w.fork \in Int /\ -1 <= w.fork
  BY <1>2, LenProperties, ZenonT(60) DEF Work, WorkOK
<1>4. pc' = [pc EXCEPT ![r] = pc'[r]] /\ r \in DOMAIN pc
  BY <1>1, ZenonT(60) DEF Trim, Go, Inductive, ReadersOK
<1>5. \A b : PositionOf(b)' = PositionOf(b)
  BY <1>1, NodeFrame, ZenonT(60)
<1>6. Stored(w.tip)'
  BY <1>1, <1>2, NodeFrame, ZenonT(60) DEF WorkOK
<1>7. CASE Len(w.heights) > w.fork + 1
  <2> DEFINE h == Front(w.heights)
             x == [w EXCEPT !.heights = h]
  <2>1. w.heights # <<>> BY <1>3, <1>7, SMTT(60)
  <2>2. /\ h \in Seq(Keys) /\ Len(h) = Len(w.heights) - 1
        /\ \A i \in 1 .. Len(h) : h[i] = w.heights[i]
    BY <1>3, <2>1, FrontOf, ZenonT(60)
  <2>3. refresh' = Some(x) /\ pc' = pc
    BY <1>2, <1>7, ZenonT(60) DEF Trim
  <2> HIDE DEF h
  <2>4. /\ x \in Work /\ x.owner = w.owner /\ x.heights = h
        /\ x.fork = w.fork /\ x.tip = w.tip /\ x.current = w.current
    BY <2>2, WorkHeights, ZenonT(60)
  <2>5. PICK v \in Work : /\ refresh' = Some(v) /\ v.owner = r /\ v.heights = h
                          /\ v.fork = w.fork /\ v.tip = w.tip
                          /\ v.current = w.current
    <3> HIDE DEF x
    <3> QED BY <1>2, <2>3, <2>4, ZenonT(60)
  <2>6. WorkOK(v)'
    <3>1. ASSUME NEW i \in 1 .. Len(h), i <= w.fork + 1
          PROVE  i <= Len(w.tip) /\ h[i] = PositionOf(SubSeq(w.tip, 1, i))'
      <4>1. i \in 1 .. Len(w.heights) BY <1>3, <2>2, SMTT(60)
      <4> QED BY <1>2, <1>5, <2>2, <3>1, <4>1, ZenonT(60) DEF WorkOK
    <3>2. pc'[v.owner] # "batch" BY <1>1, <2>3, <2>5, ZenonT(60)
    <3> QED BY <1>1, <1>2, <1>6, <2>5, <3>1, <3>2, ZenonT(60) DEF WorkOK
  <2>7. pc' = [pc EXCEPT ![r] = "trim"] BY <1>1, <1>4, <2>3, ZenonT(60)
  <2> QED BY <1>1, <2>5, <2>6, <2>7, RefresherMoves, ZenonT(60)
<1>8. CASE ~(Len(w.heights) > w.fork + 1)
  <2>1. refresh' = Some(w) /\ pc' = [pc EXCEPT ![r] = "batch"]
    BY <1>2, <1>8, ZenonT(60) DEF Trim, Go
  <2>2. ASSUME NEW i \in 1 .. Len(w.heights)
        PROVE  i <= Len(w.tip) /\ w.heights[i] = PositionOf(SubSeq(w.tip, 1, i))'
    <3>1. i <= w.fork + 1 BY <1>3, <1>8, SMTT(60)
    <3> QED BY <1>2, <1>5, <3>1, ZenonT(60) DEF WorkOK
  <2>3. WorkOK(w)'
    BY <1>1, <1>2, <1>6, <2>2, ZenonT(60) DEF WorkOK
  <2> QED BY <1>1, <1>2, <2>1, <2>3, RefresherMoves, ZenonT(60)
<1> QED BY <1>7, <1>8, ZenonT(60)

\* The work given up: it stays as it is, its owner no longer batches.
LEMMA GiveUpPreserves ==
  ASSUME Inductive, NEW r \in Readers, pc[r] \in Refresher,
         pc' = [pc EXCEPT ![r] = "abort"], refresh' = refresh,
         UNCHANGED <<tip, generation, stored, catalogue, position, ref>>
  PROVE  Inductive'
<1>1. PICK w \in Work : refresh = Some(w) /\ w.owner = r /\ WorkOK(w)
  BY Refreshing, ZenonT(60)
<1>2. pc'[w.owner] # "batch"
  BY <1>1, ZenonT(60) DEF Inductive, ReadersOK
<1>3. WorkOK(w)' BY <1>1, <1>2, WorkFrame, ZenonT(60)
<1>4. "abort" \in Refresher BY ZenonT(60) DEF Refresher
<1> QED BY <1>1, <1>3, <1>4, RefresherMoves, ZenonT(60)

\* A batch of an unchanged source continues the listing of the work's chain.
LEMMA BatchPreserves ==
  ASSUME Inductive, NEW r \in Readers, Batch(r)
  PROVE  Inductive'
<1> USE DEF source, local
<1>1. /\ pc[r] = "batch" /\ pc[r] \in Refresher
      /\ UNCHANGED <<tip, generation, stored, catalogue, position, ref>>
  BY ZenonT(60) DEF Batch, Refresher
<1>2. PICK w \in Work : /\ refresh = Some(w) /\ The(refresh) = w
                        /\ w.owner = r /\ WorkOK(w)
  BY <1>1, Refreshing, ZenonT(60)
<1>3. CASE ~SameSource(w)
  <2>1. pc' = [pc EXCEPT ![r] = "abort"] /\ refresh' = refresh
    BY <1>2, <1>3, ZenonT(60) DEF Batch, Go
  <2> QED BY <1>1, <2>1, GiveUpPreserves, ZenonT(60)
<1>4. CASE SameSource(w)
  <2> DEFINE first == Len(w.heights)
             left == Len(w.tip) - first
             count == Min({CATALOGUE_BATCH, left, left})
             b == NextBatch(w)
             h == w.heights \o b
  <2>1. /\ w.heights \in Seq(Keys) /\ first \in Nat
        /\ w.tip \in Seq(Txs) /\ Len(w.tip) \in Nat
        /\ w.tip = tip /\ StoreOK /\ Stored(tip)
    BY <1>4, LenProperties, ZenonT(60) DEF Work, SameSource, Inductive, NodeOK
  <2>2. left \in Nat \ {0}
    BY <1>2, <2>1, SMTT(60) DEF Batch, Incomplete, Height
  <2>3. count \in Nat /\ count <= left
    <3> HIDE DEF left
    <3>1. count \in {CATALOGUE_BATCH, left, left} /\ count <= left
      <4>1. CATALOGUE_BATCH \in Int /\ left \in Int BY <2>2, ReaderAssumption, SMTT(60)
      <4> HIDE DEF count
      <4>2. count = Min({CATALOGUE_BATCH, left, left}) BY ZenonT(60) DEF count
      <4> QED BY <4>1, <4>2, MinOfThree, ZenonT(60)
    <3> QED BY <2>2, <3>1, ReaderAssumption, ZenonT(60)
  <2>4. b = [i \in 1 .. count |-> PositionOf(SubSeq(w.tip, 1, first + i))]
    <3>1. {CATALOGUE_BATCH, Height(w.tip) + 1 - first} = {CATALOGUE_BATCH, left, left}
      BY <2>1, SMTT(60) DEF Height
    <3>2. b = [i \in 1 .. count |-> PositionOf(BlockAt(tip, first + i - 1))]
      BY <3>1, ZenonT(60) DEF NextBatch
    <3> HIDE DEF count
    <3>3. \A i \in 1 .. count : BlockAt(tip, first + i - 1) = SubSeq(w.tip, 1, first + i)
      <4> TAKE i \in 1 .. count
      <4>1. first + i - 1 + 1 = first + i BY <2>1, <2>3, SMTT(60)
      <4> QED BY <2>1, <4>1, ZenonT(60) DEF BlockAt
    <3> QED BY <3>2, <3>3, ZenonT(60)
  <2> HIDE DEF count
  <2>5. ASSUME NEW i \in 1 .. count
        PROVE  first + i \in 1 .. Len(w.tip)
               /\ PositionOf(SubSeq(w.tip, 1, first + i)) \in Keys
    <3>1. first + i \in 1 .. Len(w.tip) BY <2>1, <2>2, <2>3, SMTT(60)
    <3>2. SubSeq(w.tip, 1, first + i) \in Range(stored) BY <2>1, <3>1, ZenonT(60) DEF Stored
    <3> QED BY <2>1, <3>1, <3>2, PositionType, ZenonT(60)
  <2> HIDE DEF b
  <2>6. b \in Seq(Keys) /\ Len(b) = count
        /\ \A i \in 1 .. count : b[i] = PositionOf(SubSeq(w.tip, 1, first + i))
    <3>1. b \in [1 .. count -> Keys] BY <2>4, <2>5, ZenonT(60)
    <3>2. b \in Seq(Keys) /\ Len(b) = count
      BY <2>3, <3>1, FunctionIsSeq, ZenonT(60)
    <3>3. \A i \in 1 .. count : b[i] = PositionOf(SubSeq(w.tip, 1, first + i))
      BY <2>4, ZenonT(60)
    <3> QED BY <3>2, <3>3, ZenonT(60)
  <2>7. /\ h \in Seq(Keys) /\ Len(h) = first + count
        /\ \A i \in 1 .. first : h[i] = w.heights[i]
        /\ \A i \in 1 .. count : h[first + i] = b[i]
    <3>1. /\ h \in Seq(Keys) /\ Len(h) = Len(w.heights) + Len(b)
          /\ \A i \in 1 .. Len(w.heights) + Len(b) :
               h[i] = IF i <= Len(w.heights) THEN w.heights[i] ELSE b[i - Len(w.heights)]
      BY <2>1, <2>6, ConcatProperties, ZenonT(60)
    <3> HIDE DEF h
    <3>2. ASSUME NEW i \in 1 .. first PROVE h[i] = w.heights[i]
      <4>1. i \in 1 .. Len(w.heights) + Len(b) /\ i <= Len(w.heights)
        BY <2>1, <2>3, <2>6, SMTT(60)
      <4> QED BY <3>1, <4>1, ZenonT(60)
    <3>3. ASSUME NEW i \in 1 .. count PROVE h[first + i] = b[i]
      <4>1. /\ first + i \in 1 .. Len(w.heights) + Len(b)
            /\ ~(first + i <= Len(w.heights)) /\ (first + i) - Len(w.heights) = i
        BY <2>1, <2>3, <2>6, SMTT(60)
      <4> QED BY <3>1, <4>1, ZenonT(60)
    <3> QED BY <2>6, <3>1, <3>2, <3>3, ZenonT(60)
  <2> HIDE DEF h
  <2>8. ASSUME NEW i \in 1 .. Len(h)
        PROVE  i <= Len(w.tip) /\ h[i] = PositionOf(SubSeq(w.tip, 1, i))
    <3>1. CASE i \in 1 .. first
      BY <1>1, <1>2, <2>7, <3>1, ZenonT(60) DEF WorkOK
    <3>2. CASE i \notin 1 .. first
      <4>1. i - first \in 1 .. count /\ first + (i - first) = i
        BY <2>1, <2>3, <2>7, <3>2, SMTT(60)
      <4>2. h[first + (i - first)] = b[i - first] BY <2>7, <4>1, ZenonT(60)
      <4>3. b[i - first] = PositionOf(SubSeq(w.tip, 1, first + (i - first)))
        BY <2>6, <4>1, ZenonT(60)
      <4>4. i <= Len(w.tip) BY <2>5, <4>1, SMTT(60)
      <4> QED BY <4>1, <4>2, <4>3, <4>4, ZenonT(60)
    <3> QED BY <3>1, <3>2, ZenonT(60)
  <2>9. PICK v \in Work : /\ refresh' = Some(v) /\ v.owner = r /\ v.heights = h
                          /\ v.fork = w.fork /\ v.tip = w.tip
                          /\ v.current = w.current
    <3> DEFINE x == [w EXCEPT !.heights = h]
    <3>1. refresh' = Some(x) BY <1>2, <1>4, ZenonT(60) DEF Batch, h, b
    <3>2. /\ x \in Work /\ x.owner = w.owner /\ x.heights = h
          /\ x.fork = w.fork /\ x.tip = w.tip /\ x.current = w.current
      BY <2>7, WorkHeights, ZenonT(60)
    <3> HIDE DEF x
    <3> QED BY <1>2, <3>1, <3>2, ZenonT(60)
  <2>10. WorkOK(v)'
    <3>1. Stored(w.tip)' /\ \A c : PositionOf(c)' = PositionOf(c)
      BY <1>1, <1>2, NodeFrame, ZenonT(60) DEF WorkOK
    <3>2. \A i \in 1 .. Len(h) :
            i <= Len(w.tip) /\ h[i] = PositionOf(SubSeq(w.tip, 1, i))'
      BY <2>8, <3>1, ZenonT(60)
    <3> QED BY <1>1, <1>2, <2>9, <3>1, <3>2, ZenonT(60) DEF WorkOK
  <2>11. pc' = [pc EXCEPT ![r] = "batch"] /\ "batch" \in Refresher
    <3>1. pc' = pc BY <1>2, <1>4, ZenonT(60) DEF Batch
    <3> QED BY <1>1, <3>1, ZenonT(60) DEF Inductive, ReadersOK, Refresher
  <2> QED BY <1>1, <2>9, <2>10, <2>11, RefresherMoves, ZenonT(60)
<1> QED BY <1>3, <1>4, ZenonT(60)


\* A refresh ends: its owner hands a catalogue back and is a refresher no more.
LEMMA RefreshEnds ==
  ASSUME Inductive, NEW r \in Readers, pc[r] \in Refresher,
         NEW c \in Catalogues, CatalogueOK(c), catalogue' = Some(c), refresh' = None,
         NEW where \in {"failed", "resolved"}, pc' = [pc EXCEPT ![r] = where],
         ref' \in [Readers -> Refs], \A q \in Readers : q # r => ref'[q] = ref[q],
         where = "resolved" => ref'[r] # None,
         UNCHANGED <<tip, generation, stored, position>>
  PROVE  Inductive'
<1> USE DEF Refresher, Referring, Reading
<1>1. NodeOK' BY NodeFrame, ZenonT(60) DEF Inductive
<1>2. ReadersOK'
  <2>1. /\ pc' \in [Readers -> Reading \cup {"idle", "answered", "failed"}]
        /\ \A q \in Readers : pc'[q] = IF q = r THEN where ELSE pc[q]
    BY ZenonT(60) DEF Inductive, ReadersOK
  <2>2. \A q \in Readers : pc[q] \in Refresher => q = r
    BY Refreshing, ZenonT(60)
  <2>3. \A q \in Readers : pc'[q] \notin Refresher
    BY <2>1, <2>2, ZenonT(60)
  <2>4. \A q \in Readers : pc'[q] \in Referring => ref'[q] # None
    BY <2>1, ZenonT(60) DEF Inductive, ReadersOK
  <2>5. position' \in [Readers -> Keys]
    BY ZenonT(60) DEF Inductive, ReadersOK
  <2> QED BY <2>1, <2>3, <2>4, <2>5, ZenonT(60) DEF ReadersOK
<1>3. CatalogueOK(c)' BY NodeFrame, ZenonT(60)
<1>4. CataloguesOK' BY <1>3, ZenonT(60) DEF CataloguesOK
<1> QED BY <1>1, <1>2, <1>4, ZenonT(60) DEF Inductive

\* A refresh that comes to its chain's height with the source unchanged has
\* listed the active chain.
LEMMA PublishPreserves ==
  ASSUME Inductive, NEW r \in Readers, PublishCatalogue(r)
  PROVE  Inductive'
<1> USE DEF source
<1>1. /\ pc[r] = "batch" /\ pc[r] \in Refresher
      /\ UNCHANGED <<tip, generation, stored, position>>
  BY ZenonT(60) DEF PublishCatalogue, Refresher
<1>2. PICK w \in Work : /\ refresh = Some(w) /\ The(refresh) = w
                        /\ w.owner = r /\ WorkOK(w)
  BY <1>1, Refreshing, ZenonT(60)
<1>3. CASE ~SameSource(w)
  <2>1. /\ pc' = [pc EXCEPT ![r] = "abort"]
        /\ UNCHANGED <<refresh, catalogue, ref>>
    BY <1>2, <1>3, ZenonT(60) DEF PublishCatalogue, Go
  <2> QED BY <1>1, <2>1, GiveUpPreserves, ZenonT(60)
<1>4. CASE SameSource(w)
  <2>1. PICK c : /\ c = [heights |-> w.heights, last_tip |-> w.tip,
                         generation |-> w.current]
                 /\ catalogue' = Some(c) /\ refresh' = None /\ Resolved(r, c)
    BY <1>2, <1>4, ZenonT(60) DEF PublishCatalogue
  <2>2. /\ c \in Catalogues /\ c.heights = w.heights /\ c.last_tip = w.tip
        /\ c.generation = w.current
    BY <2>1, ZenonT(60) DEF Catalogues, Work
  <2>3. /\ w.tip = tip /\ generation = w.current /\ Stored(w.tip)
        /\ w.tip \in Seq(Txs) /\ Len(w.tip) \in Nat
        /\ w.heights \in Seq(Keys) /\ Len(w.heights) \in Nat
        /\ DOMAIN w.heights = 1 .. Len(w.heights)
    BY <1>2, <1>4, LenProperties, ZenonT(60) DEF Work, WorkOK, SameSource
  <2>4. \A i \in 1 .. Len(w.heights) :
          i <= Len(w.tip) /\ w.heights[i] = PositionOf(SubSeq(w.tip, 1, i))
    BY <1>1, <1>2, ZenonT(60) DEF WorkOK
  <2>5. Len(w.heights) = Len(w.tip)
    <3>1. Len(w.heights) >= Len(w.tip)
      <4>1. ~(Len(w.heights) <= Len(w.tip) - 1)
        BY <1>2, ZenonT(60) DEF PublishCatalogue, Incomplete, Height
      <4> QED BY <2>3, <4>1, SMTT(60)
    <3>2. CASE Len(w.heights) > Len(w.tip)
      <4>1. Len(w.heights) \in 1 .. Len(w.heights) BY <2>3, <3>2, SMTT(60)
      <4>2. Len(w.heights) <= Len(w.tip) BY <2>4, <4>1, ZenonT(60)
      <4> QED BY <2>3, <3>2, <4>2, SMTT(60)
    <3> QED BY <2>3, <3>1, <3>2, SMTT(60)
  <2>6. w.heights = Listing(w.tip)
    <3>1. w.heights = [i \in 1 .. Len(w.tip) |-> w.heights[i]]
      BY <2>3, <2>5, SMTT(60)
    <3>2. \A i \in 1 .. Len(w.tip) : w.heights[i] = PositionOf(SubSeq(w.tip, 1, i))
      BY <2>4, <2>5, ZenonT(60)
    <3> HIDE DEF PositionOf
    <3> QED BY <3>1, <3>2, ZenonT(60) DEF Listing
  <2>7. CatalogueOK(c)
    <3>1. generation \in Nat BY ZenonT(60) DEF Inductive, NodeOK
    <3> QED BY <2>2, <2>3, <2>6, <3>1, SMTT(60) DEF CatalogueOK
  <2>8. ref' = [ref EXCEPT ![r] = Lookup(c, position[r])]
    BY <2>1, ZenonT(60) DEF Resolved
  <2>9. Lookup(c, position[r]) \in Refs
    BY <2>2, <2>3, <2>6, LookupType, ZenonT(60)
  <2>10. /\ ref' \in [Readers -> Refs]
         /\ \A q \in Readers : q # r => ref'[q] = ref[q]
    BY <2>8, <2>9, ZenonT(60) DEF Inductive, ReadersOK
  <2>11. PICK where \in {"failed", "resolved"} :
           /\ pc' = [pc EXCEPT ![r] = where]
           /\ where = "resolved" => ref'[r] # None
    BY <2>1, ZenonT(60) DEF Resolved, Go
  <2> QED BY <1>1, <2>1, <2>2, <2>7, <2>10, <2>11, RefreshEnds, ZenonT(60)
<1> QED BY <1>3, <1>4, ZenonT(60)

\* An abandoned refresh.
LEMMA AbortPreserves ==
  ASSUME Inductive, NEW r \in Readers, Abort(r)
  PROVE  Inductive'
<1>1. /\ pc[r] \in Refresher /\ catalogue' = Some(EmptyCatalogue) /\ refresh' = None
      /\ pc' = [pc EXCEPT ![r] = "failed"]
      /\ UNCHANGED <<tip, generation, stored, position, ref>>
  BY ZenonT(60) DEF Abort, Go, Refresher, source, local
<1>2. ref' \in [Readers -> Refs] /\ \A q \in Readers : q # r => ref'[q] = ref[q]
  BY <1>1, ZenonT(60) DEF Inductive, ReadersOK
<1>3. PICK c \in Catalogues : c = EmptyCatalogue /\ CatalogueOK(c)
  BY EmptyCatalogueOK, ZenonT(60) DEF Inductive, NodeOK
<1> QED BY <1>1, <1>2, <1>3, RefreshEnds, ZenonT(60)

\* Every step keeps the invariant.
LEMMA StepPreserves ==
  ASSUME Inductive, [Next]_vars
  PROVE  Inductive'
<1>1. CASE SetTip BY <1>1, SetTipPreserves, ZenonT(60)
<1>2. CASE Withdraw \/ UNCHANGED vars BY <1>2, RestPreserves, ZenonT(60)
<1>3. ASSUME NEW r \in Readers, Begin(r) \/ ReadStep(r) PROVE Inductive'
  <2>1. CASE ResolveSlow(r) BY <2>1, ResolveSlowPreserves, ZenonT(60)
  <2>2. CASE Trim(r) BY <2>2, TrimPreserves, ZenonT(60)
  <2>3. CASE Batch(r) BY <2>3, BatchPreserves, ZenonT(60)
  <2>4. CASE PublishCatalogue(r) BY <2>4, PublishPreserves, ZenonT(60)
  <2>5. CASE Abort(r) BY <2>5, AbortPreserves, ZenonT(60)
  <2>6. CASE \/ Begin(r) \/ ResolveFast(r) \/ FindLayout(r) \/ LoadLayout(r)
             \/ CacheLayout(r) \/ Finish(r)
    BY <2>6, ReadPreserves, ZenonT(60)
  <2> QED BY <1>3, <2>1, <2>2, <2>3, <2>4, <2>5, <2>6, ZenonT(60) DEF ReadStep
<1> QED BY <1>1, <1>2, <1>3, ZenonT(60) DEF Next

\* The invariant holds of every behaviour of the node and its readers
\* (SetBestChain, Resolve, Read).
THEOREM InductiveHolds == Spec => []Inductive
BY InitInductive, StepPreserves, PTL DEF Spec

-----------------------------------------------------------------------------
(* What it gives.                                                          *)

\* The invariant makes an up to date catalogue exact.
LEMMA InductiveExact == Inductive => CatalogueIsExact
<1> SUFFICES ASSUME Inductive, UpToDate, generation # 0
             PROVE  The(catalogue).heights =
                      [i \in 1 .. Len(tip) |-> PositionOf(BlockAt(tip, i - 1))]
  BY ZenonT(60) DEF CatalogueIsExact
<1>1. PICK c \in Catalogues : catalogue = Some(c) /\ CatalogueOK(c)
  BY ZenonT(60) DEF UpToDate, Inductive, CataloguesOK
<1>2. The(catalogue) = c /\ c.generation = generation
  BY <1>1, Options, ZenonT(60) DEF UpToDate
<1>3. c.heights = Listing(tip)
  BY <1>1, <1>2, ZenonT(60) DEF CatalogueOK
<1>4. Len(tip) \in Nat
  BY LenProperties, ZenonT(60) DEF Inductive, NodeOK, Chain
<1>5. \A i \in 1 .. Len(tip) : BlockAt(tip, i - 1) = SubSeq(tip, 1, i)
  <2> TAKE i \in 1 .. Len(tip)
  <2>1. i - 1 + 1 = i BY <1>4, SMTT(60)
  <2> QED BY <2>1, ZenonT(60) DEF BlockAt
<1> QED BY <1>2, <1>3, <1>5, ZenonT(60) DEF Listing

\* A catalogue of the current generation lists exactly the active chain
\* (Resolve's refresh in batches, ForkHeight, the checks of the source).
THEOREM ExactCatalogue == Spec => []CatalogueIsExact
BY InductiveHolds, InductiveExact, PTL

\* The transaction a step returns is the one at the position, in an active block.
LEMMA FinishIsActive ==
  ASSUME Inductive, [Next]_vars, NEW r \in Readers,
         pc[r] = "read", pc'[r] = "answered"
  PROVE  \E h \in 0 .. Height(tip) : position[r] = SpanOf(BlockAt(tip, h))
<1>1. pc \in [Readers -> Reading \cup {"idle", "answered", "failed"}]
  BY ZenonT(60) DEF Inductive, ReadersOK
<1>2. Finish(r)
  <2>1. ASSUME NEW q \in Readers, Begin(q) \/ ReadStep(q) PROVE Finish(r)
    <3>1. pc' = pc \/ \E where : pc' = [pc EXCEPT ![q] = where]
      BY <2>1, ZenonT(60) DEF Begin, ReadStep, ResolveFast, ResolveSlow, Resolved, Trim, Batch,
                  PublishCatalogue, Abort, FindLayout, LoadLayout, CacheLayout,
                  Finish, Go
    <3>2. q = r BY <1>1, <3>1, ZenonT(60)
    <3> QED BY <2>1, <3>2, ZenonT(60) DEF Begin, ReadStep, ResolveFast, ResolveSlow, Trim, Batch,
              PublishCatalogue, Abort, FindLayout, LoadLayout, CacheLayout
  <2>2. ~(SetTip \/ Withdraw \/ UNCHANGED vars)
    BY ZenonT(60) DEF SetTip, Withdraw, vars
  <2> QED BY <2>1, <2>2, ZenonT(60) DEF Next
<1>3. position[r] = SpanOf(The(ref[r]).block) /\ Check(The(ref[r]))
  BY <1>1, <1>2, ZenonT(60) DEF Finish, Go
<1>4. PICK x \in [block : Seq(Txs), generation : Nat] : ref[r] = Some(x)
  BY SMTT(60) DEF Inductive, ReadersOK, Referring, Refs
<1>5. The(ref[r]) = x BY <1>4, Options, ZenonT(60)
<1> DEFINE b == x.block
<1>6. /\ b \in Seq(Txs) /\ b # <<>> /\ IsPrefix(b, tip) /\ position[r] = SpanOf(b)
      /\ tip \in Seq(Txs)
  BY <1>3, <1>5, ZenonT(60) DEF Check, ActiveContains, NoBlock, Inductive, NodeOK, Chain
<1> HIDE DEF b
<1>7. Len(b) \in Nat \ {0} /\ Len(tip) \in Nat
  BY <1>6, LenProperties, EmptySeq, ZenonT(60)
<1>8. Len(b) <= Len(tip) /\ b = SubSeq(tip, 1, Len(b))
  BY <1>6, ZenonT(60) DEF IsPrefix
<1>9. /\ Len(b) - 1 \in 0 .. Height(tip)
      /\ BlockAt(tip, Len(b) - 1) = b
  <2>0. Len(b) <= Len(tip) BY <1>8, ZenonT(60)
  <2>1. Len(b) - 1 + 1 = Len(b) /\ Len(b) - 1 \in 0 .. Len(tip) - 1
    BY <1>7, <2>0, SMTT(60)
  <2> QED BY <1>8, <2>1, ZenonT(60) DEF BlockAt, Height
<1> QED BY <1>6, <1>9, ZenonT(60)

\* Whatever the node did since the position was resolved, an answer is of an
\* active block (Read's last Check).
THEOREM ActiveAnswers == Spec => AnswersAreActive
<1>1. Inductive /\ [Next]_vars =>
        [\A r \in Readers : pc[r] = "read" /\ pc'[r] = "answered" =>
           \E h \in 0 .. Height(tip) : position[r] = SpanOf(BlockAt(tip, h))]_vars
  BY FinishIsActive, ZenonT(60)
<1> QED BY <1>1, InductiveHolds, PTL DEF Spec, AnswersAreActive

-----------------------------------------------------------------------------
(***************************************************************************)
(* Reads the node did not disturb.  A generation is never met again, so a  *)
(* read that ends in the generation it began in ran while the chain stood  *)
(* still: a refresh it made could not be given up, and what it resolved is *)
(* what it reads and what is checked at the end.                           *)
(***************************************************************************)
Undisturbed(r) == begun[r] = generation /\ Available

\* No active transaction is stored at the position.
Absent(p) == \A n \in 1 .. Len(tip) : p # SpanOf(SubSeq(tip, 1, n))

\* The reference is to an active block, the one of the position if there is one.
Reached(x, p) ==
  /\ x.generation = generation
  /\ ActiveContains(tip, x.block)
  /\ \A n \in 1 .. Len(tip) :
       p = SpanOf(SubSeq(tip, 1, n)) => x.block = SubSeq(tip, 1, n)

Told(r) ==
  Undisturbed(r) =>
    /\ pc[r] # "abort"
    /\ pc[r] \in {"trim", "batch"} => The(refresh).current = generation
    /\ pc[r] \in Referring => Reached(The(ref[r]), position[r])
    /\ pc[r] = "failed" => Absent(position[r])

Served ==
  /\ begun \in [Readers -> Nat]
  /\ \A r \in Readers : generation # 0 => begun[r] <= generation
  /\ refresh = None => catalogue # None
  /\ \A r \in Readers : Told(r)

\* Blocks are stored at even offsets, each at its own.
LEMMA PositionsApart ==
  ASSUME StoreOK, NEW b \in Range(stored), NEW d \in Range(stored)
  PROVE  /\ \E k \in Nat : PositionOf(b)[2] = 2 * k
         /\ PositionOf(b) = PositionOf(d) => b = d
<1> USE ReaderAssumption
<1>1. PICK i \in 1 .. Len(stored) :
        /\ stored[i] = b
        /\ PositionOf(b) = <<(i - 1) \div PerFile, 2 * ((i - 1) % PerFile)>>
  BY IndexOf, ZenonT(60)
<1>2. PICK j \in 1 .. Len(stored) :
        /\ stored[j] = d
        /\ PositionOf(d) = <<(j - 1) \div PerFile, 2 * ((j - 1) % PerFile)>>
  BY IndexOf, ZenonT(60)
<1>3. Len(stored) \in Nat
  BY LenProperties, ZenonT(60) DEF StoreOK
<1>4. PICK p, q, k, l : /\ p = (i - 1) \div PerFile /\ q = (j - 1) \div PerFile
                        /\ k = (i - 1) % PerFile /\ l = (j - 1) % PerFile
  BY ZenonT(60)
<1>5. /\ p \in Int /\ q \in Int /\ k \in 0 .. PerFile - 1 /\ l \in 0 .. PerFile - 1
      /\ i - 1 = PerFile * p + k /\ j - 1 = PerFile * q + l
  BY <1>3, <1>4, SMTT(60)
<1>6. \E m \in Nat : PositionOf(b)[2] = 2 * m
  <2>1. k \in Nat BY <1>5, SMTT(60)
  <2> QED BY <1>1, <1>4, <2>1, SMTT(60)
<1>7. ASSUME PositionOf(b) = PositionOf(d) PROVE b = d
  <2>1. p = q /\ 2 * k = 2 * l
    BY <1>1, <1>2, <1>4, <1>7, SMTT(60)
  <2>2. i = j
    BY <1>3, <1>5, <2>1, SMTT(60)
  <2> QED BY <1>1, <1>2, <2>2, ZenonT(60)
<1> QED BY <1>6, <1>7, ZenonT(60)

\* A catalogue that lists the active chain finds the block of each of its
\* transactions, although it knows the blocks' positions only.
LEMMA LookupExact ==
  ASSUME StoreOK, tip \in Chain, Stored(tip), NEW c, c.heights = Listing(tip),
         NEW n \in 1 .. Len(tip)
  PROVE  Lookup(c, SpanOf(SubSeq(tip, 1, n))) =
           Some([block |-> SubSeq(tip, 1, n), generation |-> c.generation])
<1> DEFINE p == SpanOf(SubSeq(tip, 1, n))
           below == {i \in DOMAIN c.heights :
                       c.heights[i][1] = p[1] /\ ~Before(p, c.heights[i])}
           found == CHOOSE i \in below :
                      \A j \in below : ~Before(c.heights[i], c.heights[j])
<1>1. /\ Len(tip) \in Nat /\ DOMAIN c.heights = 1 .. Len(tip)
      /\ \A i \in 1 .. Len(tip) : c.heights[i] = PositionOf(SubSeq(tip, 1, i))
  BY ListingIs, ZenonT(60) DEF Chain
<1>2. \A i \in 1 .. Len(tip) : SubSeq(tip, 1, i) \in Range(stored)
  BY ZenonT(60) DEF Stored
<1>3. \A i \in 1 .. Len(tip) : c.heights[i] \in Keys
  BY <1>1, <1>2, PositionType, ZenonT(60)
<1>4. \A i \in 1 .. Len(tip) : \E k \in Nat : c.heights[i][2] = 2 * k
  BY <1>1, <1>2, PositionsApart, SMTT(60)
<1>5. \A i \in 1 .. Len(tip) : c.heights[i] = c.heights[n] => i = n
  <2> SUFFICES ASSUME NEW i \in 1 .. Len(tip), c.heights[i] = c.heights[n]
               PROVE  i = n
    BY ZenonT(60)
  <2>1. SubSeq(tip, 1, i) = SubSeq(tip, 1, n)
    BY <1>1, <1>2, PositionsApart, ZenonT(60)
  <2>2. i \in 0 .. Len(tip) /\ n \in 0 .. Len(tip) /\ tip \in Seq(Txs)
    BY <1>1, SMTT(60) DEF Chain
  <2>3. Len(SubSeq(tip, 1, i)) = i /\ Len(SubSeq(tip, 1, n)) = n
    BY <2>2, PrefixOf, ZenonT(60)
  <2> QED BY <2>1, <2>3, ZenonT(60)
<1>6. p[1] = c.heights[n][1] /\ p[2] = c.heights[n][2] + 1
  BY <1>1, ZenonT(60) DEF SpanOf
<1> HIDE DEF p
<1>7. n \in below
  BY <1>1, <1>3, <1>6, SMTT(60) DEF Before, Keys
<1>8. \A j \in below : /\ j \in 1 .. Len(tip) /\ c.heights[j][1] = c.heights[n][1]
                       /\ c.heights[j][2] <= c.heights[n][2]
  <2> SUFFICES ASSUME NEW j \in below
               PROVE  /\ j \in 1 .. Len(tip) /\ c.heights[j][1] = c.heights[n][1]
                      /\ c.heights[j][2] <= c.heights[n][2]
    BY ZenonT(60)
  <2>1. j \in 1 .. Len(tip) /\ c.heights[j][1] = p[1] /\ ~Before(p, c.heights[j])
    BY <1>1, ZenonT(60)
  <2>2. PICK k \in Nat, l \in Nat : c.heights[n][2] = 2 * k /\ c.heights[j][2] = 2 * l
    BY <1>4, <2>1, ZenonT(60)
  <2>3. ~(2 * k + 1 < 2 * l)
    BY <1>6, <2>1, <2>2, ZenonT(60) DEF Before
  <2>4. 2 * l <= 2 * k
    BY <2>2, <2>3, SMTT(60)
  <2> QED BY <1>6, <2>1, <2>2, <2>4, ZenonT(60)
<1>9. \A j \in below : ~Before(c.heights[n], c.heights[j])
  BY <1>3, <1>8, SMTT(60) DEF Before, Keys
<1>10. \A i \in below : (\A j \in below : ~Before(c.heights[i], c.heights[j])) => i = n
  <2> SUFFICES ASSUME NEW i \in below, \A j \in below : ~Before(c.heights[i], c.heights[j])
               PROVE  i = n
    BY ZenonT(60)
  <2>1. ~Before(c.heights[i], c.heights[n]) BY <1>7, ZenonT(60)
  <2>2. /\ i \in 1 .. Len(tip) /\ c.heights[i][1] = c.heights[n][1]
        /\ c.heights[i][2] <= c.heights[n][2]
    BY <1>8, ZenonT(60)
  <2>3. c.heights[i] \in Keys /\ c.heights[n] \in Keys BY <1>3, <2>2, ZenonT(60)
  <2>4. c.heights[i][2] = c.heights[n][2] BY <2>1, <2>2, <2>3, SMTT(60) DEF Before, Keys
  <2>5. c.heights[i] = c.heights[n] BY <2>2, <2>3, <2>4, SMTT(60) DEF Keys
  <2> QED BY <1>5, <2>2, <2>5, ZenonT(60)
<1>11. found = n /\ below # {}
  <2> HIDE DEF below
  <2> QED BY <1>7, <1>9, <1>10, ZenonT(60)
<1>12. BlockAt(tip, n - 1) = SubSeq(tip, 1, n)
  <2>1. n - 1 + 1 = n BY <1>1, SMTT(60)
  <2> QED BY <2>1, ZenonT(60) DEF BlockAt
<1>13. ~(n > Len(tip)) BY <1>1, SMTT(60)
<1>14. Lookup(c, p) = IF below = {} \/ found > Len(tip) THEN None
                      ELSE IF PositionOf(BlockAt(tip, found - 1)) # c.heights[found]
                      THEN None
                      ELSE Some([block |-> BlockAt(tip, found - 1),
                                 generation |-> c.generation])
  BY ZenonT(60) DEF Lookup
<1> HIDE DEF below, found
<1>15. Lookup(c, p) = Some([block |-> BlockAt(tip, n - 1), generation |-> c.generation])
  BY <1>1, <1>11, <1>12, <1>13, <1>14, ZenonT(60)
<1> QED BY <1>12, <1>15, ZenonT(60) DEF p

\* As long as the node does nothing, positions mean the same.
LEMMA ToldFrame ==
  ASSUME UNCHANGED <<tip, generation, stored, available>>
  PROVE  /\ \A p : Absent(p)' <=> Absent(p)
         /\ \A x, p : Reached(x, p)' <=> Reached(x, p)
         /\ Available' = Available
<1>1. \A b : SpanOf(b)' = SpanOf(b)
  <2>1. \A b : PositionOf(b)' = PositionOf(b) BY NodeFrame, ZenonT(60)
  <2> QED BY <2>1, ZenonT(60) DEF SpanOf
<1>2. \A p : Absent(p)' <=> Absent(p)
  BY <1>1, ZenonT(60) DEF Absent
<1>3. \A x, p : Reached(x, p)' <=> Reached(x, p)
  BY <1>1, ZenonT(60) DEF Reached
<1> QED BY <1>2, <1>3, ZenonT(60) DEF Available

\* Whether a read is undisturbed depends on the generation it began with.
LEMMA UndisturbedFrame ==
  ASSUME UNCHANGED <<generation, available, begun>>
  PROVE  /\ \A r \in Readers : Undisturbed(r)' = Undisturbed(r)
         /\ \A r \in Readers : Undisturbed(r) => Available
<1>1. Available' = Available
  BY ZenonT(60) DEF Available
<1> QED BY <1>1, ZenonT(60) DEF Undisturbed

\* A step of one reader: the others are told what they were told.
LEMMA ServedMoves ==
  ASSUME Served, NEW r \in Readers,
         UNCHANGED <<tip, generation, stored, available, begun>>,
         \A q \in Readers : q # r =>
           /\ pc'[q] = pc[q] /\ ref'[q] = ref[q] /\ position'[q] = position[q]
           /\ pc[q] \in {"trim", "batch"} => refresh' = refresh,
         refresh' = None => catalogue' # None,
         Told(r)'
  PROVE  Served'
<1>1. ASSUME NEW q \in Readers PROVE Told(q)'
  <2>1. CASE q = r BY <2>1, ZenonT(60)
  <2>2. CASE q # r
    <3>1. Told(q) BY ZenonT(60) DEF Served
    <3>2. /\ pc'[q] = pc[q] /\ ref'[q] = ref[q] /\ position'[q] = position[q]
          /\ pc[q] \in {"trim", "batch"} => refresh' = refresh
      BY <2>2, ZenonT(60)
    <3>3. Undisturbed(q)' = Undisturbed(q) BY UndisturbedFrame, ZenonT(60)
    <3> QED BY <3>1, <3>2, <3>3, ToldFrame, ZenonT(60) DEF Told
  <2> QED BY <2>1, <2>2, ZenonT(60)
<1> QED BY <1>1, ZenonT(60) DEF Served

\* A reader that resolves its position with a catalogue of the present chain
\* fails only if there is no transaction, and finds its block otherwise.
LEMMA ResolvedTold ==
  ASSUME Inductive, NEW c \in Catalogues, NEW r \in Readers,
         c.heights = Listing(tip), c.generation = generation, Resolved(r, c),
         UNCHANGED <<tip, generation, stored, available, position>>
  PROVE  Told(r)'
<1> USE DEF Referring
<1>1. StoreOK /\ tip \in Chain /\ tip \in Seq(Txs) /\ Stored(tip) /\ position[r] \in Keys
  BY ZenonT(60) DEF Inductive, NodeOK, ReadersOK, Chain
<1>2. PICK x : x = Lookup(c, position[r])
  BY ZenonT(60)
<1>3. /\ ref'[r] = x
      /\ pc'[r] = IF x = None THEN "failed" ELSE "resolved"
  BY <1>2, ZenonT(60) DEF Resolved, Go, Inductive, ReadersOK
<1>4. \A n \in 1 .. Len(tip) : position[r] = SpanOf(SubSeq(tip, 1, n)) =>
        x = Some([block |-> SubSeq(tip, 1, n), generation |-> c.generation])
  BY <1>1, <1>2, LookupExact, ZenonT(60)
<1>5. CASE x = None
  <2>1. Absent(position[r])
    BY <1>4, <1>5, Options, ZenonT(60) DEF Absent
  <2>2. Absent(position[r])' BY <2>1, ToldFrame, ZenonT(60)
  <2> QED BY <1>3, <1>5, <2>2, ZenonT(60) DEF Told
<1>6. CASE x # None
  <2>1. PICK n \in 1 .. Len(tip) :
          x = Some([block |-> SubSeq(tip, 1, n), generation |-> c.generation])
    BY <1>1, <1>2, <1>6, LookupFinds, ZenonT(60)
  <2>2. The(x).block = SubSeq(tip, 1, n) /\ The(x).generation = generation
    <3>1. The(x) = [block |-> SubSeq(tip, 1, n), generation |-> c.generation]
      BY <2>1, Options, ZenonT(60)
    <3> QED BY <3>1, SMTT(60)
  <2>3. ActiveContains(tip, The(x).block)
    <3>1. Len(tip) \in Nat /\ n \in 0 .. Len(tip) /\ n # 0 /\ n <= Len(tip)
      BY <1>1, LenProperties, SMTT(60)
    <3>2. PICK b : b = SubSeq(tip, 1, n) BY ZenonT(60)
    <3>3. Len(b) = n BY <1>1, <3>1, <3>2, PrefixOf, ZenonT(60)
    <3>4. b # <<>> BY <3>1, <3>3, SMTT(60)
    <3> QED BY <2>2, <3>1, <3>2, <3>3, <3>4, ZenonT(60) DEF ActiveContains, IsPrefix, NoBlock
  <2>4. \A m \in 1 .. Len(tip) : position[r] = SpanOf(SubSeq(tip, 1, m)) =>
          The(x).block = SubSeq(tip, 1, m)
    <3> SUFFICES ASSUME NEW m \in 1 .. Len(tip), position[r] = SpanOf(SubSeq(tip, 1, m))
                 PROVE  The(x).block = SubSeq(tip, 1, m)
      BY ZenonT(60)
    <3>1. x = Some([block |-> SubSeq(tip, 1, m), generation |-> c.generation])
      BY <1>4, ZenonT(60)
    <3>2. The(x) = [block |-> SubSeq(tip, 1, m), generation |-> c.generation]
      BY <3>1, Options, ZenonT(60)
    <3> QED BY <3>2, SMTT(60)
  <2>5. Reached(The(x), position[r])
    BY <2>2, <2>3, <2>4, ZenonT(60) DEF Reached
  <2>6. Reached(The(ref[r]), position[r])'
    BY <1>3, <2>5, ToldFrame, ZenonT(60)
  <2> QED BY <1>3, <1>6, <2>6, ZenonT(60) DEF Told
<1> QED BY <1>5, <1>6, ZenonT(60)

\* At first nobody reads.
LEMMA InitServed == Init => Served
<1> SUFFICES ASSUME Init PROVE Served
  BY ZenonT(60)
<1>1. begun \in [Readers -> Nat] /\ \A r \in Readers : begun[r] <= generation
  BY SMTT(60) DEF Init
<1>2. catalogue # None
  BY Options, ZenonT(60) DEF Init
<1>3. \A r \in Readers : Told(r)
  BY ZenonT(60) DEF Init, Told, Referring
<1> QED BY <1>1, <1>2, <1>3, ZenonT(60) DEF Served

\* A change of the chain, or of what is available, disturbs every read.
LEMMA NodeServes ==
  ASSUME Inductive, Served, SetTip \/ Withdraw
  PROVE  Served'
<1>1. /\ UNCHANGED <<catalogue, refresh, begun>> /\ begun \in [Readers -> Nat]
      /\ generation \in Nat
  BY ZenonT(60) DEF SetTip, Withdraw, local, Inductive, NodeOK, Served
<1>2. CASE SetTip
  <2>1. generation # 0 /\ generation' \in {0, generation + 1}
    BY <1>2, ZenonT(60) DEF SetTip, Advance
  <2>2. \A r \in Readers : begun[r] \in Nat /\ begun[r] <= generation
    BY <1>1, <2>1, ZenonT(60) DEF Served
  <2>3. \A r \in Readers : generation' # 0 =>
          begun'[r] <= generation' /\ begun'[r] # generation'
    BY <1>1, <2>1, <2>2, SMTT(60)
  <2>4. \A r \in Readers : ~Undisturbed(r)'
    BY <2>3, ZenonT(60) DEF Undisturbed, Available
  <2> QED BY <1>1, <2>3, <2>4, ZenonT(60) DEF Served, Told
<1>3. CASE Withdraw
  <2>1. \A r \in Readers : ~Undisturbed(r)'
    BY <1>3, ZenonT(60) DEF Withdraw, Undisturbed, Available
  <2>2. generation' = generation
    BY <1>3, ZenonT(60) DEF Withdraw
  <2> QED BY <1>1, <2>1, <2>2, ZenonT(60) DEF Served, Told
<1> QED BY <1>2, <1>3, ZenonT(60)

\* A read begins in the present generation.
LEMMA BeginServes ==
  ASSUME Inductive, Served, NEW r \in Readers, Begin(r)
  PROVE  Served'
<1>1. /\ UNCHANGED <<tip, generation, stored, available, catalogue, refresh>>
      /\ generation \in Nat
  BY ZenonT(60) DEF Begin, source, Inductive, NodeOK
<1>2. /\ begun' \in [Readers -> Nat] /\ begun'[r] = generation
      /\ \A q \in Readers : q # r => begun'[q] = begun[q]
  BY <1>1, ZenonT(60) DEF Begin, Served
<1>3. /\ pc'[r] = "resolve"
      /\ \A q \in Readers : q # r => pc'[q] = pc[q] /\ ref'[q] = ref[q]
                                     /\ position'[q] = position[q]
  BY ZenonT(60) DEF Begin, Go, Inductive, ReadersOK
<1>4. ASSUME NEW q \in Readers PROVE Told(q)'
  <2>1. CASE q = r
    BY <1>3, <2>1, ZenonT(60) DEF Told, Referring
  <2>2. CASE q # r
    <3>1. Told(q) BY ZenonT(60) DEF Served
    <3>2. Undisturbed(q)' = Undisturbed(q)
      BY <1>1, <1>2, <2>2, ToldFrame, SMTT(60) DEF Undisturbed
    <3> QED BY <1>1, <1>3, <2>2, <3>1, <3>2, ToldFrame, ZenonT(60) DEF Told
  <2> QED BY <2>1, <2>2, ZenonT(60)
<1>5. \A q \in Readers : generation' # 0 => begun'[q] <= generation'
  BY <1>1, <1>2, SMTT(60) DEF Served
<1> QED BY <1>1, <1>2, <1>4, <1>5, ZenonT(60) DEF Served

\* What the steps of a reader leave alone.
LEMMA StepFrame ==
  ASSUME Inductive, NEW r \in Readers, ReadStep(r)
  PROVE  /\ UNCHANGED <<tip, generation, stored, available, begun, position>>
         /\ \A q \in Readers : q # r => pc'[q] = pc[q] /\ ref'[q] = ref[q]
<1> USE DEF source, local
<1>1. UNCHANGED <<tip, generation, stored, available, begun, position>>
  BY ZenonT(60) DEF ReadStep, ResolveFast, ResolveSlow, Trim, Batch, PublishCatalogue, Abort,
         FindLayout, LoadLayout, CacheLayout, Finish
<1>2. pc' = pc \/ \E where : pc' = [pc EXCEPT ![r] = where]
  BY ZenonT(60) DEF ReadStep, ResolveFast, ResolveSlow, Resolved, Trim, Batch,
         PublishCatalogue, Abort, FindLayout, LoadLayout, CacheLayout, Finish, Go
<1>3. ref' = ref \/ \E x : ref' = [ref EXCEPT ![r] = x]
  BY ZenonT(60) DEF ReadStep, ResolveFast, ResolveSlow, Resolved, Trim, Batch,
         PublishCatalogue, Abort, FindLayout, LoadLayout, CacheLayout, Finish
<1>4. \A q \in Readers : q # r => pc'[q] = pc[q] /\ ref'[q] = ref[q]
  BY <1>2, <1>3, ZenonT(60) DEF Inductive, ReadersOK
<1> QED BY <1>1, <1>4, ZenonT(60)

\* A catalogue of the present generation lists the present chain.
LEMMA PresentCatalogue ==
  ASSUME Inductive, UpToDate, Available
  PROVE  /\ The(catalogue) \in Catalogues
         /\ The(catalogue).heights = Listing(tip)
         /\ The(catalogue).generation = generation
<1>1. PICK c \in Catalogues : catalogue = Some(c) /\ CatalogueOK(c)
  BY ZenonT(60) DEF UpToDate, Inductive, CataloguesOK
<1>2. The(catalogue) = c /\ c.generation = generation
  BY <1>1, Options, ZenonT(60) DEF UpToDate
<1>3. c.last_tip = tip
  BY <1>1, <1>2, ZenonT(60) DEF CatalogueOK, Available
<1> QED BY <1>1, <1>2, <1>3, ZenonT(60) DEF CatalogueOK

\* Resolving, with the catalogue there is or by starting to refresh it.
LEMMA ResolveServes ==
  ASSUME Inductive, Served, NEW r \in Readers, ResolveFast(r) \/ ResolveSlow(r)
  PROVE  Served'
<1>0. pc \in [Readers -> Reading \cup {"idle", "answered", "failed"}]
  BY ZenonT(60) DEF Inductive, ReadersOK
<1>1. /\ UNCHANGED <<tip, generation, stored, available, begun, position>>
      /\ \A q \in Readers : q # r => pc'[q] = pc[q] /\ ref'[q] = ref[q]
  BY StepFrame, ZenonT(60) DEF ReadStep
<1>2. Undisturbed(r)' = Undisturbed(r) /\ (Undisturbed(r) => Available)
  BY <1>1, UndisturbedFrame, ZenonT(60)
<1>3. CASE UNCHANGED <<catalogue, refresh>>
  <2>1. Told(r)'
    <3>1. CASE ~Available \/ Go(r, "refresh")
      <4>1. CASE ~Available BY <1>2, <4>1, ZenonT(60) DEF Told
      <4>2. CASE Go(r, "refresh")
        BY <1>0, <4>2, ZenonT(60) DEF Go, Told, Referring
      <4> QED BY <3>1, <4>1, <4>2, ZenonT(60)
    <3>2. CASE Available /\ UpToDate /\ Resolved(r, The(catalogue))
      BY <1>1, <3>2, PresentCatalogue, ResolvedTold, ZenonT(60)
    <3>3. refresh = None => catalogue # None BY ZenonT(60) DEF Served
    <3> QED BY <3>1, <3>2, <3>3, <1>3, Options, ZenonT(60) DEF ResolveFast, ResolveSlow
  <2> QED BY <1>1, <1>3, <2>1, ServedMoves, ZenonT(60) DEF Served
<1>4. CASE ~UNCHANGED <<catalogue, refresh>>
  <2>1. /\ refresh = None /\ catalogue' = None /\ Go(r, "trim")
        /\ \E w : refresh' = Some(w) /\ w.current = generation
    <3> DEFINE w == [owner |-> r, heights |-> The(catalogue).heights,
                     fork |-> ForkHeight(The(catalogue)),
                     tip |-> tip, current |-> generation]
    <3>1. refresh = None /\ catalogue' = None /\ Go(r, "trim") /\ refresh' = Some(w)
      BY <1>4, ZenonT(60) DEF ResolveFast, ResolveSlow
    <3>2. w.current = generation BY ZenonT(60)
    <3> HIDE DEF w
    <3> QED BY <3>1, <3>2, ZenonT(60)
  <2>2. PICK w : refresh' = Some(w) /\ w.current = generation BY <2>1, ZenonT(60)
  <2>3. The(refresh') = w /\ refresh' # None BY <2>2, Options, ZenonT(60)
  <2>4. pc'[r] = "trim" BY <1>0, <2>1, ZenonT(60) DEF Go
  <2>5. Told(r)' BY <1>1, <2>2, <2>3, <2>4, ZenonT(60) DEF Told, Referring
  <2>6. \A q \in Readers : pc[q] \notin {"trim", "batch"}
    BY <2>1, Options, ZenonT(60) DEF Inductive, ReadersOK, Refresher
  <2> QED BY <1>1, <2>3, <2>5, <2>6, ServedMoves, ZenonT(60)
<1> QED BY <1>3, <1>4, ZenonT(60)

\* An undisturbed refresh goes on: the source is still the one it was made for.
LEMMA RefreshServes ==
  ASSUME Inductive, Served, NEW r \in Readers,
         Trim(r) \/ Batch(r) \/ PublishCatalogue(r) \/ Abort(r)
  PROVE  Served'
<1>0. /\ pc \in [Readers -> Reading \cup {"idle", "answered", "failed"}]
      /\ pc[r] \in Refresher
  BY ZenonT(60) DEF Inductive, ReadersOK, Refresher, Trim, Batch, PublishCatalogue, Abort
<1>1. /\ UNCHANGED <<tip, generation, stored, available, begun, position>>
      /\ \A q \in Readers : q # r => pc'[q] = pc[q] /\ ref'[q] = ref[q]
  BY StepFrame, ZenonT(60) DEF ReadStep
<1>2. PICK w \in Work : /\ refresh = Some(w) /\ The(refresh) = w
                        /\ w.owner = r /\ WorkOK(w)
  BY <1>0, Refreshing, ZenonT(60)
<1>3. \A q \in Readers : q # r => pc[q] \notin {"trim", "batch"}
  BY <1>0, Refreshing, ZenonT(60) DEF Refresher
<1>4. Told(r) /\ Undisturbed(r)' = Undisturbed(r)
  <2>1. Told(r) BY ZenonT(60) DEF Served
  <2> QED BY <1>1, <2>1, UndisturbedFrame, ZenonT(60)
<1>5. Undisturbed(r) => pc[r] # "abort" /\ SameSource(w)
  <2> SUFFICES ASSUME Undisturbed(r) PROVE pc[r] # "abort" /\ SameSource(w)
    BY ZenonT(60)
  <2>1. pc[r] # "abort" /\ w.current = generation
    BY <1>0, <1>2, <1>4, ZenonT(60) DEF Told, Refresher
  <2>2. w.tip = tip BY <1>2, <2>1, ZenonT(60) DEF WorkOK
  <2> QED BY <2>1, <2>2, ZenonT(60) DEF SameSource, Undisturbed
<1>6. CASE Trim(r) \/ Batch(r)
  <2>1. \/ refresh' = refresh
        \/ \E h : refresh' = Some([w EXCEPT !.heights = h])
    BY <1>2, <1>6, ZenonT(60) DEF Trim, Batch
  <2>2. /\ refresh' # None /\ The(refresh').current = w.current
    BY <1>2, <2>1, Options, ZenonT(60) DEF Work
  <2>3. /\ pc'[r] \in {"trim", "batch", "abort"}
        /\ pc'[r] = "abort" => ~SameSource(w)
    BY <1>0, <1>2, <1>6, ZenonT(60) DEF Trim, Batch, Go
  <2>4. pc[r] \in {"trim", "batch"} BY <1>6, ZenonT(60) DEF Trim, Batch
  <2>5. Told(r)'
    <3> SUFFICES ASSUME Undisturbed(r)' PROVE
                   /\ pc'[r] # "abort"
                   /\ The(refresh').current = generation'
      BY <2>3, ZenonT(60) DEF Told, Referring
    <3>1. Undisturbed(r) BY <1>4, ZenonT(60)
    <3>2. w.current = generation BY <1>2, <1>4, <2>4, <3>1, ZenonT(60) DEF Told
    <3> QED BY <1>1, <1>5, <2>2, <2>3, <3>1, <3>2, ZenonT(60)
  <2> QED BY <1>1, <1>3, <2>2, <2>5, ServedMoves, ZenonT(60)
<1>7. CASE PublishCatalogue(r)
  <2> DEFINE c == [heights |-> w.heights, last_tip |-> w.tip, generation |-> w.current]
  <2>1. CASE SameSource(w)
    <3>1. /\ catalogue' = Some(c) /\ Resolved(r, c)
      BY <1>2, <1>7, <2>1, ZenonT(60) DEF PublishCatalogue
    <3>2. PublishCatalogue(r) => Inductive' BY PublishPreserves, ZenonT(60)
    <3>3. /\ c \in Catalogues /\ c.generation = generation
          /\ c.heights = w.heights
      BY <2>1, ZenonT(60) DEF Work, Catalogues, SameSource
    <3>4. c.heights = Listing(tip)
      <4>1. PICK d \in Catalogues : catalogue' = Some(d) /\ CatalogueOK(d)'
        BY <1>7, <3>1, <3>2, Options, ZenonT(60) DEF Inductive, CataloguesOK
      <4>2. d = c BY <3>1, <4>1, Options, ZenonT(60)
      <4>3. generation' # 0 /\ generation' = d.generation
        BY <1>1, <2>1, <3>3, <4>2, ZenonT(60) DEF SameSource, Available
      <4>4. d.heights = Listing(tip)'
        BY <4>1, <4>3, ZenonT(60) DEF CatalogueOK
      <4>5. Listing(tip)' = Listing(tip)
        BY <1>1, NodeFrame, ZenonT(60) DEF Listing
      <4> QED BY <4>2, <4>4, <4>5, ZenonT(60)
    <3> HIDE DEF c
    <3>5. Told(r)' BY <1>1, <3>1, <3>3, <3>4, ResolvedTold, ZenonT(60)
    <3>6. catalogue' # None BY <3>1, Options, ZenonT(60)
    <3> QED BY <1>1, <1>3, <3>5, <3>6, ServedMoves, ZenonT(60)
  <2>2. CASE ~SameSource(w)
    <3>1. UNCHANGED <<catalogue, refresh>> BY <1>2, <1>7, <2>2, ZenonT(60) DEF PublishCatalogue
    <3>2. Told(r)' BY <1>4, <1>5, <2>2, ZenonT(60) DEF Told
    <3> QED BY <1>1, <3>1, <3>2, ServedMoves, ZenonT(60) DEF Served
  <2> QED BY <2>1, <2>2, ZenonT(60)
<1>8. CASE Abort(r)
  <2>1. pc[r] = "abort" /\ catalogue' # None BY <1>8, Options, ZenonT(60) DEF Abort
  <2>2. Told(r)' BY <1>4, <1>5, <2>1, ZenonT(60) DEF Told
  <2> QED BY <1>1, <1>3, <2>1, <2>2, ServedMoves, ZenonT(60)
<1> QED BY <1>6, <1>7, <1>8, ZenonT(60)

\* The reference of an undisturbed reader still stands, so the checks pass and
\* only a position without a transaction is refused.
LEMMA LayoutServes ==
  ASSUME Inductive, Served, NEW r \in Readers,
         FindLayout(r) \/ LoadLayout(r) \/ CacheLayout(r) \/ Finish(r)
  PROVE  Served'
<1>0. pc \in [Readers -> Reading \cup {"idle", "answered", "failed"}]
  BY ZenonT(60) DEF Inductive, ReadersOK
<1>1. /\ UNCHANGED <<tip, generation, stored, available, begun, position>>
      /\ \A q \in Readers : q # r => pc'[q] = pc[q] /\ ref'[q] = ref[q]
  BY StepFrame, ZenonT(60) DEF ReadStep
<1>2. UNCHANGED <<catalogue, refresh>>
  BY ZenonT(60) DEF FindLayout, LoadLayout, CacheLayout, Finish
<1>3. Told(r) /\ Undisturbed(r)' = Undisturbed(r)
  <2>1. Told(r) BY ZenonT(60) DEF Served
  <2> QED BY <1>1, <2>1, UndisturbedFrame, ZenonT(60)
<1>4. pc[r] \in Referring
  BY ZenonT(60) DEF FindLayout, LoadLayout, CacheLayout, Finish, Referring
<1>5. Undisturbed(r) => /\ Reached(The(ref[r]), position[r])
                        /\ Check(The(ref[r]))
  BY <1>3, <1>4, ZenonT(60) DEF Told, Reached, Check, Undisturbed, Available
<1>6. Told(r)'
  <2> SUFFICES ASSUME Undisturbed(r)'
               PROVE  /\ pc'[r] \notin {"trim", "batch", "abort"}
                      /\ pc'[r] \in Referring => Reached(The(ref[r]), position[r])'
                      /\ pc'[r] = "failed" => Absent(position[r])'
    BY ZenonT(60) DEF Told
  <2>1. Reached(The(ref[r]), position[r]) /\ Check(The(ref[r]))
    BY <1>3, <1>5, ZenonT(60)
  <2>2. CASE FindLayout(r) \/ LoadLayout(r) \/ CacheLayout(r)
    <3>1. ref' = ref /\ pc'[r] \in {"read", "load", "cache"}
      BY <1>0, <2>1, <2>2, ZenonT(60) DEF FindLayout, LoadLayout, CacheLayout, Go, local
    <3> QED BY <1>1, <2>1, <3>1, ToldFrame, ZenonT(60)
  <2>3. CASE Finish(r)
    <3>1. /\ pc'[r] \in {"answered", "failed"}
          /\ pc'[r] = "failed" => position[r] # SpanOf(The(ref[r]).block)
      BY <1>0, <2>1, <2>3, ZenonT(60) DEF Finish, Go
    <3>2. pc'[r] = "failed" => Absent(position[r])
      BY <2>1, <3>1, ZenonT(60) DEF Reached, Absent
    <3>3. pc'[r] = "failed" => Absent(position[r])'
      BY <1>1, <3>2, ToldFrame, ZenonT(60)
    <3> QED BY <3>1, <3>3, ZenonT(60) DEF Referring
  <2> QED BY <2>2, <2>3, ZenonT(60)
<1> QED BY <1>1, <1>2, <1>6, ServedMoves, ZenonT(60) DEF Served

\* Every step keeps what undisturbed readers are told.
LEMMA NextServes == Inductive /\ Served /\ [Next]_vars => Served'
<1> SUFFICES ASSUME Inductive, Served, [Next]_vars PROVE Served'
  BY ZenonT(60)
<1>1. CASE SetTip \/ Withdraw BY <1>1, NodeServes, ZenonT(60)
<1>2. ASSUME NEW r \in Readers, Begin(r) \/ ReadStep(r) PROVE Served'
  BY <1>2, BeginServes, ResolveServes, RefreshServes, LayoutServes, ZenonT(60) DEF ReadStep
<1>3. CASE UNCHANGED vars
  <2>1. UNCHANGED <<tip, generation, stored, available, begun, position, pc, ref,
                    catalogue, refresh>>
    BY <1>3, ZenonT(60) DEF vars, source, local
  <2>2. \A q \in Readers : Undisturbed(q)' = Undisturbed(q)
    BY <2>1, ToldFrame, SMTT(60) DEF Undisturbed
  <2>3. \A q \in Readers : Told(q)'
    BY <2>1, <2>2, ToldFrame, ZenonT(60) DEF Served, Told
  <2> QED BY <2>1, <2>3, ZenonT(60) DEF Served
<1> QED BY <1>1, <1>2, <1>3, ZenonT(60) DEF Next

\* In the words of the property, which counts heights from zero.
LEMMA ServedAnswers == Inductive /\ Served => UndisturbedReadsAnswer
<1> SUFFICES ASSUME Inductive, Served, NEW r \in Readers,
                    pc[r] = "failed", begun[r] = generation, Available,
                    NEW h \in 0 .. Height(tip)
             PROVE  position[r] # SpanOf(BlockAt(tip, h))
  BY ZenonT(60) DEF UndisturbedReadsAnswer
<1>1. Absent(position[r])
  BY ZenonT(60) DEF Served, Told, Undisturbed
<1>2. Len(tip) \in Nat
  BY SMTT(60) DEF Inductive, NodeOK, Chain
<1>3. h + 1 \in 1 .. Len(tip)
  BY <1>2, SMTT(60) DEF Height
<1> QED BY <1>1, <1>3, ZenonT(60) DEF Absent, BlockAt

\* A read that ends in the generation it began in fails only where no active
\* transaction is stored, whatever other readers refresh, abandon or evict.
THEOREM UndisturbedAnswered == Spec => []UndisturbedReadsAnswer
<1>1. Spec => []Inductive BY InductiveHolds, ZenonT(60)
<1>2. Inductive /\ Served /\ [Next]_vars => Served' BY NextServes, ZenonT(60)
<1> QED BY <1>1, <1>2, InitServed, ServedAnswers, PTL DEF Spec
=============================================================================
