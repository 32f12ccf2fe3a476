------------------------------ MODULE HostProofs ------------------------------
(***************************************************************************)
(* What the commands promise of the host, for every value of the           *)
(* constants: what removeManagedBlock does to the user's file however many *)
(* blocks it holds, then the command step by step, and at each step what   *)
(* the steps before it have left of the host.                              *)
(***************************************************************************)
EXTENDS Host, SequenceTheorems, WellFoundedInduction, TLAPS

-----------------------------------------------------------------------------
(* Numbers: a set of them has a least and, within a bound, a greatest one.   *)

\* Every set of naturals has a least element.
LEMMA Least ==
    ASSUME NEW T, T \subseteq Nat, T # {}
    PROVE  \E n \in T : \A m \in T : n <= m
<1> DEFINE Below == {p \in Nat \X Nat : p[1] < p[2]}
<1>1. IsWellFoundedOn(Below, Nat)
  BY NatLessThanWellFounded DEF OpToRel
<1>2. \A m, n \in Nat : <<m, n>> \in Below <=> m < n
  OBVIOUS
<1> HIDE DEF Below
<1>3. PICK n \in T : \A m \in T : ~(<<m, n>> \in Below)
  BY <1>1, WFMin
<1>4. \A m \in T : n <= m
  <2> SUFFICES ASSUME NEW m \in T PROVE n <= m
    OBVIOUS
  <2>1. m \in Nat /\ n \in Nat /\ ~(m < n)
    BY <1>2, <1>3
  <2> QED
    BY <2>1
<1> QED
  BY <1>4

\* Every set of naturals that has a bound has a greatest element.
LEMMA Greatest ==
    ASSUME NEW N \in Nat, NEW T, T \subseteq 0 .. N, T # {}
    PROVE  \E n \in T : \A m \in T : m <= n
<1> DEFINE U == {N - t : t \in T}
<1>1. U \subseteq Nat
  OBVIOUS
<1>2. U # {}
  OBVIOUS
<1>3. PICK u \in U : \A m \in U : u <= m
  <2> HIDE DEF U
  <2> QED
    BY <1>1, <1>2, Least
<1>4. PICK n \in T : u = N - n
  OBVIOUS
<1>5. \A m \in T : m <= n
  <2> SUFFICES ASSUME NEW m \in T PROVE m <= n
    OBVIOUS
  <2>1. N - m \in U
    OBVIOUS
  <2>2. N - n <= N - m
    BY <1>3, <1>4, <2>1
  <2>3. m \in Nat /\ n \in Nat
    OBVIOUS
  <2> QED
    BY <2>2, <2>3
<1> QED
  BY <1>5

-----------------------------------------------------------------------------
(* The lines of gateway.env.                                                 *)

\* The lines that gateway.env may have.
Lines == {Begin, End, Blank} \cup {User(t) : t \in {"a", "b", "c"}} \cup {Managed(t) : t \in Bundles}

\* The text outside of every block; no managed line is among it.
Loose(lines) == {lines[k] : k \in {k \in DOMAIN lines : ~Inside(lines, k)}} \ {Begin, End, Blank}
Wrapped(lines) == \A l \in Loose(lines) : l[1] # "managed"

\* Does the last block of these lines lack its end?
Open(lines) == Inside(lines, Len(lines) + 1)

\* The markers and the blank line are different lines, and neither the user's nor managed.
LEMMA Kinds ==
    /\ Begin # End /\ Begin # Blank /\ End # Blank
    /\ Begin[1] = "begin" /\ End[1] = "end" /\ Blank[1] = "blank"
    /\ Begin \in Lines /\ End \in Lines /\ Blank \in Lines
    /\ \A t \in {"a", "b", "c"} : User(t) \in Lines /\ User(t)[1] = "user"
    /\ \A t \in Bundles : Managed(t) \in Lines /\ Managed(t)[1] = "managed" /\ Managed(t)[2] = t
  BY DEF Begin, End, Blank, User, Managed, Lines

\* What is loose, line by line.
LEMMA LooseLines ==
    ASSUME NEW S, NEW s \in Seq(S), NEW l
    PROVE  l \in Loose(s) <=> /\ l \notin {Begin, End, Blank}
                              /\ \E k \in 1 .. Len(s) : l = s[k] /\ ~Inside(s, k)
  BY LenProperties DEF Loose

\* The user's lines are loose lines, and the same loose lines are the same lines of the user.
LEMMA OutsideIsLoose ==
    ASSUME NEW S, NEW s \in Seq(S), NEW t \in Seq(S), Loose(s) = Loose(t)
    PROVE  Outside(s) = Outside(t)
<1>1. ASSUME NEW f \in Seq(S), NEW x
      PROVE  x \in Outside(f) <=> \E l \in Loose(f) : l[1] = "user" /\ l[2] = x
  <2>1. ASSUME x \in Outside(f) PROVE \E l \in Loose(f) : l[1] = "user" /\ l[2] = x
    <3>1. PICK k \in DOMAIN f : f[k][1] = "user" /\ ~Inside(f, k) /\ f[k][2] = x
      BY <2>1 DEF Outside
    <3>2. f[k] \in Loose(f)
      BY <3>1, Kinds DEF Loose
    <3> QED
      BY <3>1, <3>2
  <2>2. ASSUME NEW l \in Loose(f), l[1] = "user", l[2] = x PROVE x \in Outside(f)
    BY <2>2 DEF Outside, Loose
  <2> QED
    BY <2>1, <2>2
<1> QED
  BY <1>1

\* Lines that follow do not change what is inside of a block.
LEMMA InsideFirst ==
    ASSUME NEW S, NEW p \in Seq(S), NEW q \in Seq(S), NEW k \in 1 .. Len(p) + 1
    PROVE  Inside(p \o q, k) <=> Inside(p, k)
<1>1. \A i \in 1 .. Len(p) : (p \o q)[i] = p[i]
  BY ConcatProperties, LenProperties
<1>2. Len(p) \in Nat
  BY LenProperties
<1>3. ASSUME NEW b \in 1 .. k - 1
      PROVE  /\ (p \o q)[b] = p[b]
             /\ (\A j \in b + 1 .. k - 1 : (p \o q)[j] # End) <=> (\A j \in b + 1 .. k - 1 : p[j] # End)
  <2>1. b \in 1 .. Len(p) /\ \A j \in b + 1 .. k - 1 : j \in 1 .. Len(p)
    BY <1>2
  <2> QED
    BY <2>1, <1>1
<1> QED
  BY <1>3 DEF Inside

\* Lines that precede do, if their last block has no end, up to the first end that follows.
LEMMA InsideSecond ==
    ASSUME NEW S, NEW p \in Seq(S), NEW q \in Seq(S), NEW k \in 1 .. Len(q)
    PROVE  Inside(p \o q, Len(p) + k) <=>
               Inside(q, k) \/ (Open(p) /\ \A j \in 1 .. k - 1 : q[j] # End)
<1> DEFINE pq == p \o q
<1>0. Len(p) \in Nat /\ Len(q) \in Nat
  BY LenProperties
<1>1. \A i \in 1 .. Len(p) : pq[i] = p[i]
  BY ConcatProperties, <1>0
<1>2. \A i \in 1 .. Len(q) : pq[Len(p) + i] = q[i]
  BY ConcatProperties, <1>0
<1>3. \A i \in Len(p) + 1 .. Len(p) + Len(q) : pq[i] = q[i - Len(p)]
  BY ConcatProperties, <1>0
<1> HIDE DEF pq
<1>4. ASSUME Inside(pq, Len(p) + k) PROVE Inside(q, k) \/ (Open(p) /\ \A j \in 1 .. k - 1 : q[j] # End)
  <2>1. PICK b \in 1 .. Len(p) + k - 1 : pq[b] = Begin /\ \A j \in b + 1 .. Len(p) + k - 1 : pq[j] # End
    BY <1>4 DEF Inside
  <2>2. CASE b <= Len(p)
    <3>1. p[b] = Begin /\ \A j \in b + 1 .. Len(p) : p[j] # End
      BY <2>1, <2>2, <1>0, <1>1
    <3>2. Open(p)
      BY <3>1, <2>2, <1>0 DEF Open, Inside
    <3>3. ASSUME NEW j \in 1 .. k - 1 PROVE q[j] # End
      <4>1. Len(p) + j \in b + 1 .. Len(p) + k - 1
        BY <2>2, <1>0
      <4>2. j \in 1 .. Len(q)
        BY <1>0
      <4>3. pq[Len(p) + j] = q[j]
        BY <4>2, <1>2
      <4> QED
        BY <4>1, <4>3, <2>1
    <3> QED
      BY <3>2, <3>3
  <2>3. CASE b > Len(p)
    <3> DEFINE c == b - Len(p)
    <3>1. c \in 1 .. k - 1 /\ b = Len(p) + c
      BY <2>3, <1>0
    <3> HIDE DEF c
    <3>2. q[c] = Begin
      BY <3>1, <2>1, <1>2, <1>0
    <3>3. ASSUME NEW j \in c + 1 .. k - 1 PROVE q[j] # End
      <4>1. Len(p) + j \in b + 1 .. Len(p) + k - 1
        BY <3>1, <1>0
      <4>2. j \in 1 .. Len(q)
        BY <3>1, <1>0
      <4>3. pq[Len(p) + j] = q[j]
        BY <4>2, <1>2
      <4> QED
        BY <4>1, <4>3, <2>1
    <3> QED
      BY <3>1, <3>2, <3>3 DEF Inside
  <2> QED
    BY <2>2, <2>3, <1>0
<1>5. ASSUME Inside(q, k) PROVE Inside(pq, Len(p) + k)
  <2>1. PICK b \in 1 .. k - 1 : q[b] = Begin /\ \A j \in b + 1 .. k - 1 : q[j] # End
    BY <1>5 DEF Inside
  <2>2. pq[Len(p) + b] = Begin
    <3>1. b \in 1 .. Len(q)
      BY <1>0
    <3> QED
      BY <3>1, <2>1, <1>2
  <2>3. ASSUME NEW j \in Len(p) + b + 1 .. Len(p) + k - 1 PROVE pq[j] # End
    <3>1. j - Len(p) \in b + 1 .. k - 1 /\ j \in Len(p) + 1 .. Len(p) + Len(q)
      BY <1>0
    <3> QED
      BY <3>1, <2>1, <1>3
  <2>4. Len(p) + b \in 1 .. Len(p) + k - 1
    BY <1>0
  <2> QED
    BY <2>2, <2>3, <2>4 DEF Inside
<1>6. ASSUME Open(p), \A j \in 1 .. k - 1 : q[j] # End PROVE Inside(pq, Len(p) + k)
  <2>1. PICK b \in 1 .. Len(p) : p[b] = Begin /\ \A j \in b + 1 .. Len(p) : p[j] # End
    BY <1>6, <1>0 DEF Open, Inside
  <2>2. pq[b] = Begin /\ b \in 1 .. Len(p) + k - 1
    BY <2>1, <1>1, <1>0
  <2>3. ASSUME NEW j \in b + 1 .. Len(p) + k - 1 PROVE pq[j] # End
    <3>1. CASE j <= Len(p)
      BY <3>1, <2>1, <1>1, <1>0
    <3>2. CASE j > Len(p)
      <4>1. j - Len(p) \in 1 .. k - 1 /\ j \in Len(p) + 1 .. Len(p) + Len(q)
        BY <3>2, <1>0
      <4> QED
        BY <4>1, <1>6, <1>3
    <3> QED
      BY <3>1, <3>2, <1>0
  <2> QED
    BY <2>2, <2>3 DEF Inside
<1> QED
  BY <1>4, <1>5, <1>6 DEF pq

\* Lines that do not leave a block open, and lines that follow: the loose ones of both.
LEMMA LooseConcat ==
    ASSUME NEW S, NEW p \in Seq(S), NEW q \in Seq(S)
    PROVE  /\ Loose(p \o q) \subseteq Loose(p) \cup Loose(q)
           /\ Loose(p) \subseteq Loose(p \o q)
           /\ ~Open(p) => Loose(p \o q) = Loose(p) \cup Loose(q)
<1> DEFINE pq == p \o q
<1>1. Len(p) \in Nat /\ Len(q) \in Nat /\ pq \in Seq(S) /\ Len(pq) = Len(p) + Len(q)
  BY ConcatProperties, LenProperties
<1>2. \A k \in 1 .. Len(p) : pq[k] = p[k] /\ (Inside(pq, k) <=> Inside(p, k))
  BY ConcatProperties, InsideFirst, <1>1
<1>3. \A k \in 1 .. Len(q) :
          /\ pq[Len(p) + k] = q[k]
          /\ Inside(pq, Len(p) + k) <=> Inside(q, k) \/ (Open(p) /\ \A j \in 1 .. k - 1 : q[j] # End)
  BY ConcatProperties, InsideSecond, <1>1
<1> HIDE DEF pq
<1>4. ASSUME NEW l \in Loose(pq) PROVE l \in Loose(p) \cup Loose(q)
  <2>1. PICK k \in 1 .. Len(pq) : l = pq[k] /\ ~Inside(pq, k)
    BY LooseLines, <1>1
  <2>2. l \notin {Begin, End, Blank}
    BY LooseLines, <1>1
  <2>3. CASE k <= Len(p)
    <3>1. k \in 1 .. Len(p)
      BY <2>3, <1>1
    <3> QED
      BY <3>1, <2>1, <2>2, <1>2, LooseLines
  <2>4. CASE k > Len(p)
    <3>1. k - Len(p) \in 1 .. Len(q) /\ k = Len(p) + (k - Len(p))
      BY <2>4, <1>1
    <3>2. l = q[k - Len(p)] /\ ~Inside(q, k - Len(p))
      BY <3>1, <2>1, <1>3
    <3> QED
      BY <3>1, <3>2, <2>2, LooseLines
  <2> QED
    BY <2>3, <2>4, <1>1
<1>5. ASSUME NEW l \in Loose(p) PROVE l \in Loose(pq)
  <2>1. PICK k \in 1 .. Len(p) : l = p[k] /\ ~Inside(p, k)
    BY LooseLines
  <2>2. l \notin {Begin, End, Blank}
    BY LooseLines
  <2>3. k \in 1 .. Len(pq) /\ l = pq[k] /\ ~Inside(pq, k)
    BY <2>1, <1>1, <1>2
  <2> QED
    BY <2>2, <2>3, <1>1, LooseLines
<1>6. ASSUME ~Open(p), NEW l \in Loose(q) PROVE l \in Loose(pq)
  <2>1. PICK k \in 1 .. Len(q) : l = q[k] /\ ~Inside(q, k)
    BY LooseLines
  <2>2. l \notin {Begin, End, Blank}
    BY LooseLines
  <2>3. Len(p) + k \in 1 .. Len(pq) /\ l = pq[Len(p) + k] /\ ~Inside(pq, Len(p) + k)
    BY <2>1, <1>1, <1>3, <1>6
  <2> QED
    BY <2>2, <2>3, <1>1, LooseLines
<1>7. Loose(pq) \subseteq Loose(p) \cup Loose(q)
  BY <1>4
<1>8. Loose(p) \subseteq Loose(pq)
  BY <1>5
<1>9. ~Open(p) => Loose(q) \subseteq Loose(pq)
  BY <1>6
<1> QED
  BY <1>7, <1>8, <1>9 DEF pq

\* Blank lines and markers hold nothing loose.
LEMMA LooseNone ==
    ASSUME NEW S, NEW s \in Seq(S), ToSet(s) \subseteq {Begin, End, Blank}
    PROVE  Loose(s) = {}
  BY LooseLines, LenProperties DEF ToSet

\* Lines without a begin are loose, all but markers and blank ones, and open no block.
LEMMA LooseWithoutBegin ==
    ASSUME NEW S, NEW s \in Seq(S), Begin \notin ToSet(s)
    PROVE  /\ Loose(s) = ToSet(s) \ {Begin, End, Blank}
           /\ ~Open(s)
<1>1. \A k \in 1 .. Len(s) : s[k] # Begin
  BY LenProperties DEF ToSet
<1>2. ~Open(s) /\ \A k \in 1 .. Len(s) : ~Inside(s, k)
  BY <1>1, LenProperties DEF Open, Inside
<1>3. ASSUME NEW l PROVE l \in Loose(s) <=> l \in ToSet(s) \ {Begin, End, Blank}
  BY <1>2, LooseLines, LenProperties DEF ToSet
<1> QED
  BY <1>2, <1>3

\* From a marker on there is nothing loose up to the first end, and the end closes the block.
LEMMA LooseBlock ==
    ASSUME NEW S, NEW s \in Seq(S), s # <<>>, s[1] = Begin,
           \A k \in 1 .. Len(s) - 1 : s[k] # End
    PROVE  /\ s[Len(s)] = End => ~Open(s)
           /\ Loose(s) = {}
<1>1. Len(s) \in Nat \ {0}
  BY EmptySeq
<1>2. ASSUME NEW k \in 2 .. Len(s) PROVE Inside(s, k)
  <2>1. 1 \in 1 .. k - 1 /\ \A j \in 1 + 1 .. k - 1 : s[j] # End
    BY <1>1
  <2> QED
    BY <2>1 DEF Inside
<1>3. ASSUME s[Len(s)] = End PROVE ~Open(s)
  <2>1. SUFFICES ASSUME NEW b \in 1 .. Len(s), s[b] = Begin, \A j \in b + 1 .. Len(s) : s[j] # End
                 PROVE  FALSE
    BY <1>1 DEF Open, Inside
  <2>2. b # Len(s)
    BY <2>1, <1>3, Kinds
  <2>3. Len(s) \in b + 1 .. Len(s)
    BY <2>2, <1>1
  <2> QED
    BY <2>1, <2>3, <1>3
<1>4. ASSUME NEW l \in Loose(s) PROVE FALSE
  <2>1. PICK k \in 1 .. Len(s) : l = s[k] /\ ~Inside(s, k)
    BY LooseLines
  <2>2. k = 1
    BY <2>1, <1>2, <1>1
  <2> QED
    BY <2>1, <2>2, LooseLines
<1> QED
  BY <1>3, <1>4

-----------------------------------------------------------------------------
(* RemoveManagedBlock: one turn, and all of them.                            *)

\* FirstOf finds the first place of a line, 0 if there is none.
LEMMA FirstOfIsFirst ==
    ASSUME NEW S, NEW s \in Seq(S), NEW line, NEW from \in 1 .. Len(s) + 1
    PROVE  LET at == FirstOf(line, s, from)
           IN \/ /\ at = 0
                 /\ \A k \in from .. Len(s) : s[k] # line
              \/ /\ at \in from .. Len(s) /\ s[at] = line
                 /\ \A k \in from .. at - 1 : s[k] # line
<1> DEFINE at == {k \in from .. Len(s) : s[k] = line}
<1>1. Len(s) \in Nat
  BY LenProperties
<1>2. CASE at = {}
  <2>1. FirstOf(line, s, from) = 0
    BY <1>2 DEF FirstOf
  <2>2. \A k \in from .. Len(s) : s[k] # line
    BY <1>2
  <2> QED
    BY <2>1, <2>2
<1>3. CASE at # {}
  <2> DEFINE first == CHOOSE k \in at : \A j \in at : k <= j
  <2>1. at \subseteq Nat
    BY <1>1
  <2>2. FirstOf(line, s, from) = first
    BY <1>3 DEF FirstOf
  <2>3. first \in at /\ \A j \in at : first <= j
    <3> HIDE DEF at
    <3> QED
      BY <1>3, <2>1, Least
  <2>4. first \in from .. Len(s) /\ s[first] = line
    BY <2>3
  <2>5. ASSUME NEW k \in from .. first - 1 PROVE s[k] # line
    <3>1. k \in from .. Len(s) /\ ~(first <= k)
      BY <2>4, <1>1
    <3> HIDE DEF first
    <3> QED
      BY <3>1, <2>3
  <2> QED
    BY <2>2, <2>4, <2>5
<1> QED
  BY <1>2, <1>3

\* Trimmed lines are the first ones, and the rest of them are blank.
LEMMA Trimmed ==
    ASSUME NEW S, NEW s \in Seq(S)
    PROVE  \E n \in 0 .. Len(s) : /\ TrimRight(s) = SubSeq(s, 1, n)
                                  /\ \A k \in n + 1 .. Len(s) : s[k] = Blank
<1> DEFINE text == {k \in DOMAIN s : s[k] # Blank}
<1>1. Len(s) \in Nat /\ DOMAIN s = 1 .. Len(s)
  BY LenProperties
<1>2. CASE text = {}
  <2>1. TrimRight(s) = SubSeq(s, 1, 0)
    BY <1>2, SubSeqEmpty DEF TrimRight
  <2>2. \A k \in 0 + 1 .. Len(s) : s[k] = Blank
    BY <1>1, <1>2
  <2> QED
    BY <2>1, <2>2, <1>1
<1>3. CASE text # {}
  <2> DEFINE last == CHOOSE k \in text : \A j \in text : j <= k
  <2>1. text \subseteq 0 .. Len(s)
    BY <1>1
  <2>2. TrimRight(s) = SubSeq(s, 1, last)
    BY <1>3 DEF TrimRight
  <2>3. last \in text /\ \A j \in text : j <= last
    <3> HIDE DEF text
    <3> QED
      BY <1>3, <2>1, <1>1, Greatest
  <2>4. last \in 0 .. Len(s)
    BY <2>3, <1>1
  <2>5. ASSUME NEW k \in last + 1 .. Len(s) PROVE s[k] = Blank
    <3>1. k \in DOMAIN s /\ ~(k <= last)
      BY <2>4, <1>1
    <3> HIDE DEF last
    <3> QED
      BY <3>1, <2>3
  <2> QED
    BY <2>2, <2>4, <2>5
<1> QED
  BY <1>2, <1>3

\* Two pieces of a file are a file: their lines, their loose lines, and the markers in them.
LEMMA Pieces ==
    ASSUME NEW S, NEW s \in Seq(S), NEW m \in 1 .. Len(s) + 1, NEW k \in m - 1 .. Len(s)
    PROVE  /\ SubSeq(s, m, k) \in Seq(S) /\ SubSeq(s, k + 1, Len(s)) \in Seq(S)
           /\ Len(SubSeq(s, m, k)) = k - m + 1
           /\ \A i \in 1 .. k - m + 1 : SubSeq(s, m, k)[i] = s[m + i - 1]
           /\ SubSeq(s, m, Len(s)) = SubSeq(s, m, k) \o SubSeq(s, k + 1, Len(s))
<1>1. Len(s) \in Nat /\ \A i \in 1 .. Len(s) : s[i] \in S
  BY LenProperties, ElementOfSeq
<1>2. SubSeq(s, m, k) \in Seq(S) /\ SubSeq(s, k + 1, Len(s)) \in Seq(S)
  BY <1>1, SubSeqProperties
<1>3. Len(SubSeq(s, m, k)) = k - m + 1 /\ \A i \in 1 .. k - m + 1 : SubSeq(s, m, k)[i] = s[m + i - 1]
  BY <1>1, SubSeqProperties
<1>4. SubSeq(s, m, Len(s)) = SubSeq(s, m, k) \o SubSeq(s, k + 1, Len(s))
  <2>1. Len(s) \in k .. Len(s)
    BY <1>1
  <2> QED
    BY <2>1, ConcatAdjacentSubSeq
<1> QED
  BY <1>2, <1>3, <1>4

\* Trimming takes blank lines away.
LEMMA TrimmedIsLoose ==
    ASSUME NEW S, NEW s \in Seq(S), Begin \notin ToSet(s)
    PROVE  /\ TrimRight(s) \in Seq(S)
           /\ Loose(TrimRight(s)) = Loose(s)
           /\ Begin \notin ToSet(TrimRight(s))
<1>1. PICK n \in 0 .. Len(s) : /\ TrimRight(s) = SubSeq(s, 1, n)
                               /\ \A k \in n + 1 .. Len(s) : s[k] = Blank
  BY Trimmed
<1> DEFINE left == SubSeq(s, 1, n)
           right == SubSeq(s, n + 1, Len(s))
<1>2. Len(s) \in Nat /\ \A i \in 1 .. Len(s) : s[i] \in S /\ s[i] # Begin
  BY LenProperties, ElementOfSeq DEF ToSet
<1>3. left \in Seq(S) /\ right \in Seq(S) /\ s = left \o right
  <2>1. 1 \in 1 .. Len(s) + 1 /\ n \in 1 - 1 .. Len(s)
    BY <1>2
  <2>2. SubSeq(s, 1, Len(s)) = s
    BY SubSeqFull
  <2>3. SubSeq(s, 1, n) \in Seq(S) /\ SubSeq(s, n + 1, Len(s)) \in Seq(S)
    BY <2>1, Pieces
  <2>4. SubSeq(s, 1, Len(s)) = SubSeq(s, 1, n) \o SubSeq(s, n + 1, Len(s))
    BY <2>1, Pieces
  <2> QED
    BY <2>2, <2>3, <2>4
<1>4. Len(left) = n /\ \A i \in 1 .. n : left[i] = s[i]
  BY <1>2, SubSeqProperties
<1>5. Len(right) = Len(s) - n /\ \A i \in 1 .. Len(s) - n : right[i] = s[n + i]
  BY <1>2, SubSeqProperties
<1>6. ToSet(right) \subseteq {Blank}
  <2> SUFFICES ASSUME NEW i \in 1 .. Len(right) PROVE right[i] = Blank
    BY <1>3, LenProperties DEF ToSet
  <2>1. n + i \in n + 1 .. Len(s)
    BY <1>2, <1>5
  <2> QED
    BY <2>1, <1>1, <1>5
<1>7. Begin \notin ToSet(left)
  <2> SUFFICES ASSUME NEW i \in 1 .. Len(left) PROVE left[i] # Begin
    BY <1>3, LenProperties DEF ToSet
  <2>1. i \in 1 .. Len(s) /\ left[i] = s[i]
    BY <1>2, <1>4
  <2> QED
    BY <2>1, <1>2
<1> HIDE DEF left, right
<1>8. Loose(right) = {}
  BY <1>3, <1>6, LooseNone
<1>9. Loose(s) = Loose(left) \cup Loose(right)
  BY <1>3, <1>7, LooseConcat, LooseWithoutBegin
<1> QED
  BY <1>1, <1>3, <1>7, <1>8, <1>9 DEF left

\* One turn of removeManagedBlock: the loose lines stay, and a marker is taken away if there is one.
LEMMA RemoveFirstBlockKeeps ==
    ASSUME NEW S, Blank \in S, NEW s \in Seq(S), NEW r, r = RemoveFirstBlock(s)
    PROVE  /\ r \in Seq(S) /\ Loose(r) = Loose(s)
           /\ Begin \notin ToSet(r) \/ Len(r) < Len(s)
<1> DEFINE b == FirstOf(Begin, s, 1)
           e == FirstOf(End, s, b)
           head == SubSeq(s, 1, b - 1)
           rest == SubSeq(s, b, Len(s))
<1>1. Len(s) \in Nat /\ DOMAIN s = 1 .. Len(s) /\ \A i \in 1 .. Len(s) : s[i] \in S
  BY LenProperties, ElementOfSeq
<1>2. CASE b = 0
  <2>1. \A k \in 1 .. Len(s) : s[k] # Begin
    BY <1>1, <1>2, FirstOfIsFirst
  <2>2. Begin \notin ToSet(s)
    BY <2>1, <1>1 DEF ToSet
  <2>3. r = s
    BY <1>2 DEF RemoveFirstBlock
  <2> QED
    BY <2>2, <2>3
<1>3. CASE b # 0
  <2>1. b \in 1 .. Len(s) /\ s[b] = Begin /\ \A k \in 1 .. b - 1 : s[k] # Begin
    BY <1>1, <1>3, FirstOfIsFirst
  <2>2. \/ e = 0 /\ \A k \in b .. Len(s) : s[k] # End
        \/ e \in b .. Len(s) /\ s[e] = End /\ \A k \in b .. e - 1 : s[k] # End
    <3> HIDE DEF b
    <3> QED
      BY <1>1, <2>1, FirstOfIsFirst
  <2>3. r = IF e = 0 THEN IF AllBlank(head) THEN <<Blank>> ELSE TrimRight(head)
            ELSE (IF AllBlank(head) THEN <<>> ELSE head) \o SubSeq(s, e + 1, Len(s))
    BY <1>3 DEF RemoveFirstBlock
  <2> HIDE DEF b, e
  <2>4. /\ head \in Seq(S) /\ rest \in Seq(S) /\ s = head \o rest
        /\ Len(head) = b - 1 /\ \A i \in 1 .. b - 1 : head[i] = s[i]
    <3>1. 1 \in 1 .. Len(s) + 1 /\ b - 1 \in 1 - 1 .. Len(s) /\ (b - 1) + 1 = b
      BY <2>1, <1>1
    <3> QED
      BY <3>1, <2>1, Pieces, SubSeqFull
  <2>5. Begin \notin ToSet(head)
    <3> SUFFICES ASSUME NEW i \in 1 .. Len(head) PROVE head[i] # Begin
      BY <2>4, LenProperties DEF ToSet
    <3> QED
      BY <2>1, <2>4
  <2>6. Loose(s) = Loose(head) \cup Loose(rest)
    <3> HIDE DEF head, rest
    <3> QED
      BY <2>4, <2>5, LooseConcat, LooseWithoutBegin
  <2>7. AllBlank(head) => Loose(head) = {}
    BY <2>4, LooseNone DEF AllBlank
  <2>8. /\ Len(rest) = Len(s) - b + 1
        /\ \A i \in 1 .. Len(s) - b + 1 : rest[i] = s[b + i - 1]
    BY <2>1, <1>1, SubSeqProperties
  <2>9. CASE e = 0
    <3>1. \A k \in b .. Len(s) : s[k] # End
      BY <2>9, <2>2, <2>1
    <3>2. rest # <<>> /\ rest[1] = Begin /\ \A k \in 1 .. Len(rest) - 1 : rest[k] # End
      <4>1. ASSUME NEW k \in 1 .. Len(rest) - 1 PROVE rest[k] # End
        <5>1. b + k - 1 \in b .. Len(s) /\ rest[k] = s[b + k - 1]
          BY <2>1, <2>8, <1>1
        <5> QED
          BY <5>1, <3>1
      <4>2. rest[1] = Begin
        BY <2>1, <2>8, <1>1
      <4>3. Len(rest) # 0
        BY <2>1, <2>8, <1>1
      <4> QED
        BY <4>1, <4>2, <4>3, EmptySeq
    <3>3. Loose(rest) = {}
      <4> HIDE DEF rest
      <4> QED
        BY <3>2, <2>4, LooseBlock
    <3>4. CASE AllBlank(head)
      <4>1. r = <<Blank>>
        BY <2>3, <2>9, <3>4
      <4>2. r \in Seq(S) /\ ToSet(r) = {Blank}
        BY <4>1 DEF ToSet
      <4>3. Loose(r) = {}
        BY <4>2, LooseNone
      <4> QED
        BY <4>2, <4>3, <3>3, <3>4, <2>6, <2>7, Kinds
    <3>5. CASE ~AllBlank(head)
      <4>1. r = TrimRight(head)
        BY <2>3, <2>9, <3>5
      <4>2. r \in Seq(S) /\ Loose(r) = Loose(head) /\ Begin \notin ToSet(r)
        <5> HIDE DEF head
        <5> QED
          BY <4>1, <2>4, <2>5, TrimmedIsLoose
      <4> QED
        BY <4>2, <3>3, <2>6
    <3> QED
      BY <3>4, <3>5
  <2>10. CASE e # 0
    <3> DEFINE block == SubSeq(s, b, e)
               tail == SubSeq(s, e + 1, Len(s))
               kept == IF AllBlank(head) THEN <<>> ELSE head
    <3>1. e \in b .. Len(s) /\ s[e] = End /\ \A k \in b .. e - 1 : s[k] # End
      BY <2>10, <2>2
    <3>2. /\ block \in Seq(S) /\ tail \in Seq(S) /\ rest = block \o tail
          /\ Len(block) = e - b + 1 /\ \A i \in 1 .. e - b + 1 : block[i] = s[b + i - 1]
      <4>1. b \in 1 .. Len(s) + 1 /\ e \in b - 1 .. Len(s)
        BY <2>1, <3>1, <1>1
      <4> QED
        BY <4>1, Pieces
    <3>3. block # <<>> /\ block[1] = Begin /\ block[Len(block)] = End
      <4>1. Len(block) # 0 /\ 1 \in 1 .. e - b + 1 /\ e - b + 1 \in 1 .. e - b + 1 /\ b + (e - b + 1) - 1 = e
        <5>1. b \in Nat /\ e \in Nat /\ b <= e
          BY <2>1, <3>1, <1>1
        <5>2. Len(block) = e - b + 1
          BY <3>2
        <5> HIDE DEF block
        <5> QED
          BY <5>1, <5>2
      <4>2. block[1] = s[b + 1 - 1] /\ block[e - b + 1] = s[b + (e - b + 1) - 1]
        BY <4>1, <3>2
      <4>3. b + 1 - 1 = b
        BY <2>1
      <4> QED
        BY <4>1, <4>2, <4>3, <2>1, <3>1, <3>2, EmptySeq
    <3>4. \A k \in 1 .. Len(block) - 1 : block[k] # End
      <4> SUFFICES ASSUME NEW k \in 1 .. Len(block) - 1 PROVE block[k] # End
        OBVIOUS
      <4>1. b + k - 1 \in b .. e - 1 /\ block[k] = s[b + k - 1]
        BY <2>1, <3>1, <3>2, <1>1
      <4> QED
        BY <4>1, <3>1
    <3>5. Loose(rest) = Loose(tail)
      <4> HIDE DEF block, tail, rest
      <4> QED
        <5>1. ~Open(block) /\ Loose(block) = {}
          BY <3>2, <3>3, <3>4, LooseBlock
        <5>2. Loose(rest) = Loose(block) \cup Loose(tail)
          BY <5>1, <3>2, LooseConcat
        <5> QED
          BY <5>1, <5>2
    <3>6. kept \in Seq(S) /\ Begin \notin ToSet(kept) /\ Loose(kept) = Loose(head) /\ Len(kept) <= b - 1
      <4>1. CASE AllBlank(head)
        <5>1. kept = <<>> /\ ToSet(kept) = {} /\ kept \in Seq(S) /\ Len(kept) = 0
          BY <4>1 DEF ToSet
        <5>2. Loose(kept) = {}
          <6> HIDE DEF kept
          <6> QED
            BY <5>1, LooseNone
        <5>3. 0 <= b - 1
          BY <2>1
        <5> HIDE DEF kept, head
        <5> QED
          BY <4>1, <5>1, <5>2, <5>3, <2>7
      <4>2. CASE ~AllBlank(head)
        BY <4>2, <2>4, <2>5, <2>1
      <4> QED
        BY <4>1, <4>2
    <3>7. r = kept \o tail
      BY <2>3, <2>10
    <3>8. Len(tail) = Len(s) - e
      <4>1. e + 1 \in Int /\ Len(s) \in Int /\ \A i \in e + 1 .. Len(s) : s[i] \in S
        BY <3>1, <2>1, <1>1
      <4>2. Len(tail) = IF e + 1 <= Len(s) THEN Len(s) - (e + 1) + 1 ELSE 0
        BY <4>1, SubSeqProperties
      <4> QED
        BY <4>1, <4>2, <3>1, <2>1
    <3> HIDE DEF kept, tail
    <3>9. r \in Seq(S) /\ Len(r) = Len(kept) + Len(tail) /\ Loose(r) = Loose(kept) \cup Loose(tail)
      BY <3>7, <3>6, <3>2, ConcatProperties, LooseConcat, LooseWithoutBegin
    <3>10. Len(r) < Len(s)
      BY <3>9, <3>8, <3>6, <3>1, <2>1, <1>1, LenProperties
    <3> QED
      BY <3>5, <3>6, <3>9, <3>10, <2>6
  <2> QED
    BY <2>9, <2>10
<1> QED
  BY <1>2, <1>3

\* The turns of the loop, the n-th being the file after n of them, are well defined.
LEMMA TurnsExist ==
    ASSUME NEW lines, NEW N \in Nat
    PROVE  \E f : f = [n \in 0 .. N |-> IF n = 0 THEN lines ELSE RemoveFirstBlock(f[n - 1])]
<1> DEFINE Turns(m, f) == f = [n \in 0 .. m |-> IF n = 0 THEN lines ELSE RemoveFirstBlock(f[n - 1])]
           Without == {m \in Nat : ~\E f : Turns(m, f)}
<1>1. SUFFICES ASSUME Without # {} PROVE FALSE
  BY DEF Without
<1>2. PICK m \in Without : \A k \in Without : m <= k
  <2>1. Without \subseteq Nat
    OBVIOUS
  <2> HIDE DEF Without
  <2> QED
    BY <1>1, <2>1, Least
<1>3. m \in Nat /\ ~\E f : Turns(m, f)
  OBVIOUS
<1>4. m # 0
  <2> DEFINE f == [n \in 0 .. 0 |-> lines]
  <2>1. Turns(0, f)
    OBVIOUS
  <2> QED
    BY <2>1, <1>3
<1>5. m - 1 \in Nat /\ m - 1 \notin Without
  BY <1>2, <1>3, <1>4
<1>6. PICK f : Turns(m - 1, f)
  BY <1>5
<1> DEFINE g == [n \in 0 .. m |-> IF n = m THEN RemoveFirstBlock(f[m - 1]) ELSE f[n]]
<1>7. \A n \in 0 .. m - 1 : g[n] = f[n] /\ f[n] = IF n = 0 THEN lines ELSE RemoveFirstBlock(f[n - 1])
  BY <1>3, <1>6
<1>8. \A n \in 0 .. m : g[n] = IF n = 0 THEN lines ELSE RemoveFirstBlock(g[n - 1])
  <2> SUFFICES ASSUME NEW n \in 0 .. m PROVE g[n] = IF n = 0 THEN lines ELSE RemoveFirstBlock(g[n - 1])
    OBVIOUS
  <2>1. CASE n = m
    <3>1. g[n] = RemoveFirstBlock(f[m - 1]) /\ m - 1 \in 0 .. m - 1
      BY <2>1, <1>5
    <3> HIDE DEF g
    <3> QED
      BY <3>1, <2>1, <1>4, <1>7
  <2>2. CASE n # m
    <3>1. n \in 0 .. m - 1 /\ (n # 0 => n - 1 \in 0 .. m - 1)
      BY <2>2, <1>3
    <3> HIDE DEF g
    <3> QED
      BY <3>1, <1>7
  <2> QED
    BY <2>1, <2>2
<1>9. Turns(m, g)
  <2>1. g = [n \in 0 .. m |-> g[n]]
    OBVIOUS
  <2> HIDE DEF g
  <2> QED
    BY <2>1, <1>8
<1> QED
  BY <1>3, <1>9

\* removeManagedBlock leaves the loose lines, and no block.
LEMMA RemoveManagedBlockKeeps ==
    ASSUME NEW S, Blank \in S, NEW s \in Seq(S), NEW r, r = RemoveManagedBlock(s)
    PROVE  r \in Seq(S) /\ Loose(r) = Loose(s) /\ Begin \notin ToSet(r)
<1> DEFINE N == Len(s)
           after == CHOOSE f : f = [n \in 0 .. N |-> IF n = 0 THEN s ELSE RemoveFirstBlock(f[n - 1])]
<1>1. N \in Nat
  BY LenProperties
<1>2. r = after[N]
  BY DEF RemoveManagedBlock
<1>3. after = [n \in 0 .. N |-> IF n = 0 THEN s ELSE RemoveFirstBlock(after[n - 1])]
  <2> HIDE DEF N
  <2>1. \E f : f = [n \in 0 .. N |-> IF n = 0 THEN s ELSE RemoveFirstBlock(f[n - 1])]
    BY <1>1, TurnsExist
  <2> QED
    BY <2>1
<1> HIDE DEF after
<1>4. \A n \in 0 .. N : after[n] = IF n = 0 THEN s ELSE RemoveFirstBlock(after[n - 1])
  BY <1>3
<1> DEFINE Kept(n) == /\ after[n] \in Seq(S) /\ Loose(after[n]) = Loose(s)
                      /\ Begin \notin ToSet(after[n]) \/ Len(after[n]) + n <= N
           Lost == {n \in 0 .. N : ~Kept(n)}
<1>5. Lost = {}
  <2>1. SUFFICES ASSUME Lost # {} PROVE FALSE
    OBVIOUS
  <2>2. PICK n \in Lost : \A k \in Lost : n <= k
    <3>1. Lost \subseteq Nat
      BY <1>1
    <3> HIDE DEF Lost
    <3> QED
      BY <2>1, <3>1, Least
  <2>3. n \in 0 .. N /\ ~Kept(n)
    OBVIOUS
  <2>4. n # 0
    BY <2>3, <1>1, <1>4
  <2>5. n - 1 \in 0 .. N /\ n - 1 \notin Lost
    BY <2>2, <2>3, <2>4, <1>1
  <2>6. Kept(n - 1)
    BY <2>5
  <2> DEFINE t == after[n - 1]
             u == after[n]
  <2>7. u = RemoveFirstBlock(t)
    BY <2>3, <2>4, <1>4
  <2>8. t \in Seq(S) /\ Loose(t) = Loose(s) /\ (Begin \notin ToSet(t) \/ Len(t) + (n - 1) <= N)
    BY <2>6
  <2> HIDE DEF t, u
  <2>9. u \in Seq(S) /\ Loose(u) = Loose(s) /\ (Begin \notin ToSet(u) \/ Len(u) < Len(t))
    BY <2>7, <2>8, RemoveFirstBlockKeeps
  <2>10. Begin \notin ToSet(t) => Begin \notin ToSet(u)
    <3> SUFFICES ASSUME Begin \notin ToSet(t) PROVE u = t
      OBVIOUS
    <3>1. FirstOf(Begin, t, 1) = 0
      <4>1. \A k \in 1 .. Len(t) : t[k] # Begin
        BY <2>8, LenProperties DEF ToSet
      <4>2. 1 \in 1 .. Len(t) + 1
        BY <2>8, LenProperties
      <4> QED
        BY <4>1, <4>2, <2>8, FirstOfIsFirst
    <3> QED
      BY <3>1, <2>7 DEF RemoveFirstBlock
  <2>11. Begin \notin ToSet(u) \/ Len(u) + n <= N
    BY <2>3, <2>8, <2>9, <2>10, <1>1, LenProperties
  <2> QED
    BY <2>3, <2>9, <2>11 DEF u
<1>6. Kept(N)
  <2>1. N \in 0 .. N /\ N \notin Lost
    BY <1>1, <1>5
  <2> QED
    BY <2>1
<1>7. r \in Seq(S) /\ Loose(r) = Loose(s) /\ (Begin \notin ToSet(r) \/ Len(r) + N <= N)
  BY <1>2, <1>6
<1>8. Begin \notin ToSet(r)
  <2>1. Len(r) \in Nat /\ DOMAIN r = 1 .. Len(r)
    BY <1>7, LenProperties
  <2>2. Len(r) + N <= N => Len(r) = 0
    BY <2>1, <1>1
  <2>3. Len(r) = 0 => ToSet(r) = {}
    BY <2>1 DEF ToSet
  <2> QED
    BY <1>7, <2>2, <2>3
<1> QED
  BY <1>7, <1>8

-----------------------------------------------------------------------------
(* What the commands and the user make of gateway.env.                       *)

\* The same loose lines, or fewer, are as well wrapped.
LEMMA WrappedIsLoose ==
    ASSUME NEW s, NEW t, Wrapped(s), Loose(t) \subseteq Loose(s)
    PROVE  Wrapped(t)
  BY DEF Wrapped

\* A file without a block has no managed line, if all of them were in blocks.
LEMMA NothingWired ==
    ASSUME NEW S, NEW s \in Seq(S), Wrapped(s), Begin \notin ToSet(s)
    PROVE  WiredTo(s) = None
<1>1. ASSUME NEW k \in DOMAIN s, s[k][1] = "managed" PROVE FALSE
  <2>1. s[k] \in ToSet(s) \ {Begin, End, Blank}
    BY <1>1, Kinds DEF ToSet
  <2>2. s[k] \in Loose(s)
    BY <2>1, LooseWithoutBegin
  <2> QED
    BY <2>2, <1>1 DEF Wrapped
<1> QED
  BY <1>1 DEF WiredTo

\* UpsertManagedBlock leaves the loose lines, and one block, which names the bundle.
LEMMA UpsertKeeps ==
    ASSUME NEW s \in Seq(Lines), NEW tls \in Bundles, NEW r, r = UpsertManagedBlock(s, tls)
    PROVE  r \in Seq(Lines) /\ Loose(r) = Loose(s) /\ Begin \in ToSet(r) /\ WiredTo(r) = tls
<1> DEFINE stripped == RemoveManagedBlock(s)
           kept == IF AllBlank(stripped) THEN <<>> ELSE stripped
           block == <<Begin, Managed(tls), End>>
<1>1. stripped \in Seq(Lines) /\ Loose(stripped) = Loose(s) /\ Begin \notin ToSet(stripped)
  BY RemoveManagedBlockKeeps, Kinds
<1>2. kept \in Seq(Lines) /\ Loose(kept) = Loose(s) /\ Begin \notin ToSet(kept)
  <2>1. CASE AllBlank(stripped)
    <3>1. kept = <<>> /\ ToSet(kept) = {} /\ kept \in Seq(Lines)
      BY <2>1 DEF ToSet
    <3> HIDE DEF kept, stripped
    <3>2. Loose(kept) = {}
      BY <3>1, LooseNone
    <3>3. Loose(stripped) = {}
      BY <2>1, <1>1, LooseNone DEF AllBlank
    <3> QED
      BY <3>1, <3>2, <3>3, <1>1
  <2>2. CASE ~AllBlank(stripped)
    BY <2>2, <1>1
  <2> QED
    BY <2>1, <2>2
<1>3. r = kept \o block
  BY DEF UpsertManagedBlock
<1>4. /\ block \in Seq(Lines) /\ Len(block) = 3
      /\ block[1] = Begin /\ block[2] = Managed(tls) /\ block[3] = End
  BY Kinds
<1> HIDE DEF kept, stripped, block
<1>5. Loose(block) = {}
  <2>1. block # <<>>
    BY <1>4, EmptySeq
  <2>2. \A k \in 1 .. Len(block) - 1 : block[k] # End
    <3>1. Managed(tls) # End
      BY Kinds
    <3>2. \A k \in 1 .. Len(block) - 1 : k = 1 \/ k = 2
      BY <1>4
    <3> QED
      BY <3>1, <3>2, <1>4, Kinds
  <2> QED
    BY <2>1, <2>2, <1>4, LooseBlock
<1>6. r \in Seq(Lines) /\ Loose(r) = Loose(s)
  <2>1. ~Open(kept)
    BY <1>2, LooseWithoutBegin
  <2>2. Loose(r) = Loose(kept) \cup Loose(block)
    BY <2>1, <1>2, <1>3, <1>4, LooseConcat
  <2>3. r \in Seq(Lines)
    BY <1>2, <1>3, <1>4, ConcatProperties
  <2> QED
    BY <2>2, <2>3, <1>2, <1>5
<1> DEFINE n == Len(kept)
<1>7. /\ n \in Nat /\ Len(r) = n + 3 /\ DOMAIN r = 1 .. n + 3
      /\ r[n + 1] = Begin /\ r[n + 2] = Managed(tls) /\ r[n + 3] = End
  <2>1. n \in Nat /\ Len(r) = n + 3 /\ DOMAIN r = 1 .. n + 3
    <3>1. Len(r) = Len(kept) + Len(block)
      BY <1>2, <1>3, <1>4, ConcatProperties
    <3>2. Len(kept) \in Nat /\ DOMAIN r = 1 .. Len(r)
      BY <1>2, <1>6, LenProperties
    <3> QED
      BY <3>1, <3>2, <1>4
  <2>2. \A i \in 1 .. n + 3 : r[i] = IF i <= n THEN kept[i] ELSE block[i - n]
    <3>1. \A i \in 1 .. Len(kept) + Len(block) :
              (kept \o block)[i] = IF i <= Len(kept) THEN kept[i] ELSE block[i - Len(kept)]
      BY <1>2, <1>4, ConcatProperties
    <3> QED
      BY <3>1, <1>3, <1>4
  <2>3. r[n + 1] = block[(n + 1) - n] /\ r[n + 2] = block[(n + 2) - n] /\ r[n + 3] = block[(n + 3) - n]
    <3> HIDE DEF n
    <3> QED
      BY <2>1, <2>2
  <2>4. (n + 1) - n = 1 /\ (n + 2) - n = 2 /\ (n + 3) - n = 3
    BY <2>1
  <2> QED
    BY <2>1, <2>3, <2>4, <1>4
<1> HIDE DEF n
<1>8. Begin \in ToSet(r)
  BY <1>7 DEF ToSet
<1>9. WiredTo(r) = tls
  <2> DEFINE at == {k \in DOMAIN r : r[k][1] = "managed"}
  <2>1. n + 2 \in at
    BY <1>7, Kinds
  <2>2. \A j \in at : j <= n + 2
    <3> SUFFICES ASSUME NEW j \in at PROVE j <= n + 2
      OBVIOUS
    <3>1. j \in 1 .. n + 3 /\ j # n + 3
      BY <1>7, Kinds
    <3> QED
      BY <3>1, <1>7
  <2>3. \A j \in at : j \in Nat
    BY <1>7
  <2> DEFINE last == CHOOSE k \in at : \A j \in at : j <= k
  <2>4. WiredTo(r) = r[last][2]
    BY <2>1 DEF WiredTo
  <2> HIDE DEF at
  <2>5. last \in at /\ \A j \in at : j <= last
    BY <2>1, <2>2
  <2>6. last = n + 2
    <3> HIDE DEF last
    <3>1. last <= n + 2 /\ n + 2 <= last /\ last \in Nat
      BY <2>1, <2>2, <2>3, <2>5
    <3> QED
      BY <3>1, <1>7
  <2> HIDE DEF last
  <2> QED
    BY <2>4, <2>6, <1>7, Kinds
<1> QED
  BY <1>6, <1>8, <1>9

\* RemoveManagedBlock and the removal of a file that is left empty leave the loose lines alone.
LEMMA RemoveBlockKeeps ==
    ASSUME NEW s \in Seq(Lines), Wrapped(s), NEW r,
           r = IF RemoveManagedBlock(s) = <<Blank>> THEN <<>> ELSE RemoveManagedBlock(s)
    PROVE  r \in Seq(Lines) /\ Loose(r) = Loose(s) /\ WiredTo(r) = None
<1> DEFINE rest == RemoveManagedBlock(s)
<1>1. rest \in Seq(Lines) /\ Loose(rest) = Loose(s) /\ Begin \notin ToSet(rest)
  BY RemoveManagedBlockKeeps, Kinds
<1> HIDE DEF rest
<1>2. CASE rest = <<Blank>>
  <2>1. r = <<>> /\ r \in Seq(Lines) /\ ToSet(r) = {} /\ ToSet(rest) = {Blank}
    BY <1>2 DEF rest, ToSet
  <2>2. Loose(r) = {} /\ Loose(rest) = {}
    BY <2>1, <1>1, LooseNone
  <2>3. Wrapped(r)
    BY <2>2 DEF Wrapped
  <2> QED
    BY <2>1, <2>2, <2>3, <1>1, NothingWired
<1>3. CASE rest # <<Blank>>
  <2>1. r = rest
    BY <1>3 DEF rest
  <2>2. Wrapped(r)
    BY <2>1, <1>1, WrappedIsLoose
  <2> QED
    BY <2>1, <2>2, <1>1, NothingWired
<1> QED
  BY <1>2, <1>3

\* Whatever the user does to the file, no managed line gets out of its block.
LEMMA EditsKeepWrapped ==
    ASSUME NEW s \in Seq(Lines), Wrapped(s), NEW r,
           \/ r = <<User("b")>> \o s
           \/ r = s \o <<User("c")>>
           \/ r = s \o s
           \/ \E k \in DOMAIN s : s[k] = End /\ r = RemoveAt(s, k)
    PROVE  r \in Seq(Lines) /\ Wrapped(r)
<1>1. ASSUME NEW t \in {"b", "c"}
      PROVE  <<User(t)>> \in Seq(Lines) /\ Wrapped(<<User(t)>>)
  <2>1. User(t) \in Lines /\ User(t)[1] = "user" /\ User(t) # Begin
    BY Kinds
  <2> DEFINE u == <<User(t)>>
  <2>2. u \in Seq(Lines) /\ ToSet(u) = {User(t)}
    BY <2>1 DEF ToSet
  <2> HIDE DEF u
  <2>3. Loose(u) \subseteq {User(t)}
    BY <2>1, <2>2, LooseWithoutBegin
  <2> QED
    BY <2>1, <2>2, <2>3 DEF Wrapped, u
<1>2. ASSUME NEW p \in Seq(Lines), NEW q \in Seq(Lines), Wrapped(p), Wrapped(q)
      PROVE  p \o q \in Seq(Lines) /\ Wrapped(p \o q)
  <2>1. Loose(p \o q) \subseteq Loose(p) \cup Loose(q)
    BY LooseConcat
  <2> QED
    BY <2>1, <1>2, ConcatProperties DEF Wrapped
<1>3. CASE r = <<User("b")>> \o s \/ r = s \o <<User("c")>> \/ r = s \o s
  BY <1>1, <1>2, <1>3
<1>4. ASSUME NEW k \in DOMAIN s, s[k] = End, r = RemoveAt(s, k) PROVE r \in Seq(Lines) /\ Wrapped(r)
  <2> DEFINE p == SubSeq(s, 1, k - 1)
             h == SubSeq(s, 1, k)
             q == SubSeq(s, k + 1, Len(s))
             e == SubSeq(s, k, k)
  <2>1. Len(s) \in Nat /\ k \in 1 .. Len(s)
    BY LenProperties
  <2>2. h \in Seq(Lines) /\ q \in Seq(Lines) /\ s = h \o q
    <3>1. 1 \in 1 .. Len(s) + 1 /\ k \in 1 - 1 .. Len(s)
      BY <2>1
    <3>2. h \in Seq(Lines) /\ q \in Seq(Lines) /\ SubSeq(s, 1, Len(s)) = h \o q
      BY <3>1, Pieces
    <3> QED
      BY <3>2, SubSeqFull
  <2>3. Len(h) = k /\ h[k] = End
    <3>1. 1 \in Int /\ k \in Int /\ \A i \in 1 .. k : s[i] \in Lines
      BY <2>1, ElementOfSeq
    <3>2. Len(h) = (IF 1 <= k THEN k - 1 + 1 ELSE 0) /\ \A i \in 1 .. k - 1 + 1 : h[i] = s[1 + i - 1]
      BY <3>1, SubSeqProperties
    <3>3. k \in 1 .. k - 1 + 1 /\ 1 + k - 1 = k /\ k - 1 + 1 = k /\ 1 <= k
      BY <2>1
    <3> HIDE DEF h
    <3> QED
      BY <3>2, <3>3, <1>4
  <2>4. p \in Seq(Lines) /\ e \in Seq(Lines) /\ h = p \o e
    <3>1. /\ 1 \in 1 .. Len(s) + 1 /\ k - 1 \in 1 - 1 .. Len(s) /\ k \in k - 1 .. Len(s) /\ (k - 1) + 1 = k
          /\ \A i \in 1 .. k - 1 : i \in 1 .. Len(s)
      BY <2>1
    <3>2. SubSeq(s, 1, k - 1) \o SubSeq(s, (k - 1) + 1, k) = SubSeq(s, 1, k)
      BY <3>1, ConcatAdjacentSubSeq
    <3>3. \A i \in 1 .. Len(s) : s[i] \in Lines
      BY ElementOfSeq
    <3>4. p \in Seq(Lines)
      BY <3>1, <3>3, <2>1, SubSeqProperties
    <3>5. e \in Seq(Lines)
      BY <3>3, <2>1, SubSeqProperties
    <3> QED
      BY <3>1, <3>2, <3>4, <3>5
  <2>5. r = p \o q
    BY <1>4 DEF RemoveAt
  <2> HIDE DEF p, h, q, e
  <2>6. ~Open(h)
    <3>1. SUFFICES ASSUME NEW b \in 1 .. k, h[b] = Begin, \A j \in b + 1 .. k : h[j] # End PROVE FALSE
      BY <2>1, <2>3 DEF Open, Inside
    <3>2. b # k
      BY <3>1, <2>3, Kinds
    <3>3. k \in b + 1 .. k
      BY <3>2, <2>1
    <3> QED
      BY <3>1, <3>3, <2>3
  <2>7. Loose(s) = Loose(h) \cup Loose(q)
    BY <2>2, <2>6, LooseConcat
  <2>8. Loose(p) \subseteq Loose(h)
    BY <2>4, LooseConcat
  <2>9. Loose(r) \subseteq Loose(p) \cup Loose(q)
    BY <2>2, <2>4, <2>5, LooseConcat
  <2>10. Loose(r) \subseteq Loose(s)
    BY <2>7, <2>8, <2>9
  <2> QED
    BY <2>2, <2>4, <2>5, <2>10, ConcatProperties, WrappedIsLoose
<1> QED
  BY <1>3, <1>4

-----------------------------------------------------------------------------
(* Versions.                                                                 *)

\* The versions, major, minor and patch.
Versions == Nat \X (0 .. 999) \X (0 .. 999)

\* A version consists of its three numbers.
LEMMA Numbers ==
    ASSUME NEW v \in Versions
    PROVE  v[1] \in Nat /\ v[2] \in 0 .. 999 /\ v[3] \in 0 .. 999
<1>1. ASSUME NEW S, NEW T, v \in S \X T \X T
      PROVE  v[1] \in S /\ v[2] \in T /\ v[3] \in T
  BY <1>1
<1> QED
  BY <1>1 DEF Versions

\* Less is the order of the ranks.
LEMMA LessIsByRank ==
    ASSUME NEW a \in Versions, NEW b \in Versions
    PROVE  Rank(a) \in Nat /\ (Less(a, b) <=> Rank(a) < Rank(b))
<1>0. a[1] \in Nat /\ a[2] \in 0 .. 999 /\ a[3] \in 0 .. 999
  BY Numbers
<1>1. b[1] \in Nat /\ b[2] \in 0 .. 999 /\ b[3] \in 0 .. 999
  BY Numbers
<1>2. Less(a, b) <=> \/ a[1] < b[1]
                     \/ a[1] = b[1] /\ a[2] < b[2]
                     \/ a[1] = b[1] /\ a[2] = b[2] /\ a[3] < b[3]
  <2>1. ASSUME Less(a, b)
        PROVE  \/ a[1] < b[1]
               \/ a[1] = b[1] /\ a[2] < b[2]
               \/ a[1] = b[1] /\ a[2] = b[2] /\ a[3] < b[3]
    <3>1. PICK k \in 1 .. 3 : a[k] < b[k] /\ \A j \in 1 .. k - 1 : a[j] = b[j]
      BY <2>1 DEF Less
    <3>2. k = 1 \/ k = 2 \/ k = 3
      OBVIOUS
    <3> QED
      BY <3>1, <3>2
  <2>2. ASSUME a[1] < b[1] PROVE Less(a, b)
    BY <2>2 DEF Less
  <2>3. ASSUME a[1] = b[1], a[2] < b[2] PROVE Less(a, b)
    <3>1. 2 \in 1 .. 3 /\ \A j \in 1 .. 2 - 1 : a[j] = b[j]
      BY <2>3
    <3> QED
      BY <3>1, <2>3 DEF Less
  <2>4. ASSUME a[1] = b[1], a[2] = b[2], a[3] < b[3] PROVE Less(a, b)
    <3>1. 3 \in 1 .. 3 /\ \A j \in 1 .. 3 - 1 : a[j] = b[j]
      BY <2>4
    <3> QED
      BY <3>1, <2>4 DEF Less
  <2> QED
    BY <2>1, <2>2, <2>3, <2>4
<1> DEFINE x1 == a[1]
           x2 == a[2]
           x3 == a[3]
           y1 == b[1]
           y2 == b[2]
           y3 == b[3]
<1>3. x1 \in Nat /\ x2 \in 0 .. 999 /\ x3 \in 0 .. 999
  BY <1>0
<1>4. y1 \in Nat /\ y2 \in 0 .. 999 /\ y3 \in 0 .. 999
  BY <1>1
<1>5. Less(a, b) <=> x1 < y1 \/ (x1 = y1 /\ x2 < y2) \/ (x1 = y1 /\ x2 = y2 /\ x3 < y3)
  BY <1>2
<1>6. Rank(a) = (x1 * 1000 + x2) * 1000 + x3 /\ Rank(b) = (y1 * 1000 + y2) * 1000 + y3
  BY DEF Rank
<1> HIDE DEF x1, x2, x3, y1, y2, y3
<1> DEFINE x == x1 * 1000 + x2
           y == y1 * 1000 + y2
<1>7. /\ x \in Nat /\ y \in Nat
      /\ x < y <=> x1 < y1 \/ (x1 = y1 /\ x2 < y2)
      /\ x = y <=> x1 = y1 /\ x2 = y2
  <2>1. CASE x1 < y1
    BY <2>1, <1>3, <1>4
  <2>2. CASE y1 < x1
    BY <2>2, <1>3, <1>4
  <2>3. CASE x1 = y1
    BY <2>3, <1>3, <1>4
  <2>4. x1 < y1 \/ y1 < x1 \/ x1 = y1
    BY <1>3, <1>4
  <2> QED
    BY <2>1, <2>2, <2>3, <2>4
<1>8. Rank(a) = x * 1000 + x3 /\ Rank(b) = y * 1000 + y3
  BY <1>6
<1> HIDE DEF x, y
<1>9. /\ Rank(a) \in Nat
      /\ Rank(a) < Rank(b) <=> x < y \/ (x = y /\ x3 < y3)
  <2>1. CASE x < y
    BY <2>1, <1>3, <1>4, <1>7, <1>8
  <2>2. CASE y < x
    BY <2>2, <1>3, <1>4, <1>7, <1>8
  <2>3. CASE x = y
    BY <2>3, <1>3, <1>4, <1>7, <1>8
  <2>4. x < y \/ y < x \/ x = y
    BY <1>7
  <2> QED
    BY <2>1, <2>2, <2>3, <2>4
<1> QED
  BY <1>5, <1>7, <1>9

\* The verdicts on the releases follow the order of the releases.
LEMMA VerdictsByRank == VerdictsFollowTheOrder
<1>1. /\ AppleContainerMin \in Versions /\ AppleContainerMinSafe \in Versions /\ AppleContainerMax \in Versions
      /\ OpenShellMin \in Versions /\ OpenShellMax \in Versions
  <2>1. <<1, 2, 0>> \in Versions
    BY DEF Versions
  <2>2. <<1, 3, 1>> \in Versions
    BY DEF Versions
  <2>3. <<1, 4, 1>> \in Versions
    BY DEF Versions
  <2>4. <<0, 0, 96>> \in Versions
    BY DEF Versions
  <2>5. <<0, 0, 116>> \in Versions
    BY DEF Versions
  <2> QED
    BY <2>1, <2>2, <2>3, <2>4, <2>5
       DEF Version, AppleContainerMin, AppleContainerMinSafe, AppleContainerMax, OpenShellMin, OpenShellMax
<1>2. Rank(AppleContainerMin) <= Rank(AppleContainerMinSafe)
  BY DEF Rank, Version, AppleContainerMin, AppleContainerMinSafe
<1>3. ASSUME NEW v \in Versions, v # Unreadable
      PROVE  LET levels == CheckAppleContainer(v)
             IN /\ "error" \in levels <=> Rank(v) < Rank(AppleContainerMin)
                /\ levels = {"ok"} <=> Between(v, AppleContainerMinSafe, AppleContainerMax)
  <2> DEFINE advisory == IF Less(v, AppleContainerMinSafe) THEN {"warn"} ELSE {}
             range == IF Less(v, AppleContainerMin) THEN {"error"}
                      ELSE IF Less(AppleContainerMax, v) THEN {"warn"} ELSE {}
             levels == CheckAppleContainer(v)
  <2>1. levels = IF advisory \cup range = {} THEN {"ok"} ELSE advisory \cup range
    BY <1>3 DEF CheckAppleContainer
  <2> HIDE DEF levels
  <2>2. "error" \in levels <=> Less(v, AppleContainerMin)
    BY <2>1
  <2>3. levels = {"ok"} <=> /\ ~Less(v, AppleContainerMinSafe)
                            /\ ~Less(v, AppleContainerMin) /\ ~Less(AppleContainerMax, v)
    BY <2>1
  <2>4. /\ Rank(v) \in Nat /\ Rank(AppleContainerMinSafe) \in Nat
        /\ Rank(AppleContainerMin) \in Nat /\ Rank(AppleContainerMax) \in Nat
        /\ Less(v, AppleContainerMinSafe) <=> Rank(v) < Rank(AppleContainerMinSafe)
        /\ Less(v, AppleContainerMin) <=> Rank(v) < Rank(AppleContainerMin)
        /\ Less(AppleContainerMax, v) <=> Rank(AppleContainerMax) < Rank(v)
    BY <1>1, LessIsByRank
  <2>5. levels = {"ok"} <=> Between(v, AppleContainerMinSafe, AppleContainerMax)
    BY <2>3, <2>4, <1>2 DEF Between
  <2> QED
    BY <2>2, <2>4, <2>5 DEF levels
<1>4. ASSUME NEW v \in Versions, v # Unreadable
      PROVE  LET levels == CheckOpenShell(v)
             IN /\ levels = {"error"} <=> Rank(v) < Rank(OpenShellMin)
                /\ levels = {"ok"} <=> Between(v, OpenShellMin, OpenShellMax)
  <2> DEFINE levels == CheckOpenShell(v)
  <2>1. /\ levels = {"error"} <=> Less(v, OpenShellMin)
        /\ levels = {"ok"} <=> ~Less(v, OpenShellMin) /\ ~Less(OpenShellMax, v)
    BY <1>4 DEF CheckOpenShell
  <2> HIDE DEF levels
  <2>2. /\ Rank(v) \in Nat /\ Rank(OpenShellMin) \in Nat /\ Rank(OpenShellMax) \in Nat
        /\ Less(v, OpenShellMin) <=> Rank(v) < Rank(OpenShellMin)
        /\ Less(OpenShellMax, v) <=> Rank(OpenShellMax) < Rank(v)
    BY <1>1, LessIsByRank
  <2>3. levels = {"ok"} <=> Between(v, OpenShellMin, OpenShellMax)
    BY <2>1, <2>2 DEF Between
  <2> QED
    BY <2>1, <2>2, <2>3 DEF levels
<1>5. \A v \in (ContainerVersions \cup OpenShellVersions) \ {Unreadable} : v \in Versions
  BY VersionsAssumption DEF Versions
<1> QED
  BY <1>3, <1>4, <1>5 DEF VerdictsFollowTheOrder

-----------------------------------------------------------------------------
(* The steps of the commands, and the inductive invariant.                   *)

SetupSteps ==
    {"runtime", "kernel", "network", "address", "certificate", "env", "plist", "bootout", "unload",
     "bootstrap", "socket", "kickstart", "confirm", "gateway"}
CleanupSteps ==
    {"remove agent", "remove plist", "remove block", "stop gateway", "remove socket", "remove network",
     "remove openshell", "stop runtime", "remove runtime", "cleaned"}
UpdateSteps ==
    {"brew", "release", "download", "verify", "replace", "prerequisites", "stop for update",
     "update runtime", "start again", "updated"}

Unloading == {"unload", "bootstrap"}
Started == {"socket", "kickstart", "confirm", "gateway"}
Placed == {"bootout"} \cup Unloading \cup Started
Wired == {"plist"} \cup Placed
Certified == {"env"} \cup Wired
Kernelled == {"network", "address", "certificate"} \cup Certified
Booted == {"kernel"} \cup Kernelled

Halted == {"remove socket", "remove network", "remove openshell", "stop runtime", "remove runtime", "cleaned"}
Unwired == {"stop gateway"} \cup Halted
Unplaced == {"remove block"} \cup Unwired
Unlisted == {"remove plist"} \cup Unplaced

After(steps) == step \in steps \/ SetUp
Cleaned(steps) == step \in steps \/ Ended("cleanup")

\* Which command is at which step, and what it was asked for.
Commanded ==
    /\ DOMAIN cmd = DOMAIN NoCommand
    /\ step \in SetupSteps => cmd.op = "setup" \/ (cmd.op = "update" /\ cmd.setup)
    /\ step \in CleanupSteps => cmd.op = "cleanup"
    /\ step \in UpdateSteps => cmd.op = "update"
    /\ cmd.op \in {"setup", "update"} => /\ cmd.tlsDir \in Bundles \cup {None}
                                         /\ cmd.network \in OptNetworks \cup {DriverNetwork}

\* A release is named, fetched and verified before it replaces the driver.
Installed ==
    /\ binary.build \in Builds /\ binary.exec /\ DOMAIN binary = {"build", "exec", "cask"}
    /\ step = "release" => cmd.want \in Builds \cup {None}
    /\ step \in {"download", "verify"} => cmd.want \in Builds
    /\ step = "replace" => cmd.archive \in Builds

\* The runtime and the kernel that setup and update leave behind.
RuntimeKept ==
    /\ cmd.op = "update" /\ cmd.wasUp /\ ~cmd.warned /\ ~cmd.rebooted
           /\ step \notin {"update runtime", "start again"} => runtime = "running"
    /\ After(Booted) => runtime = "running" \/ cmd.rebooted
    /\ After(Kernelled) => kernel \/ cmd.warned

\* The address on the network is the one that the certificate is made for.
Addressed ==
    /\ \A n \in DOMAIN networks : networks[n] \in Addresses \cup {Pending}
    /\ certs \in [Bundles -> Addresses \cup {"absent", "bare"}]
    /\ step = "certificate" =>
           cmd.ip \in Addresses /\ cmd.network \in DOMAIN networks /\ networks[cmd.network] = cmd.ip
    /\ After(Certified) =>
           /\ cmd.tls = (IF cmd.tlsDir = None THEN DefaultGuestTLSDir ELSE cmd.tlsDir)
           /\ cmd.tls \in Bundles /\ certs[cmd.tls] \in Addresses
           /\ cmd.network \in DOMAIN networks /\ networks[cmd.network] = certs[cmd.tls]

\* What gateway.env says, and what the gateway has read of it.
Wiring ==
    /\ envFile \in Seq(Lines) /\ Wrapped(envFile) /\ UserLinesSurvive /\ lost \in BOOLEAN
    /\ DOMAIN openshell = {"installed", "up", "wired"}
    /\ After(Wired) => Begin \in ToSet(envFile) /\ WiredTo(envFile) = cmd.tls
    /\ SetUp => /\ openshell.up \/ cmd.warned
                /\ openshell.up /\ ~cmd.warned => openshell.wired = cmd.tls

\* The agent and its process: after bootstrap every process is of this job and of this binary.
Serving ==
    /\ DOMAIN job = {"state", "bin", "tls"} /\ DOMAIN proc = {"phase", "build", "tls", "endpoint"}
    /\ plist # None => plist \in [bin : {"launch"}, tls : Bundles]
    /\ job.state = "absent" => proc.phase = "none"
    /\ proc.phase \in {"none", "starting", "serving", "draining", "closed"}
    /\ proc.phase \in {"draining", "closed"} => job.state = "leaving"
    /\ After(Placed) => plist # None /\ plist.tls = cmd.tls
    /\ After(Started) =>
           /\ job.state = "loaded" /\ job.tls = cmd.tls
           /\ proc.phase # "none" =>
                  /\ proc.build = binary.build /\ proc.tls = cmd.tls
                  /\ proc.endpoint # None =>
                         /\ DriverNetwork \in DOMAIN networks /\ proc.endpoint = networks[DriverNetwork]
                         /\ proc.endpoint \in Addresses

\* What cleanup has taken away stays away until the next command, and what it has kept is known.
Removed ==
    /\ Cleaned(Unlisted) => job.state # "loaded" \/ "agent" \in cmd.kept
    /\ Cleaned(Unplaced) => plist = None
    /\ Cleaned(Unwired) => WiredTo(envFile) = None \/ "block" \in cmd.kept
    /\ Cleaned(Halted) => ~openshell.up \/ cmd.warned

IInv == Commanded /\ Installed /\ RuntimeKept /\ Addressed /\ Wiring /\ Serving /\ Removed
-----------------------------------------------------------------------------
(* What the steps make of the command.                                       *)

\* What the command was asked for stays what it was, and what it has kept stays kept.
Asked(c, d) ==
    /\ DOMAIN d = DOMAIN NoCommand
    /\ d.op = c.op /\ d.network = c.network /\ d.tlsDir = c.tlsDir /\ d.setup = c.setup /\ d.wasUp = c.wasUp
    /\ c.kept \subseteq d.kept

\* What it has found out stays, too.
Found(c, d) == d.tls = c.tls /\ d.warned = c.warned /\ d.rebooted = c.rebooted /\ d.ok = c.ok

\* A step that finds something out leaves the rest of the command as it is.
LEMMA CommandFrames ==
    ASSUME NEW c, DOMAIN c = DOMAIN NoCommand, NEW d
    PROVE  /\ d = [c EXCEPT !.warned = TRUE] =>
                  Asked(c, d) /\ d.tls = c.tls /\ d.warned /\ d.rebooted = c.rebooted /\ d.ok = c.ok
           /\ d = [c EXCEPT !.rebooted = TRUE] =>
                  Asked(c, d) /\ d.tls = c.tls /\ d.warned = c.warned /\ d.rebooted /\ d.ok = c.ok
           /\ d = [c EXCEPT !.ok = TRUE, !.deleteData = FALSE, !.all = FALSE] =>
                  Asked(c, d) /\ d.tls = c.tls /\ d.warned = c.warned /\ d.rebooted = c.rebooted
           /\ \A v : d = [c EXCEPT !.ip = v] => Asked(c, d) /\ Found(c, d) /\ d.ip = v
           /\ \A v, w : d = [c EXCEPT !.tls = v, !.ip = w] =>
                  Asked(c, d) /\ d.tls = v /\ d.warned = c.warned /\ d.rebooted = c.rebooted
           /\ \A v : d = [c EXCEPT !.tries = v] => Asked(c, d) /\ Found(c, d)
           /\ \A v : d = [c EXCEPT !.kept = @ \cup {v}] => Asked(c, d) /\ Found(c, d) /\ v \in d.kept
<1> DEFINE Fields == {"op", "network", "tlsDir", "deleteData", "all", "setup", "want", "archive", "ip", "tls",
                      "tries", "warned", "ok", "wasUp", "rebooted", "kept"}
<1>1. DOMAIN c = Fields /\ DOMAIN NoCommand = Fields
  BY DEF NoCommand
<1>2. ASSUME d = [c EXCEPT !.warned = TRUE]
      PROVE  Asked(c, d) /\ d.tls = c.tls /\ d.warned /\ d.rebooted = c.rebooted /\ d.ok = c.ok
  BY <1>1, <1>2 DEF Asked
<1>3. ASSUME d = [c EXCEPT !.rebooted = TRUE]
      PROVE  Asked(c, d) /\ d.tls = c.tls /\ d.warned = c.warned /\ d.rebooted /\ d.ok = c.ok
  BY <1>1, <1>3 DEF Asked
<1>4. ASSUME d = [c EXCEPT !.ok = TRUE, !.deleteData = FALSE, !.all = FALSE]
      PROVE  Asked(c, d) /\ d.tls = c.tls /\ d.warned = c.warned /\ d.rebooted = c.rebooted
  BY <1>1, <1>4 DEF Asked
<1>5. ASSUME NEW v, d = [c EXCEPT !.ip = v] PROVE Asked(c, d) /\ Found(c, d) /\ d.ip = v
  BY <1>1, <1>5 DEF Asked, Found
<1>6. ASSUME NEW v, NEW w, d = [c EXCEPT !.tls = v, !.ip = w]
      PROVE  Asked(c, d) /\ d.tls = v /\ d.warned = c.warned /\ d.rebooted = c.rebooted
  BY <1>1, <1>6 DEF Asked
<1>7. ASSUME NEW v, d = [c EXCEPT !.tries = v] PROVE Asked(c, d) /\ Found(c, d)
  BY <1>1, <1>7 DEF Asked, Found
<1>8. ASSUME NEW v, d = [c EXCEPT !.kept = @ \cup {v}] PROVE Asked(c, d) /\ Found(c, d) /\ v \in d.kept
  <2>1. d.kept = c.kept \cup {v}
    BY <1>1, <1>8
  <2> QED
    BY <1>1, <1>8, <2>1 DEF Asked, Found
<1> QED
  BY <1>2, <1>3, <1>4, <1>5, <1>6, <1>7, <1>8

\* A command that is over was asked for nothing.
LEMMA CommandOver ==
    ASSUME NEW d, d = NoCommand
    PROVE  DOMAIN d = DOMAIN NoCommand /\ d.op = "none" /\ ~d.rebooted
  BY DEF NoCommand

\* A step to the next one, the end of a command that has failed, and the end of one that has not.
Goes(there) == step' = there /\ Asked(cmd, cmd') /\ Found(cmd, cmd')
Stops == step' = "idle" /\ DOMAIN cmd' = DOMAIN NoCommand /\ cmd'.op = "none"
Warns == Asked(cmd, cmd') /\ cmd'.tls = cmd.tls /\ cmd'.rebooted = cmd.rebooted /\ (cmd.warned => cmd'.warned)
Ends == step' = "done" /\ Warns

\* What a step can make of the command.
LEMMA Changes ==
    ASSUME DOMAIN cmd = DOMAIN NoCommand
    PROVE  /\ \A s : GoTo(s) => Goes(s)
           /\ Fail => Stops
           /\ cmd' = cmd => Asked(cmd, cmd') /\ Found(cmd, cmd') /\ Warns
           /\ cmd' = Warned => Warns /\ cmd'.warned
           /\ Finish(cmd) => Ends
           /\ Finish(Warned) => Ends /\ cmd'.warned
           /\ \A v : cmd' = [cmd EXCEPT !.tries = v] => Asked(cmd, cmd') /\ Found(cmd, cmd')
           /\ \A v : cmd' = [cmd EXCEPT !.ip = v] => Asked(cmd, cmd') /\ Found(cmd, cmd') /\ cmd'.ip = v
           /\ \A v, w : cmd' = [cmd EXCEPT !.tls = v, !.ip = w] =>
                  Asked(cmd, cmd') /\ cmd'.tls = v /\ cmd'.warned = cmd.warned /\ cmd'.rebooted = cmd.rebooted
           /\ \A v : cmd' = [cmd EXCEPT !.want = v] => Asked(cmd, cmd') /\ Found(cmd, cmd') /\ cmd'.want = v
           /\ \A v : cmd' = [cmd EXCEPT !.archive = v] => Asked(cmd, cmd') /\ Found(cmd, cmd') /\ cmd'.want = cmd.want
           /\ \A v, w : cmd' = [cmd EXCEPT !.want = v, !.archive = w] => Asked(cmd, cmd') /\ Found(cmd, cmd')
           /\ \A v : Keep(v) => Asked(cmd, cmd') /\ Found(cmd, cmd') /\ v \in cmd'.kept
<1>1. cmd' = cmd => Asked(cmd, cmd') /\ Found(cmd, cmd') /\ Warns
  BY DEF Asked, Found, Warns
<1>2. \A s : GoTo(s) => Goes(s)
  BY <1>1 DEF GoTo, Goes
<1>3. Fail => Stops
  BY CommandOver DEF Fail, Stops
<1>4. cmd' = Warned => Warns /\ cmd'.warned
  BY CommandFrames DEF Warned, Warns
<1>5. Finish(cmd) => Ends
  BY CommandFrames DEF Finish, Ends, Warns
<1>6. Finish(Warned) => Ends /\ cmd'.warned
  <2> DEFINE c == Warned
  <2>1. Asked(cmd, c) /\ c.tls = cmd.tls /\ c.warned /\ c.rebooted = cmd.rebooted
    BY CommandFrames DEF Warned
  <2> HIDE DEF c
  <2>2. DOMAIN c = DOMAIN NoCommand
    BY <2>1 DEF Asked
  <2>3. Finish(c) => /\ step' = "done" /\ Asked(c, cmd') /\ cmd'.tls = c.tls
                     /\ cmd'.warned = c.warned /\ cmd'.rebooted = c.rebooted
    BY <2>2, CommandFrames DEF Finish
  <2>4. Finish(c) => Ends /\ cmd'.warned
    BY <2>1, <2>3 DEF Ends, Warns, Asked
  <2> QED
    BY <2>4 DEF c
<1>7. \A v : cmd' = [cmd EXCEPT !.tries = v] => Asked(cmd, cmd') /\ Found(cmd, cmd')
  BY CommandFrames
<1>8. \A v : cmd' = [cmd EXCEPT !.ip = v] => Asked(cmd, cmd') /\ Found(cmd, cmd') /\ cmd'.ip = v
  BY CommandFrames
<1>9. \A v, w : cmd' = [cmd EXCEPT !.tls = v, !.ip = w] =>
          Asked(cmd, cmd') /\ cmd'.tls = v /\ cmd'.warned = cmd.warned /\ cmd'.rebooted = cmd.rebooted
  BY CommandFrames
<1>10. \A v : cmd' = [cmd EXCEPT !.want = v] => Asked(cmd, cmd') /\ Found(cmd, cmd') /\ cmd'.want = v
  BY DEF NoCommand, Asked, Found
<1>11. \A v : cmd' = [cmd EXCEPT !.archive = v] => Asked(cmd, cmd') /\ Found(cmd, cmd') /\ cmd'.want = cmd.want
  BY DEF NoCommand, Asked, Found
<1>12. \A v, w : cmd' = [cmd EXCEPT !.want = v, !.archive = w] => Asked(cmd, cmd') /\ Found(cmd, cmd')
  BY DEF NoCommand, Asked, Found
<1>13. \A v : Keep(v) => Asked(cmd, cmd') /\ Found(cmd, cmd') /\ v \in cmd'.kept
  BY CommandFrames DEF Keep
<1> QED
  BY <1>1, <1>2, <1>3, <1>4, <1>5, <1>6, <1>7, <1>8, <1>9, <1>10, <1>11, <1>12, <1>13

\* The steps of setup, one after the other.
LEMMA SetupMoves ==
    ASSUME DOMAIN cmd = DOMAIN NoCommand
    PROVE  /\ StartSetup => /\ step' = "runtime" /\ DOMAIN cmd' = DOMAIN NoCommand /\ cmd'.op = "setup"
                            /\ cmd'.network \in OptNetworks /\ cmd'.tlsDir \in OptTLSDirs
           /\ EnsureRuntime => (Goes("kernel") /\ runtime' = "running") \/ Stops
           /\ EnsureKernel => step' = "network" /\ Warns /\ (kernel' \/ cmd'.warned)
           /\ EnsureNetwork =>
                  \/ /\ step' = "certificate" /\ Asked(cmd, cmd') /\ Found(cmd, cmd') /\ UNCHANGED networks
                     /\ cmd'.ip = (IF cmd.network \in DOMAIN networks THEN networks[cmd.network] ELSE None)
                     /\ cmd'.ip \in Addresses
                  \/ Goes("address") \/ Stops
           /\ AwaitAddress =>
                  \/ /\ step' = "certificate" /\ Asked(cmd, cmd') /\ Found(cmd, cmd')
                     /\ cmd.network \in DOMAIN networks /\ cmd'.ip = networks[cmd.network] /\ cmd'.ip \in Addresses
                  \/ Stops
           /\ EnsureCertSAN =>
                  LET tls == IF cmd.tlsDir = None THEN DefaultGuestTLSDir ELSE cmd.tlsDir
                  IN \/ /\ step' = "env" /\ Asked(cmd, cmd') /\ cmd'.tls = tls
                        /\ cmd'.warned = cmd.warned /\ cmd'.rebooted = cmd.rebooted
                        /\ certs' = [certs EXCEPT ![tls] = cmd.ip]
                     \/ Stops /\ UNCHANGED certs
           /\ WriteBlock => \/ /\ Goes("plist")
                             /\ envFile' \in {UpsertManagedBlock(envFile, cmd.tls), UpsertManagedBlock(<<>>, cmd.tls)}
                          \/ Stops
           /\ WritePlist => Goes("bootout")
           /\ Bootout => Goes("unload")
           /\ AwaitUnload => Goes("bootstrap")
           /\ Bootstrap => \/ /\ Goes("socket") /\ job.state = "absent"
                              /\ job' = [state |-> "loaded", bin |-> plist.bin, tls |-> plist.tls]
                           \/ (Goes("unload") \/ Stops) /\ UNCHANGED job
           /\ AwaitSocket => Goes("gateway") \/ Goes("kickstart")
           /\ Kickstart => Goes("confirm")
           /\ ConfirmSocket => Goes("gateway") \/ Stops
           /\ RestartGateway =>
                  /\ Ends
                  /\ \/ cmd'.warned
                     \/ openshell' = [openshell EXCEPT !.up = TRUE, !.wired = WiredTo(envFile)]
<1>1. ASSUME StartSetup
      PROVE  /\ step' = "runtime" /\ DOMAIN cmd' = DOMAIN NoCommand /\ cmd'.op = "setup"
             /\ cmd'.network \in OptNetworks /\ cmd'.tlsDir \in OptTLSDirs
  <2>1. PICK n \in OptNetworks, d \in OptTLSDirs :
            cmd' = [NoCommand EXCEPT !.op = "setup", !.network = n, !.tlsDir = d]
    BY <1>1 DEF StartSetup
  <2>2. DOMAIN cmd' = DOMAIN NoCommand /\ cmd'.op = "setup" /\ cmd'.network = n /\ cmd'.tlsDir = d
    BY <2>1 DEF NoCommand
  <2> QED
    BY <1>1, <2>2 DEF StartSetup
<1>2. EnsureRuntime => (Goes("kernel") /\ runtime' = "running") \/ Stops
  BY Changes DEF EnsureRuntime
<1>3. EnsureKernel => step' = "network" /\ Warns /\ (kernel' \/ cmd'.warned)
  BY Changes DEF EnsureKernel
<1>4. EnsureNetwork =>
          \/ /\ step' = "certificate" /\ Asked(cmd, cmd') /\ Found(cmd, cmd') /\ UNCHANGED networks
             /\ cmd'.ip = (IF cmd.network \in DOMAIN networks THEN networks[cmd.network] ELSE None)
             /\ cmd'.ip \in Addresses
          \/ Goes("address") \/ Stops
  BY Changes DEF EnsureNetwork
<1>5. AwaitAddress =>
          \/ /\ step' = "certificate" /\ Asked(cmd, cmd') /\ Found(cmd, cmd')
             /\ cmd.network \in DOMAIN networks /\ cmd'.ip = networks[cmd.network] /\ cmd'.ip \in Addresses
          \/ Stops
  BY Changes DEF AwaitAddress
<1>6. EnsureCertSAN =>
          LET tls == IF cmd.tlsDir = None THEN DefaultGuestTLSDir ELSE cmd.tlsDir
          IN \/ /\ step' = "env" /\ Asked(cmd, cmd') /\ cmd'.tls = tls
                /\ cmd'.warned = cmd.warned /\ cmd'.rebooted = cmd.rebooted
                /\ certs' = [certs EXCEPT ![tls] = cmd.ip]
             \/ Stops /\ UNCHANGED certs
  BY Changes DEF EnsureCertSAN
<1>7. WriteBlock => \/ /\ Goes("plist")
                       /\ envFile' \in {UpsertManagedBlock(envFile, cmd.tls), UpsertManagedBlock(<<>>, cmd.tls)}
                    \/ Stops
  BY Changes DEF WriteBlock, Overwrite, Replace, CutShort
<1>8. WritePlist => Goes("bootout")
  BY Changes DEF WritePlist
<1>9. Bootout => Goes("unload")
  BY Changes DEF Bootout, Goes
<1>10. AwaitUnload => Goes("bootstrap")
  BY Changes DEF AwaitUnload
<1>11. Bootstrap => \/ /\ Goes("socket") /\ job.state = "absent"
                       /\ job' = [state |-> "loaded", bin |-> plist.bin, tls |-> plist.tls]
                    \/ (Goes("unload") \/ Stops) /\ UNCHANGED job
  BY Changes DEF Bootstrap, Goes
<1>12. AwaitSocket => Goes("gateway") \/ Goes("kickstart")
  BY Changes DEF AwaitSocket
<1>13. Kickstart => Goes("confirm")
  BY Changes DEF Kickstart
<1>14. ConfirmSocket => Goes("gateway") \/ Stops
  BY Changes DEF ConfirmSocket
<1>15. RestartGateway =>
           /\ Ends
           /\ \/ cmd'.warned
              \/ openshell' = [openshell EXCEPT !.up = TRUE, !.wired = WiredTo(envFile)]
  BY Changes DEF RestartGateway
<1> QED
  BY <1>1, <1>2, <1>3, <1>4, <1>5, <1>6, <1>7, <1>8, <1>9, <1>10, <1>11, <1>12, <1>13, <1>14, <1>15

\* The file without the blocks.
Emptied == envFile' = IF RemoveManagedBlock(envFile) = <<Blank>> THEN <<>> ELSE RemoveManagedBlock(envFile)

\* The steps of cleanup, one after the other.
LEMMA CleanupMoves ==
    ASSUME DOMAIN cmd = DOMAIN NoCommand
    PROVE  /\ StartCleanup => step' = "remove agent" /\ DOMAIN cmd' = DOMAIN NoCommand /\ cmd'.op = "cleanup"
           /\ RemoveAgent => Goes("remove plist") /\ (Unload \/ ("agent" \in cmd'.kept /\ UNCHANGED <<job, proc>>))
           /\ RemovePlist => Goes("remove block")
           /\ RemoveBlock => \/ Goes("stop gateway") /\ (Emptied \/ "block" \in cmd'.kept)
                           \/ Stops
           /\ StopGateway =>
                  /\ step' \in {"remove socket", "remove openshell", "cleaned"} /\ Warns
                  /\ cmd'.warned \/ openshell' = [openshell EXCEPT !.up = FALSE, !.wired = None]
           /\ RemoveSocketDir => Goes("remove network")
           /\ RemoveNetwork => Goes("remove openshell") \/ Goes("cleaned")
           /\ RemoveOpenShell => Goes("stop runtime")
           /\ StopRuntime => Goes("remove runtime")
           /\ RemoveRuntime => Goes("cleaned")
           /\ EndCleanup => Ends
<1>1. ASSUME StartCleanup
      PROVE  step' = "remove agent" /\ DOMAIN cmd' = DOMAIN NoCommand /\ cmd'.op = "cleanup"
  <2>1. PICK d \in BOOLEAN, a \in BOOLEAN : cmd' = [NoCommand EXCEPT !.op = "cleanup", !.deleteData = d, !.all = a]
    BY <1>1 DEF StartCleanup
  <2>2. DOMAIN cmd' = DOMAIN NoCommand /\ cmd'.op = "cleanup"
    BY <2>1 DEF NoCommand
  <2> QED
    BY <1>1, <2>2 DEF StartCleanup
<1>2. RemoveAgent => Goes("remove plist") /\ (Unload \/ ("agent" \in cmd'.kept /\ UNCHANGED <<job, proc>>))
  BY Changes DEF RemoveAgent, Goes
<1>3. RemovePlist => Goes("remove block")
  BY Changes DEF RemovePlist
<1>4. RemoveBlock => \/ Goes("stop gateway") /\ (Emptied \/ "block" \in cmd'.kept)
                     \/ Stops
  BY Changes DEF RemoveBlock, Emptied, Overwrite, CutShort, Goes
<1>5. StopGateway =>
          /\ step' \in {"remove socket", "remove openshell", "cleaned"} /\ Warns
          /\ cmd'.warned \/ openshell' = [openshell EXCEPT !.up = FALSE, !.wired = None]
  BY Changes DEF StopGateway
<1>6. RemoveSocketDir => Goes("remove network")
  BY Changes DEF RemoveSocketDir
<1>7. RemoveNetwork => Goes("remove openshell") \/ Goes("cleaned")
  BY Changes DEF RemoveNetwork
<1>8. RemoveOpenShell => Goes("stop runtime")
  BY Changes DEF RemoveOpenShell
<1>9. StopRuntime => Goes("remove runtime")
  BY Changes DEF StopRuntime
<1>10. RemoveRuntime => Goes("cleaned")
  BY Changes DEF RemoveRuntime
<1>11. EndCleanup => Ends
  BY Changes DEF EndCleanup
<1> QED
  BY <1>1, <1>2, <1>3, <1>4, <1>5, <1>6, <1>7, <1>8, <1>9, <1>10, <1>11

\* The steps of update, one after the other.
LEMMA UpdateMoves ==
    ASSUME DOMAIN cmd = DOMAIN NoCommand
    PROVE  /\ StartUpdate =>
                  \/ Stops
                  \/ /\ step' = (IF binary.cask THEN "brew" ELSE "release")
                     /\ DOMAIN cmd' = DOMAIN NoCommand /\ cmd'.op = "update" /\ cmd'.network = DriverNetwork
                     /\ cmd'.tlsDir = None /\ cmd'.want \in Builds \cup {None} /\ (cmd'.wasUp <=> runtime = "running")
           /\ BrewUpgrade => Goes("prerequisites")
           /\ ChooseRelease =>
                  /\ Asked(cmd, cmd') /\ Found(cmd, cmd')
                  /\ \/ step' = "prerequisites"
                     \/ step' = "download" /\ cmd'.want = (IF cmd.want = None THEN Latest ELSE cmd.want)
           /\ Download => step' = "verify" /\ Asked(cmd, cmd') /\ Found(cmd, cmd') /\ cmd'.want = cmd.want
           /\ VerifyDownload => (Goes("replace") /\ cmd' = cmd /\ cmd.archive = cmd.want) \/ Stops
           /\ ReplaceBinary =>
                  \/ /\ step' = "prerequisites" /\ Asked(cmd, cmd') /\ Found(cmd, cmd')
                     /\ binary' = [binary EXCEPT !.build = cmd.archive, !.exec = TRUE]
                  \/ Stops /\ UNCHANGED binary
           /\ UpgradeOpenShell => Goes("stop for update") \/ Goes("updated")
           /\ StopForUpdate =>
                  (runtime = "absent" /\ Goes("updated") /\ UNCHANGED runtime) \/ Goes("update runtime")
           /\ UpdateRuntime => Goes("start again")
           /\ StartAgain => step' = "updated" /\ Warns /\ (runtime' = "running" \/ cmd'.warned)
           /\ RunSetup => (cmd.setup /\ Goes("runtime")) \/ (~cmd.setup /\ Ends)
<1>1. ASSUME StartUpdate
      PROVE  \/ Stops
             \/ /\ step' = (IF binary.cask THEN "brew" ELSE "release")
                /\ DOMAIN cmd' = DOMAIN NoCommand /\ cmd'.op = "update" /\ cmd'.network = DriverNetwork
                /\ cmd'.tlsDir = None /\ cmd'.want \in Builds \cup {None} /\ (cmd'.wasUp <=> runtime = "running")
  <2>1. PICK want \in Builds \cup {None}, a \in BOOLEAN, s \in BOOLEAN :
            IF binary.cask /\ want # None
            THEN Fail
            ELSE /\ cmd' = [NoCommand EXCEPT !.op = "update", !.network = DriverNetwork, !.want = want,
                                             !.all = a, !.setup = s, !.wasUp = (runtime = "running")]
                 /\ step' = IF binary.cask THEN "brew" ELSE "release"
    BY <1>1 DEF StartUpdate
  <2>2. CASE binary.cask /\ want # None
    BY <2>1, <2>2, Changes
  <2>3. CASE ~(binary.cask /\ want # None)
    <3>1. /\ cmd' = [NoCommand EXCEPT !.op = "update", !.network = DriverNetwork, !.want = want,
                                      !.all = a, !.setup = s, !.wasUp = (runtime = "running")]
          /\ step' = IF binary.cask THEN "brew" ELSE "release"
      BY <2>1, <2>3
    <3>2. DOMAIN cmd' = DOMAIN NoCommand /\ cmd'.op = "update" /\ cmd'.network = DriverNetwork
      BY <3>1 DEF NoCommand
    <3>3. cmd'.tlsDir = None /\ cmd'.want = want
      BY <3>1 DEF NoCommand
    <3>4. cmd'.wasUp <=> runtime = "running"
      BY <3>1 DEF NoCommand
    <3> QED
      BY <3>1, <3>2, <3>3, <3>4
  <2> QED
    BY <2>2, <2>3
<1>2. BrewUpgrade => Goes("prerequisites")
  BY Changes DEF BrewUpgrade
<1>3. ChooseRelease =>
          /\ Asked(cmd, cmd') /\ Found(cmd, cmd')
          /\ \/ step' = "prerequisites"
             \/ step' = "download" /\ cmd'.want = (IF cmd.want = None THEN Latest ELSE cmd.want)
  BY Changes DEF ChooseRelease
<1>4. Download => step' = "verify" /\ Asked(cmd, cmd') /\ Found(cmd, cmd') /\ cmd'.want = cmd.want
  BY Changes DEF Download
<1>5. VerifyDownload => (Goes("replace") /\ cmd' = cmd /\ cmd.archive = cmd.want) \/ Stops
  BY Changes DEF VerifyDownload, VerifyChecksum, GoTo
<1>6. ReplaceBinary =>
          \/ /\ step' = "prerequisites" /\ Asked(cmd, cmd') /\ Found(cmd, cmd')
             /\ binary' = [binary EXCEPT !.build = cmd.archive, !.exec = TRUE]
          \/ Stops /\ UNCHANGED binary
  BY Changes DEF ReplaceBinary
<1>7. UpgradeOpenShell => Goes("stop for update") \/ Goes("updated")
  BY Changes DEF UpgradeOpenShell
<1>8. StopForUpdate => (runtime = "absent" /\ Goes("updated") /\ UNCHANGED runtime) \/ Goes("update runtime")
  BY Changes DEF StopForUpdate
<1>9. UpdateRuntime => Goes("start again")
  BY Changes DEF UpdateRuntime
<1>10. StartAgain => step' = "updated" /\ Warns /\ (runtime' = "running" \/ cmd'.warned)
  BY Changes DEF StartAgain
<1>11. RunSetup => (cmd.setup /\ Goes("runtime")) \/ (~cmd.setup /\ Ends)
  BY Changes DEF RunSetup
<1> QED
  BY <1>1, <1>2, <1>3, <1>4, <1>5, <1>6, <1>7, <1>8, <1>9, <1>10, <1>11

\* What interrupts a command, and what leaves it alone.
LEMMA OtherMoves ==
    ASSUME DOMAIN cmd = DOMAIN NoCommand
    PROVE  /\ Interrupt => Stops
           /\ UserActs => Stops
           /\ Reboot =>
                  /\ Resting /\ step' = step /\ Asked(cmd, cmd') /\ cmd'.tls = cmd.tls
                  /\ cmd'.warned = cmd.warned /\ cmd'.ok = cmd.ok /\ cmd'.rebooted
<1>1. Interrupt => Stops
  BY Changes DEF Interrupt
<1>2. UserActs => Stops
  BY CommandOver DEF UserActs, InstallOpenShell, DropNetwork, EditGatewayEnv, Acts, Stops
<1>3. Reboot =>
          /\ Resting /\ step' = step /\ Asked(cmd, cmd') /\ cmd'.tls = cmd.tls
          /\ cmd'.warned = cmd.warned /\ cmd'.ok = cmd.ok /\ cmd'.rebooted
  BY CommandFrames DEF Reboot
<1> QED
  BY <1>1, <1>2, <1>3

\* Every step of a command has its place.
LEMMA Guards ==
    /\ (EnsureRuntime => step = "runtime") /\ (EnsureKernel => step = "kernel")
    /\ (EnsureNetwork => step = "network") /\ (AwaitAddress => step = "address")
    /\ (EnsureCertSAN => step = "certificate") /\ (WriteBlock => step = "env")
    /\ (WritePlist => step = "plist") /\ (Bootout => step = "bootout")
    /\ (AwaitUnload => step = "unload") /\ (Bootstrap => step = "bootstrap")
    /\ (AwaitSocket => step = "socket") /\ (Kickstart => step = "kickstart")
    /\ (ConfirmSocket => step = "confirm") /\ (RestartGateway => step = "gateway")
    /\ (RemoveAgent => step = "remove agent") /\ (RemovePlist => step = "remove plist")
    /\ (RemoveBlock => step = "remove block") /\ (StopGateway => step = "stop gateway")
    /\ (RemoveSocketDir => step = "remove socket") /\ (RemoveNetwork => step = "remove network")
    /\ (RemoveOpenShell => step = "remove openshell") /\ (StopRuntime => step = "stop runtime")
    /\ (RemoveRuntime => step = "remove runtime") /\ (EndCleanup => step = "cleaned")
    /\ (BrewUpgrade => step = "brew") /\ (ChooseRelease => step = "release")
    /\ (Download => step = "download") /\ (VerifyDownload => step = "verify")
    /\ (ReplaceBinary => step = "replace") /\ (UpgradeOpenShell => step = "prerequisites")
    /\ (StopForUpdate => step = "stop for update") /\ (UpdateRuntime => step = "update runtime")
    /\ (StartAgain => step = "start again") /\ (RunSetup => step = "updated")
  BY DEF At,
         EnsureRuntime, EnsureKernel, EnsureNetwork, AwaitAddress, EnsureCertSAN, WriteBlock, WritePlist,
         Bootout, AwaitUnload, Bootstrap, AwaitSocket, Kickstart, ConfirmSocket, RestartGateway,
         RemoveAgent, RemovePlist, RemoveBlock, StopGateway, RemoveSocketDir, RemoveNetwork,
         RemoveOpenShell, StopRuntime, RemoveRuntime, EndCleanup, BrewUpgrade, ChooseRelease, Download,
         VerifyDownload, ReplaceBinary, UpgradeOpenShell, StopForUpdate, UpdateRuntime, StartAgain, RunSetup

\* Each variable is the business of a few steps.
LEMMA Frames ==
    ASSUME [HostNext]_allVars
    PROVE  /\ UNCHANGED binary \/ BrewUpgrade \/ ReplaceBinary
           /\ UNCHANGED plist \/ WritePlist \/ RemovePlist
           /\ \/ UNCHANGED networks \/ EnsureNetwork \/ DriverListens \/ AssignAddress
              \/ DropNetwork \/ RemoveNetwork \/ RemoveRuntime
           /\ UNCHANGED certs \/ EnsureCertSAN \/ RemoveOpenShell \/ InstallOpenShell \/ UpgradeOpenShell
           /\ UNCHANGED <<envFile, mine, lost>> \/ WriteBlock \/ RemoveBlock \/ RemoveOpenShell \/ EditGatewayEnv
           /\ \/ UNCHANGED openshell \/ RestartGateway \/ StopGateway \/ RemoveOpenShell \/ Reboot
              \/ InstallOpenShell \/ UpgradeOpenShell
           /\ UNCHANGED job \/ Bootout \/ Bootstrap \/ RemoveAgent \/ BrewUpgrade \/ DriverEnds \/ Reboot
           /\ \/ UNCHANGED proc \/ Bootout \/ Kickstart \/ RemoveAgent \/ BrewUpgrade \/ LaunchProcess
              \/ DriverListens \/ DriverDrains \/ DriverEnds \/ Reboot
           /\ \/ UNCHANGED runtime \/ EnsureRuntime \/ StopRuntime \/ RemoveRuntime \/ StopForUpdate
              \/ StartAgain \/ DriverListens \/ Reboot
           /\ UNCHANGED kernel \/ EnsureKernel \/ RemoveRuntime
<1> USE DEF platform, gatewayVars, service, command
<1>1. CASE StartSetup \/ Setup
  BY <1>1 DEF StartSetup, Setup,
              EnsureRuntime, EnsureKernel, EnsureNetwork, AwaitAddress, EnsureCertSAN, WriteBlock,
              WritePlist, Bootout, AwaitUnload, Bootstrap, AwaitSocket, Kickstart, ConfirmSocket,
              RestartGateway
<1>2. CASE StartCleanup \/ Cleanup \/ Interrupt
  BY <1>2 DEF StartCleanup, Cleanup, Interrupt,
              RemoveAgent, RemovePlist, RemoveBlock, StopGateway, RemoveSocketDir, RemoveNetwork,
              RemoveOpenShell, StopRuntime, RemoveRuntime, EndCleanup
<1>3. CASE Environment \/ UserActs
  BY <1>3 DEF Environment, LaunchProcess, DriverListens, DriverDrains, DriverEnds, AssignAddress, Reboot,
              UserActs, InstallOpenShell, DropNetwork, EditGatewayEnv
<1>4. CASE Update
  BY <1>4 DEF Update, StartUpdate,
              BrewUpgrade, ChooseRelease, Download, VerifyDownload, ReplaceBinary, UpgradeOpenShell,
              StopForUpdate, UpdateRuntime, StartAgain, RunSetup
<1>5. CASE UNCHANGED allVars
  BY <1>5 DEF allVars, vars
<1> QED
  BY <1>1, <1>2, <1>3, <1>4, <1>5 DEF HostNext

-----------------------------------------------------------------------------
(* Where a command can have got to.                                          *)

\* What the command was asked for stays, what it has kept, and that it has warned and was rebooted.
Kept == Asked(cmd, cmd') /\ (cmd.warned => cmd'.warned) /\ (cmd.rebooted => cmd'.rebooted)

\* A command that stays where it is.
Stays == step' = step /\ Kept /\ cmd'.tls = cmd.tls /\ cmd'.ok = cmd.ok /\ (cmd' = cmd \/ Resting)

\* What a step is, as far as the command is concerned.
LEMMA StepKinds ==
    ASSUME DOMAIN cmd = DOMAIN NoCommand, [HostNext]_allVars
    PROVE  StartSetup \/ Setup \/ StartCleanup \/ Cleanup \/ Update \/ Stops \/ Stays
<1>1. CASE UNCHANGED <<step, cmd>>
  BY <1>1 DEF Stays, Kept, Asked
<1>2. CASE Reboot
  BY <1>2, OtherMoves DEF Stays, Kept
<1>3. CASE Interrupt \/ UserActs
  BY <1>3, OtherMoves
<1>4. CASE Environment /\ ~Reboot
  BY <1>4, <1>1 DEF Environment, LaunchProcess, DriverListens, DriverDrains, DriverEnds, AssignAddress, command
<1>5. CASE UNCHANGED allVars
  BY <1>5, <1>1 DEF allVars, vars, command
<1> QED
  BY <1>2, <1>3, <1>4, <1>5 DEF HostNext

\* A command gets to where it is by one step, and has kept since then what it was asked and has found out.
LEMMA Progress ==
    ASSUME Commanded, [HostNext]_allVars
    PROVE  /\ Commanded'
           /\ After(Certified)' => EnsureCertSAN \/ (After(Certified) /\ Kept /\ cmd'.tls = cmd.tls)
           /\ After(Wired)' => WriteBlock \/ (After(Wired) /\ Kept /\ cmd'.tls = cmd.tls)
           /\ After(Placed)' => WritePlist \/ (After(Placed) /\ Kept /\ cmd'.tls = cmd.tls)
           /\ After(Started)' => (Bootstrap /\ step' = "socket") \/ (After(Started) /\ Kept /\ cmd'.tls = cmd.tls)
           /\ After(Booted)' => (EnsureRuntime /\ runtime' = "running") \/ (After(Booted) /\ Kept)
           /\ After(Kernelled)' => EnsureKernel \/ (After(Kernelled) /\ Kept)
           /\ Cleaned(Unlisted)' => RemoveAgent \/ (Cleaned(Unlisted) /\ Kept)
           /\ Cleaned(Unplaced)' => RemovePlist \/ (Cleaned(Unplaced) /\ Kept)
           /\ Cleaned(Unwired)' => RemoveBlock \/ (Cleaned(Unwired) /\ Kept)
           /\ Cleaned(Halted)' => StopGateway \/ (Cleaned(Halted) /\ Kept)
           /\ SetUp' => RestartGateway \/ (SetUp /\ Kept /\ cmd'.tls = cmd.tls)
<1>1. DOMAIN cmd = DOMAIN NoCommand
  BY DEF Commanded
<1>2. EnsureCertSAN => step = "certificate" /\ ((step' = "env" /\ Kept) \/ Stops)
  BY <1>1, SetupMoves, Guards DEF Kept
<1> USE DEF After, Cleaned, SetUp, Ended, Certified, Wired, Placed, Started, Unloading, Booted, Kernelled,
            Unlisted, Unplaced, Unwired, Halted, SetupSteps, CleanupSteps, UpdateSteps,
            Goes, Stops, Stays, Warns, Ends, Kept, Asked, Found
<1>3. CASE Stops
  BY <1>3 DEF Commanded
<1>4. CASE Stays
  BY <1>4 DEF Commanded
<1>5. CASE StartSetup
  BY <1>5, <1>1, SetupMoves, OptionsAssumption DEF Commanded
<1>6. CASE StartCleanup
  BY <1>6, <1>1, CleanupMoves DEF Commanded
<1>7. CASE Setup
  <2>1. CASE EnsureRuntime \/ EnsureKernel \/ EnsureNetwork \/ AwaitAddress
    BY <2>1, <1>1, SetupMoves, Guards DEF Commanded
  <2>2. CASE EnsureCertSAN
    BY <2>2, <1>2 DEF Commanded
  <2>3. CASE WriteBlock \/ WritePlist
    BY <2>3, <1>1, SetupMoves, Guards DEF Commanded
  <2>7. CASE Bootout \/ AwaitUnload
    BY <2>7, <1>1, SetupMoves, Guards DEF Commanded
  <2>4. CASE Bootstrap \/ AwaitSocket
    BY <2>4, <1>1, SetupMoves, Guards DEF Commanded
  <2>5. CASE Kickstart \/ ConfirmSocket
    BY <2>5, <1>1, SetupMoves, Guards DEF Commanded
  <2>6. CASE RestartGateway
    BY <2>6, <1>1, SetupMoves, Guards DEF Commanded
  <2> QED
    BY <1>7, <2>1, <2>2, <2>3, <2>4, <2>5, <2>6, <2>7 DEF Setup
<1>8. CASE Cleanup
  BY <1>8, <1>1, CleanupMoves, Guards DEF Commanded, Cleanup
<1>9. CASE Update
  <2>1. CASE StartUpdate \/ BrewUpgrade \/ ChooseRelease \/ Download
    BY <2>1, <1>1, UpdateMoves, Guards DEF Commanded
  <2>2. CASE VerifyDownload \/ ReplaceBinary \/ UpgradeOpenShell
    BY <2>2, <1>1, UpdateMoves, Guards DEF Commanded
  <2>3. CASE StopForUpdate \/ UpdateRuntime \/ StartAgain \/ RunSetup
    BY <2>3, <1>1, UpdateMoves, Guards DEF Commanded
  <2> QED
    BY <1>9, <2>1, <2>2, <2>3 DEF Update
<1> QED
  BY <1>1, <1>3, <1>4, <1>5, <1>6, <1>7, <1>8, <1>9, StepKinds


\* A command that has come so far is at one of its later steps, or over.
LEMMA Places ==
    /\ SetUp => After(Started)
    /\ After(Started) => After(Placed)
    /\ After(Placed) => After(Wired)
    /\ After(Wired) => After(Certified)
    /\ After(Certified) => After(Kernelled)
    /\ After(Kernelled) => After(Booted)
    /\ After(Booted) => step \in SetupSteps \cup {"done"}
    /\ Ended("cleanup") => Cleaned(Halted)
    /\ Cleaned(Halted) => Cleaned(Unwired)
    /\ Cleaned(Unwired) => Cleaned(Unplaced)
    /\ Cleaned(Unplaced) => Cleaned(Unlisted)
    /\ Cleaned(Unlisted) => step \in CleanupSteps \cup {"done"}
  BY DEF After, Cleaned, SetUp, Ended, Certified, Wired, Placed, Started, Unloading, Booted, Kernelled,
         Unlisted, Unplaced, Unwired, Halted, SetupSteps, CleanupSteps

\* A command that has stopped has come nowhere.
LEMMA Stopped ==
    ASSUME Stops
    PROVE  ~After(Booted)' /\ ~Cleaned(Unlisted)'
  BY DEF Stops, After, Cleaned, SetUp, Ended, Certified, Wired, Placed, Started, Unloading, Booted, Kernelled,
         Unlisted, Unplaced, Unwired, Halted

\* The steps that find out a release or an address, and what comes before each.
LEMMA Entries ==
    ASSUME Commanded, [HostNext]_allVars
    PROVE  /\ step' = "release" => (StartUpdate /\ ~Stops) \/ (step = "release" /\ cmd' = cmd)
           /\ step' = "download" => ChooseRelease \/ (step = "download" /\ cmd' = cmd)
           /\ step' = "verify" => Download \/ (step = "verify" /\ cmd' = cmd)
           /\ step' = "replace" => (VerifyDownload /\ ~Stops) \/ (step = "replace" /\ cmd' = cmd)
           /\ step' = "certificate" => EnsureNetwork \/ AwaitAddress \/ (step = "certificate" /\ cmd' = cmd)
<1>1. DOMAIN cmd = DOMAIN NoCommand
  BY DEF Commanded
<1>2. EnsureCertSAN => step' = "env" \/ Stops
  BY <1>1, SetupMoves
<1> USE DEF Goes, Stops, Stays, Ends
<1>3. CASE Stops
  BY <1>3
<1>4. CASE Stays
  BY <1>4 DEF Resting
<1>5. CASE StartSetup \/ StartCleanup
  BY <1>5, <1>1, SetupMoves, CleanupMoves
<1>6. CASE Setup
  <2>1. CASE EnsureCertSAN
    BY <2>1, <1>2
  <2>2. CASE ~EnsureCertSAN
    BY <2>2, <1>6, <1>1, SetupMoves DEF Setup
  <2> QED
    BY <2>1, <2>2
<1>7. CASE Cleanup
  BY <1>7, <1>1, CleanupMoves DEF Cleanup
<1>8. CASE Update
  BY <1>8, <1>1, UpdateMoves DEF Update
<1> QED
  BY <1>1, <1>3, <1>4, <1>5, <1>6, <1>7, <1>8, StepKinds

-----------------------------------------------------------------------------
(* The inductive invariant, part by part.                                    *)

\* What is installed: only a verified release gets as far as ReplaceBinary.
LEMMA InstalledHolds ==
    ASSUME Commanded, Installed, [HostNext]_allVars
    PROVE  Installed'
<1>1. DOMAIN cmd = DOMAIN NoCommand
  BY DEF Commanded
<1>2. (binary.build \in Builds /\ binary.exec /\ DOMAIN binary = {"build", "exec", "cask"})'
  <2>1. CASE UNCHANGED binary
    BY <2>1 DEF Installed
  <2>2. CASE BrewUpgrade
    BY <2>2, LatestAssumption DEF Installed, BrewUpgrade
  <2>3. CASE ReplaceBinary
    <3>1. cmd.archive \in Builds
      BY <2>3, Guards DEF Installed
    <3> QED
      BY <3>1, <2>3, <1>1, UpdateMoves DEF Installed
  <2> QED
    BY <2>1, <2>2, <2>3, Frames
<1>3. step' = "release" => cmd'.want \in Builds \cup {None}
  BY <1>1, Entries, UpdateMoves DEF Installed
<1>4. step' = "download" => cmd'.want \in Builds
  <2>1. ChooseRelease => cmd.want \in Builds \cup {None}
    BY Guards DEF Installed
  <2>2. ChooseRelease /\ step' = "download" => cmd'.want \in Builds
    BY <2>1, <1>1, UpdateMoves, LatestAssumption
  <2> QED
    BY <2>2, Entries DEF Installed
<1>5. step' = "verify" => cmd'.want \in Builds
  <2>1. Download => cmd'.want \in Builds
    BY <1>1, Guards, UpdateMoves DEF Installed
  <2> QED
    BY <2>1, Entries DEF Installed
<1>6. step' = "replace" => cmd'.archive \in Builds
  <2>1. VerifyDownload /\ ~Stops => cmd'.archive \in Builds
    BY <1>1, Guards, UpdateMoves DEF Installed
  <2> QED
    BY <2>1, Entries DEF Installed
<1> QED
  BY <1>2, <1>3, <1>4, <1>5, <1>6 DEF Installed

\* A runtime that is up stays up, but for three steps and the crash of the host.
LEMMA RuntimeStays ==
    ASSUME runtime = "running", [HostNext]_allVars
    PROVE  runtime' = "running" \/ StopRuntime \/ StopForUpdate \/ Reboot
<1>1. EnsureRuntime => runtime' = "running"
  BY DEF EnsureRuntime
<1>2. RemoveRuntime => runtime' = "running"
  BY DEF RemoveRuntime
<1>3. StartAgain => runtime' = "running"
  BY DEF StartAgain
<1>4. DriverListens => runtime' = "running"
  BY DEF DriverListens
<1> QED
  BY <1>1, <1>2, <1>3, <1>4, Frames

\* The runtime and the kernel: update starts the one again, setup the one and the other.
LEMMA RuntimeKeptHolds ==
    ASSUME Commanded, RuntimeKept, [HostNext]_allVars
    PROVE  RuntimeKept'
<1>1. DOMAIN cmd = DOMAIN NoCommand
  BY DEF Commanded
<1>2. ASSUME cmd'.op = "update", cmd'.wasUp, ~cmd'.warned, ~cmd'.rebooted,
             step' \notin {"update runtime", "start again"}
      PROVE  runtime' = "running"
  <2>1. ASSUME cmd.op = "update" => cmd.wasUp /\ ~cmd.warned /\ ~cmd.rebooted, cmd.op = "update",
               step \notin {"update runtime", "start again"}, ~Reboot, ~StopRuntime, ~StopForUpdate
        PROVE  runtime' = "running"
    BY <2>1, RuntimeStays DEF RuntimeKept
  <2>2. ~Stops /\ ~StartSetup /\ ~StartCleanup
    BY <1>1, <1>2, SetupMoves, CleanupMoves DEF Stops
  <2>3. CASE Stays
    BY <2>3, <2>1, <1>2, <1>1, OtherMoves, Guards, UpdateMoves, CleanupMoves DEF Stays, Kept, Asked, Goes, Stops
  <2>4. CASE Setup
    <3>1. Kept /\ step \in SetupSteps
      <4>1. EnsureCertSAN => Kept
        BY <1>1, <2>2, SetupMoves DEF Kept
      <4> QED
        BY <4>1, <2>4, <2>2, <1>1, SetupMoves, Guards DEF Setup, SetupSteps, Kept, Goes, Ends, Warns, Found
    <3>2. ~Reboot /\ ~StopRuntime /\ ~StopForUpdate
      BY <3>1, <1>1, Guards, OtherMoves DEF SetupSteps, Resting
    <3> QED
      BY <3>1, <3>2, <2>1, <1>2 DEF Kept, Asked, SetupSteps
  <2>5. CASE Cleanup
    <3>1. cmd.op = "cleanup"
      BY <2>5, Guards DEF Cleanup, Commanded, CleanupSteps
    <3>2. cmd'.op = cmd.op
      <4>1. RemoveAgent \/ RemoveBlock => cmd'.op = cmd.op
        BY <2>2, <1>1, CleanupMoves DEF Goes, Asked
      <4>2. RemovePlist \/ StopGateway \/ RemoveSocketDir \/ RemoveNetwork => cmd'.op = cmd.op
        BY <1>1, CleanupMoves DEF Goes, Warns, Asked
      <4>3. RemoveOpenShell \/ StopRuntime \/ RemoveRuntime \/ EndCleanup => cmd'.op = cmd.op
        BY <1>1, CleanupMoves DEF Goes, Ends, Warns, Asked
      <4> QED
        BY <2>5, <4>1, <4>2, <4>3 DEF Cleanup
    <3> QED
      BY <3>1, <3>2, <1>2
  <2>6. CASE StartUpdate
    BY <2>6, <2>2, <1>1, <1>2, UpdateMoves DEF StartUpdate, platform
  <2>7. CASE \/ BrewUpgrade \/ ChooseRelease \/ Download \/ VerifyDownload \/ ReplaceBinary
             \/ UpgradeOpenShell \/ RunSetup
    <3>1. Kept
      BY <2>7, <2>2, <1>1, UpdateMoves DEF Kept, Goes, Ends, Warns, Found
    <3>2. ~Reboot /\ ~StopRuntime /\ ~StopForUpdate /\ step \notin {"update runtime", "start again"}
      BY <2>7, <1>1, Guards, OtherMoves DEF Resting
    <3> QED
      BY <3>1, <3>2, <2>1, <1>2 DEF Kept, Asked
  <2>8. CASE StopForUpdate \/ UpdateRuntime
    <3>1. runtime = "absent" /\ Goes("updated") /\ UNCHANGED runtime /\ step = "stop for update"
      BY <2>8, <1>1, <1>2, UpdateMoves, Guards DEF Goes
    <3> QED
      BY <3>1, <1>2 DEF RuntimeKept, Goes, Asked, Found
  <2>9. CASE StartAgain
    BY <2>9, <1>1, <1>2, UpdateMoves
  <2> QED
    BY <2>2, <2>3, <2>4, <2>5, <2>6, <2>7, <2>8, <2>9, <1>1, StepKinds DEF Update
<1>3. ASSUME After(Booted)' PROVE runtime' = "running" \/ cmd'.rebooted
  <2>1. CASE runtime' = "running"
    BY <2>1
  <2>2. CASE After(Booted) /\ Kept
    <3>1. step \in SetupSteps \cup {"done"}
      BY <2>2, Places
    <3>2. ~StopRuntime /\ ~StopForUpdate
      BY <3>1, Guards DEF SetupSteps
    <3>3. Reboot => cmd'.rebooted
      BY <1>1, OtherMoves
    <3> QED
      BY <2>2, <3>2, <3>3, RuntimeStays DEF RuntimeKept, Kept
  <2> QED
    BY <2>1, <2>2, <1>3, Progress
<1>4. ASSUME After(Kernelled)' PROVE kernel' \/ cmd'.warned
  <2>1. CASE EnsureKernel
    BY <2>1, <1>1, SetupMoves
  <2>2. CASE After(Kernelled) /\ Kept /\ ~EnsureKernel
    <3>1. step \in SetupSteps \cup {"done"}
      BY <2>2, Places
    <3>2. ~RemoveRuntime
      BY <3>1, Guards DEF SetupSteps
    <3> QED
      BY <2>2, <3>2, Frames DEF RuntimeKept, Kept
  <2> QED
    BY <2>1, <2>2, <1>4, Progress
<1> QED
  BY <1>2, <1>3, <1>4 DEF RuntimeKept

\* A network that has an address keeps it while it is there, and it is there until it is removed.
LEMMA NetworkStays ==
    ASSUME NEW n \in DOMAIN networks, networks[n] \in Addresses, [HostNext]_allVars
    PROVE  (n \in DOMAIN networks' /\ networks'[n] = networks[n]) \/ Stops \/ RemoveNetwork \/ RemoveRuntime
<1>1. CASE UNCHANGED networks
  BY <1>1
<1>2. CASE EnsureNetwork
  <2>1. \/ UNCHANGED networks
        \/ /\ (IF cmd.network \in DOMAIN networks THEN networks[cmd.network] ELSE None) = None
           /\ \E a \in NewAddresses :
                networks' =
               [m \in DOMAIN networks \cup {cmd.network} |-> IF m = cmd.network THEN a ELSE networks[m]]
    BY <1>2 DEF EnsureNetwork
  <2>2. None \notin Addresses
    BY NoneAssumption
  <2> QED
    BY <2>1, <2>2
<1>3. CASE DriverListens
  <2>1. \/ UNCHANGED networks
        \/ /\ DriverNetwork \notin DOMAIN networks
           /\ \E a \in NewAddresses :
                networks' =
               [m \in DOMAIN networks \cup {DriverNetwork} |-> IF m = DriverNetwork THEN a ELSE networks[m]]
    BY <1>3 DEF DriverListens
  <2> QED
    BY <2>1
<1>4. CASE AssignAddress
  <2>1. PICK m \in DOMAIN networks, a \in Addresses \ Assigned :
            networks[m] = Pending /\ networks' = [networks EXCEPT ![m] = a]
    BY <1>4 DEF AssignAddress
  <2>2. m # n
    BY <2>1, AddressesAssumption
  <2> QED
    BY <2>1, <2>2
<1>5. CASE DropNetwork
  BY <1>5, CommandOver DEF DropNetwork, Acts, Stops
<1> QED
  BY <1>1, <1>2, <1>3, <1>4, <1>5, Frames

\* Networks have addresses, or wait for one.
LEMMA AddressesHold ==
    ASSUME Addressed, [HostNext]_allVars
    PROVE  \A n \in DOMAIN networks' : networks'[n] \in Addresses \cup {Pending}
<1>1. CASE UNCHANGED networks
  BY <1>1 DEF Addressed
<1>2. CASE EnsureNetwork
  <2>1. \/ UNCHANGED networks
        \/ \E a \in NewAddresses :
             networks' =
               [m \in DOMAIN networks \cup {cmd.network} |-> IF m = cmd.network THEN a ELSE networks[m]]
    BY <1>2 DEF EnsureNetwork
  <2> QED
    BY <2>1 DEF Addressed, NewAddresses
<1>3. CASE DriverListens
  <2>1. \/ UNCHANGED networks
        \/ \E a \in NewAddresses :
             networks' =
               [m \in DOMAIN networks \cup {DriverNetwork} |-> IF m = DriverNetwork THEN a ELSE networks[m]]
    BY <1>3 DEF DriverListens
  <2> QED
    BY <2>1 DEF Addressed, NewAddresses
<1>4. CASE AssignAddress
  BY <1>4 DEF AssignAddress, Addressed
<1>5. CASE DropNetwork \/ RemoveNetwork
  BY <1>5 DEF DropNetwork, RemoveNetwork, Addressed
<1>6. CASE RemoveRuntime
  <2>1. networks' = <<>> \/ UNCHANGED networks
    BY <1>6 DEF RemoveRuntime
  <2>2. DOMAIN <<>> = {}
    OBVIOUS
  <2> QED
    BY <2>1, <2>2 DEF Addressed
<1> QED
  BY <1>1, <1>2, <1>3, <1>4, <1>5, <1>6, Frames

\* The certificate is made for the address that the network has, and keeps.
LEMMA AddressedHolds ==
    ASSUME Commanded, Addressed, [HostNext]_allVars
    PROVE  Addressed'
<1>1. DOMAIN cmd = DOMAIN NoCommand
  BY DEF Commanded
<1>2. (certs \in [Bundles -> Addresses \cup {"absent", "bare"}])'
  <2>1. CASE UNCHANGED certs
    BY <2>1 DEF Addressed
  <2>2. CASE EnsureCertSAN
    <3>1. cmd.ip \in Addresses
      BY <2>2, Guards DEF Addressed
    <3>2. UNCHANGED certs \/ \E t : certs' = [certs EXCEPT ![t] = cmd.ip]
      BY <2>2 DEF EnsureCertSAN
    <3> QED
      BY <3>1, <3>2 DEF Addressed
  <2>3. CASE RemoveOpenShell
    BY <2>3 DEF RemoveOpenShell, Addressed
  <2>4. CASE InstallOpenShell
    BY <2>4 DEF InstallOpenShell, Addressed
  <2>5. CASE UpgradeOpenShell
    BY <2>5 DEF UpgradeOpenShell, Addressed
  <2> QED
    BY <2>1, <2>2, <2>3, <2>4, <2>5, Frames
<1>3. ASSUME step' = "certificate"
      PROVE  cmd'.ip \in Addresses /\ cmd'.network \in DOMAIN networks' /\ networks'[cmd'.network] = cmd'.ip
  <2>1. CASE EnsureNetwork
    <3>1. /\ Asked(cmd, cmd') /\ UNCHANGED networks
          /\ cmd'.ip = (IF cmd.network \in DOMAIN networks THEN networks[cmd.network] ELSE None)
          /\ cmd'.ip \in Addresses
      BY <2>1, <1>1, <1>3, SetupMoves DEF Goes, Stops
    <3> QED
      BY <3>1, NoneAssumption DEF Asked
  <2>2. CASE AwaitAddress
    <3>1. /\ Asked(cmd, cmd') /\ cmd.network \in DOMAIN networks /\ cmd'.ip = networks[cmd.network]
          /\ cmd'.ip \in Addresses
      BY <2>2, <1>1, <1>3, SetupMoves DEF Stops
    <3>2. UNCHANGED networks
      BY <2>2 DEF AwaitAddress, platform
    <3> QED
      BY <3>1, <3>2 DEF Asked
  <2>3. CASE step = "certificate" /\ cmd' = cmd
    <3>1. cmd.ip \in Addresses /\ cmd.network \in DOMAIN networks /\ networks[cmd.network] = cmd.ip
      BY <2>3 DEF Addressed
    <3>2. ~Stops /\ ~RemoveNetwork /\ ~RemoveRuntime
      BY <2>3, <1>3, Guards DEF Stops
    <3> QED
      BY <2>3, <3>1, <3>2, NetworkStays
  <2> QED
    BY <2>1, <2>2, <2>3, <1>3, Entries
<1>4. ASSUME After(Certified)'
      PROVE  /\ cmd'.tls = (IF cmd'.tlsDir = None THEN DefaultGuestTLSDir' ELSE cmd'.tlsDir)
             /\ cmd'.tls \in Bundles /\ certs'[cmd'.tls] \in Addresses
             /\ cmd'.network \in DOMAIN networks' /\ networks'[cmd'.network] = certs'[cmd'.tls]
  <2>1. ~Stops
    BY <1>4, Stopped, Places DEF After, Booted, Kernelled
  <2>2. CASE EnsureCertSAN
    <3> DEFINE tls == IF cmd.tlsDir = None THEN DefaultGuestTLSDir ELSE cmd.tlsDir
    <3>1. /\ Asked(cmd, cmd') /\ cmd'.tls = tls /\ certs' = [certs EXCEPT ![tls] = cmd.ip]
      BY <2>1, <2>2, <1>1, SetupMoves
    <3>2. cmd.ip \in Addresses /\ cmd.network \in DOMAIN networks /\ networks[cmd.network] = cmd.ip
      BY <2>2, Guards DEF Addressed
    <3>3. tls \in Bundles
      <4>1. cmd.tlsDir \in Bundles \cup {None}
        BY <2>2, Guards DEF Commanded, SetupSteps
      <4> QED
        BY <4>1 DEF DefaultGuestTLSDir, Bundles
    <3>4. UNCHANGED networks
      BY <2>2 DEF EnsureCertSAN
    <3>5. certs'[tls] = cmd.ip
      BY <3>1, <3>3 DEF Addressed
    <3>6. tls = (IF cmd.tlsDir = None THEN DefaultGuestTLSDir' ELSE cmd.tlsDir)
      <4>1. CASE tls = "brew"
        BY <4>1, <3>2, <3>5, AddressesAssumption DEF DefaultGuestTLSDir
      <4>2. CASE tls # "brew"
        <5>1. certs'["brew"] = certs["brew"]
          BY <4>2, <3>1 DEF Addressed, Bundles
        <5> QED
          BY <5>1 DEF DefaultGuestTLSDir
      <4> QED
        BY <4>1, <4>2
    <3> HIDE DEF tls
    <3> QED
      BY <3>1, <3>2, <3>3, <3>4, <3>5, <3>6 DEF Asked
  <2>3. CASE After(Certified) /\ Kept /\ cmd'.tls = cmd.tls /\ ~EnsureCertSAN
    <3>1. step \in SetupSteps \cup {"done"}
      BY <2>3, Places
    <3>2. ~RemoveOpenShell /\ ~UpgradeOpenShell /\ ~RemoveNetwork /\ ~RemoveRuntime
      BY <3>1, Guards DEF SetupSteps
    <3>3. ~InstallOpenShell
      BY <2>1, <1>1, OtherMoves DEF UserActs
    <3>4. UNCHANGED certs
      BY <2>3, <3>2, <3>3, Frames
    <3>5. DefaultGuestTLSDir' = DefaultGuestTLSDir
      BY <3>4 DEF DefaultGuestTLSDir
    <3>6. /\ cmd.tls = (IF cmd.tlsDir = None THEN DefaultGuestTLSDir ELSE cmd.tlsDir)
          /\ cmd.tls \in Bundles /\ certs[cmd.tls] \in Addresses
          /\ cmd.network \in DOMAIN networks /\ networks[cmd.network] = certs[cmd.tls]
      BY <2>3 DEF Addressed
    <3>7. cmd.network \in DOMAIN networks' /\ networks'[cmd.network] = networks[cmd.network]
      BY <3>6, <2>1, <3>2, NetworkStays
    <3>8. cmd'.network = cmd.network /\ cmd'.tlsDir = cmd.tlsDir
      BY <2>3 DEF Kept, Asked
    <3> QED
      BY <2>3, <3>4, <3>5, <3>6, <3>7, <3>8
  <2> QED
    BY <2>2, <2>3, <1>4, Progress
<1> QED
  BY <1>2, <1>3, <1>4, AddressesHold DEF Addressed

\* A file that is rewritten keeps the user's lines, and one that is replaced loses all of them.
LEMMA Rewritten ==
    ASSUME Wiring, mine' = mine, NEW r, r \in Seq(Lines)
    PROVE  /\ Overwrite(r) /\ Loose(r) = Loose(envFile) =>
                  Wrapped(envFile') /\ UserLinesSurvive' /\ lost' \in BOOLEAN
           /\ Replace(r) /\ Loose(r) = {} => Wrapped(envFile') /\ UserLinesSurvive' /\ lost' \in BOOLEAN
<1>1. ASSUME Overwrite(r), Loose(r) = Loose(envFile)
      PROVE  Wrapped(envFile') /\ UserLinesSurvive' /\ lost' \in BOOLEAN
  <2>1. Wrapped(r) /\ Outside(r) = Outside(envFile)
    BY <1>1, WrappedIsLoose, OutsideIsLoose DEF Wiring
  <2> QED
    BY <1>1, <2>1 DEF Overwrite, Wiring, UserLinesSurvive
<1>2. ASSUME Replace(r), Loose(r) = {}
      PROVE  Wrapped(envFile') /\ UserLinesSurvive' /\ lost' \in BOOLEAN
  <2>1. Wrapped(r) /\ Outside(r) = {}
    <3>1. <<>> \in Seq(Lines) /\ Loose(<<>>) = {}
      BY DEF Loose
    <3>2. Outside(<<>>) = {}
      BY DEF Outside
    <3>3. Outside(r) = Outside(<<>>)
      BY <1>2, <3>1, OutsideIsLoose
    <3> QED
      BY <1>2, <3>2, <3>3 DEF Wrapped
  <2>2. envFile' = r /\ (lost' <=> lost \/ Outside(envFile) # {}) /\ lost' \in BOOLEAN
    BY <1>2 DEF Replace, Wiring
  <2>3. Outside(envFile) = IF lost THEN {} ELSE mine
    BY DEF Wiring, UserLinesSurvive
  <2> QED
    BY <2>1, <2>2, <2>3 DEF UserLinesSurvive
<1> QED
  BY <1>1, <1>2

\* The file: its own lines are in their block, the user's are those he wrote.
LEMMA FileHolds ==
    ASSUME Commanded, Addressed, Wiring, [HostNext]_allVars
    PROVE  envFile' \in Seq(Lines) /\ Wrapped(envFile)' /\ UserLinesSurvive' /\ lost' \in BOOLEAN
<1>1. CASE UNCHANGED <<envFile, mine, lost>>
  BY <1>1 DEF Wiring, Wrapped, Loose, Inside, Outside, UserLinesSurvive
<1>2. <<>> \in Seq(Lines) /\ Loose(<<>>) = {}
  BY DEF Loose
<1>3. CASE WriteBlock
  <2>1. cmd.tls \in Bundles
    BY <1>3, Guards DEF Addressed, After, Certified
  <2>2. /\ UpsertManagedBlock(envFile, cmd.tls) \in Seq(Lines)
        /\ Loose(UpsertManagedBlock(envFile, cmd.tls)) = Loose(envFile)
        /\ UpsertManagedBlock(<<>>, cmd.tls) \in Seq(Lines)
        /\ Loose(UpsertManagedBlock(<<>>, cmd.tls)) = {}
    BY <2>1, <1>2, UpsertKeeps DEF Wiring
  <2>3. \/ Overwrite(UpsertManagedBlock(envFile, cmd.tls))
        \/ Replace(UpsertManagedBlock(<<>>, cmd.tls))
        \/ Replace(<<>>)
    BY <1>3 DEF WriteBlock, CutShort
  <2>4. mine' = mine
    BY <1>3 DEF WriteBlock
  <2> QED
    BY <1>2, <2>2, <2>3, <2>4, Rewritten DEF Overwrite, Replace
<1>4. CASE RemoveBlock
  <2> DEFINE left == IF RemoveManagedBlock(envFile) = <<Blank>> THEN <<>> ELSE RemoveManagedBlock(envFile)
  <2>1. left \in Seq(Lines) /\ Loose(left) = Loose(envFile)
    BY RemoveBlockKeeps DEF Wiring
  <2>2. Overwrite(left) \/ UNCHANGED <<envFile, lost>> \/ Replace(<<>>)
    BY <1>4 DEF RemoveBlock, CutShort
  <2>3. mine' = mine
    BY <1>4 DEF RemoveBlock
  <2> HIDE DEF left
  <2> QED
    BY <1>1, <1>2, <2>1, <2>2, <2>3, Rewritten DEF Overwrite, Replace
<1>5. CASE RemoveOpenShell
  <2>1. mine' = mine /\ (UNCHANGED <<envFile, lost>> \/ Replace(<<>>))
    BY <1>5 DEF RemoveOpenShell
  <2> QED
    BY <1>1, <1>2, <2>1, Rewritten DEF Replace
<1>6. CASE EditGatewayEnv
  <2>1. mine' = Outside(envFile)' /\ lost' = FALSE
    BY <1>6 DEF EditGatewayEnv
  <2>2. \/ envFile' = <<User("b")>> \o envFile
        \/ envFile' = envFile \o <<User("c")>>
        \/ envFile' = envFile \o envFile
        \/ \E k \in DOMAIN envFile : envFile[k] = End /\ envFile' = RemoveAt(envFile, k)
    BY <1>6 DEF EditGatewayEnv
  <2>3. envFile' \in Seq(Lines) /\ Wrapped(envFile')
    BY <2>2, EditsKeepWrapped DEF Wiring
  <2> QED
    BY <2>1, <2>3 DEF UserLinesSurvive
<1> QED
  BY <1>1, <1>3, <1>4, <1>5, <1>6, Frames

\* The wiring: what setup wrote is what the file says, and what the gateway that it restarts reads.
LEMMA WiringHolds ==
    ASSUME Commanded, Addressed, Wiring, [HostNext]_allVars
    PROVE  Wiring'
<1>1. DOMAIN cmd = DOMAIN NoCommand
  BY DEF Commanded
<1>2. (DOMAIN openshell = {"installed", "up", "wired"})'
  <2>1. CASE UNCHANGED openshell
    BY <2>1 DEF Wiring
  <2>2. CASE RestartGateway
    BY <2>2 DEF RestartGateway, Wiring
  <2>3. CASE StopGateway
    BY <2>3 DEF StopGateway, Wiring
  <2>4. CASE RemoveOpenShell \/ InstallOpenShell \/ UpgradeOpenShell
    BY <2>4 DEF RemoveOpenShell, InstallOpenShell, UpgradeOpenShell, Wiring
  <2>5. CASE Reboot
    BY <2>5 DEF Reboot, Wiring
  <2> QED
    BY <2>1, <2>2, <2>3, <2>4, <2>5, Frames
<1>3. ASSUME After(Wired)' PROVE Begin \in ToSet(envFile') /\ WiredTo(envFile') = cmd'.tls
  <2>1. CASE WriteBlock
    <3>1. cmd.tls \in Bundles
      BY <2>1, Guards DEF Addressed, After, Certified
    <3>2. ~Stops
      BY <1>3, Stopped, Places DEF After, Booted, Kernelled, Certified
    <3>3. /\ envFile' \in {UpsertManagedBlock(envFile, cmd.tls), UpsertManagedBlock(<<>>, cmd.tls)}
          /\ cmd'.tls = cmd.tls
      BY <2>1, <1>1, <3>2, SetupMoves DEF Goes, Found
    <3>4. <<>> \in Seq(Lines)
      OBVIOUS
    <3>5. Begin \in ToSet(envFile') /\ WiredTo(envFile') = cmd.tls
      BY <3>1, <3>3, <3>4, UpsertKeeps DEF Wiring
    <3> QED
      BY <3>3, <3>5
  <2>2. CASE After(Wired) /\ Kept /\ cmd'.tls = cmd.tls /\ ~WriteBlock
    <3>1. step \in SetupSteps \cup {"done"}
      BY <2>2, Places
    <3>2. ~RemoveBlock /\ ~RemoveOpenShell
      BY <3>1, Guards DEF SetupSteps
    <3>3. ~EditGatewayEnv
      <4>1. ~Stops
        BY <1>3, Stopped, Places DEF After, Booted, Kernelled, Certified
      <4> QED
        BY <4>1, <1>1, OtherMoves DEF UserActs
    <3>4. UNCHANGED envFile
      BY <2>2, <3>2, <3>3, Frames
    <3> QED
      BY <2>2, <3>4 DEF Wiring
  <2> QED
    BY <2>1, <2>2, <1>3, Progress
<1>4. ASSUME SetUp'
      PROVE  /\ openshell'.up \/ cmd'.warned
             /\ openshell'.up /\ ~cmd'.warned => openshell'.wired = cmd'.tls
  <2>1. CASE RestartGateway
    <3>1. WiredTo(envFile) = cmd.tls /\ cmd'.tls = cmd.tls
      <4>1. WiredTo(envFile) = cmd.tls
        BY <2>1, Guards DEF Wiring, After, Wired, Placed, Started
      <4>2. cmd'.tls = cmd.tls
        BY <2>1, <1>1, SetupMoves DEF Ends, Warns
      <4> QED
        BY <4>1, <4>2
    <3>2. cmd'.warned \/ openshell' = [openshell EXCEPT !.up = TRUE, !.wired = WiredTo(envFile)]
      BY <2>1, <1>1, SetupMoves
    <3> QED
      BY <3>1, <3>2 DEF Wiring
  <2>2. CASE SetUp /\ Kept /\ cmd'.tls = cmd.tls /\ ~RestartGateway
    <3>1. step = "done"
      BY <2>2 DEF SetUp, Ended
    <3>2. ~StopGateway /\ ~RemoveOpenShell /\ ~UpgradeOpenShell
      BY <3>1, Guards
    <3>3. ~InstallOpenShell
      <4>1. ~Stops
        BY <1>4, Stopped DEF After
      <4> QED
        BY <4>1, <1>1, OtherMoves DEF UserActs
    <3>4. WiredTo(envFile) = cmd.tls
      BY <2>2 DEF Wiring, After
    <3>5. Reboot => openshell'.up = openshell.up /\ (openshell.up => openshell'.wired = WiredTo(envFile))
      BY DEF Reboot, Wiring
    <3>6. UNCHANGED openshell \/ Reboot
      BY <2>2, <3>2, <3>3, Frames
    <3>7. /\ openshell.up \/ cmd.warned
          /\ openshell.up /\ ~cmd.warned => openshell.wired = cmd.tls
      BY <2>2 DEF Wiring
    <3>8. cmd.warned => cmd'.warned
      BY <2>2 DEF Kept
    <3> QED
      BY <2>2, <3>4, <3>5, <3>6, <3>7, <3>8
  <2> QED
    BY <2>1, <2>2, <1>4, Progress
<1> QED
  BY <1>2, <1>3, <1>4, FileHolds DEF Wiring

\* The agent: one that is unloaded has no process that could start again, and no process survives its agent.
LEMMA AgentHolds ==
    ASSUME Serving, [HostNext]_allVars
    PROVE  /\ DOMAIN job' = {"state", "bin", "tls"} /\ DOMAIN proc' = {"phase", "build", "tls", "endpoint"}
           /\ job'.state = "absent" => proc'.phase = "none"
           /\ proc'.phase \in {"none", "starting", "serving", "draining", "closed"}
           /\ proc'.phase \in {"draining", "closed"} => job'.state = "leaving"
<1> USE DEF Serving, NoJob, NoProcess
<1>1. CASE Bootout \/ RemoveAgent \/ BrewUpgrade
  <2>1. Unload \/ UNCHANGED <<job, proc>>
    BY <1>1 DEF Bootout, RemoveAgent, BrewUpgrade
  <2> QED
    BY <2>1 DEF Unload
<1>2. CASE Bootstrap
  BY <1>2 DEF Bootstrap
<1>3. CASE DriverEnds
  BY <1>3 DEF DriverEnds
<1>4. CASE Reboot
  BY <1>4 DEF Reboot
<1>5. CASE Kickstart
  BY <1>5 DEF Kickstart
<1>6. CASE LaunchProcess
  BY <1>6 DEF LaunchProcess
<1>7. CASE DriverListens
  <2>1. UNCHANGED job /\ proc.phase = "starting" /\ \E e : proc' = [proc EXCEPT !.phase = "serving", !.endpoint = e]
    BY <1>7 DEF DriverListens
  <2> QED
    BY <2>1
<1>8. CASE DriverDrains
  BY <1>8 DEF DriverDrains
<1>9. CASE UNCHANGED <<job, proc>>
  BY <1>9
<1> QED
  BY <1>1, <1>2, <1>3, <1>4, <1>5, <1>6, <1>7, <1>8, <1>9, Frames

\* The plist names the path that outlives the builds, and the bundle of the setup that wrote it.
LEMMA PlistHolds ==
    ASSUME Commanded, Installed, Addressed, Serving, [HostNext]_allVars
    PROVE  /\ plist' # None => plist' \in [bin : {"launch"}, tls : Bundles]
           /\ After(Placed)' => plist' # None /\ plist'.tls = cmd'.tls
<1>1. ASSUME WritePlist
      PROVE  plist' \in [bin : {"launch"}, tls : Bundles] /\ plist'.tls = cmd.tls /\ cmd'.tls = cmd.tls
  <2>1. cmd.tls \in Bundles
    BY <1>1, Guards DEF Addressed, After, Certified, Wired
  <2>2. ResolveBinPath = "launch"
    BY DEF ResolveBinPath, EvalSymlinks, HomebrewCask, Installed
  <2> QED
    BY <1>1, <2>1, <2>2 DEF WritePlist, RenderLaunchAgent, GoTo
<1>2. plist' # None => plist' \in [bin : {"launch"}, tls : Bundles]
  <2>1. RemovePlist => plist' = None
    BY DEF RemovePlist
  <2> QED
    BY <1>1, <2>1, Frames DEF Serving
<1>3. ASSUME After(Placed)' PROVE plist' # None /\ plist'.tls = cmd'.tls
  <2>1. CASE WritePlist
    BY <2>1, <1>1, NoneAssumption
  <2>2. CASE After(Placed) /\ Kept /\ cmd'.tls = cmd.tls /\ ~WritePlist
    <3>1. step \in SetupSteps \cup {"done"}
      BY <2>2, Places
    <3>2. ~RemovePlist
      BY <3>1, Guards DEF SetupSteps
    <3>3. UNCHANGED plist
      BY <2>2, <3>2, Frames
    <3> QED
      BY <2>2, <3>3 DEF Serving
  <2> QED
    BY <2>1, <2>2, <1>3, Progress
<1> QED
  BY <1>2, <1>3

\* The agent that setup bootstraps, and every process of it until the next command.
LEMMA ServingHolds ==
    ASSUME Commanded, Installed, Addressed, Serving, [HostNext]_allVars
    PROVE  Serving'
<1>1. DOMAIN cmd = DOMAIN NoCommand
  BY DEF Commanded
<1>3. ASSUME After(Started)'
      PROVE  /\ job'.state = "loaded" /\ job'.tls = cmd'.tls
             /\ proc'.phase # "none" =>
                    /\ proc'.build = binary'.build /\ proc'.tls = cmd'.tls
                    /\ proc'.endpoint # None =>
                           /\ DriverNetwork \in DOMAIN networks' /\ proc'.endpoint = networks'[DriverNetwork]
                           /\ proc'.endpoint \in Addresses
  <2>1. CASE Bootstrap /\ step' = "socket"
    <3>1. plist.tls = cmd.tls
      BY <2>1, Guards DEF Serving, After, Placed, Unloading
    <3>2. /\ job.state = "absent" /\ cmd'.tls = cmd.tls
          /\ job' = [state |-> "loaded", bin |-> plist.bin, tls |-> plist.tls]
      BY <2>1, <1>1, SetupMoves DEF Goes, Stops, Found
    <3>3. proc' = proc /\ proc.phase = "none"
      BY <2>1, <3>2 DEF Bootstrap, Serving
    <3> QED
      BY <3>1, <3>2, <3>3
  <2>2. CASE After(Started) /\ Kept /\ cmd'.tls = cmd.tls /\ ~(Bootstrap /\ step' = "socket")
    <3>1. step \in Started \cup {"done"}
      BY <2>2 DEF After, SetUp, Ended
    <3>2. /\ ~Bootout /\ ~Bootstrap /\ ~RemoveAgent /\ ~BrewUpgrade /\ ~ReplaceBinary
          /\ ~RemoveNetwork /\ ~RemoveRuntime
      BY <3>1, Guards DEF Started
    <3>3. /\ job.state = "loaded" /\ job.tls = cmd.tls
          /\ proc.phase # "none" =>
                 /\ proc.build = binary.build /\ proc.tls = cmd.tls
                 /\ proc.endpoint # None =>
                        /\ DriverNetwork \in DOMAIN networks /\ proc.endpoint = networks[DriverNetwork]
                        /\ proc.endpoint \in Addresses
      BY <2>2 DEF Serving
    <3>4. plist # None /\ plist.tls = cmd.tls
      BY <2>2, Places DEF Serving
    <3>5. UNCHANGED binary
      BY <3>2, Frames
    <3>6. job'.state = "loaded" /\ job'.tls = cmd.tls
      <4>1. Reboot => job'.state = "loaded" /\ job'.tls = cmd.tls
        BY <3>4 DEF Reboot
      <4>2. DriverEnds => UNCHANGED job
        BY <3>3 DEF DriverEnds
      <4> QED
        BY <4>1, <4>2, <3>2, <3>3, Frames
    <3>7. ~Stops
      BY <1>3, Stopped DEF After, Booted, Kernelled, Certified, Wired, Placed
    <3>8. CASE UNCHANGED proc
      <4>1. ASSUME proc.phase # "none", proc.endpoint # None
            PROVE  DriverNetwork \in DOMAIN networks' /\ networks'[DriverNetwork] = networks[DriverNetwork]
        <5>1. DriverNetwork \in DOMAIN networks /\ networks[DriverNetwork] \in Addresses
          BY <4>1, <3>3
        <5> QED
          BY <5>1, <3>2, <3>7, NetworkStays
      <4> QED
        BY <4>1, <2>2, <3>3, <3>5, <3>6, <3>8
    <3>9. CASE (Kickstart \/ DriverEnds \/ Reboot) /\ ~UNCHANGED proc
      <4>1. proc' = NoProcess
        BY <3>9 DEF Kickstart, DriverEnds, Reboot
      <4> QED
        BY <4>1, <2>2, <3>6 DEF NoProcess
    <3>10. CASE LaunchProcess
      <4>1. proc' = [phase |-> "starting", build |-> binary.build, tls |-> job.tls, endpoint |-> None]
        BY <3>10 DEF LaunchProcess
      <4> QED
        BY <4>1, <2>2, <3>3, <3>5, <3>6
    <3>11. CASE DriverListens
      <4>1. /\ proc.phase = "starting"
            /\ \E e \in {None} \cup (IF runtime' = "running" /\ DriverNetwork \in DOMAIN networks'
                                     THEN {networks'[DriverNetwork]} \ {Pending} ELSE {}) :
                 proc' = [proc EXCEPT !.phase = "serving", !.endpoint = e]
        BY <3>11 DEF DriverListens
      <4>2. PICK e : /\ \/ e = None
                        \/ DriverNetwork \in DOMAIN networks' /\ e = networks'[DriverNetwork] /\ e # Pending
                     /\ proc' = [proc EXCEPT !.phase = "serving", !.endpoint = e]
        BY <4>1
      <4>3. proc'.build = proc.build /\ proc'.tls = proc.tls /\ proc'.endpoint = e
        BY <4>2 DEF Serving
      <4>4. e # None => e \in Addresses
        BY <4>2, AddressesHold
      <4> QED
        BY <4>1, <4>2, <4>3, <4>4, <2>2, <3>3, <3>5, <3>6
    <3>12. CASE DriverDrains
      BY <3>12, <3>3 DEF DriverDrains, Serving
    <3> QED
      BY <3>2, <3>8, <3>9, <3>10, <3>11, <3>12, Frames
  <2> QED
    BY <2>1, <2>2, <1>3, Progress
<1> QED
  BY <1>3, AgentHolds, PlistHolds DEF Serving

\* What cleanup has taken away.
LEMMA RemovedHolds ==
    ASSUME Commanded, Addressed, Wiring, Serving, Removed, [HostNext]_allVars
    PROVE  Removed'
<1>1. DOMAIN cmd = DOMAIN NoCommand
  BY DEF Commanded
<1>2. Cleaned(Unlisted) => step \in CleanupSteps \cup {"done"}
  BY Places
<1>3. ASSUME Cleaned(Unlisted)' PROVE job'.state # "loaded" \/ "agent" \in cmd'.kept
  <2>1. CASE RemoveAgent
    <3>1. Unload \/ "agent" \in cmd'.kept
      BY <2>1, <1>1, CleanupMoves
    <3> QED
      BY <3>1 DEF Unload, Serving, NoJob
  <2>2. CASE Cleaned(Unlisted) /\ Kept /\ ~RemoveAgent
    <3>1. job.state # "loaded" \/ "agent" \in cmd'.kept
      BY <2>2 DEF Removed, Kept, Asked
    <3>2. ~Bootout /\ ~Bootstrap /\ ~BrewUpgrade
      BY <2>2, <1>2, Guards DEF CleanupSteps
    <3>3. Reboot => job' = NoJob
      <4>1. Reboot => step \in {"idle", "done"}
        BY DEF Reboot, Resting
      <4>2. Reboot => plist = None
        BY <2>2, <4>1, Places DEF Removed, Cleaned, Unlisted, Unplaced, Unwired, Halted
      <4> QED
        BY <4>2 DEF Reboot
    <3>4. DriverEnds => job' = NoJob \/ job' = job
      BY DEF DriverEnds
    <3>5. UNCHANGED job \/ job' = NoJob
      BY <2>2, <3>2, <3>3, <3>4, Frames
    <3> QED
      BY <3>1, <3>5 DEF NoJob
  <2> QED
    BY <2>1, <2>2, <1>3, Progress
<1>4. ASSUME Cleaned(Unplaced)' PROVE plist' = None
  <2>1. CASE RemovePlist
    BY <2>1 DEF RemovePlist
  <2>2. CASE Cleaned(Unplaced) /\ ~RemovePlist
    <3>1. ~WritePlist
      BY <2>2, <1>2, Places, Guards DEF CleanupSteps
    <3> QED
      BY <2>2, <3>1, Frames DEF Removed
  <2> QED
    BY <2>1, <2>2, <1>4, Progress
<1>5. ASSUME Cleaned(Unwired)' PROVE WiredTo(envFile') = None \/ "block" \in cmd'.kept
  <2>1. CASE RemoveBlock
    <3>1. ~Stops
      BY <1>5, Stopped DEF Cleaned, Unlisted, Unplaced
    <3>2. Emptied \/ "block" \in cmd'.kept
      BY <2>1, <1>1, <3>1, CleanupMoves
    <3> QED
      BY <3>2, RemoveBlockKeeps DEF Emptied, Wiring
  <2>2. CASE Cleaned(Unwired) /\ Kept /\ ~RemoveBlock
    <3>1. WiredTo(envFile) = None \/ "block" \in cmd'.kept
      BY <2>2 DEF Removed, Kept, Asked
    <3>2. ~WriteBlock
      BY <2>2, <1>2, Places, Guards DEF CleanupSteps
    <3>3. ~EditGatewayEnv
      <4>1. ~Stops
        BY <1>5, Stopped DEF Cleaned, Unlisted, Unplaced
      <4> QED
        BY <4>1, <1>1, OtherMoves DEF UserActs
    <3>4. RemoveOpenShell => UNCHANGED envFile \/ envFile' = <<>>
      BY DEF RemoveOpenShell, Replace
    <3>5. WiredTo(<<>>) = None
      BY DEF WiredTo
    <3> QED
      BY <2>2, <3>1, <3>2, <3>3, <3>4, <3>5, Frames
  <2> QED
    BY <2>1, <2>2, <1>5, Progress
<1>6. ASSUME Cleaned(Halted)' PROVE ~openshell'.up \/ cmd'.warned
  <2>1. CASE StopGateway
    BY <2>1, <1>1, CleanupMoves DEF Wiring
  <2>2. CASE Cleaned(Halted) /\ Kept /\ ~StopGateway
    <3>1. (~openshell.up \/ cmd.warned) /\ (cmd.warned => cmd'.warned)
      BY <2>2 DEF Removed, Kept
    <3>2. ~RestartGateway /\ ~UpgradeOpenShell
      BY <2>2, <1>2, Places, Guards DEF CleanupSteps
    <3>3. ~InstallOpenShell
      <4>1. ~Stops
        BY <1>6, Stopped DEF Cleaned, Unlisted, Unplaced, Unwired
      <4> QED
        BY <4>1, <1>1, OtherMoves DEF UserActs
    <3>4. RemoveOpenShell => UNCHANGED openshell \/ ~openshell'.up
      <4>1. RemoveOpenShell =>
                UNCHANGED openshell \/ openshell' = [installed |-> FALSE, up |-> FALSE, wired |-> None]
        BY DEF RemoveOpenShell
      <4>2. ~[installed |-> FALSE, up |-> FALSE, wired |-> None].up
        OBVIOUS
      <4> QED
        BY <4>1, <4>2
    <3>5. Reboot => openshell'.up = openshell.up
      BY DEF Reboot, Wiring
    <3> QED
      BY <2>2, <3>1, <3>2, <3>3, <3>4, <3>5, Frames
  <2> QED
    BY <2>1, <2>2, <1>6, Progress
<1> QED
  BY <1>3, <1>4, <1>5, <1>6 DEF Removed

\* The host that setup finds.
LEMMA InitHolds == ASSUME HostInit PROVE IInv
<1> USE DEF HostInit, Init
<1> USE DEF After, Cleaned, SetUp, Ended, Certified, Wired, Placed, Started, Unloading, Booted, Kernelled,
         Unlisted, Unplaced, Unwired, Halted, SetupSteps, CleanupSteps, UpdateSteps
<1>1. step = "idle" /\ cmd.op = "none"
  BY DEF NoCommand
<1>2. Commanded
  BY <1>1 DEF Commanded
<1>3. Installed
  <2>1. (CHOOSE b \in Builds : TRUE) \in Builds
    BY BuildsAssumption
  <2> QED
    BY <2>1, <1>1 DEF Installed
<1>4. RuntimeKept
  BY <1>1 DEF RuntimeKept
<1>5. Addressed
  <2>1. DOMAIN networks = {}
    OBVIOUS
  <2>2. certs \in [Bundles -> Addresses \cup {"absent", "bare"}]
    OBVIOUS
  <2> QED
    BY <2>1, <2>2, <1>1 DEF Addressed
<1>6. Wiring
  <2>1. User("a") \in Lines /\ User("a")[1] = "user" /\ User("a") # Begin
    BY Kinds
  <2>2. envFile \in Seq(Lines) /\ ToSet(envFile) = {User("a")}
    BY <2>1 DEF ToSet
  <2>3. Loose(envFile) \subseteq {User("a")}
    <3> DEFINE s == envFile
    <3>1. s \in Seq(Lines) /\ Begin \notin ToSet(s) /\ ToSet(s) = {User("a")}
      BY <2>1, <2>2
    <3> HIDE DEF s
    <3>2. Loose(s) \subseteq {User("a")}
      BY <3>1, LooseWithoutBegin
    <3> QED
      BY <3>2 DEF s
  <2>4. Wrapped(envFile)
    BY <2>1, <2>3 DEF Wrapped
  <2>5. DOMAIN openshell = {"installed", "up", "wired"} /\ UserLinesSurvive /\ lost \in BOOLEAN
    BY DEF UserLinesSurvive
  <2> QED
    BY <2>2, <2>4, <2>5, <1>1 DEF Wiring
<1>7. Serving
  BY <1>1 DEF Serving, NoJob, NoProcess
<1>8. Removed
  BY <1>1 DEF Removed
<1> QED
  BY <1>2, <1>3, <1>4, <1>5, <1>6, <1>7, <1>8 DEF IInv

\* The invariant holds of every state that the host can be in.
THEOREM Invariant == Spec => []IInv
<1>1. HostInit => IInv
  BY InitHolds
<1>2. IInv /\ [HostNext]_allVars => IInv'
  <2> SUFFICES ASSUME IInv, [HostNext]_allVars PROVE IInv'
    OBVIOUS
  <2>1. Commanded /\ Installed /\ RuntimeKept /\ Addressed /\ Wiring /\ Serving /\ Removed
    BY DEF IInv
  <2>2. Commanded'
    BY <2>1, Progress
  <2>3. Installed' /\ RuntimeKept'
    BY <2>1, InstalledHolds, RuntimeKeptHolds
  <2>4. Addressed' /\ Wiring'
    BY <2>1, AddressedHolds, WiringHolds
  <2>5. Serving' /\ Removed'
    BY <2>1, ServingHolds, RemovedHolds
  <2> QED
    BY <2>2, <2>3, <2>4, <2>5 DEF IInv
<1> QED
  BY <1>1, <1>2, PTL DEF Spec

-----------------------------------------------------------------------------
(* The properties of Host.                                                   *)

\* No download becomes the installed driver that is not a release, and what update installs can be run.
THEOREM OnlyReleasesAreInstalledCorrect == Spec => []OnlyReleasesAreInstalled
<1>1. IInv => OnlyReleasesAreInstalled
  BY DEF IInv, Installed, OnlyReleasesAreInstalled
<1> QED
  BY <1>1, Invariant, PTL

\* The plist of the agent names a program that exists, whatever Homebrew has replaced since.
THEOREM PlistNeverDanglesCorrect == Spec => []PlistNeverDangles
<1>1. IInv => PlistNeverDangles
  BY DEF IInv, Serving, PlistNeverDangles, Exists
<1> QED
  BY <1>1, Invariant, PTL

\* An update that is not to run setup leaves a runtime up that was up, or says that it could not.
THEOREM RuntimeIsStartedAgainCorrect == Spec => []RuntimeIsStartedAgain
<1>1. IInv => RuntimeIsStartedAgain
  BY DEF IInv, RuntimeKept, RuntimeIsStartedAgain, Ended
<1> QED
  BY <1>1, Invariant, PTL

\* After an update with setup every process of the driver is one of the installed build.
THEOREM UpdateReachesTheServiceCorrect == Spec => []UpdateReachesTheService
<1>1. IInv => UpdateReachesTheService
  <2> SUFFICES ASSUME IInv, Ended("update"), cmd.setup, proc.phase # "none" PROVE proc.build = binary.build
    BY DEF UpdateReachesTheService
  <2>1. After(Started)
    BY DEF After, SetUp
  <2> QED
    BY <2>1 DEF IInv, Serving
<1> QED
  BY <1>1, Invariant, PTL

\* However setup and cleanup rewrite gateway.env, and whatever the user does to its markers, the
\* user's lines are those he wrote, until one of the three things happens that lose all of them.
THEOREM UserLinesSurviveCorrect == Spec => []UserLinesSurvive
<1>1. IInv => UserLinesSurvive
  BY DEF IInv, Wiring
<1> QED
  BY <1>1, Invariant, PTL

\* After cleanup nothing starts the driver again, and the gateway no longer asks for it, but for
\* the agent that cleanup could not unload and the file that it could not read.
THEOREM CleanupIsThoroughCorrect == Spec => []CleanupIsThorough
<1>1. IInv => CleanupIsThorough
  <2> SUFFICES ASSUME IInv, Ended("cleanup")
               PROVE  /\ plist = None
                      /\ "agent" \notin cmd.kept => job.state # "loaded"
                      /\ "block" \notin cmd.kept => WiredTo(envFile) = None
                      /\ ~cmd.warned => ~openshell.up
    BY DEF CleanupIsThorough
  <2>1. Cleaned(Halted) /\ Cleaned(Unwired) /\ Cleaned(Unplaced) /\ Cleaned(Unlisted)
    BY DEF Cleaned
  <2> QED
    BY <2>1 DEF IInv, Removed
<1> QED
  BY <1>1, Invariant, PTL

\* What a line says.
LEMMA Named ==
    \A name, level, l : (\E repair : l = Line(name, level, repair)) => l.name = name /\ l.level = level
  BY DEF Line

\* A line that does not send the user to setup.
LEMMA Unrepaired ==
    \A name, l : (\E level : l = Line(name, level, FALSE)) => l.repair = FALSE
  BY DEF Line

\* A verdict on a version is one of them.
LEMMA VerdictsUnrepaired ==
    \A name, levels, l : l \in Verdicts(name, levels) => l.repair = FALSE
  BY Unrepaired DEF Verdicts

\* What status calls broken, and setup could repair, is not broken after setup, as far as setup was
\* asked for the network and the bundle that status looks at.
THEOREM SetupRepairsCorrect == Spec => []SetupRepairs
<1>1. IInv => SetupRepairs
  <2> SUFFICES ASSUME IInv, SetUp, NEW l \in StatusPrinted, l.level = "fail", l.repair
               PROVE  \/ l.name = "driver socket"
                      \/ l.name \in {"guest kernel", "OpenShell gateway"} /\ cmd.warned
                      \/ l.name = "apple/container" /\ cmd.rebooted
                      \/ l.name \in {"vmnet network", "gateway certificate"} /\ cmd.network # DriverNetwork
                      \/ l.name = "gateway certificate" /\ cmd.tlsDir # None
    BY DEF SetupRepairs
  <2>1. /\ After(Started) /\ After(Placed) /\ After(Wired) /\ After(Certified)
        /\ After(Kernelled) /\ After(Booted)
    BY Places
  <2>2. /\ cmd.tls = (IF cmd.tlsDir = None THEN DefaultGuestTLSDir ELSE cmd.tlsDir)
        /\ cmd.tls \in Bundles /\ certs[cmd.tls] \in Addresses
        /\ cmd.network \in DOMAIN networks /\ networks[cmd.network] = certs[cmd.tls]
    BY <2>1 DEF IInv, Addressed
  <2>3. None \notin Addresses /\ None \notin Bundles /\ Pending \notin Addresses /\ "absent" \notin Addresses
    BY NoneAssumption, AddressesAssumption
  <2>4. cmd.network = DriverNetwork =>
            GatewayIP(DriverNetwork) = IF runtime = "running" THEN certs[cmd.tls] ELSE None
    BY <2>2, <2>3 DEF GatewayIP
  <2>5. CASE l \in RuntimeLines
    <3>1. (runtime = "running" \/ cmd.rebooted) /\ (kernel \/ cmd.warned)
      BY <2>1 DEF IInv, RuntimeKept
    <3>2. \/ l = Line("apple/container", "fail", FALSE)
          \/ \E r : l = Line("apple/container", IF runtime = "running" THEN "ok" ELSE "fail", r)
          \/ l \in Verdicts("apple/container", CheckAppleContainer(versions.container))
          \/ \E r : l = Line("guest kernel", IF kernel THEN "ok" ELSE "fail", r)
      BY <2>5, Zenon DEF RuntimeLines
    <3>3. ~(l = Line("apple/container", "fail", FALSE))
      <4>1. l = Line("apple/container", "fail", FALSE) => l.repair = FALSE
        BY Unrepaired
      <4> QED
        BY <4>1
    <3>4. ~(l \in Verdicts("apple/container", CheckAppleContainer(versions.container)))
      <4>1. l \in Verdicts("apple/container", CheckAppleContainer(versions.container)) => l.repair = FALSE
        BY VerdictsUnrepaired
      <4> QED
        BY <4>1
    <3>5. CASE \E r : l = Line("apple/container", IF runtime = "running" THEN "ok" ELSE "fail", r)
      <4>1. l.name = "apple/container" /\ l.level = IF runtime = "running" THEN "ok" ELSE "fail"
        BY <3>5, Named
      <4> QED
        BY <4>1, <3>1
    <3>6. CASE \E r : l = Line("guest kernel", IF kernel THEN "ok" ELSE "fail", r)
      <4>1. CASE kernel
        <5>1. l.level = "ok"
          BY <3>6, <4>1, Named
        <5> QED
          BY <5>1
      <4>2. CASE ~kernel
        <5>1. \E r : l = Line("guest kernel", "fail", r)
          BY <3>6, <4>2
        <5>2. PICK r : l = Line("guest kernel", "fail", r)
          BY <5>1
        <5>3. l.name = "guest kernel"
          BY <5>2 DEF Line
        <5> QED
          BY <5>3, <4>2, <3>1
      <4> QED
        BY <4>1, <4>2
    <3> QED
      BY <3>2, <3>3, <3>4, <3>5, <3>6
  <2>6. CASE l \in NetworkLines(DriverNetwork)
    <3>1. CASE cmd.network # DriverNetwork
      <4>1. \E level, r : l = Line("vmnet network", level, r)
        BY <2>6, Zenon DEF NetworkLines
      <4>2. l.name = "vmnet network"
        BY <4>1, Named
      <4> QED
        BY <4>2, <3>1
    <3>2. CASE cmd.network = DriverNetwork
      <4>1. runtime = "running" /\ GatewayIP(DriverNetwork) # None
        BY <2>6, <3>2, <2>2, <2>3, <2>4 DEF NetworkLines
      <4>2. \E r : l = Line("vmnet network", "ok", r)
        BY <2>6, <4>1, Zenon DEF NetworkLines
      <4>3. l.level = "ok"
        BY <4>2, Named
      <4> QED
        BY <4>3
    <3> QED
      BY <3>1, <3>2
  <2>7. CASE l \in GatewayLines
    <3>1. openshell.up \/ cmd.warned
      BY DEF IInv, Wiring
    <3>2. \/ l = Line("OpenShell gateway", "fail", FALSE)
          \/ l \in Verdicts("OpenShell gateway", CheckOpenShell(versions.openshell))
          \/ \E r : l = Line("OpenShell gateway", IF openshell.up THEN "ok" ELSE "fail", r)
      BY <2>7, Zenon DEF GatewayLines
    <3>3. ~(l = Line("OpenShell gateway", "fail", FALSE))
      <4>1. l = Line("OpenShell gateway", "fail", FALSE) => l.repair = FALSE
        BY Unrepaired
      <4> QED
        BY <4>1
    <3>4. ~(l \in Verdicts("OpenShell gateway", CheckOpenShell(versions.openshell)))
      <4>1. l \in Verdicts("OpenShell gateway", CheckOpenShell(versions.openshell)) => l.repair = FALSE
        BY VerdictsUnrepaired
      <4> QED
        BY <4>1
    <3>5. CASE \E r : l = Line("OpenShell gateway", IF openshell.up THEN "ok" ELSE "fail", r)
      <4>1. CASE openshell.up
        <5>1. l.level = "ok"
          BY <3>5, <4>1, Named
        <5> QED
          BY <5>1
      <4>2. CASE ~openshell.up
        <5>1. \E r : l = Line("OpenShell gateway", "fail", r)
          BY <3>5, <4>2
        <5>2. PICK r : l = Line("OpenShell gateway", "fail", r)
          BY <5>1
        <5>3. l.name = "OpenShell gateway"
          BY <5>2 DEF Line
        <5> QED
          BY <5>3, <4>2, <3>1
      <4> QED
        BY <4>1, <4>2
    <3> QED
      BY <3>2, <3>3, <3>4, <3>5
  <2>8. CASE l \in WiringLines
    <3>1. Begin \in ToSet(envFile) /\ WiredTo(envFile) # None
      BY <2>1, <2>2, <2>3 DEF IInv, Wiring
    <3>2. \E r : l = Line("gateway wiring", "ok", r)
      BY <2>8, <3>1, Zenon DEF WiringLines
    <3>3. l.level = "ok"
      BY <3>2, Named
    <3> QED
      BY <3>3
  <2>9. CASE l \in CertificateLines(DriverNetwork, None)
    <3>1. \E level, r : l = Line("gateway certificate", level, r)
      BY <2>9, Zenon DEF CertificateLines
    <3>2. l.name = "gateway certificate"
      BY <3>1, Named
    <3>3. CASE cmd.network = DriverNetwork /\ cmd.tlsDir = None
      <4>1. cmd.tls = DefaultGuestTLSDir
        BY <2>2, <3>3
      <4>2. \E r : l = Line("gateway certificate",
                           IF certs[cmd.tls] = "absent" THEN "fail"
                           ELSE IF GatewayIP(DriverNetwork) = None THEN "warn"
                           ELSE IF certs[cmd.tls] = GatewayIP(DriverNetwork) THEN "ok" ELSE "fail", r)
        BY <2>9, <4>1, Zenon DEF CertificateLines
      <4>3. PICK level, r : l = Line("gateway certificate", level, r) /\ level \in {"ok", "warn"}
        BY <4>2, <3>3, <2>2, <2>3, <2>4
      <4>4. l.level = level
        BY <4>3, Named
      <4> QED
        BY <4>3, <4>4
    <3> QED
      BY <3>2, <3>3
  <2>10. CASE l \in ServiceLines
    <3>1. plist # None /\ job.state # "absent"
      BY <2>1 DEF IInv, Serving
    <3>2. \E level : l = Line("driver service", level, FALSE)
      BY <2>10, <3>1, Zenon DEF ServiceLines
    <3> QED
      BY <3>2, Unrepaired
  <2>11. CASE l \in SocketLines
    <3>1. PICK level, r : l = Line("driver socket", level, r)
      BY <2>11, Zenon DEF SocketLines
    <3>2. l.name = "driver socket"
      BY <3>1 DEF Line
    <3> QED
      BY <3>2
  <2> QED
    BY <2>5, <2>6, <2>7, <2>8, <2>9, <2>10, <2>11 DEF StatusPrinted, Status
<1> QED
  BY <1>1, Invariant, PTL

\* After setup, and through crashes and reboots, the address that guests are told is the one that the
\* gateway's certificate covers, and both sides use the same bundle: as long as setup is asked for the
\* network that the agent's driver uses, which the agent is not told.
THEOREM GuestsCanVerifyTheGatewayCorrect ==
    ASSUME OptNetworks \subseteq {DriverNetwork}
    PROVE  Spec => []GuestsCanVerifyTheGateway
<1>1. IInv => GuestsCanVerifyTheGateway
  <2> SUFFICES ASSUME IInv, SetUp
               PROVE  /\ proc.phase = "serving" => /\ proc.endpoint \in {None, certs[cmd.tls]}
                                                   /\ proc.tls = cmd.tls
                      /\ openshell.up /\ ~cmd.warned => openshell.wired = cmd.tls
    BY DEF GuestsCanVerifyTheGateway
  <2>1. After(Started) /\ After(Certified)
    BY Places
  <2>2. cmd.network = DriverNetwork
    BY DEF IInv, Commanded, SetUp, Ended
  <2>3. networks[DriverNetwork] = certs[cmd.tls]
    BY <2>1, <2>2 DEF IInv, Addressed
  <2>4. proc.phase = "serving" => proc.endpoint \in {None, certs[cmd.tls]} /\ proc.tls = cmd.tls
    BY <2>1, <2>3 DEF IInv, Serving
  <2>5. openshell.up /\ ~cmd.warned => openshell.wired = cmd.tls
    BY DEF IInv, Wiring
  <2> QED
    BY <2>4, <2>5
<1> QED
  BY <1>1, Invariant, PTL

\* The verdict on a version follows the order of the versions, for every version that can be installed.
THEOREM VerdictsFollowTheOrderCorrect == Spec => []VerdictsFollowTheOrder
  BY VerdictsByRank, PTL
=============================================================================
