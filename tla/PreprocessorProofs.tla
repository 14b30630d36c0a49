-------------------------- MODULE PreprocessorProofs ---------------------------
(***************************************************************************)
(* For any files, macros, conditions and limits: the lexer reads the text  *)
(* that the unit stands for (Expansion), step by step.                     *)
(***************************************************************************)
EXTENDS Preprocessor, TLAPS, SequenceTheorems, WellFoundedInduction, NaturalsInduction

LEMMA FirstIs ==
  ASSUME NEW ks \in SUBSET Nat, ks # {}
  PROVE  First(ks) \in ks /\ \A j \in ks : First(ks) <= j
<1>1. IsWellFoundedOn(OpToRel(<, Nat), Nat)
  BY NatLessThanWellFounded
<1>2. PICK n \in ks : \A m \in ks : ~(<<m, n>> \in OpToRel(<, Nat))
  BY <1>1, WFMin
<1>3. \A m \in ks : ~(m < n)
  BY <1>2 DEF OpToRel
<1>4. \A m \in ks : n <= m
  BY <1>3
<1>5. First(ks) \in ks /\ \A j \in ks : First(ks) <= j
  BY <1>4, Zenon DEF First
<1> QED BY <1>5

-----------------------------------------------------------------------------
(* Conditions.                                                             *)

Parts == {"then", "else"}
Conds == [parent : BOOLEAN, cond : BOOLEAN, els : BOOLEAN]

\* One that is inside a condition that does not hold does not hold.
Nest(c) ==
    /\ c \in Seq(Conds)
    /\ \A k \in 1 .. Len(c) :
         (c[k].parent <=> \A j \in 1 .. k - 1 : Holds(c[j])) /\ (c[k].cond => c[k].parent)

\* The first r hold, and no other.
ReadUpTo(c, r) == r \in 0 .. Len(c) /\ \A k \in 1 .. Len(c) : Holds(c[k]) <=> k <= r

LEMMA ReadIs ==
  ASSUME NEW c \in Seq(Conds), NEW r, ReadUpTo(c, r)
  PROVE  Read(c) = r
<1> DEFINE failing == {k \in DOMAIN c : ~Holds(c[k])}
<1>1. /\ Len(c) \in Nat /\ r \in 0 .. Len(c) /\ failing \in SUBSET Nat
      /\ \A k : k \in failing <=> k \in r + 1 .. Len(c)
  BY DEF ReadUpTo
<1>2. Read(c) = IF failing = {} THEN Len(c) ELSE First(failing) - 1
  BY DEF Read
<1> HIDE DEF failing
<1>3. CASE failing = {}
  BY <1>1, <1>2, <1>3
<1>4. CASE failing # {}
  <2>1. First(failing) \in failing /\ \A j \in failing : First(failing) <= j
    BY <1>1, <1>4, FirstIs
  <2>2. First(failing) = r + 1
    BY <1>1, <2>1
  <2> QED BY <1>1, <1>2, <1>4, <2>2
<1> QED BY <1>3, <1>4

LEMMA NestReads ==
  ASSUME NEW c, Nest(c)
  PROVE  ReadUpTo(c, Read(c))
<1> DEFINE failing == {k \in DOMAIN c : ~Holds(c[k])}
<1>1. /\ Len(c) \in Nat /\ failing \in SUBSET Nat
      /\ \A k : k \in failing <=> k \in 1 .. Len(c) /\ ~Holds(c[k])
  BY DEF Nest
<1>2. \A k \in 1 .. Len(c) : Holds(c[k]) => \A j \in 1 .. k - 1 : Holds(c[j])
  BY DEF Nest, Holds
<1> HIDE DEF failing
<1>3. CASE failing = {}
  <2>1. ReadUpTo(c, Len(c))
    BY <1>1, <1>3 DEF ReadUpTo
  <2> QED BY <2>1, ReadIs DEF Nest
<1>4. CASE failing # {}
  <2>1. First(failing) \in failing /\ \A j \in failing : First(failing) <= j
    BY <1>1, <1>4, FirstIs
  <2> DEFINE f == First(failing)
  <2>2. /\ f \in 1 .. Len(c) /\ ~Holds(c[f]) /\ \A k \in 1 .. Len(c) : k < f => Holds(c[k])
    BY <1>1, <2>1
  <2> HIDE DEF f
  <2>3. ReadUpTo(c, f - 1)
    BY <1>1, <1>2, <2>2 DEF ReadUpTo
  <2> QED BY <2>3, ReadIs DEF Nest
<1> QED BY <1>3, <1>4

LEMMA PartsAre ==
  ASSUME NEW c, Nest(c)
  PROVE  /\ Read(c) \in Nat /\ Read(c) <= Len(c)
         /\ Open(c) \in Seq(Parts) /\ Len(Open(c)) = Read(c)
         /\ Over(c) \in Seq(Parts) /\ Len(Over(c)) = Len(c) - Read(c)
         /\ Active(c) <=> Read(c) = Len(c)
<1>1. c \in Seq(Conds) /\ Len(c) \in Nat /\ Read(c) \in 0 .. Len(c)
  BY NestReads DEF Nest, ReadUpTo
<1>2. Open(c) \in [1 .. Read(c) -> Parts] /\ Over(c) \in [1 .. Len(c) - Read(c) -> Parts]
  <2>1. \A k \in 1 .. Len(c) : Part(c[k]) \in Parts
    BY DEF Part, Parts
  <2>2. \A k \in 1 .. Read(c) : k \in 1 .. Len(c)
    BY <1>1
  <2>3. \A k \in 1 .. Len(c) - Read(c) : Read(c) + k \in 1 .. Len(c)
    BY <1>1
  <2> QED BY <2>1, <2>2, <2>3 DEF Open, Over
<1>3. Active(c) <=> Read(c) = Len(c)
  <2>1. CASE c = <<>>
    BY <1>1, <2>1 DEF Active
  <2>2. CASE c # <<>>
    <3>1. Len(c) \in 1 .. Len(c) /\ Last(c) = c[Len(c)]
      BY <1>1, <2>2 DEF Last
    <3>2. Holds(c[Len(c)]) <=> Len(c) <= Read(c)
      BY <3>1, NestReads DEF ReadUpTo
    <3> QED BY <1>1, <2>2, <3>1, <3>2 DEF Active, Holds
  <2> QED BY <2>1, <2>2
<1>4. \A n \in Nat : \A s \in [1 .. n -> Parts] : s \in Seq(Parts) /\ Len(s) = n
  OBVIOUS
<1>5. Read(c) \in Nat /\ Len(c) - Read(c) \in Nat /\ Read(c) <= Len(c)
  BY <1>1
<1>6. Open(c) \in Seq(Parts) /\ Len(Open(c)) = Read(c)
  BY <1>2, <1>4, <1>5
<1>7. Over(c) \in Seq(Parts) /\ Len(Over(c)) = Len(c) - Read(c)
  BY <1>2, <1>4, <1>5
<1> QED BY <1>3, <1>5, <1>6, <1>7

LEMMA OpenIs ==
  ASSUME NEW c \in Seq(Conds), NEW r, ReadUpTo(c, r),
         NEW s \in Seq(Parts), Len(s) = r, \A k \in 1 .. r : s[k] = Part(c[k])
  PROVE  Open(c) = s
<1>1. s = [k \in 1 .. r |-> s[k]]
  OBVIOUS
<1>2. [k \in 1 .. r |-> s[k]] = [k \in 1 .. r |-> Part(c[k])]
  OBVIOUS
<1>3. Read(c) = r
  BY ReadIs
<1> QED BY <1>1, <1>2, <1>3 DEF Open

LEMMA OverIs ==
  ASSUME NEW c \in Seq(Conds), NEW r, ReadUpTo(c, r),
         NEW s \in Seq(Parts), Len(s) = Len(c) - r, \A k \in 1 .. Len(c) - r : s[k] = Part(c[r + k])
  PROVE  Over(c) = s
<1>1. s = [k \in 1 .. Len(c) - r |-> s[k]]
  OBVIOUS
<1>2. [k \in 1 .. Len(c) - r |-> s[k]] = [k \in 1 .. Len(c) - r |-> Part(c[r + k])]
  OBVIOUS
<1>3. Read(c) = r
  BY ReadIs
<1> QED BY <1>1, <1>2, <1>3 DEF Over

LEMMA OneMore ==
  ASSUME NEW s \in Seq(Parts), NEW x \in Parts
  PROVE  /\ Append(s, x) \in Seq(Parts) /\ Len(Append(s, x)) = Len(s) + 1
         /\ \A k \in 1 .. Len(s) : Append(s, x)[k] = s[k]
         /\ Append(s, x)[Len(s) + 1] = x
BY AppendProperties

\* A condition is opened.
LEMMA Opened ==
  ASSUME NEW c, Nest(c), NEW b \in Conds, b.els = FALSE, b.parent <=> Active(c), b.cond => Active(c)
  PROVE  /\ Nest(Append(c, b))
         /\ b.cond => Open(Append(c, b)) = Append(Open(c), "then") /\ Over(Append(c, b)) = Over(c)
         /\ ~b.cond => Open(Append(c, b)) = Open(c) /\ Over(Append(c, b)) = Append(Over(c), "then")
<1> DEFINE d == Append(c, b)
           n == Len(c)
           r == Read(c)
<1>1. /\ c \in Seq(Conds) /\ n \in Nat /\ r \in Nat /\ r <= n /\ (Active(c) <=> r = n)
      /\ \A k \in 1 .. n : Holds(c[k]) <=> k <= r
      /\ Open(c) \in Seq(Parts) /\ Len(Open(c)) = r /\ \A k \in 1 .. r : Open(c)[k] = Part(c[k])
      /\ Over(c) \in Seq(Parts) /\ Len(Over(c)) = n - r /\ \A k \in 1 .. n - r : Over(c)[k] = Part(c[r + k])
  BY NestReads, PartsAre DEF Nest, ReadUpTo, Open, Over
<1>2. d \in Seq(Conds) /\ Len(d) = n + 1 /\ d[n + 1] = b /\ \A k \in 1 .. n : d[k] = c[k]
  BY <1>1, AppendProperties
<1> HIDE DEF d, n, r
<1>3. Holds(b) <=> b.cond
  BY DEF Holds, Conds
<1>4. Nest(d)
  <2> SUFFICES ASSUME NEW k \in 1 .. n + 1
               PROVE  (d[k].parent <=> \A j \in 1 .. k - 1 : Holds(d[j])) /\ (d[k].cond => d[k].parent)
    BY <1>2 DEF Nest
  <2>1. CASE k = n + 1
    <3>1. (\A j \in 1 .. n : Holds(d[j])) <=> r = n
      BY <1>1, <1>2
    <3> QED BY <1>1, <1>2, <2>1, <3>1
  <2>2. CASE k # n + 1
    <3>1. k \in 1 .. n /\ d[k] = c[k] /\ \A j \in 1 .. k - 1 : d[j] = c[j]
      BY <1>1, <1>2, <2>2
    <3>2. (c[k].parent <=> \A j \in 1 .. k - 1 : Holds(c[j])) /\ (c[k].cond => c[k].parent)
      BY <3>1 DEF Nest, n
    <3> QED BY <3>1, <3>2
  <2> QED BY <2>1, <2>2
<1>5. CASE b.cond
  <2>1. r = n /\ \A k \in 1 .. n + 1 : Holds(d[k]) <=> k <= n + 1
    BY <1>1, <1>2, <1>3, <1>5
  <2>0. Part(b) = "then"
    BY DEF Part
  <2>2. /\ Append(Open(c), "then") \in Seq(Parts) /\ Len(Append(Open(c), FALSE)) = n + 1
        /\ \A k \in 1 .. n + 1 : Append(Open(c), "then")[k] = Part(d[k])
    <3>1. "then" \in Parts
      BY DEF Parts
    <3>2. /\ Append(Open(c), "then") \in Seq(Parts) /\ Len(Append(Open(c), FALSE)) = n + 1
          /\ \A k \in 1 .. n : Append(Open(c), "then")[k] = Open(c)[k]
          /\ Append(Open(c), "then")[n + 1] = "then"
      BY <1>1, <2>1, <3>1, OneMore
    <3> QED BY <1>1, <1>2, <2>0, <2>1, <3>2
  <2>3. ReadUpTo(d, n + 1)
    BY <1>1, <1>2, <2>1 DEF ReadUpTo
  <2>4. Len(Over(c)) = Len(d) - (n + 1) /\ \A k \in 1 .. Len(d) - (n + 1) : Over(c)[k] = Part(d[n + 1 + k])
    BY <1>1, <1>2, <2>1
  <2>5. Open(d) = Append(Open(c), "then")
    <3>1. PICK s : s = Append(Open(c), "then")
      OBVIOUS
    <3>2. s \in Seq(Parts) /\ Len(s) = n + 1 /\ \A k \in 1 .. n + 1 : s[k] = Part(d[k])
      BY <2>2, <3>1
    <3> QED BY <1>2, <2>3, <3>1, <3>2, OpenIs
  <2>6. Over(d) = Over(c)
    BY <1>1, <1>2, <2>3, <2>4, OverIs
  <2> QED BY <1>4, <1>5, <2>5, <2>6 DEF d
<1>6. CASE ~b.cond
  <2>1. ReadUpTo(d, r)
    BY <1>1, <1>2, <1>3, <1>6 DEF ReadUpTo
  <2>0. Part(b) = "then"
    BY DEF Part
  <2>2. /\ Append(Over(c), "then") \in Seq(Parts) /\ Len(Append(Over(c), FALSE)) = Len(d) - r
        /\ \A k \in 1 .. n - r : Append(Over(c), "then")[k] = Over(c)[k]
        /\ Append(Over(c), "then")[n - r + 1] = "then"
    <3>1. "then" \in Parts
      BY DEF Parts
    <3>2. /\ Append(Over(c), "then") \in Seq(Parts) /\ Len(Append(Over(c), FALSE)) = n - r + 1
          /\ \A k \in 1 .. n - r : Append(Over(c), "then")[k] = Over(c)[k]
          /\ Append(Over(c), "then")[n - r + 1] = "then"
      BY <1>1, <3>1, OneMore
    <3> QED BY <1>1, <1>2, <3>2
  <2>3. \A k \in 1 .. Len(d) - r : Append(Over(c), "then")[k] = Part(d[r + k])
    <3> SUFFICES ASSUME NEW k \in 1 .. Len(d) - r PROVE Append(Over(c), "then")[k] = Part(d[r + k])
      OBVIOUS
    <3>1. CASE k = n - r + 1
      <4>1. r + k = n + 1
        BY <1>1, <3>1
      <4> QED BY <1>2, <2>0, <2>2, <3>1, <4>1
    <3>2. CASE k # n - r + 1
      <4>1. k \in 1 .. n - r /\ r + k \in 1 .. n
        BY <1>1, <1>2, <3>2
      <4> QED BY <1>1, <1>2, <2>2, <4>1
    <3> QED BY <3>1, <3>2
  <2>4. \A k \in 1 .. r : Open(c)[k] = Part(d[k])
    <3>1. \A k \in 1 .. r : k \in 1 .. n
      BY <1>1
    <3> QED BY <1>1, <1>2, <3>1
  <2>5. Open(d) = Open(c)
    <3>1. Open(c) \in Seq(Parts) /\ Len(Open(c)) = r /\ d \in Seq(Conds)
      BY <1>1, <1>2
    <3> QED BY <2>1, <2>4, <3>1, OpenIs
  <2>6. Over(d) = Append(Over(c), "then")
    <3>1. PICK s : s = Append(Over(c), "then")
      OBVIOUS
    <3>2. s \in Seq(Parts) /\ Len(s) = Len(d) - r /\ \A k \in 1 .. Len(d) - r : s[k] = Part(d[r + k])
      BY <2>2, <2>3, <3>1
    <3> QED BY <1>2, <2>1, <3>1, <3>2, OverIs
  <2> QED BY <1>4, <1>6, <2>5, <2>6 DEF d
<1> QED BY <1>5, <1>6

\* What a nest of conditions is, in one place.
LEMMA NestIs ==
  ASSUME NEW c, Nest(c)
  PROVE  /\ c \in Seq(Conds) /\ Len(c) \in Nat /\ Read(c) \in Nat /\ Read(c) <= Len(c)
         /\ ReadUpTo(c, Read(c)) /\ (Active(c) <=> Read(c) = Len(c))
         /\ Open(c) \in Seq(Parts) /\ Len(Open(c)) = Read(c)
         /\ \A k \in 1 .. Read(c) : Open(c)[k] = Part(c[k])
         /\ Over(c) \in Seq(Parts) /\ Len(Over(c)) = Len(c) - Read(c)
         /\ \A k \in 1 .. Len(c) - Read(c) : Over(c)[k] = Part(c[Read(c) + k])
BY NestReads, PartsAre DEF Nest, Open, Over

LEMMA OneLess ==
  ASSUME NEW S, NEW s \in Seq(S), s # <<>>
  PROVE  /\ Front(s) \in Seq(S) /\ Len(Front(s)) = Len(s) - 1
         /\ \A k \in 1 .. Len(s) - 1 : Front(s)[k] = s[k]
         /\ Len(s) \in Nat \ {0} /\ Last(s) = s[Len(s)]
<1>1. Len(s) \in Nat \ {0} /\ \A k \in 1 .. Len(s) - 1 : s[k] \in S
  OBVIOUS
<1> DEFINE m == Len(s) - 1
<1>2. m \in Nat /\ 1 \in Int /\ \A k \in 1 .. m : s[k] \in S
  BY <1>1
<1> HIDE DEF m
<1>3. /\ SubSeq(s, 1, m) \in Seq(S) /\ Len(SubSeq(s, 1, m)) = IF 1 <= m THEN m - 1 + 1 ELSE 0
      /\ \A k \in 1 .. m - 1 + 1 : SubSeq(s, 1, m)[k] = s[1 + k - 1]
  BY <1>2, SubSeqProperties
<1>4. Front(s) = SubSeq(s, 1, m)
  BY DEF Front, m
<1>5. Len(Front(s)) = m /\ \A k \in 1 .. m : Front(s)[k] = s[k]
  <2>1. \A k \in 1 .. m : k \in 1 .. m - 1 + 1 /\ 1 + k - 1 = k
    BY <1>2
  <2> QED BY <1>2, <1>3, <1>4, <2>1
<1> QED BY <1>1, <1>3, <1>4, <1>5 DEF Last, m

\* A condition is closed.
LEMMA Closed ==
  ASSUME NEW c, Nest(c), c # <<>>
  PROVE  /\ Nest(Front(c))
         /\ IF Over(c) # <<>> THEN Open(Front(c)) = Open(c) /\ Over(Front(c)) = Front(Over(c))
            ELSE Open(c) # <<>> /\ Open(Front(c)) = Front(Open(c)) /\ Over(Front(c)) = Over(c)
<1> DEFINE n == Len(c)
           r == Read(c)
<1>1. /\ c \in Seq(Conds) /\ n \in Nat /\ r \in Nat /\ r <= n /\ ReadUpTo(c, r)
      /\ Open(c) \in Seq(Parts) /\ Len(Open(c)) = r /\ \A k \in 1 .. r : Open(c)[k] = Part(c[k])
      /\ Over(c) \in Seq(Parts) /\ Len(Over(c)) = n - r /\ \A k \in 1 .. n - r : Over(c)[k] = Part(c[r + k])
  BY NestIs
<1>2. PICK d : d = Front(c)
  OBVIOUS
<1>3. d \in Seq(Conds) /\ Len(d) = n - 1 /\ n # 0 /\ \A k \in 1 .. n - 1 : d[k] = c[k]
  BY <1>1, <1>2, OneLess
<1>4. Nest(d)
  <2>1. \A k \in 1 .. n : (c[k].parent <=> \A j \in 1 .. k - 1 : Holds(c[j])) /\ (c[k].cond => c[k].parent)
    BY DEF Nest
  <2> HIDE DEF n
  <2> SUFFICES ASSUME NEW k \in 1 .. n - 1
               PROVE  (d[k].parent <=> \A j \in 1 .. k - 1 : Holds(d[j])) /\ (d[k].cond => d[k].parent)
    BY <1>3 DEF Nest
  <2>2. k \in 1 .. n /\ d[k] = c[k] /\ \A j \in 1 .. k - 1 : d[j] = c[j]
    BY <1>1, <1>3
  <2> QED BY <2>1, <2>2
<1> HIDE DEF n, r
<1>5. CASE r # n
  <2>1. ReadUpTo(d, r)
    BY <1>1, <1>3, <1>5 DEF ReadUpTo, n
  <2>2. Over(c) # <<>>
    BY <1>1, <1>5
  <2>3. PICK s : s = Front(Over(c))
    OBVIOUS
  <2>4. s \in Seq(Parts) /\ Len(s) = n - r - 1 /\ \A k \in 1 .. n - r - 1 : s[k] = Over(c)[k]
    BY <1>1, <2>2, <2>3, OneLess
  <2>5. \A k \in 1 .. Len(d) - r : s[k] = Part(d[r + k])
    <3>1. \A k \in 1 .. Len(d) - r : k \in 1 .. n - r - 1 /\ k \in 1 .. n - r /\ r + k \in 1 .. n - 1
      BY <1>1, <1>3, <1>5
    <3> QED BY <1>1, <1>3, <2>4, <3>1
  <2>6. Len(s) = Len(d) - r
    BY <1>1, <1>3, <2>4
  <2>7. Over(d) = s
    BY <1>3, <2>1, <2>4, <2>5, <2>6, OverIs
  <2>8. \A k \in 1 .. r : Open(c)[k] = Part(d[k])
    <3>1. \A k \in 1 .. r : k \in 1 .. n - 1
      BY <1>1, <1>3, <1>5
    <3> QED BY <1>1, <1>3, <3>1
  <2>9. Open(d) = Open(c)
    <3>1. Open(c) \in Seq(Parts) /\ Len(Open(c)) = r /\ d \in Seq(Conds)
      BY <1>1, <1>3
    <3> QED BY <2>1, <2>8, <3>1, OpenIs
  <2> QED BY <1>2, <1>4, <2>2, <2>3, <2>7, <2>9
<1>6. CASE r = n
  <2>1. ReadUpTo(d, n - 1)
    BY <1>1, <1>3, <1>6 DEF ReadUpTo, n
  <2>2. Over(c) = <<>> /\ Open(c) # <<>>
    BY <1>1, <1>3, <1>6
  <2>3. PICK s : s = Front(Open(c))
    OBVIOUS
  <2>4. s \in Seq(Parts) /\ Len(s) = n - 1 /\ \A k \in 1 .. n - 1 : s[k] = Open(c)[k]
    BY <1>1, <1>6, <2>2, <2>3, OneLess
  <2>5. \A k \in 1 .. n - 1 : s[k] = Part(d[k])
    <3>1. \A k \in 1 .. n - 1 : k \in 1 .. r
      BY <1>1, <1>3, <1>6
    <3> QED BY <1>1, <1>3, <2>4, <3>1
  <2>6. Open(d) = s
    BY <1>3, <2>1, <2>4, <2>5, OpenIs
  <2>7. Over(d) = Over(c)
    <3>1. Len(Over(c)) = Len(d) - (n - 1) /\ \A k \in 1 .. Len(d) - (n - 1) : FALSE
      BY <1>1, <1>3, <1>6
    <3> QED BY <1>1, <1>3, <2>1, <3>1, OverIs
  <2> QED BY <1>2, <1>4, <2>2, <2>3, <2>6, <2>7
<1> QED BY <1>5, <1>6

\* The innermost is in the part that its last element says.
LEMMA Innermost ==
  ASSUME NEW c, Nest(c), c # <<>>
  PROVE  IF Over(c) # <<>> THEN Last(Over(c)) = Part(Last(c)) ELSE Open(c) # <<>> /\ Last(Open(c)) = Part(Last(c))
<1> DEFINE n == Len(c)
           r == Read(c)
<1>1. /\ c \in Seq(Conds) /\ n \in Nat /\ r \in Nat /\ r <= n
      /\ Open(c) \in Seq(Parts) /\ Len(Open(c)) = r /\ \A k \in 1 .. r : Open(c)[k] = Part(c[k])
      /\ Over(c) \in Seq(Parts) /\ Len(Over(c)) = n - r /\ \A k \in 1 .. n - r : Over(c)[k] = Part(c[r + k])
  BY NestIs
<1>2. n # 0 /\ Last(c) = c[n]
  BY <1>1 DEF Last
<1> HIDE DEF n, r
<1>3. CASE r = n
  <2>1. Over(c) = <<>> /\ Open(c) # <<>>
    BY <1>1, <1>2, <1>3
  <2>2. Last(Open(c)) = Open(c)[n]
    BY <1>1, <1>3 DEF Last
  <2>3. n \in 1 .. r
    BY <1>1, <1>2, <1>3
  <2> QED BY <1>1, <1>2, <2>1, <2>2, <2>3
<1>4. CASE r # n
  <2>1. Over(c) # <<>> /\ Last(Over(c)) = Over(c)[n - r]
    BY <1>1, <1>4 DEF Last
  <2>2. n - r \in 1 .. n - r /\ r + (n - r) = n
    BY <1>1, <1>4
  <2> QED BY <1>1, <1>2, <2>1, <2>2
<1> QED BY <1>3, <1>4

\* An else is met.
LEMMA Turned ==
  ASSUME NEW c, Nest(c), c # <<>>, ~Last(c).els,
         NEW d \in Seq(Conds), Len(d) = Len(c), \A k \in 1 .. Len(c) - 1 : d[k] = c[k],
         d[Len(c)].els, d[Len(c)].parent <=> c[Len(c)].parent, d[Len(c)].cond <=> c[Len(c)].cond
  PROVE  /\ Nest(d)
         /\ \/ /\ Over(c) = <<>> /\ Open(c) # <<>> /\ Last(Open(c)) = "then"
               /\ Open(d) = Front(Open(c)) /\ Over(d) = <<"else">>
            \/ /\ Over(c) = <<"then">> /\ Open(d) = Append(Open(c), "else") /\ Over(d) = <<>>
            \/ /\ Len(Over(c)) > 1 /\ Last(Over(c)) = "then"
               /\ Open(d) = Open(c) /\ Over(d) = Append(Front(Over(c)), "else")
<1> DEFINE n == Len(c)
           r == Read(c)
<1>1. /\ c \in Seq(Conds) /\ n \in Nat /\ r \in Nat /\ r <= n /\ \A k \in 1 .. n : Holds(c[k]) <=> k <= r
      /\ Open(c) \in Seq(Parts) /\ Len(Open(c)) = r /\ \A k \in 1 .. r : Open(c)[k] = Part(c[k])
      /\ Over(c) \in Seq(Parts) /\ Len(Over(c)) = n - r /\ \A k \in 1 .. n - r : Over(c)[k] = Part(c[r + k])
  BY NestIs DEF ReadUpTo
<1>2. /\ Len(d) = n /\ n # 0 /\ \A k \in 1 .. n - 1 : d[k] = c[k]
      /\ c[n] \in Conds /\ d[n] \in Conds /\ Part(c[n]) = "then" /\ Part(d[n]) = "else"
  BY <1>1 DEF Last, Part
<1>3. /\ \A k \in 1 .. n : (c[k].parent <=> \A j \in 1 .. k - 1 : Holds(c[j])) /\ (c[k].cond => c[k].parent)
      /\ c[n].parent <=> r >= n - 1
  <2>1. \A k \in 1 .. n : (c[k].parent <=> \A j \in 1 .. k - 1 : Holds(c[j])) /\ (c[k].cond => c[k].parent)
    BY DEF Nest
  <2> HIDE DEF n, r
  <2>2. n \in 1 .. n /\ ((\A j \in 1 .. n - 1 : Holds(c[j])) <=> r >= n - 1)
    BY <1>1, <1>2
  <2> QED BY <2>1, <2>2
<1>4. (Holds(c[n]) <=> c[n].cond) /\ (Holds(d[n]) <=> c[n].parent /\ ~c[n].cond)
  <2>1. c[n].cond => c[n].parent
    BY <1>1, <1>2, <1>3
  <2>2. c[n].els = FALSE /\ d[n].els = TRUE
    BY <1>1, <1>2 DEF Last, Conds
  <2> QED BY <1>2, <2>1, <2>2 DEF Holds, Conds
<1>10. d[n].parent <=> c[n].parent
  OBVIOUS
<1>11. d[n].cond <=> c[n].cond
  OBVIOUS
<1> HIDE DEF n, r
<1>5. Nest(d)
  <2> SUFFICES ASSUME NEW k \in 1 .. n
               PROVE  (d[k].parent <=> \A j \in 1 .. k - 1 : Holds(d[j])) /\ (d[k].cond => d[k].parent)
    BY <1>2 DEF Nest
  <2>1. (d[k].parent <=> c[k].parent) /\ (d[k].cond <=> c[k].cond)
    <3>1. CASE k = n
      BY <1>10, <1>11, <3>1, Zenon
    <3>2. CASE k # n
      <4>1. k \in 1 .. n - 1
        BY <1>1, <3>2
      <4>2. d[k] = c[k]
        BY <1>2, <4>1
      <4> QED BY <4>2
    <3> QED BY <3>1, <3>2
  <2>2. \A j \in 1 .. k - 1 : d[j] = c[j]
    BY <1>1, <1>2
  <2> QED BY <1>3, <2>1, <2>2
<1>6. CASE r = n
  <2>1. ReadUpTo(d, n - 1)
    <3> SUFFICES ASSUME NEW k \in 1 .. n PROVE Holds(d[k]) <=> k <= n - 1
      BY <1>1, <1>2 DEF ReadUpTo
    <3>1. CASE k = n
      <4>1. Holds(c[n])
        BY <1>1, <1>2, <1>6
      <4> QED BY <1>1, <1>4, <3>1, <4>1
    <3>2. CASE k # n
      BY <1>1, <1>2, <1>6, <3>2
    <3> QED BY <3>1, <3>2
  <2>2. Over(c) = <<>> /\ Open(c) # <<>>
    BY <1>1, <1>2, <1>6
  <2>3. Last(Open(c)) = "then"
    <3>1. Last(Open(c)) = Open(c)[n] /\ n \in 1 .. r
      BY <1>1, <1>2, <1>6 DEF Last
    <3> QED BY <1>1, <1>2, <3>1
  <2>4. PICK s : s = Front(Open(c))
    OBVIOUS
  <2>5. s \in Seq(Parts) /\ Len(s) = n - 1 /\ \A k \in 1 .. n - 1 : s[k] = Open(c)[k]
    <3>1. /\ s \in Seq(Parts) /\ Len(s) = Len(Open(c)) - 1
          /\ \A k \in 1 .. Len(Open(c)) - 1 : s[k] = Open(c)[k]
      BY <1>1, <2>2, <2>4, OneLess
    <3>2. Len(Open(c)) = n
      BY <1>1, <1>6
    <3> QED BY <3>1, <3>2
  <2>6. \A k \in 1 .. n - 1 : s[k] = Part(d[k])
    <3> SUFFICES ASSUME NEW k \in 1 .. n - 1 PROVE s[k] = Part(d[k])
      OBVIOUS
    <3>1. k \in 1 .. r
      BY <1>1, <1>2, <1>6
    <3>2. s[k] = Open(c)[k] /\ Open(c)[k] = Part(c[k]) /\ d[k] = c[k]
      BY <1>1, <1>2, <2>5, <3>1
    <3> QED BY <3>2
  <2>7. Open(d) = s
    BY <1>2, <2>1, <2>5, <2>6, OpenIs
  <2>8. Over(d) = <<"else">>
    <3>1. PICK t : t = <<"else">>
      OBVIOUS
    <3>2. t \in Seq(Parts) /\ Len(t) = 1 /\ t[1] = "else"
      BY <3>1 DEF Parts
    <3>3. Len(t) = Len(d) - (n - 1) /\ \A k \in 1 .. Len(d) - (n - 1) : t[k] = Part(d[n - 1 + k])
      <4>1. Len(d) - (n - 1) = 1 /\ n - 1 + 1 = n /\ \A k \in 1 .. 1 : k = 1
        BY <1>1, <1>2
      <4> QED BY <1>2, <3>2, <4>1
    <3> QED BY <1>2, <2>1, <3>1, <3>2, <3>3, OverIs
  <2> QED BY <1>5, <2>2, <2>3, <2>4, <2>7, <2>8
<1>7. CASE r = n - 1
  <2>1. ReadUpTo(d, n)
    <3> SUFFICES ASSUME NEW k \in 1 .. n PROVE Holds(d[k])
      BY <1>1, <1>2 DEF ReadUpTo
    <3>1. CASE k = n
      <4>1. ~Holds(c[n]) /\ c[n].parent
        BY <1>1, <1>2, <1>3, <1>7
      <4> QED BY <1>4, <3>1, <4>1
    <3>2. CASE k # n
      BY <1>1, <1>2, <1>7, <3>2
    <3> QED BY <3>1, <3>2
  <2>2. Over(c) = <<"then">>
    <3>1. Len(Over(c)) = 1 /\ 1 \in 1 .. n - r /\ r + 1 = n
      BY <1>1, <1>2, <1>7
    <3>2. Over(c)[1] = "then"
      BY <1>1, <1>2, <3>1
    <3> QED BY <1>1, <3>1, <3>2
  <2>3. PICK s : s = Append(Open(c), "else")
    OBVIOUS
  <2>4. s \in Seq(Parts) /\ Len(s) = r + 1 /\ (\A k \in 1 .. r : s[k] = Open(c)[k]) /\ s[r + 1] = "else"
    <3>1. "else" \in Parts
      BY DEF Parts
    <3>2. Open(c) \in Seq(Parts) /\ Len(Open(c)) = r
      BY <1>1
    <3> QED BY <2>3, <3>1, <3>2, OneMore
  <2>5. \A k \in 1 .. n : s[k] = Part(d[k])
    <3> SUFFICES ASSUME NEW k \in 1 .. n PROVE s[k] = Part(d[k])
      OBVIOUS
    <3>1. CASE k = n
      BY <1>1, <1>2, <1>7, <2>4, <3>1
    <3>2. CASE k # n
      <4>1. k \in 1 .. n - 1 /\ k \in 1 .. r
        BY <1>1, <1>7, <3>2
      <4> QED BY <1>1, <1>2, <2>4, <4>1
    <3> QED BY <3>1, <3>2
  <2>6. Open(d) = s
    <3>1. Len(s) = n
      BY <1>1, <1>7, <2>4
    <3> QED BY <1>2, <2>1, <2>4, <2>5, <3>1, OpenIs
  <2>7. Over(d) = <<>>
    <3>1. PICK t : t = <<>>
      OBVIOUS
    <3>2. t \in Seq(Parts) /\ Len(t) = Len(d) - n /\ \A k \in 1 .. Len(d) - n : t[k] = Part(d[n + k])
      BY <1>1, <1>2, <3>1
    <3> QED BY <1>2, <2>1, <3>1, <3>2, OverIs
  <2> QED BY <1>5, <2>2, <2>3, <2>6, <2>7
<1>8. CASE r < n - 1
  <2>1. ReadUpTo(d, r)
    <3> SUFFICES ASSUME NEW k \in 1 .. n PROVE Holds(d[k]) <=> k <= r
      BY <1>1, <1>2 DEF ReadUpTo
    <3>1. CASE k = n
      <4>1. ~c[n].parent
        BY <1>1, <1>3, <1>8
      <4> QED BY <1>1, <1>4, <1>8, <3>1, <4>1
    <3>2. CASE k # n
      BY <1>1, <1>2, <3>2
    <3> QED BY <3>1, <3>2
  <2>2. Len(Over(c)) > 1 /\ Over(c) # <<>>
    BY <1>1, <1>8
  <2>3. Last(Over(c)) = "then"
    <3>1. Last(Over(c)) = Over(c)[n - r] /\ n - r \in 1 .. n - r /\ r + (n - r) = n
      BY <1>1, <1>2, <1>8 DEF Last
    <3> QED BY <1>1, <1>2, <3>1
  <2>4. PICK f : f = Front(Over(c))
    OBVIOUS
  <2>5. f \in Seq(Parts) /\ Len(f) = n - r - 1 /\ \A k \in 1 .. n - r - 1 : f[k] = Over(c)[k]
    <3>1. /\ f \in Seq(Parts) /\ Len(f) = Len(Over(c)) - 1
          /\ \A k \in 1 .. Len(Over(c)) - 1 : f[k] = Over(c)[k]
      BY <1>1, <2>2, <2>4, OneLess
    <3>2. Len(Over(c)) = n - r
      BY <1>1
    <3> QED BY <3>1, <3>2
  <2>6. PICK s : s = Append(f, "else")
    OBVIOUS
  <2>7. s \in Seq(Parts) /\ Len(s) = n - r /\ (\A k \in 1 .. n - r - 1 : s[k] = Over(c)[k]) /\ s[n - r] = "else"
    <3>1. "else" \in Parts
      BY DEF Parts
    <3>2. n - r - 1 + 1 = n - r
      BY <1>1
    <3> QED BY <2>5, <2>6, <3>1, <3>2, OneMore
  <2>8. \A k \in 1 .. n - r : s[k] = Part(d[r + k])
    <3> SUFFICES ASSUME NEW k \in 1 .. n - r PROVE s[k] = Part(d[r + k])
      OBVIOUS
    <3>1. CASE k = n - r
      <4>1. r + k = n
        BY <1>1, <3>1
      <4> QED BY <1>2, <2>7, <3>1, <4>1
    <3>2. CASE k # n - r
      <4>1. k \in 1 .. n - r - 1 /\ r + k \in 1 .. n - 1
        BY <1>1, <3>2
      <4> QED BY <1>1, <1>2, <2>7, <4>1
    <3> QED BY <3>1, <3>2
  <2>9. Over(d) = s
    BY <1>2, <2>1, <2>7, <2>8, OverIs
  <2>10. Open(d) = Open(c)
    <3>1. \A k \in 1 .. r : k \in 1 .. n - 1
      BY <1>1, <1>8
    <3>2. \A k \in 1 .. r : Open(c)[k] = Part(d[k])
      BY <1>1, <1>2, <3>1
    <3> QED BY <1>1, <1>2, <2>1, <3>2, OpenIs
  <2> QED BY <1>5, <2>2, <2>3, <2>4, <2>6, <2>9, <2>10
<1>9. r = n \/ r = n - 1 \/ r < n - 1
  BY <1>1
<1> QED BY <1>6, <1>7, <1>8, <1>9

-----------------------------------------------------------------------------
(* What is left of the text.                                               *)

Marked == TextItem \cup {Eof}
Places(u) == {s \in [file : DOMAIN u.files, at : Nat] : s.at \in 1 .. Len(u.files[s.file]) + 1}

\* A file that includes one, with the text after it.
Under(u, s, t) == <<Eof>> \o From(u, s) \o t

\* g[k] is what is left of the k outermost of n files.
Trail(g, u, b, n) == g = [k \in 0 .. n |-> IF k = 0 THEN <<>> ELSE Under(u, b[k], g[k - 1])]

LEMMA TrailIs ==
  ASSUME NEW n \in Nat, NEW g, NEW u, NEW b, Trail(g, u, b, n)
  PROVE  g[0] = <<>> /\ \A k \in 1 .. n : g[k] = Under(u, b[k], g[k - 1])
<1>1. \A k \in 0 .. n : g[k] = IF k = 0 THEN <<>> ELSE Under(u, b[k], g[k - 1])
  BY Zenon DEF Trail
<1> QED BY <1>1

LEMMA TrailExists ==
  ASSUME NEW u, NEW b
  PROVE  \A n \in Nat : \E g : Trail(g, u, b, n)
<1> DEFINE Bad == {n \in Nat : ~ \E g : Trail(g, u, b, n)}
<1> SUFFICES ASSUME Bad # {} PROVE FALSE
  OBVIOUS
<1>1. First(Bad) \in Bad /\ \A m \in Bad : First(Bad) <= m
  BY FirstIs
<1>2. PICK n \in Nat : n = First(Bad) /\ (~ \E g : Trail(g, u, b, n)) /\ \A m \in Bad : n <= m
  BY <1>1
<1>3. n # 0
  <2> DEFINE g == [k \in {0} |-> <<>>]
  <2>1. 0 .. 0 = {0}
    OBVIOUS
  <2>2. g = [k \in 0 .. 0 |-> IF k = 0 THEN <<>> ELSE Under(u, b[k], g[k - 1])]
    BY <2>1
  <2>3. Trail(g, u, b, 0)
    BY <2>2 DEF Trail
  <2> QED BY <1>2, <2>3
<1>4. n - 1 \in Nat /\ \E g : Trail(g, u, b, n - 1)
  <2>1. n - 1 \in Nat
    BY <1>2, <1>3
  <2>2. n - 1 \notin Bad
    <3>1. \A m \in Bad : n <= m
      BY <1>2
    <3> HIDE DEF Bad
    <3> QED BY <1>2, <2>1, <3>1
  <2> QED BY <2>1, <2>2
<1>5. PICK g : Trail(g, u, b, n - 1)
  BY <1>4
<1> DEFINE h == [k \in 0 .. n |-> IF k = n THEN Under(u, b[n], g[n - 1]) ELSE g[k]]
<1>6. \A k \in 0 .. n : h[k] = IF k = 0 THEN <<>> ELSE Under(u, b[k], h[k - 1])
  <2>1. g[0] = <<>> /\ \A i \in 1 .. n - 1 : g[i] = Under(u, b[i], g[i - 1])
    BY <1>4, <1>5, TrailIs
  <2> SUFFICES ASSUME NEW k \in 0 .. n PROVE h[k] = IF k = 0 THEN <<>> ELSE Under(u, b[k], h[k - 1])
    OBVIOUS
  <2>2. CASE k = n
    <3>1. h[k - 1] = g[n - 1] /\ h[k] = Under(u, b[n], g[n - 1])
      BY <1>2, <1>3, <2>2
    <3> QED BY <1>3, <2>2, <3>1
  <2>3. CASE k # n /\ k # 0
    <3>1. k \in 1 .. n - 1 /\ h[k] = g[k] /\ h[k - 1] = g[k - 1]
      BY <1>2, <2>3
    <3> QED BY <2>1, <2>3, <3>1
  <2>4. CASE k = 0
    BY <1>2, <1>3, <2>1, <2>4
  <2> QED BY <2>2, <2>3, <2>4
<1>7. h = [k \in 0 .. n |-> h[k]]
  OBVIOUS
<1> HIDE DEF h
<1>8. Trail(h, u, b, n)
  BY <1>6, <1>7 DEF Trail
<1> QED BY <1>2, <1>8

\* Two lists that agree so far leave the same.
LEMMA TrailSame ==
  ASSUME NEW u, NEW b, NEW c, NEW n \in Nat, NEW m \in Nat, n <= m, \A k \in 1 .. n : b[k] = c[k],
         NEW g, Trail(g, u, b, n), NEW h, Trail(h, u, c, m)
  PROVE  g[n] = h[n]
<1> DEFINE Bad == {k \in Nat : k <= n /\ g[k] # h[k]}
<1>1. ASSUME Bad # {} PROVE FALSE
  <2>1. First(Bad) \in Bad /\ \A m_1 \in Bad : First(Bad) <= m_1
    BY <1>1, FirstIs
  <2>2. PICK k \in Nat : k <= n /\ g[k] # h[k] /\ \A i \in Bad : k <= i
    BY <2>1
  <2>3. /\ g[0] = <<>> /\ h[0] = <<>>
        /\ \A i \in 1 .. n : g[i] = Under(u, b[i], g[i - 1])
        /\ \A i \in 1 .. m : h[i] = Under(u, c[i], h[i - 1])
    BY TrailIs
  <2>4. k # 0
    BY <2>2, <2>3
  <2>5. k \in 1 .. n /\ k \in 1 .. m /\ k - 1 \in Nat /\ k - 1 <= n
    BY <2>2, <2>4
  <2>6. k - 1 \notin Bad
    <3>1. \A i \in Bad : k <= i
      BY <2>2
    <3> HIDE DEF Bad
    <3> QED BY <2>5, <3>1
  <2>7. g[k - 1] = h[k - 1] /\ b[k] = c[k]
    BY <2>5, <2>6
  <2> QED BY <2>2, <2>3, <2>5, <2>7
<1> QED BY <1>1

LEMMA BeyondIs ==
  ASSUME NEW u, NEW b, Len(b) \in Nat
  PROVE  \E g : Trail(g, u, b, Len(b)) /\ Beyond(u, b) = g[Len(b)]
<1>1. Beyond(u, b) = (CHOOSE g : Trail(g, u, b, Len(b)))[Len(b)]
  BY DEF Beyond, Trail, Under
<1>2. \E g : Trail(g, u, b, Len(b))
  BY TrailExists
<1> QED BY <1>1, <1>2

LEMMA BeyondNone ==
  ASSUME NEW u
  PROVE  Beyond(u, <<>>) = <<>>
<1>1. Len(<<>>) = 0
  OBVIOUS
<1>2. PICK g : Trail(g, u, <<>>, 0) /\ Beyond(u, <<>>) = g[0]
  BY <1>1, BeyondIs
<1> QED BY <1>2, TrailIs

LEMMA BeyondMore ==
  ASSUME NEW S, NEW u, NEW b \in Seq(S), NEW s \in S
  PROVE  Beyond(u, Append(b, s)) = <<Eof>> \o From(u, s) \o Beyond(u, b)
<1> DEFINE n == Len(b)
           c == Append(b, s)
<1>1. n \in Nat /\ Len(c) = n + 1 /\ c[n + 1] = s /\ \A k \in 1 .. n : b[k] = c[k]
  BY AppendProperties, LenProperties
<1> HIDE DEF n, c
<1>2. PICK g : Trail(g, u, b, n) /\ Beyond(u, b) = g[n]
  BY <1>1, BeyondIs DEF n
<1>3. PICK h : Trail(h, u, c, n + 1) /\ Beyond(u, c) = h[n + 1]
  BY <1>1, BeyondIs
<1>4. g[n] = h[n]
  BY <1>1, <1>2, <1>3, TrailSame
<1>5. h[n + 1] = Under(u, s, h[n])
  <2>1. n + 1 \in 1 .. n + 1 /\ (n + 1) - 1 = n /\ n + 1 \in Nat
    BY <1>1
  <2>2. h[n + 1] = Under(u, c[n + 1], h[(n + 1) - 1])
    BY <1>3, <2>1, TrailIs
  <2> QED BY <1>1, <2>1, <2>2
<1> QED BY <1>2, <1>3, <1>4, <1>5 DEF c, Under

LEMMA HeadAndRest ==
  ASSUME NEW S, NEW a \in S, NEW t \in Seq(S)
  PROVE  /\ <<a>> \in Seq(S) /\ <<a>> \o t \in Seq(S) /\ <<a>> \o t # <<>>
         /\ Head(<<a>> \o t) = a /\ Tail(<<a>> \o t) = t
<1>1. <<a>> \in Seq(S) /\ Len(<<a>>) = 1 /\ <<a>>[1] = a
  OBVIOUS
<1> DEFINE c == <<a>> \o t
<1>2. c \in Seq(S) /\ Len(c) = 1 + Len(t) /\ \A i \in 1 .. 1 + Len(t) : c[i] = IF i <= 1 THEN <<a>>[i] ELSE t[i - 1]
  BY <1>1, ConcatProperties
<1>3. Len(t) \in Nat
  OBVIOUS
<1> HIDE DEF c
<1>4. c # <<>> /\ Head(c) = a
  BY <1>1, <1>2, <1>3
<1>5. Tail(c) \in Seq(S) /\ Len(Tail(c)) = Len(t) /\ \A i \in 1 .. Len(t) : Tail(c)[i] = t[i]
  <2>1. Tail(c) \in Seq(S) /\ Len(Tail(c)) = Len(c) - 1 /\ \A i \in 1 .. Len(Tail(c)) : Tail(c)[i] = c[i + 1]
    BY <1>2, <1>4, HeadTailProperties
  <2>2. \A i \in 1 .. Len(t) : i + 1 \in 1 .. 1 + Len(t) /\ ~(i + 1 <= 1) /\ (i + 1) - 1 = i
    BY <1>3
  <2> QED BY <1>2, <1>3, <2>1, <2>2
<1>6. Tail(c) = t
  BY <1>5, SeqEqual
<1> QED BY <1>1, <1>2, <1>4, <1>6 DEF c

LEMMA UnitsAre ==
  ASSUME NEW u \in Units
  PROVE  /\ u.root \in DOMAIN u.files /\ Eof \in Marked
         /\ \A f \in DOMAIN u.files : /\ f \in Path /\ u.files[f] \in Seq(Marked) /\ Len(u.files[f]) \in Nat
                                    /\ \A k \in 1 .. Len(u.files[f]) : u.files[f][k] \in TextItem
<1>1. Eof \in Marked
  BY DEF Marked
<1>2. ASSUME NEW f \in DOMAIN u.files
      PROVE  /\ f \in Path /\ u.files[f] \in Seq(Marked) /\ Len(u.files[f]) \in Nat
             /\ \A k \in 1 .. Len(u.files[f]) : u.files[f][k] \in TextItem
  <2>1. f \in Path /\ u.files[f] \in Seq(TextItem)
    BY PreprocessorAssumption
  <2>2. TextItem \subseteq Marked
    BY DEF Marked
  <2> QED BY <2>1, <2>2, SeqMonotonic, ElementOfSeq, LenProperties
<1> QED BY <1>1, <1>2, PreprocessorAssumption

LEMMA FromIs ==
  ASSUME NEW u \in Units, NEW s \in Places(u)
  PROVE  /\ From(u, s) \in Seq(Marked) /\ s.at \in Nat /\ s.file \in DOMAIN u.files
         /\ s.at > Len(u.files[s.file]) => From(u, s) = <<>>
         /\ s.at <= Len(u.files[s.file]) =>
              /\ u.files[s.file][s.at] \in TextItem
              /\ [s EXCEPT !.at = @ + 1] \in Places(u)
              /\ From(u, s) = <<u.files[s.file][s.at]>> \o From(u, [s EXCEPT !.at = @ + 1])
<1> DEFINE t == u.files[s.file]
<1>1. s.file \in DOMAIN u.files /\ s.at \in 1 .. Len(t) + 1 /\ s = [file |-> s.file, at |-> s.at]
  BY DEF Places
<1>2. t \in Seq(Marked) /\ Len(t) \in Nat /\ \A k \in 1 .. Len(t) : t[k] \in TextItem /\ t[k] \in Marked
  BY <1>1, UnitsAre DEF Marked
<1>3. From(u, s) = SubSeq(t, s.at, Len(t))
  BY DEF From
<1>4. From(u, [s EXCEPT !.at = @ + 1]) = SubSeq(t, s.at + 1, Len(t))
  BY <1>1 DEF From
<1>5. s.at <= Len(t) => [s EXCEPT !.at = @ + 1] \in Places(u)
  BY <1>1, <1>2 DEF Places
<1> HIDE DEF t
<1>6. From(u, s) \in Seq(Marked)
  <2>1. s.at \in Int /\ Len(t) \in Int /\ \A i \in s.at .. Len(t) : t[i] \in Marked
    BY <1>1, <1>2
  <2> QED BY <1>3, <2>1, SubSeqProperties
<1>7. s.at > Len(t) => From(u, s) = <<>>
  BY <1>1, <1>2, <1>3, SubSeqEmpty
<1>8. ASSUME s.at <= Len(t) PROVE From(u, s) = <<t[s.at]>> \o From(u, [s EXCEPT !.at = @ + 1])
  <2>1. s.at \in 1 .. Len(t) /\ Len(t) \in s.at .. Len(t)
    BY <1>1, <1>2, <1>8
  <2> QED BY <1>2, <1>3, <1>4, <2>1, SubSeqRecursiveFirst
<1>9. s.at \in Nat /\ s.file \in DOMAIN u.files
  BY <1>1, <1>2
<1>10. s.at <= Len(t) => t[s.at] \in TextItem
  BY <1>1, <1>2
<1>11. s.at <= Len(t) => From(u, s) = <<t[s.at]>> \o From(u, [s EXCEPT !.at = @ + 1])
  BY <1>8
<1>12. t = u.files[s.file]
  BY DEF t
<1> QED BY ONLY <1>5, <1>6, <1>7, <1>9, <1>10, <1>11, <1>12

LEMMA BeyondTyped ==
  ASSUME NEW u \in Units, NEW b \in Seq(Places(u))
  PROVE  Beyond(u, b) \in Seq(Marked)
<1> DEFINE n == Len(b)
<1>1. n \in Nat /\ \A k \in 1 .. n : b[k] \in Places(u)
  BY LenProperties, ElementOfSeq
<1>2. PICK g : Trail(g, u, b, n) /\ Beyond(u, b) = g[n]
  BY <1>1, BeyondIs
<1> HIDE DEF n
<1>3. g[0] = <<>> /\ \A k \in 1 .. n : g[k] = Under(u, b[k], g[k - 1])
  BY <1>1, <1>2, TrailIs
<1> DEFINE Bad == {k \in Nat : k <= n /\ g[k] \notin Seq(Marked)}
<1>4. ASSUME Bad # {} PROVE FALSE
  <2>1. First(Bad) \in Bad /\ \A m \in Bad : First(Bad) <= m
    BY <1>4, FirstIs
  <2>2. PICK k \in Nat : k <= n /\ g[k] \notin Seq(Marked) /\ \A i \in Bad : k <= i
    BY <2>1
  <2>3. k # 0
    BY <1>3, <2>2, EmptySeq
  <2>4. k - 1 \in Nat /\ k - 1 <= n /\ k \in 1 .. n
    BY <1>1, <2>2, <2>3
  <2>5. k - 1 \notin Bad
    <3>1. \A i \in Bad : k <= i
      BY <2>2
    <3> HIDE DEF Bad
    <3> QED BY <2>4, <3>1
  <2>6. g[k - 1] \in Seq(Marked) /\ b[k] \in Places(u)
    BY <1>1, <2>4, <2>5
  <2>7. From(u, b[k]) \in Seq(Marked) /\ <<Eof>> \in Seq(Marked)
    BY <2>6, FromIs, UnitsAre, HeadAndRest, EmptySeq
  <2>8. Under(u, b[k], g[k - 1]) \in Seq(Marked)
    BY <2>6, <2>7, ConcatProperties DEF Under
  <2> QED BY <1>3, <2>2, <2>4, <2>8
<1> QED BY <1>1, <1>2, <1>4

\* One item of the file being read.
LEMMA StepRest ==
  ASSUME NEW u \in Units, NEW s \in Places(u), NEW b \in Seq(Places(u)), s.at <= Len(u.files[s.file])
  PROVE  /\ [s EXCEPT !.at = @ + 1] \in Places(u)
         /\ u.files[s.file][s.at] \in TextItem
         /\ From(u, s) \o Beyond(u, b) # <<>>
         /\ Head(From(u, s) \o Beyond(u, b)) = u.files[s.file][s.at]
         /\ Tail(From(u, s) \o Beyond(u, b)) = From(u, [s EXCEPT !.at = @ + 1]) \o Beyond(u, b)
<1> DEFINE a == u.files[s.file][s.at]
           n == [s EXCEPT !.at = @ + 1]
<1>1. n \in Places(u) /\ a \in TextItem /\ From(u, s) = <<a>> \o From(u, n)
  BY FromIs
<1>2. a \in Marked
  BY <1>1 DEF Marked
<1> HIDE DEF a, n
<1>3. From(u, n) \in Seq(Marked) /\ Beyond(u, b) \in Seq(Marked)
  BY <1>1, FromIs, BeyondTyped
<1>4. PICK t : t = From(u, n) \o Beyond(u, b)
  OBVIOUS
<1>5. t \in Seq(Marked)
  BY <1>3, <1>4, ConcatProperties
<1>6. From(u, s) \o Beyond(u, b) = <<a>> \o t
  <2>1. <<a>> \in Seq(Marked)
    BY <1>2, <1>5, HeadAndRest
  <2> QED BY <1>1, <1>3, <1>4, <2>1, ConcatAssociative
<1>7. <<a>> \o t # <<>> /\ Head(<<a>> \o t) = a /\ Tail(<<a>> \o t) = t
  BY <1>2, <1>5, HeadAndRest
<1> QED BY <1>1, <1>4, <1>6, <1>7 DEF a, n

\* The end of a file, back in the one that includes it.
LEMMA PopRest ==
  ASSUME NEW u \in Units, NEW s \in Places(u), NEW b \in Seq(Places(u)),
         s.at > Len(u.files[s.file]), b # <<>>
  PROVE  /\ Last(b) \in Places(u) /\ Front(b) \in Seq(Places(u)) /\ b = Append(Front(b), Last(b))
         /\ From(u, s) \o Beyond(u, b) # <<>>
         /\ Head(From(u, s) \o Beyond(u, b)) = Eof
         /\ Tail(From(u, s) \o Beyond(u, b)) = From(u, Last(b)) \o Beyond(u, Front(b))
<1>1. PICK f : f = Front(b)
  OBVIOUS
<1>2. PICK l : l = Last(b)
  OBVIOUS
<1>3. /\ f \in Seq(Places(u)) /\ Len(f) = Len(b) - 1 /\ \A k \in 1 .. Len(b) - 1 : f[k] = b[k]
      /\ Len(b) \in Nat \ {0} /\ l = b[Len(b)]
  BY <1>1, <1>2, OneLess
<1>4. l \in Places(u)
  <2>1. Len(b) \in 1 .. Len(b)
    BY <1>3
  <2> QED BY <1>3, <2>1, ElementOfSeq
<1>5. b = Append(f, l)
  <2>1. PICK a : a = Append(f, l)
    OBVIOUS
  <2>2. /\ a \in Seq(Places(u)) /\ Len(a) = Len(f) + 1 /\ (\A k \in 1 .. Len(f) : a[k] = f[k]) /\ a[Len(f) + 1] = l
    BY <1>3, <1>4, <2>1, AppendProperties
  <2>3. Len(a) = Len(b)
    BY <1>3, <2>2
  <2>4. ASSUME NEW k \in 1 .. Len(b) PROVE a[k] = b[k]
    <3>1. CASE k = Len(b)
      BY <1>3, <2>2, <3>1
    <3>2. CASE k # Len(b)
      <4>1. k \in 1 .. Len(f) /\ k \in 1 .. Len(b) - 1
        BY <1>3, <3>2
      <4> QED BY <1>3, <2>2, <4>1
    <3> QED BY <3>1, <3>2
  <2>5. a = b
    BY <2>2, <2>3, <2>4, SeqEqual
  <2> QED BY <2>1, <2>5
<1>6. Beyond(u, b) = <<Eof>> \o From(u, l) \o Beyond(u, f)
  BY <1>3, <1>4, <1>5, BeyondMore
<1>7. From(u, s) = <<>> /\ From(u, l) \in Seq(Marked) /\ Beyond(u, f) \in Seq(Marked) /\ Beyond(u, b) \in Seq(Marked)
  BY <1>3, <1>4, FromIs, BeyondTyped
<1>8. PICK t : t = From(u, l) \o Beyond(u, f)
  OBVIOUS
<1>9. t \in Seq(Marked) /\ Eof \in Marked
  BY <1>7, <1>8, ConcatProperties, UnitsAre
<1>10. From(u, s) \o Beyond(u, b) = <<Eof>> \o t
  <2>1. <<Eof>> \in Seq(Marked)
    BY <1>9, HeadAndRest
  <2>2. (<<Eof>> \o From(u, l)) \o Beyond(u, f) = <<Eof>> \o t
    BY <1>7, <1>8, <2>1, ConcatAssociative
  <2> QED BY <1>6, <1>7, <2>2, ConcatEmptySeq
<1>11. <<Eof>> \o t # <<>> /\ Head(<<Eof>> \o t) = Eof /\ Tail(<<Eof>> \o t) = t
  BY <1>9, HeadAndRest
<1> QED BY <1>1, <1>2, <1>3, <1>4, <1>5, <1>8, <1>10, <1>11

\* A file in the place of the directive.
LEMMA PushRest ==
  ASSUME NEW u \in Units, NEW n \in Places(u), NEW b \in Seq(Places(u)), NEW file \in DOMAIN u.files
  PROVE  /\ [file |-> file, at |-> 1] \in Places(u) /\ Append(b, n) \in Seq(Places(u))
         /\ From(u, [file |-> file, at |-> 1]) \o Beyond(u, Append(b, n))
              = u.files[file] \o <<Eof>> \o (From(u, n) \o Beyond(u, b))
<1> DEFINE t == u.files[file]
           s == [file |-> file, at |-> 1]
<1>1. t \in Seq(Marked) /\ Len(t) \in Nat /\ Eof \in Marked
  BY UnitsAre
<1>2. s \in Places(u)
  BY <1>1 DEF Places
<1>3. From(u, s) = t
  <2>1. From(u, s) = SubSeq(t, 1, Len(t))
    BY DEF From
  <2> HIDE DEF t
  <2> QED BY <1>1, <2>1, SubSeqFull
<1>4. Append(b, n) \in Seq(Places(u))
  BY AppendProperties
<1>5. Beyond(u, Append(b, n)) = <<Eof>> \o From(u, n) \o Beyond(u, b)
  BY BeyondMore
<1>6. From(u, n) \in Seq(Marked) /\ Beyond(u, b) \in Seq(Marked) /\ <<Eof>> \in Seq(Marked)
  <2>1. <<>> \in Seq(Marked)
    BY EmptySeq
  <2> QED BY <1>1, <2>1, FromIs, BeyondTyped, HeadAndRest
<1> HIDE DEF t, s
<1>7. (<<Eof>> \o From(u, n)) \o Beyond(u, b) = <<Eof>> \o (From(u, n) \o Beyond(u, b))
  BY <1>6, ConcatAssociative
<1>8. From(u, n) \o Beyond(u, b) \in Seq(Marked)
  BY <1>6, ConcatProperties
<1>9. t \o (<<Eof>> \o (From(u, n) \o Beyond(u, b))) = (t \o <<Eof>>) \o (From(u, n) \o Beyond(u, b))
  <2>1. PICK q : q = From(u, n) \o Beyond(u, b)
    OBVIOUS
  <2>2. PICK e : e = <<Eof>>
    OBVIOUS
  <2>3. q \in Seq(Marked) /\ e \in Seq(Marked)
    BY <1>6, <1>8, <2>1, <2>2
  <2>4. \A v, w, x \in Seq(Marked) : (v \o w) \o x = v \o (w \o x)
    BY ConcatAssociative
  <2>5. (t \o e) \o q = t \o (e \o q)
    BY <1>1, <2>3, <2>4, Zenon
  <2> QED BY <2>1, <2>2, <2>5
<1> QED BY <1>2, <1>3, <1>4, <1>5, <1>7, <1>9 DEF t, s

\* The end of the text.
LEMMA EndRest ==
  ASSUME NEW u \in Units, NEW s \in Places(u), s.at > Len(u.files[s.file])
  PROVE  From(u, s) \o Beyond(u, <<>>) = <<>>
<1>1. From(u, s) = <<>> /\ Beyond(u, <<>>) = <<>>
  BY FromIs, BeyondNone
<1> QED BY <1>1, EmptySeq, ConcatEmptySeq

-----------------------------------------------------------------------------
(* The files that the text is in, and those met.                           *)

Chain(b, f) == Append([k \in DOMAIN b |-> b[k].file], f)

LEMMA FilesOf ==
  ASSUME NEW u \in Units, NEW b \in Seq(Places(u))
  PROVE  /\ [k \in DOMAIN b |-> b[k].file] \in Seq(DOMAIN u.files)
         /\ Len([k \in DOMAIN b |-> b[k].file]) = Len(b)
         /\ \A k \in 1 .. Len(b) : [i \in DOMAIN b |-> b[i].file][k] = b[k].file
<1> DEFINE n == Len(b)
           t == [k \in DOMAIN b |-> b[k].file]
<1>1. n \in Nat /\ DOMAIN b = 1 .. n /\ \A k \in 1 .. n : b[k] \in Places(u)
  BY LenProperties, ElementOfSeq
<1>2. \A k \in 1 .. n : b[k].file \in DOMAIN u.files
  BY <1>1 DEF Places
<1>3. t = [k \in 1 .. n |-> b[k].file]
  BY <1>1
<1> HIDE DEF n
<1>4. t \in [1 .. n -> DOMAIN u.files]
  BY <1>2, <1>3
<1>5. \A k \in 1 .. n : t[k] = b[k].file
  BY <1>3
<1> HIDE DEF t
<1>6. t \in Seq(DOMAIN u.files) /\ Len(t) = n
  BY <1>1, <1>4
<1> QED BY <1>5, <1>6 DEF n, t

LEMMA ChainIs ==
  ASSUME NEW u \in Units, NEW b \in Seq(Places(u)), NEW f \in DOMAIN u.files
  PROVE  /\ Chain(b, f) \in Seq(DOMAIN u.files) /\ Len(Chain(b, f)) = Len(b) + 1 /\ Len(b) \in Nat
         /\ Last(Chain(b, f)) = f
         /\ ToSet(Chain(b, f)) = {f} \cup {b[k].file : k \in DOMAIN b}
         /\ Front(Chain(b, f)) = [k \in DOMAIN b |-> b[k].file]
<1> DEFINE n == Len(b)
<1>1. PICK t : t = [k \in DOMAIN b |-> b[k].file]
  OBVIOUS
<1>2. PICK c : c = Append(t, f)
  OBVIOUS
<1>3. t \in Seq(DOMAIN u.files) /\ Len(t) = n /\ \A k \in 1 .. n : t[k] = b[k].file
  BY <1>1, FilesOf
<1>4. n \in Nat /\ DOMAIN b = 1 .. n
  BY LenProperties
<1> HIDE DEF n
<1>5. /\ c \in Seq(DOMAIN u.files) /\ c # <<>> /\ Len(c) = n + 1 /\ (\A k \in 1 .. n : c[k] = t[k]) /\ c[n + 1] = f
  BY <1>2, <1>3, AppendProperties
<1>6. DOMAIN c = 1 .. n + 1
  BY <1>5, LenProperties
<1>7. Last(c) = f
  BY <1>5 DEF Last
<1>8. ToSet(c) = {f} \cup {b[k].file : k \in DOMAIN b}
  <2>1. ASSUME NEW x PROVE x \in ToSet(c) <=> x \in {f} \cup {b[k].file : k \in DOMAIN b}
    <3>1. x \in ToSet(c) <=> \E k \in 1 .. n + 1 : x = c[k]
      BY <1>6 DEF ToSet
    <3>2. (\E k \in 1 .. n + 1 : x = c[k]) <=> x = f \/ \E k \in 1 .. n : x = c[k]
      <4>1. \A k \in 1 .. n + 1 : k = n + 1 \/ k \in 1 .. n
        BY <1>4
      <4>2. n + 1 \in 1 .. n + 1 /\ \A k \in 1 .. n : k \in 1 .. n + 1
        BY <1>4
      <4> QED BY <1>5, <4>1, <4>2
    <3>3. (\E k \in 1 .. n : x = c[k]) <=> x \in {b[k].file : k \in DOMAIN b}
      BY <1>3, <1>4, <1>5
    <3> QED BY <3>1, <3>2, <3>3
  <2> QED BY <2>1
<1>9. Front(c) = t
  <2>1. PICK d : d = Front(c)
    OBVIOUS
  <2>2. d \in Seq(DOMAIN u.files) /\ Len(d) = Len(c) - 1 /\ \A k \in 1 .. Len(c) - 1 : d[k] = c[k]
    BY <1>5, <2>1, OneLess
  <2>3. Len(d) = Len(t) /\ \A k \in 1 .. Len(d) : d[k] = t[k]
    BY <1>3, <1>4, <1>5, <2>2
  <2>4. d = t
    BY <1>3, <2>2, <2>3, SeqEqual
  <2> QED BY <2>1, <2>4
<1> QED BY <1>1, <1>2, <1>4, <1>5, <1>7, <1>8, <1>9 DEF Chain, n

LEMMA ChainMore ==
  ASSUME NEW u \in Units, NEW b \in Seq(Places(u)), NEW n \in Places(u)
  PROVE  [k \in DOMAIN Append(b, n) |-> Append(b, n)[k].file] = Chain(b, n.file)
<1>1. PICK c : c = Append(b, n)
  OBVIOUS
<1>2. c \in Seq(Places(u)) /\ Len(c) = Len(b) + 1 /\ (\A k \in 1 .. Len(b) : c[k] = b[k]) /\ c[Len(b) + 1] = n
  BY <1>1, AppendProperties
<1>3. PICK t : t = [k \in DOMAIN b |-> b[k].file]
  OBVIOUS
<1>4. PICK v : v = [k \in DOMAIN c |-> c[k].file]
  OBVIOUS
<1>5. /\ t \in Seq(DOMAIN u.files) /\ Len(t) = Len(b) /\ \A k \in 1 .. Len(b) : t[k] = b[k].file
  BY <1>3, FilesOf
<1>6. /\ v \in Seq(DOMAIN u.files) /\ Len(v) = Len(c) /\ \A k \in 1 .. Len(c) : v[k] = c[k].file
  BY <1>2, <1>4, FilesOf
<1>7. PICK w : w = Append(t, n.file)
  OBVIOUS
<1>8. n.file \in DOMAIN u.files
  BY DEF Places
<1>9. /\ w \in Seq(DOMAIN u.files) /\ Len(w) = Len(t) + 1 /\ (\A k \in 1 .. Len(t) : w[k] = t[k]) /\ w[Len(t) + 1] = n.file
  <2>1. PICK f : f = n.file
    OBVIOUS
  <2>2. f \in DOMAIN u.files /\ w = Append(t, f)
    BY <1>7, <1>8, <2>1
  <2>3. /\ w \in Seq(DOMAIN u.files) /\ Len(w) = Len(t) + 1 /\ (\A k \in 1 .. Len(t) : w[k] = t[k])
        /\ w[Len(t) + 1] = f
    BY <1>5, <2>2, AppendProperties
  <2> QED BY <2>1, <2>3
<1>10. Len(b) \in Nat
  BY LenProperties
<1>11. Len(v) = Len(w)
  BY <1>2, <1>5, <1>6, <1>9
<1>12. ASSUME NEW k \in 1 .. Len(v) PROVE v[k] = w[k]
  <2>1. CASE k = Len(b) + 1
    BY <1>2, <1>5, <1>6, <1>9, <1>10, <2>1
  <2>2. CASE k # Len(b) + 1
    <3>1. k \in 1 .. Len(b) /\ k \in 1 .. Len(c)
      BY <1>2, <1>6, <1>10, <2>2
    <3> QED BY <1>2, <1>5, <1>6, <1>9, <3>1
  <2> QED BY <1>2, <1>6, <1>10, <2>1, <2>2
<1>13. v = w
  BY <1>6, <1>9, <1>11, <1>12, SeqEqual
<1> QED BY <1>1, <1>3, <1>4, <1>7, <1>13 DEF Chain

LEMMA RecordIs ==
  ASSUME NEW S, NEW ds \in Seq(S), IsInjective(ds), NEW file \in S
  PROVE  /\ RecordDependency(ds, file) \in Seq(S) /\ IsInjective(RecordDependency(ds, file))
         /\ ToSet(RecordDependency(ds, file)) = ToSet(ds) \cup {file}
<1>1. Len(ds) \in Nat /\ DOMAIN ds = 1 .. Len(ds)
  BY LenProperties
<1>2. CASE file \in ToSet(ds)
  BY <1>2 DEF RecordDependency
<1>3. CASE file \notin ToSet(ds)
  <2>1. PICK e : e = Append(ds, file)
    OBVIOUS
  <2>2. /\ e \in Seq(S) /\ Len(e) = Len(ds) + 1 /\ (\A k \in 1 .. Len(ds) : e[k] = ds[k]) /\ e[Len(ds) + 1] = file
    BY <2>1, AppendProperties
  <2>3. DOMAIN e = 1 .. Len(ds) + 1
    BY <2>2, LenProperties
  <2>4. \A k \in 1 .. Len(ds) : ds[k] # file
    BY <1>1, <1>3 DEF ToSet
  <2>5. \A i, j \in 1 .. Len(ds) : ds[i] = ds[j] => i = j
    BY <1>1 DEF IsInjective
  <2>6. \A k \in 1 .. Len(ds) + 1 : k = Len(ds) + 1 \/ k \in 1 .. Len(ds)
    BY <1>1
  <2>7. IsInjective(e)
    <3> SUFFICES ASSUME NEW i \in 1 .. Len(ds) + 1, NEW j \in 1 .. Len(ds) + 1, e[i] = e[j] PROVE i = j
      BY <2>3 DEF IsInjective
    <3>1. CASE i \in 1 .. Len(ds) /\ j \in 1 .. Len(ds)
      BY <2>2, <2>5, <3>1
    <3>2. CASE i \in 1 .. Len(ds) /\ j = Len(ds) + 1
      BY <2>2, <2>4, <3>2
    <3>3. CASE i = Len(ds) + 1 /\ j \in 1 .. Len(ds)
      BY <2>2, <2>4, <3>3
    <3> QED BY <2>6, <3>1, <3>2, <3>3
  <2>8. ToSet(e) = ToSet(ds) \cup {file}
    <3>1. ASSUME NEW x PROVE x \in ToSet(e) <=> x \in ToSet(ds) \cup {file}
      <4>1. x \in ToSet(e) <=> \E k \in 1 .. Len(ds) + 1 : x = e[k]
        BY <2>3 DEF ToSet
      <4>2. x \in ToSet(ds) <=> \E k \in 1 .. Len(ds) : x = ds[k]
        BY <1>1 DEF ToSet
      <4>3. Len(ds) + 1 \in 1 .. Len(ds) + 1 /\ \A k \in 1 .. Len(ds) : k \in 1 .. Len(ds) + 1
        BY <1>1
      <4>4. (\E k \in 1 .. Len(ds) + 1 : x = e[k]) <=> x = file \/ \E k \in 1 .. Len(ds) : x = ds[k]
        BY <2>2, <2>6, <4>3
      <4> QED BY <4>1, <4>2, <4>4
    <3> QED BY <3>1
  <2> QED BY <1>3, <2>1, <2>2, <2>7, <2>8 DEF RecordDependency
<1> QED BY <1>2, <1>3

-----------------------------------------------------------------------------
(* Where an included file is looked for.                                   *)

LEMMA CandidatesAre ==
  ASSUME NEW from \in Path, NEW p \in Path
  PROVE  DOMAIN Candidates(from, p) \subseteq Nat
<1> DEFINE in(d, q) == IF d = <<>> THEN <<>> ELSE d \o q
           under(d) == IF IsAbsolute(p) THEN <<>> ELSE in(d, p)
           Names == STRING \cup {"stdlib"}
<1>0. from \in Seq(Names) /\ p \in Seq(Names) /\ Home \in Seq(Names) /\ Stdlib \in Seq(Names) /\ IncludeDirs \in Seq(Seq(Names))
  <2>1. \A q \in Path : q \in Seq(Names)
    BY SeqMonotonic DEF Path
  <2> QED BY <2>1, SeqMonotonic, PreprocessorAssumption
<1>1. <<>> \in Seq(Names) /\ \A d, q \in Seq(Names) : d \o q \in Seq(Names)
  BY EmptySeq, ConcatProperties
<1>2. \A d, q \in Seq(Names) : in(d, q) \in Seq(Names)
  BY <1>1
<1>3. Dir(from) \in Seq(Names)
  <2>1. CASE from # <<>>
    BY <1>0, <2>1, OneLess DEF Dir
  <2>2. CASE from = <<>>
    <3>1. Len(<<>>) - 1 \in Int /\ Len(<<>>) - 1 < 1 /\ 1 \in Int
      OBVIOUS
    <3>2. SubSeq(<<>>, 1, Len(<<>>) - 1) = <<>>
      BY <3>1, SubSeqEmpty
    <3> QED BY <1>1, <2>2, <3>2 DEF Dir, Front
  <2> QED BY <2>1, <2>2
<1>4. <<"stdlib">> \in Seq(Names)
  BY EmptySeq, HeadAndRest
<1>5. Home \in Seq(Names) /\ Stdlib \in Seq(Names) /\ IncludeDirs \in Seq(Seq(Names))
  BY <1>0
<1> HIDE DEF in, Names
<1>6. \A d \in Seq(Names) : under(d) \in Seq(Names)
  BY <1>0, <1>1, <1>2
<1> HIDE DEF under
<1>7. PICK a : a = <<under(Dir(from)), p, under(Home)>>
  OBVIOUS
<1>8. PICK b : b = [k \in DOMAIN IncludeDirs |-> under(IncludeDirs[k])]
  OBVIOUS
<1>9. PICK c : c = IF Len(p) > 1 THEN <<>>
                   ELSE <<in(Dir(from), <<"stdlib">> \o p), <<"stdlib">> \o p, in(Stdlib, p), in(Home, <<"stdlib">> \o p)>>
  OBVIOUS
<1>10. a \in Seq(Seq(Names))
  BY <1>0, <1>3, <1>5, <1>6, <1>7
<1>11. b \in Seq(Seq(Names))
  <2>1. /\ Len(IncludeDirs) \in Nat /\ DOMAIN IncludeDirs = 1 .. Len(IncludeDirs)
        /\ \A k \in 1 .. Len(IncludeDirs) : IncludeDirs[k] \in Seq(Names)
    BY <1>5, LenProperties, ElementOfSeq
  <2>2. b \in [1 .. Len(IncludeDirs) -> Seq(Names)]
    BY <1>6, <1>8, <2>1
  <2> QED BY <2>1, <2>2
<1>12. c \in Seq(Seq(Names))
  <2>1. /\ <<"stdlib">> \o p \in Seq(Names) /\ in(Dir(from), <<"stdlib">> \o p) \in Seq(Names)
        /\ in(Stdlib, p) \in Seq(Names) /\ in(Home, <<"stdlib">> \o p) \in Seq(Names)
    BY <1>0, <1>1, <1>2, <1>3, <1>4, <1>5
  <2> QED BY <1>9, <2>1, EmptySeq
<1>13. a \o b \o c \in Seq(Seq(Names))
  BY <1>10, <1>11, <1>12, ConcatProperties
<1>14. Candidates(from, p) = a \o b \o c
  BY <1>7, <1>8, <1>9 DEF Candidates, in, under
<1> QED BY <1>13, <1>14, LenProperties

LEMMA ResolveIs ==
  ASSUME NEW files, NEW from \in Path, NEW p \in Path, Resolve(files, from, p) # <<>>
  PROVE  Resolve(files, from, p) \in DOMAIN files
<1> DEFINE c == Candidates(from, p)
           found == {k \in DOMAIN c : c[k] # <<>> /\ FullPath(c[k]) \in DOMAIN files}
<1>1. Resolve(files, from, p) = IF found = {} THEN <<>> ELSE FullPath(c[First(found)])
  BY DEF Resolve
<1>2. found \in SUBSET Nat /\ \A k \in found : FullPath(c[k]) \in DOMAIN files
  BY CandidatesAre
<1> HIDE DEF found, c
<1>3. found # {}
  BY <1>1
<1>4. First(found) \in found
  BY <1>2, <1>3, FirstIs
<1> QED BY <1>1, <1>2, <1>3, <1>4

-----------------------------------------------------------------------------
(* What holds between two items.                                           *)

\* The files being read exist, and are listed.
Opens ==
    /\ unit \in Units /\ state \in Places(unit) /\ stack \in Seq(Places(unit))
    /\ deps \in Seq(DOMAIN unit.files) /\ DependenciesAreFilesRead

\* The flag is that of the stack of conditions.
Nested == Nest(ifs) /\ (skipping <=> ~Active(ifs))

Macro == [name : STRING, value : STRING]
Reads == Opens /\ Nested /\ macros \in Seq(Macro)

\* Skipped text is in a condition that does not hold.
LEMMA SkippingIs ==
  ASSUME Reads
  PROVE  skipping <=> Over(ifs) # <<>>
<1>1. /\ Len(ifs) \in Nat /\ Read(ifs) \in Nat /\ Read(ifs) <= Len(ifs)
      /\ Over(ifs) \in Seq(Parts) /\ Len(Over(ifs)) = Len(ifs) - Read(ifs)
      /\ (skipping <=> Read(ifs) # Len(ifs))
  BY NestIs DEF Reads, Nested
<1>2. Over(ifs) # <<>> <=> Len(Over(ifs)) # 0
  BY <1>1
<1> QED BY <1>1, <1>2

\* One item is read.
LEMMA ItemIs ==
  ASSUME Reads, status = "reading", ~AtEnd
  PROVE  /\ Items[state.at] \in TextItem
         /\ From(unit, state) \o Beyond(unit, stack) # <<>>
         /\ Head(From(unit, state) \o Beyond(unit, stack)) = Items[state.at]
         /\ Advance => /\ state' \in Places(unit) /\ state'.file = state.file
                       /\ From(unit, state') \o Beyond(unit, stack) = Tail(From(unit, state) \o Beyond(unit, stack))
<1>1. state.at <= Len(unit.files[state.file])
  <2>1. state.at \in Nat /\ Len(unit.files[state.file]) \in Nat
    BY FromIs, UnitsAre DEF Reads, Opens, Places
  <2> QED BY <2>1 DEF AtEnd, Items
<1>2. unit \in Units /\ state \in Places(unit) /\ stack \in Seq(Places(unit))
  BY DEF Reads, Opens
<1>3. [state EXCEPT !.at = @ + 1].file = state.file
  BY <1>2 DEF Places
<1>4. /\ [state EXCEPT !.at = @ + 1] \in Places(unit) /\ Items[state.at] \in TextItem
      /\ From(unit, state) \o Beyond(unit, stack) # <<>>
      /\ Head(From(unit, state) \o Beyond(unit, stack)) = Items[state.at]
      /\ Tail(From(unit, state) \o Beyond(unit, stack))
           = From(unit, [state EXCEPT !.at = @ + 1]) \o Beyond(unit, stack)
  BY <1>1, <1>2, StepRest DEF Items
<1>5. Advance => state' = [state EXCEPT !.at = @ + 1]
  BY DEF Advance
<1> QED BY <1>3, <1>4, <1>5

\* An error, and the end.
LEMMA FatalStep ==
  ASSUME Reads, NEW why, Fatal(why)
  PROVE  Reads' /\ Promise!Ends(why)
<1>1. Reads'
  BY DEF Fatal, Reads, Opens, Nested, DependenciesAreFilesRead
<1>2. Promise!Ends(why)
  BY DEF Fatal, Promise!Ends
<1> QED BY <1>1, <1>2

LEMMA EndStep ==
  ASSUME Reads, EndOfText
  PROVE  Reads' /\ Promise!Finish
<1>1. /\ status = "reading" /\ AtEnd /\ stack = <<>>
      /\ Fatal(IF ifs # <<>> THEN "open condition" ELSE "end")
  BY DEF EndOfText
<1>2. Reads' /\ Promise!Ends(IF ifs # <<>> THEN "open condition" ELSE "end")
  BY <1>1, FatalStep
<1>3. From(unit, state) \o Beyond(unit, stack) = <<>>
  <2>1. state.at > Len(unit.files[state.file])
    BY <1>1 DEF AtEnd, Items
  <2> QED BY <1>1, <2>1, EndRest DEF Reads, Opens
<1>4. ifs # <<>> <=> ~(Open(ifs) = <<>> /\ Over(ifs) = <<>>)
  <2>1. /\ ifs \in Seq(Conds) /\ Len(ifs) \in Nat /\ Read(ifs) \in Nat /\ Read(ifs) <= Len(ifs)
        /\ Open(ifs) \in Seq(Parts) /\ Len(Open(ifs)) = Read(ifs)
        /\ Over(ifs) \in Seq(Parts) /\ Len(Over(ifs)) = Len(ifs) - Read(ifs)
    BY NestIs DEF Reads, Nested
  <2> QED BY <2>1
<1>5. CASE ifs = <<>>
  BY <1>1, <1>2, <1>3, <1>4, <1>5 DEF Promise!Finish
<1>6. CASE ifs # <<>>
  BY <1>1, <1>2, <1>3, <1>4, <1>6 DEF Promise!Finish
<1> QED BY <1>5, <1>6

\* What the lexer is at is what the text has next.
LEMMA Met ==
  ASSUME Reads, NEW kind, NEW kinds, kind \in kinds, At(kind)
  PROVE  /\ status = "reading" /\ ~AtEnd /\ Items[state.at].kind = kind
         /\ Promise!Meets(kinds) /\ Promise!Named = Defined(macros, X)
<1>1. status = "reading" /\ ~AtEnd /\ Items[state.at].kind = kind
  BY DEF At
<1>2. /\ From(unit, state) \o Beyond(unit, stack) # <<>>
      /\ Head(From(unit, state) \o Beyond(unit, stack)) = Items[state.at]
  BY <1>1, ItemIs
<1>3. Promise!Meets(kinds)
  BY <1>1, <1>2 DEF Promise!Meets
<1>4. Promise!Named = Defined(macros, X)
  BY <1>2 DEF Promise!Named, Defined, X
<1> QED BY <1>1, <1>3, <1>4

\* The next item, in the same file.
LEMMA Goes ==
  ASSUME Reads, status = "reading", ~AtEnd, Advance, UNCHANGED <<unit, stack, deps, status>>
  PROVE  /\ Opens' /\ Promise!Goes
         /\ Append([k \in DOMAIN stack |-> stack[k].file], state.file)'
              = Append([k \in DOMAIN stack |-> stack[k].file], state.file)
         /\ ToSet(deps)' = ToSet(deps)
<1>1. /\ state' \in Places(unit) /\ state'.file = state.file
      /\ From(unit, state') \o Beyond(unit, stack) = Tail(From(unit, state) \o Beyond(unit, stack))
  BY ItemIs
<1>2. Opens'
  BY <1>1 DEF Reads, Opens, DependenciesAreFilesRead
<1>3. Promise!Goes
  BY <1>1 DEF Promise!Goes
<1> QED BY <1>1, <1>2, <1>3

LEMMA SkipStep ==
  ASSUME Reads, Skip
  PROVE  Reads' /\ Promise!PassOver
<1>1. PICK kind \in {"name", "define", "undef", "include", "other"} : At(kind)
  BY DEF Skip
<1>2. /\ skipping /\ Advance
      /\ UNCHANGED <<unit, stack, macros, ifs, skipping, deps, out, status>>
  BY DEF Skip
<1>3. /\ status = "reading" /\ ~AtEnd /\ Promise!Meets({"name", "define", "undef", "include", "other"})
  BY <1>1, Met
<1>4. /\ Opens' /\ Promise!Goes /\ ToSet(deps)' = ToSet(deps)
      /\ Append([k \in DOMAIN stack |-> stack[k].file], state.file)'
           = Append([k \in DOMAIN stack |-> stack[k].file], state.file)
  BY <1>2, <1>3, Goes
<1>5. Reads'
  BY <1>2, <1>4 DEF Reads, Nested
<1>6. Over(ifs) # <<>>
  BY <1>2, SkippingIs
<1>7. Promise!PassOver
  BY <1>2, <1>3, <1>4, <1>6 DEF Promise!PassOver
<1> QED BY <1>5, <1>7

LEMMA NameStep ==
  ASSUME Reads, TakeName
  PROVE  Reads' /\ Promise!Token
<1>1. /\ ~skipping /\ At("name") /\ out' = Append(out, Value(X)) /\ Advance
      /\ UNCHANGED <<unit, stack, macros, ifs, skipping, deps, status>>
  BY DEF TakeName
<1>2. /\ status = "reading" /\ ~AtEnd /\ Promise!Meets({"name"}) /\ Promise!Named = Defined(macros, X)
  BY <1>1, Met
<1>3. /\ Opens' /\ Promise!Goes /\ ToSet(deps)' = ToSet(deps)
      /\ Append([k \in DOMAIN stack |-> stack[k].file], state.file)'
           = Append([k \in DOMAIN stack |-> stack[k].file], state.file)
  BY <1>1, <1>2, Goes
<1>4. Reads'
  BY <1>1, <1>3 DEF Reads, Nested
<1>5. Over(ifs) = <<>>
  BY <1>1, SkippingIs
<1>6. Value(X) = IF Promise!Named = {} THEN Head(From(unit, state) \o Beyond(unit, stack)).x
                 ELSE macros[Promise!Oldest].value
  <2>1. Head(From(unit, state) \o Beyond(unit, stack)).x = X
    BY <1>2, ItemIs DEF X
  <2>2. Promise!Oldest = First(Defined(macros, X))
    BY <1>2 DEF Promise!Oldest, First
  <2> QED BY <1>2, <2>1, <2>2 DEF Value
<1>7. Promise!Token
  BY <1>1, <1>2, <1>3, <1>5, <1>6 DEF Promise!Token
<1> QED BY <1>4, <1>7

LEMMA DefineStep ==
  ASSUME Reads, AddMacro
  PROVE  Reads' /\ Promise!Definition
<1>1. ~skipping /\ At("define")
  BY DEF AddMacro
<1>2. /\ status = "reading" /\ ~AtEnd /\ Promise!Meets({"define"})
  BY <1>1, Met
<1>3. Over(ifs) = <<>>
  BY <1>1, SkippingIs
<1>4. CASE Len(macros) >= MaxMacros
  <2>1. Reads' /\ Promise!Ends("too many macros")
    BY <1>4, FatalStep DEF AddMacro
  <2> QED BY <1>2, <1>3, <1>4, <2>1 DEF Promise!Definition
<1>5. CASE ~(Len(macros) >= MaxMacros)
  <2>1. /\ macros' = Append(macros, [name |-> X, value |-> Items[state.at].value]) /\ Advance
        /\ UNCHANGED <<unit, stack, ifs, skipping, deps, out, status>>
    BY <1>5 DEF AddMacro
  <2>2. /\ Opens' /\ Promise!Goes /\ ToSet(deps)' = ToSet(deps)
        /\ Append([k \in DOMAIN stack |-> stack[k].file], state.file)'
             = Append([k \in DOMAIN stack |-> stack[k].file], state.file)
    BY <1>2, <2>1, Goes
  <2>4. Head(From(unit, state) \o Beyond(unit, stack)) = Items[state.at] /\ Items[state.at] \in TextItem
    BY <1>2, ItemIs
  <2>3. Reads'
    <3>1. [name |-> X, value |-> Items[state.at].value] \in Macro
      BY <2>4 DEF X, TextItem, Macro
    <3>2. macros' \in Seq(Macro)
      BY <2>1, <3>1, AppendProperties DEF Reads
    <3> QED BY <2>1, <2>2, <3>2 DEF Reads, Nested
  <2>5. Promise!Definition
    BY <1>2, <1>3, <1>5, <2>1, <2>2, <2>4 DEF Promise!Definition, X
  <2> QED BY <2>3, <2>5
<1> QED BY <1>4, <1>5

\* kept[k] is what is left of the first k definitions when those at ks are withdrawn.
Keeps(kept, s, ks) ==
    kept = [k \in 0 .. Len(s) |->
              IF k = 0 THEN <<>> ELSE IF k \in ks THEN kept[k - 1] ELSE Append(kept[k - 1], s[k])]

LEMMA KeepsSame ==
  ASSUME NEW S, NEW s \in Seq(S), NEW ks, NEW f, Keeps(f, s, ks), NEW g, Keeps(g, s, ks)
  PROVE  f[Len(s)] = g[Len(s)]
<1> DEFINE n == Len(s)
           Bad == {k \in Nat : k <= n /\ f[k] # g[k]}
<1>0. n \in Nat
  OBVIOUS
<1>1. /\ \A k \in 0 .. n : f[k] = IF k = 0 THEN <<>> ELSE IF k \in ks THEN f[k - 1] ELSE Append(f[k - 1], s[k])
      /\ \A k \in 0 .. n : g[k] = IF k = 0 THEN <<>> ELSE IF k \in ks THEN g[k - 1] ELSE Append(g[k - 1], s[k])
  BY Zenon DEF Keeps
<1>2. ASSUME Bad # {} PROVE FALSE
  <2>1. First(Bad) \in Bad /\ \A i \in Bad : First(Bad) <= i
    BY <1>2, FirstIs
  <2>2. PICK k \in Nat : k <= n /\ f[k] # g[k] /\ \A i \in Bad : k <= i
    BY <2>1
  <2>3. k # 0
    BY <1>0, <1>1, <2>2
  <2>4. k - 1 \in Nat /\ k - 1 <= n /\ k \in 0 .. n
    BY <1>0, <2>2, <2>3
  <2>5. k - 1 \notin Bad
    <3>1. \A i \in Bad : k <= i
      BY <2>2
    <3> HIDE DEF Bad
    <3> QED BY <2>4, <3>1
  <2>6. f[k - 1] = g[k - 1]
    BY <2>4, <2>5
  <2> QED BY <1>1, <2>2, <2>3, <2>4, <2>6
<1> QED BY <1>0, <1>2

\* One definition is withdrawn, or none if m is past the end.
LEMMA KeepsOthers ==
  ASSUME NEW S, NEW s \in Seq(S), NEW m \in 1 .. Len(s) + 1
  PROVE  \E kept : /\ Keeps(kept, s, {m})
                   /\ kept[Len(s)] = IF m = Len(s) + 1 THEN s ELSE RemoveAt(s, m)
<1> DEFINE n == Len(s)
           L(k) == SubSeq(s, 1, k)
           R(k) == L(m - 1) \o SubSeq(s, m + 1, k)
           g == [k \in 0 .. n |-> IF k < m THEN L(k) ELSE R(k)]
<1>0. n \in Nat /\ m \in Nat /\ m >= 1 /\ m <= n + 1
  OBVIOUS
<1>1. \A k \in 1 .. n : L(k) = Append(L(k - 1), s[k]) /\ L(k - 1) \in Seq(S)
  <2> SUFFICES ASSUME NEW k \in 1 .. n PROVE L(k) = Append(L(k - 1), s[k]) /\ L(k - 1) \in Seq(S)
    OBVIOUS
  <2>1. L(k) = L(k - 1) \o <<s[k]>>
    BY SubSeqRecursiveSecond
  <2>2. L(k - 1) \in Seq(S) /\ s[k] \in S
    BY SubSeqProperties
  <2>3. Append(L(k - 1), s[k]) = L(k - 1) \o <<s[k]>>
    BY <2>2, AppendIsConcat
  <2> QED BY <2>1, <2>2, <2>3
<1>2. m <= n => R(m) = L(m - 1)
  <2> SUFFICES ASSUME m <= n PROVE R(m) = L(m - 1)
    OBVIOUS
  <2>1. SubSeq(s, m + 1, m) = <<>>
    BY <1>0, SubSeqEmpty
  <2>2. L(m - 1) \in Seq(S)
    BY <1>0, <1>1
  <2> QED BY <2>1, <2>2, ConcatEmptySeq
<1>3. \A k \in m + 1 .. n : R(k) = Append(R(k - 1), s[k])
  <2> SUFFICES ASSUME NEW k \in m + 1 .. n PROVE R(k) = Append(R(k - 1), s[k])
    OBVIOUS
  <2>0. k \in 1 .. n /\ m \in 1 .. n /\ m + 1 \in 1 .. n /\ k - 1 \in 1 .. n /\ m + 1 <= k
    BY <1>0
  <2>1. SubSeq(s, m + 1, k) = SubSeq(s, m + 1, k - 1) \o <<s[k]>>
    BY <2>0, SubSeqRecursiveSecond
  <2>2. L(m - 1) \in Seq(S) /\ SubSeq(s, m + 1, k - 1) \in Seq(S) /\ s[k] \in S /\ <<s[k]>> \in Seq(S)
    <3>1. L(m - 1) \in Seq(S)
      BY <1>1, <2>0
    <3>2. s[k] \in S
      BY <2>0
    <3>3. SubSeq(s, m + 1, k - 1) \in Seq(S)
      BY <2>0, SubSeqProperties
    <3> QED BY <3>1, <3>2, <3>3
  <2>3. R(k) = (L(m - 1) \o SubSeq(s, m + 1, k - 1)) \o <<s[k]>>
    BY <2>1, <2>2, ConcatAssociative
  <2>4. R(k - 1) \in Seq(S)
    BY <2>2, ConcatProperties
  <2>5. Append(R(k - 1), s[k]) = R(k - 1) \o <<s[k]>>
    BY <2>2, <2>4, AppendIsConcat
  <2> QED BY <2>3, <2>5
<1>4. L(0) = <<>> /\ L(n) = s
  BY SubSeqEmpty, SubSeqFull
<1>5. RemoveAt(s, m) = R(n)
  BY DEF RemoveAt
<1>6. \A k \in 0 .. n : g[k] = IF k < m THEN L(k) ELSE R(k)
  OBVIOUS
<1> HIDE DEF L, R
<1>7. \A k \in 0 .. n : g[k] = IF k = 0 THEN <<>> ELSE IF k \in {m} THEN g[k - 1] ELSE Append(g[k - 1], s[k])
  <2> SUFFICES ASSUME NEW k \in 0 .. n
               PROVE  g[k] = IF k = 0 THEN <<>> ELSE IF k = m THEN g[k - 1] ELSE Append(g[k - 1], s[k])
    OBVIOUS
  <2> HIDE DEF g
  <2>1. CASE k = 0
    BY <1>0, <1>4, <1>6, <2>1
  <2>2. CASE k # 0 /\ k < m
    <3>1. g[k] = L(k) /\ g[k - 1] = L(k - 1) /\ k \in 1 .. n
      BY <1>0, <1>6, <2>2
    <3> QED BY <1>0, <1>1, <2>2, <3>1
  <2>3. CASE k = m
    <3>1. g[k] = R(m) /\ g[k - 1] = L(m - 1) /\ m <= n
      BY <1>0, <1>6, <2>3
    <3> QED BY <1>0, <1>2, <2>3, <3>1
  <2>4. CASE k > m
    <3>1. g[k] = R(k) /\ g[k - 1] = R(k - 1) /\ k \in m + 1 .. n
      BY <1>0, <1>6, <2>4
    <3> QED BY <1>0, <1>3, <2>4, <3>1
  <2> QED BY <1>0, <2>1, <2>2, <2>3, <2>4
<1>8. g[n] = IF m = n + 1 THEN s ELSE RemoveAt(s, m)
  BY <1>0, <1>4, <1>5, <1>6
<1>9. Keeps(g, s, {m})
  <2>1. g = [k \in 0 .. n |-> g[k]]
    OBVIOUS
  <2> HIDE DEF g
  <2> QED BY <1>7, <2>1 DEF Keeps
<1> HIDE DEF g
<1> QED BY <1>8, <1>9

LEMMA OthersAre ==
  ASSUME NEW m \in 1 .. Len(macros) + 1, macros \in Seq(Macro),
         \A k \in DOMAIN macros : k \in Promise!Named <=> k = m
  PROVE  Promise!Others = IF m = Len(macros) + 1 THEN macros ELSE RemoveAt(macros, m)
<1> DEFINE ks == Promise!Named
<1>1. Promise!Others = (CHOOSE f : Keeps(f, macros, ks))[Len(macros)]
  BY DEF Promise!Others, Keeps
<1>2. PICK kept : /\ Keeps(kept, macros, {m})
                  /\ kept[Len(macros)] = IF m = Len(macros) + 1 THEN macros ELSE RemoveAt(macros, m)
  BY KeepsOthers
<1>3. \A k \in 1 .. Len(macros) : k \in ks <=> k \in {m}
  OBVIOUS
<1> HIDE DEF ks
<1>4. Keeps(kept, macros, ks)
  <2>1. Len(macros) \in Nat /\ \A k \in 0 .. Len(macros) : k # 0 => k \in 1 .. Len(macros)
    OBVIOUS
  <2>2. [k \in 0 .. Len(macros) |->
           IF k = 0 THEN <<>> ELSE IF k \in {m} THEN kept[k - 1] ELSE Append(kept[k - 1], macros[k])]
         = [k \in 0 .. Len(macros) |->
              IF k = 0 THEN <<>> ELSE IF k \in ks THEN kept[k - 1] ELSE Append(kept[k - 1], macros[k])]
    BY <1>3, <2>1
  <2> QED BY <1>2, <2>2, Zenon DEF Keeps
<1>5. Keeps(CHOOSE f : Keeps(f, macros, ks), macros, ks)
  BY <1>4
<1>6. PICK f : f = (CHOOSE g : Keeps(g, macros, ks)) /\ Keeps(f, macros, ks)
  BY <1>5
<1>7. f[Len(macros)] = kept[Len(macros)]
  BY <1>4, <1>6, KeepsSame
<1> QED BY <1>1, <1>2, <1>6, <1>7

LEMMA UndefStep ==
  ASSUME Reads, RemoveMacro
  PROVE  Reads' /\ (Promise!Withdrawal \/ Departs)
<1>1. /\ ~skipping /\ At("undef") /\ Advance
      /\ macros' = IF Defined(macros, X) = {} THEN macros ELSE RemoveAt(macros, First(Defined(macros, X)))
      /\ UNCHANGED <<unit, stack, ifs, skipping, deps, out, status>>
  BY DEF RemoveMacro
<1>2. /\ status = "reading" /\ ~AtEnd /\ Promise!Meets({"undef"}) /\ Promise!Named = Defined(macros, X)
  BY <1>1, Met
<1>3. /\ Opens' /\ Promise!Goes /\ ToSet(deps)' = ToSet(deps)
      /\ Append([k \in DOMAIN stack |-> stack[k].file], state.file)'
           = Append([k \in DOMAIN stack |-> stack[k].file], state.file)
  BY <1>1, <1>2, Goes
<1> DEFINE ks == Defined(macros, X)
<1>4. /\ macros \in Seq(Macro) /\ Len(macros) \in Nat /\ ks \subseteq 1 .. Len(macros)
      /\ ks # {} => First(ks) \in ks
  <2>1. macros \in Seq(Macro) /\ Len(macros) \in Nat /\ ks \subseteq 1 .. Len(macros)
    BY DEF Reads, Defined
  <2>2. ks \in SUBSET Nat
    BY <2>1
  <2> HIDE DEF ks
  <2> QED BY <2>1, <2>2, FirstIs
<1>5. Reads'
  <2>1. \A k \in 1 .. Len(macros) : RemoveAt(macros, k) \in Seq(Macro)
    <3> SUFFICES ASSUME NEW k \in 1 .. Len(macros) PROVE RemoveAt(macros, k) \in Seq(Macro)
      OBVIOUS
    <3>1. SubSeq(macros, 1, k - 1) \in Seq(Macro) /\ SubSeq(macros, k + 1, Len(macros)) \in Seq(Macro)
      BY <1>4
    <3> QED BY <3>1 DEF RemoveAt
  <2>2. macros' \in Seq(Macro)
    BY <1>1, <1>4, <2>1
  <2> QED BY <1>1, <1>3, <2>2 DEF Reads, Nested
<1>6. Over(ifs) = <<>>
  BY <1>1, SkippingIs
<1>7. CASE \E j, k \in ks : j # k
  BY <1>5, <1>7 DEF Departs
<1>8. CASE ~ \E j, k \in ks : j # k
  <2>1. PICK m \in 1 .. Len(macros) + 1 :
          /\ \A k \in DOMAIN macros : k \in ks <=> k = m
          /\ ks = {} <=> m = Len(macros) + 1
          /\ ks # {} => m = First(ks)
    <3>1. CASE ks = {}
      BY <1>4, <3>1
    <3>2. CASE ks # {}
      <4>1. First(ks) \in 1 .. Len(macros) /\ \A k : k \in ks <=> k = First(ks)
        BY <1>4, <1>8, <3>2
      <4> HIDE DEF ks
      <4> QED BY <1>4, <3>2, <4>1
    <3> QED BY <3>1, <3>2
  <2>2. Promise!Others = IF m = Len(macros) + 1 THEN macros ELSE RemoveAt(macros, m)
    BY <1>2, <1>4, <2>1, OthersAre
  <2>3. macros' = Promise!Others
    BY <1>1, <2>1, <2>2
  <2>4. Promise!Withdrawal
    BY <1>1, <1>2, <1>3, <1>6, <2>3 DEF Promise!Withdrawal
  <2> QED BY <1>5, <2>4
<1> QED BY <1>7, <1>8

LEMMA UnknownStep ==
  ASSUME Reads, UnknownDirective
  PROVE  Reads' /\ (Promise!Unknown \/ Departs)
<1>1. Promise!Meets({"other"})
  BY Met DEF UnknownDirective
<1>2. Reads' /\ Promise!Ends("unknown directive")
  BY FatalStep DEF UnknownDirective
<1>3. skipping \/ Over(ifs) = <<>>
  BY SkippingIs
<1> QED BY <1>1, <1>2, <1>3 DEF Promise!Unknown, Departs

\* The conditions change.
LEMMA ConditionsStep ==
  ASSUME Reads, status = "reading", ~AtEnd, NEW c, Nest(c), SetConditions(c)
  PROVE  Reads' /\ Promise!Conditions(Open(c), Over(c))
<1>1. ifs' = c /\ skipping' = ~Active(c) /\ Advance /\ UNCHANGED <<unit, stack, macros, deps, out, status>>
  BY DEF SetConditions
<1>2. /\ Opens' /\ Promise!Goes /\ ToSet(deps)' = ToSet(deps)
      /\ Append([k \in DOMAIN stack |-> stack[k].file], state.file)'
           = Append([k \in DOMAIN stack |-> stack[k].file], state.file)
  BY <1>1, Goes
<1>3. Nested'
  <2>1. skipping' <=> ~Active(c)
    BY <1>1
  <2>2. Active(ifs') <=> Active(c)
    BY <1>1
  <2>3. Nest(ifs')
    BY <1>1
  <2> QED BY <2>1, <2>2, <2>3 DEF Nested
<1>4. Open(ifs)' = Open(c) /\ Over(ifs)' = Over(c)
  BY <1>1
<1>5. Promise!Conditions(Open(c), Over(c))
  BY <1>1, <1>2, <1>4 DEF Promise!Conditions
<1> QED BY <1>1, <1>2, <1>3, <1>5 DEF Reads

LEMMA IfStep ==
  ASSUME Reads, OpenCondition
  PROVE  Reads' /\ Promise!Condition
<1>1. /\ status = "reading" /\ ~AtEnd /\ Promise!Meets({"ifdef"}) /\ Promise!Named = Defined(macros, X)
  BY Met DEF OpenCondition
<1>2. Nest(ifs) /\ (skipping <=> ~Active(ifs)) /\ (skipping <=> Over(ifs) # <<>>)
  BY SkippingIs DEF Reads, Nested
<1>3. Len(Open(ifs)) + Len(Over(ifs)) = Len(ifs)
  <2>1. Len(ifs) \in Nat /\ Read(ifs) \in Nat /\ Len(Open(ifs)) = Read(ifs) /\ Len(Over(ifs)) = Len(ifs) - Read(ifs)
    BY <1>2, NestIs
  <2> QED BY <2>1
<1>4. CASE Len(ifs) >= MaxConditions
  <2>1. Reads' /\ Promise!Ends("too many conditions")
    BY <1>4, FatalStep DEF OpenCondition
  <2> QED BY <1>1, <1>3, <1>4, <2>1 DEF Promise!Condition
<1>5. CASE ~(Len(ifs) >= MaxConditions)
  <2> DEFINE b == [parent |-> Active(ifs), els |-> FALSE, cond |-> Active(ifs) /\ Defined(macros, X) # {}]
  <2>1. SetConditions(Append(ifs, b))
    BY <1>5 DEF OpenCondition
  <2>2. /\ b \in Conds /\ b.els = FALSE /\ (b.parent <=> Active(ifs)) /\ (b.cond => Active(ifs))
        /\ (b.cond <=> Active(ifs) /\ Defined(macros, X) # {})
    BY DEF Conds, Active
  <2> HIDE DEF b
  <2>3. /\ Nest(Append(ifs, b))
        /\ b.cond => Open(Append(ifs, b)) = Append(Open(ifs), "then") /\ Over(Append(ifs, b)) = Over(ifs)
        /\ ~b.cond => Open(Append(ifs, b)) = Open(ifs) /\ Over(Append(ifs, b)) = Append(Over(ifs), "then")
    BY <1>2, <2>2, Opened
  <2>4. Reads' /\ Promise!Conditions(Open(Append(ifs, b)), Over(Append(ifs, b)))
    BY <1>1, <2>1, <2>3, ConditionsStep
  <2>5. CASE b.cond
    <3>1. Over(ifs) = <<>> /\ Promise!Named # {}
      BY <1>1, <1>2, <2>2, <2>5
    <3>2. Promise!Conditions(Append(Open(ifs), "then"), Over(ifs))
      BY <2>3, <2>4, <2>5
    <3> QED BY <1>1, <1>3, <1>5, <2>4, <3>1, <3>2 DEF Promise!Condition
  <2>6. CASE ~b.cond
    <3>1. Over(ifs) # <<>> \/ Promise!Named = {}
      BY <1>1, <1>2, <2>2, <2>6
    <3>2. Promise!Conditions(Open(ifs), Append(Over(ifs), "then"))
      BY <2>3, <2>4, <2>6
    <3> QED BY <1>1, <1>3, <1>5, <2>4, <3>1, <3>2 DEF Promise!Condition
  <2> QED BY <2>5, <2>6
<1> QED BY <1>4, <1>5

LEMMA NoneIs ==
  ASSUME NEW c, Nest(c)
  PROVE  c = <<>> <=> Open(c) = <<>> /\ Over(c) = <<>>
<1>1. /\ c \in Seq(Conds) /\ Len(c) \in Nat /\ Read(c) \in Nat /\ Read(c) <= Len(c)
      /\ Open(c) \in Seq(Parts) /\ Len(Open(c)) = Read(c)
      /\ Over(c) \in Seq(Parts) /\ Len(Over(c)) = Len(c) - Read(c)
  BY NestIs
<1> QED BY <1>1

LEMMA ElseStep ==
  ASSUME Reads, TurnCondition
  PROVE  Reads' /\ Promise!Alternative
<1>1. /\ status = "reading" /\ ~AtEnd /\ Promise!Meets({"else"})
  BY Met DEF TurnCondition
<1>2. Nest(ifs)
  BY DEF Reads, Nested
<1>3. CASE ifs = <<>>
  <2>1. Reads' /\ Promise!Ends("else without condition")
    BY <1>3, FatalStep DEF TurnCondition
  <2>2. Open(ifs) = <<>> /\ Over(ifs) = <<>>
    BY <1>2, <1>3, NoneIs
  <2> QED BY <1>1, <2>1, <2>2 DEF Promise!Alternative
<1>4. CASE ifs # <<>> /\ Last(ifs).els
  <2>1. Fatal("second else")
    BY <1>4 DEF TurnCondition
  <2>2. Reads' /\ Promise!Ends("second else")
    BY <2>1, FatalStep
  <2>3. IF Over(ifs) # <<>> THEN Last(Over(ifs)) = "else" ELSE Open(ifs) # <<>> /\ Last(Open(ifs)) = "else"
    <3>1. Part(Last(ifs)) = "else"
      BY <1>4 DEF Part
    <3> QED BY <1>2, <1>4, <3>1, Innermost
  <2> QED BY <1>1, <2>2, <2>3 DEF Promise!Alternative, Promise!Last, Last
<1>5. CASE ifs # <<>> /\ ~Last(ifs).els
  <2> DEFINE d == [ifs EXCEPT ![Len(ifs)].els = TRUE]
  <2>1. SetConditions(d)
    BY <1>5 DEF TurnCondition
  <2>2. ifs \in Seq(Conds) /\ Len(ifs) \in Nat \ {0} /\ Last(ifs) = ifs[Len(ifs)]
    BY <1>2, <1>5, OneLess DEF Nest
  <2> HIDE DEF d
  <2>3. /\ d \in Seq(Conds) /\ Len(d) = Len(ifs) /\ (\A k \in 1 .. Len(ifs) - 1 : d[k] = ifs[k])
        /\ d[Len(ifs)] = [ifs[Len(ifs)] EXCEPT !.els = TRUE]
    <3>1. ifs[Len(ifs)] \in Conds /\ Len(ifs) \in 1 .. Len(ifs)
      BY <2>2
    <3>2. [ifs[Len(ifs)] EXCEPT !.els = TRUE] \in Conds
      BY <3>1 DEF Conds
    <3>3. PICK b \in Conds : b = [ifs[Len(ifs)] EXCEPT !.els = TRUE]
      BY <3>2
    <3>4. d = [ifs EXCEPT ![Len(ifs)] = b]
      BY <3>3 DEF d
    <3>5. d \in Seq(Conds) /\ Len(d) = Len(ifs) /\ (\A k \in 1 .. Len(ifs) - 1 : d[k] = ifs[k]) /\ d[Len(ifs)] = b
      BY <2>2, <3>1, <3>4
    <3> QED BY <3>3, <3>5
  <2>4. d[Len(ifs)].els /\ (d[Len(ifs)].parent <=> ifs[Len(ifs)].parent) /\ (d[Len(ifs)].cond <=> ifs[Len(ifs)].cond)
    <3>1. ifs[Len(ifs)] \in Conds
      BY <2>2
    <3> QED BY <2>3, <3>1 DEF Conds
  <2>5. /\ Nest(d)
        /\ \/ /\ Over(ifs) = <<>> /\ Open(ifs) # <<>> /\ Last(Open(ifs)) = "then"
              /\ Open(d) = Front(Open(ifs)) /\ Over(d) = <<"else">>
           \/ /\ Over(ifs) = <<"then">> /\ Open(d) = Append(Open(ifs), "else") /\ Over(d) = <<>>
           \/ /\ Len(Over(ifs)) > 1 /\ Last(Over(ifs)) = "then"
              /\ Open(d) = Open(ifs) /\ Over(d) = Append(Front(Over(ifs)), "else")
    BY <1>2, <1>5, <2>3, <2>4, Turned
  <2>6. Reads' /\ Promise!Conditions(Open(d), Over(d))
    BY <1>1, <2>1, <2>5, ConditionsStep
  <2> QED BY <1>1, <2>5, <2>6 DEF Promise!Alternative, Promise!Last, Last, Promise!Front, Front
<1> QED BY <1>3, <1>4, <1>5

LEMMA EndIfStep ==
  ASSUME Reads, CloseCondition
  PROVE  Reads' /\ Promise!EndOfCondition
<1>1. /\ status = "reading" /\ ~AtEnd /\ Promise!Meets({"endif"})
  BY Met DEF CloseCondition
<1>2. Nest(ifs)
  BY DEF Reads, Nested
<1>3. CASE ifs = <<>>
  <2>1. Reads' /\ Promise!Ends("end without condition")
    BY <1>3, FatalStep DEF CloseCondition
  <2>2. Open(ifs) = <<>> /\ Over(ifs) = <<>>
    BY <1>2, <1>3, NoneIs
  <2> QED BY <1>1, <2>1, <2>2 DEF Promise!EndOfCondition
<1>4. CASE ifs # <<>>
  <2>1. SetConditions(Front(ifs))
    BY <1>4 DEF CloseCondition
  <2>2. /\ Nest(Front(ifs))
        /\ IF Over(ifs) # <<>> THEN Open(Front(ifs)) = Open(ifs) /\ Over(Front(ifs)) = Front(Over(ifs))
           ELSE Open(ifs) # <<>> /\ Open(Front(ifs)) = Front(Open(ifs)) /\ Over(Front(ifs)) = Over(ifs)
    BY <1>2, <1>4, Closed
  <2>3. Reads' /\ Promise!Conditions(Open(Front(ifs)), Over(Front(ifs)))
    BY <1>1, <2>1, <2>2, ConditionsStep
  <2>4. CASE Over(ifs) # <<>>
    <3>1. Promise!Conditions(Open(ifs), Front(Over(ifs)))
      BY <2>2, <2>3, <2>4
    <3> QED BY <1>1, <2>3, <2>4, <3>1 DEF Promise!EndOfCondition, Promise!Front, Front
  <2>5. CASE Over(ifs) = <<>>
    <3>1. Open(ifs) # <<>> /\ Promise!Conditions(Front(Open(ifs)), Over(ifs))
      BY <2>2, <2>3, <2>5
    <3> QED BY <1>1, <2>3, <2>5, <3>1 DEF Promise!EndOfCondition, Promise!Front, Front
  <2> QED BY <2>4, <2>5
<1> QED BY <1>3, <1>4

LEMMA ToSetIs ==
  ASSUME NEW S, NEW c \in Seq(S), NEW f \in S
  PROVE  /\ ToSet(Append(c, f)) = ToSet(c) \cup {f}
         /\ c # <<>> => ToSet(Front(c)) \subseteq ToSet(c)
<1>1. Len(c) \in Nat /\ DOMAIN c = 1 .. Len(c)
  BY LenProperties
<1>2. ToSet(Append(c, f)) = ToSet(c) \cup {f}
  <2>1. PICK e : e = Append(c, f)
    OBVIOUS
  <2>2. /\ e \in Seq(S) /\ Len(e) = Len(c) + 1 /\ (\A k \in 1 .. Len(c) : e[k] = c[k]) /\ e[Len(c) + 1] = f
    BY <2>1, AppendProperties
  <2>3. DOMAIN e = 1 .. Len(c) + 1
    BY <2>2, LenProperties
  <2>4. /\ \A k \in 1 .. Len(c) + 1 : k = Len(c) + 1 \/ k \in 1 .. Len(c)
        /\ Len(c) + 1 \in 1 .. Len(c) + 1 /\ \A k \in 1 .. Len(c) : k \in 1 .. Len(c) + 1
    BY <1>1
  <2>5. ASSUME NEW x PROVE x \in ToSet(e) <=> x \in ToSet(c) \cup {f}
    <3>1. x \in ToSet(e) <=> \E k \in 1 .. Len(c) + 1 : x = e[k]
      BY <2>3 DEF ToSet
    <3>2. x \in ToSet(c) <=> \E k \in 1 .. Len(c) : x = c[k]
      BY <1>1 DEF ToSet
    <3>3. (\E k \in 1 .. Len(c) + 1 : x = e[k]) <=> x = f \/ \E k \in 1 .. Len(c) : x = c[k]
      BY <2>2, <2>4
    <3> QED BY <3>1, <3>2, <3>3
  <2> QED BY <2>1, <2>5
<1>3. ASSUME c # <<>> PROVE ToSet(Front(c)) \subseteq ToSet(c)
  <2>1. PICK d : d = Front(c)
    OBVIOUS
  <2>2. d \in Seq(S) /\ Len(d) = Len(c) - 1 /\ \A k \in 1 .. Len(c) - 1 : d[k] = c[k]
    BY <1>3, <2>1, OneLess
  <2>3. DOMAIN d = 1 .. Len(c) - 1 /\ \A k \in 1 .. Len(c) - 1 : k \in 1 .. Len(c)
    BY <1>1, <2>2, LenProperties
  <2>4. ToSet(d) \subseteq ToSet(c)
    BY <1>1, <2>2, <2>3 DEF ToSet
  <2> QED BY <2>1, <2>4
<1> QED BY <1>2, <1>3

\* The files that the stack is in.
LEMMA ListedIs ==
  ASSUME Opens
  PROVE  /\ unit \in Units /\ state \in Places(unit) /\ stack \in Seq(Places(unit)) /\ deps \in Seq(DOMAIN unit.files)
         /\ state.file \in DOMAIN unit.files /\ Chain(stack, state.file) \in Seq(DOMAIN unit.files)
         /\ IsInjective(deps) /\ ToSet(Chain(stack, state.file)) \subseteq ToSet(deps)
<1>1. /\ unit \in Units /\ state \in Places(unit) /\ stack \in Seq(Places(unit)) /\ deps \in Seq(DOMAIN unit.files)
      /\ IsInjective(deps) /\ {state.file} \cup {stack[k].file : k \in DOMAIN stack} \subseteq ToSet(deps)
  BY DEF Opens, DependenciesAreFilesRead
<1>2. state.file \in DOMAIN unit.files
  BY <1>1 DEF Places
<1> QED BY <1>1, <1>2, ChainIs

LEMMA OpensIs ==
  ASSUME NEW u \in Units, NEW s \in Places(u), NEW b \in Seq(Places(u)), NEW ds \in Seq(DOMAIN u.files),
         IsInjective(ds), ToSet(Chain(b, s.file)) \subseteq ToSet(ds),
         unit' = u, state' = s, stack' = b, deps' = ds
  PROVE  Opens'
<1>1. s.file \in DOMAIN u.files
  BY DEF Places
<1>2. {s.file} \cup {b[k].file : k \in DOMAIN b} \subseteq ToSet(ds)
  BY <1>1, ChainIs
<1> QED BY <1>2 DEF Opens, DependenciesAreFilesRead

LEMMA PopStep ==
  ASSUME Reads, PopFile
  PROVE  Reads' /\ Promise!EndOfFile
<1>1. /\ status = "reading" /\ AtEnd /\ stack # <<>> /\ state' = Last(stack) /\ stack' = Front(stack)
      /\ UNCHANGED <<unit, macros, ifs, skipping, deps, out, status>>
  BY DEF PopFile
<1>2. /\ unit \in Units /\ state \in Places(unit) /\ stack \in Seq(Places(unit)) /\ deps \in Seq(DOMAIN unit.files)
      /\ state.file \in DOMAIN unit.files /\ Chain(stack, state.file) \in Seq(DOMAIN unit.files)
      /\ IsInjective(deps) /\ ToSet(Chain(stack, state.file)) \subseteq ToSet(deps)
  BY ListedIs DEF Reads
<1>3. state.at > Len(unit.files[state.file])
  BY <1>1 DEF AtEnd, Items
<1>4. /\ state' \in Places(unit) /\ stack' \in Seq(Places(unit)) /\ stack = Append(stack', state')
      /\ From(unit, state) \o Beyond(unit, stack) # <<>>
      /\ Head(From(unit, state) \o Beyond(unit, stack)) = Eof
      /\ Tail(From(unit, state) \o Beyond(unit, stack)) = From(unit, state') \o Beyond(unit, stack')
  BY <1>1, <1>2, <1>3, PopRest
<1>5. Front(Chain(stack, state.file)) = Chain(stack', state'.file) /\ Chain(stack, state.file) # <<>>
  <2>1. [k \in DOMAIN stack |-> stack[k].file] = Chain(stack', state'.file)
    BY <1>2, <1>4, ChainMore
  <2>2. /\ Front(Chain(stack, state.file)) = [k \in DOMAIN stack |-> stack[k].file]
        /\ Len(Chain(stack, state.file)) = Len(stack) + 1 /\ Len(stack) \in Nat
    BY <1>2, ChainIs
  <2> QED BY <1>2, <2>1, <2>2, EmptySeq
<1>6. ToSet(Chain(stack', state'.file)) \subseteq ToSet(deps)
  BY <1>2, <1>5, ToSetIs
<1>7. Opens'
  BY <1>1, <1>2, <1>4, <1>6, OpensIs
<1>8. Reads'
  BY <1>1, <1>7 DEF Reads, Nested
<1>9. Promise!Meets({Eof.kind})
  BY <1>1, <1>4 DEF Promise!Meets, Eof, Item
<1>10. Promise!EndOfFile
  BY <1>1, <1>4, <1>5, <1>9 DEF Promise!EndOfFile, Promise!Goes, Promise!Meets, Promise!Front, Front, Chain
<1> QED BY <1>8, <1>10

LEMMA PushStep ==
  ASSUME Reads, PushFile
  PROVE  Reads' /\ Promise!Inclusion
<1> DEFINE file == Resolve(unit.files, state.file, Items[state.at].path)
<1>1. /\ ~skipping /\ At("include")
      /\ \/ file = <<>> /\ Fatal("no such file")
         \/ file # <<>> /\ WouldCycle(file) /\ Fatal("cycle")
         \/ file # <<>> /\ ~WouldCycle(file) /\ Len(stack) >= MaxIncludes /\ Fatal("too deep")
         \/ /\ file # <<>> /\ ~WouldCycle(file) /\ ~(Len(stack) >= MaxIncludes)
            /\ stack' = Append(stack, [state EXCEPT !.at = @ + 1])
            /\ state' = [file |-> file, at |-> 1]
            /\ deps' = RecordDependency(deps, file)
            /\ UNCHANGED <<unit, macros, ifs, skipping, out, status>>
  BY DEF PushFile
<1>2. /\ status = "reading" /\ ~AtEnd /\ Promise!Meets({"include"})
  BY <1>1, Met
<1>3. Over(ifs) = <<>>
  BY <1>1, SkippingIs
<1>4. /\ unit \in Units /\ state \in Places(unit) /\ stack \in Seq(Places(unit)) /\ deps \in Seq(DOMAIN unit.files)
      /\ state.file \in DOMAIN unit.files /\ Chain(stack, state.file) \in Seq(DOMAIN unit.files)
      /\ IsInjective(deps) /\ ToSet(Chain(stack, state.file)) \subseteq ToSet(deps)
  BY ListedIs DEF Reads
<1>5. /\ Len(Chain(stack, state.file)) = Len(stack) + 1 /\ Len(stack) \in Nat
      /\ Last(Chain(stack, state.file)) = state.file
      /\ ToSet(Chain(stack, state.file)) = {state.file} \cup {stack[k].file : k \in DOMAIN stack}
  BY <1>4, ChainIs
<1>6. /\ Items[state.at] \in TextItem
      /\ Head(From(unit, state) \o Beyond(unit, stack)) = Items[state.at]
  BY <1>2, ItemIs
<1>7. file = Resolve(unit.files, Last(Chain(stack, state.file)), Head(From(unit, state) \o Beyond(unit, stack)).path)
  BY <1>5, <1>6
<1>8. file # <<>> => file \in DOMAIN unit.files
  <2>1. state.file \in Path /\ Items[state.at].path \in Path
    BY <1>4, <1>6, UnitsAre DEF TextItem
  <2> QED BY <2>1, ResolveIs
<1> HIDE DEF file
<1>9. WouldCycle(file) <=> file \in ToSet(Chain(stack, state.file))
  BY <1>5 DEF WouldCycle
<1>10. Len(stack) >= MaxIncludes <=> Len(Chain(stack, state.file)) > MaxIncludes
  BY <1>5, PreprocessorAssumption
<1>11. CASE file = <<>> /\ Fatal("no such file")
  <2>1. Reads' /\ Promise!Ends("no such file")
    BY <1>11, FatalStep
  <2> QED BY <1>2, <1>3, <1>7, <1>11, <2>1 DEF Promise!Inclusion, Promise!Last, Last, Chain
<1>12. CASE file # <<>> /\ WouldCycle(file) /\ Fatal("cycle")
  <2>1. Reads' /\ Promise!Ends("cycle")
    BY <1>12, FatalStep
  <2> QED BY <1>2, <1>3, <1>7, <1>9, <1>12, <2>1 DEF Promise!Inclusion, Promise!Last, Last, Promise!ToSet, ToSet, Chain
<1>13. CASE file # <<>> /\ ~WouldCycle(file) /\ Len(stack) >= MaxIncludes /\ Fatal("too deep")
  <2>1. Reads' /\ Promise!Ends("too deep")
    BY <1>13, FatalStep
  <2> QED BY <1>2, <1>3, <1>7, <1>9, <1>10, <1>13, <2>1
          DEF Promise!Inclusion, Promise!Last, Last, Promise!ToSet, ToSet, Chain
<1>14. CASE /\ file # <<>> /\ ~WouldCycle(file) /\ ~(Len(stack) >= MaxIncludes)
            /\ stack' = Append(stack, [state EXCEPT !.at = @ + 1])
            /\ state' = [file |-> file, at |-> 1]
            /\ deps' = RecordDependency(deps, file)
            /\ UNCHANGED <<unit, macros, ifs, skipping, out, status>>
  <2> DEFINE n == [state EXCEPT !.at = @ + 1]
  <2>1. /\ n \in Places(unit) /\ n.file = state.file
        /\ Tail(From(unit, state) \o Beyond(unit, stack)) = From(unit, n) \o Beyond(unit, stack)
    <3>1. state.at <= Len(unit.files[state.file])
      <4>1. state.at \in Nat /\ Len(unit.files[state.file]) \in Nat
        BY <1>4, FromIs, UnitsAre
      <4> QED BY <1>2, <4>1 DEF AtEnd, Items
    <3>2. n.file = state.file
      BY <1>4 DEF Places
    <3> QED BY <1>4, <3>1, <3>2, StepRest
  <2>2. stack' = Append(stack, n)
    BY <1>14
  <2> HIDE DEF n
  <2>3. file \in DOMAIN unit.files
    BY <1>8, <1>14
  <2>4. /\ state' \in Places(unit) /\ stack' \in Seq(Places(unit))
        /\ From(unit, state') \o Beyond(unit, stack')
             = unit.files[file] \o <<Eof>> \o Tail(From(unit, state) \o Beyond(unit, stack))
    <3>1. PICK f \in DOMAIN unit.files : f = file
      BY <2>3
    <3>2. PICK m \in Places(unit) : m = n
      BY <2>1
    <3>3. /\ [file |-> f, at |-> 1] \in Places(unit) /\ Append(stack, m) \in Seq(Places(unit))
          /\ From(unit, [file |-> f, at |-> 1]) \o Beyond(unit, Append(stack, m))
               = unit.files[f] \o <<Eof>> \o (From(unit, m) \o Beyond(unit, stack))
      BY <1>4, PushRest
    <3>4. state' = [file |-> f, at |-> 1] /\ stack' = Append(stack, m)
      BY <1>14, <2>2, <3>1, <3>2
    <3> QED BY <2>1, <3>1, <3>2, <3>3, <3>4
  <2>5. [k \in DOMAIN stack' |-> stack'[k].file] = Chain(stack, state.file)
    BY <1>4, <2>1, <2>2, ChainMore
  <2>6. Chain(stack', state'.file) = Append(Chain(stack, state.file), file)
    BY <1>14, <2>5 DEF Chain
  <2>7. /\ deps' \in Seq(DOMAIN unit.files) /\ IsInjective(deps') /\ ToSet(deps') = ToSet(deps) \cup {file}
    <3>1. PICK f \in DOMAIN unit.files : f = file
      BY <2>3
    <3>2. /\ RecordDependency(deps, f) \in Seq(DOMAIN unit.files) /\ IsInjective(RecordDependency(deps, f))
          /\ ToSet(RecordDependency(deps, f)) = ToSet(deps) \cup {f}
      BY <1>4, RecordIs
    <3>3. deps' = RecordDependency(deps, f)
      BY <1>14, <3>1
    <3> QED BY <3>1, <3>2, <3>3
  <2>8. ToSet(Chain(stack', state'.file)) \subseteq ToSet(deps')
    <3>1. ToSet(Append(Chain(stack, state.file), file)) = ToSet(Chain(stack, state.file)) \cup {file}
      BY <1>4, <2>3, ToSetIs
    <3> QED BY <1>4, <2>6, <2>7, <3>1
  <2>9. Opens'
    BY <1>4, <1>14, <2>4, <2>7, <2>8, OpensIs
  <2>10. Reads'
    BY <1>14, <2>9 DEF Reads, Nested
  <2>11. Open(ifs)' = Open(ifs) /\ Over(ifs)' = Over(ifs)
    BY <1>14
  <2>12. ToSet(deps)' = ToSet(deps')
    OBVIOUS
  <2>13. Promise!Inclusion
    <3>1. Append([k \in DOMAIN stack |-> stack[k].file], state.file)'
            = Append(Append([k \in DOMAIN stack |-> stack[k].file], state.file), file)
      BY <2>6 DEF Chain
    <3> QED BY <1>2, <1>3, <1>7, <1>9, <1>10, <1>14, <2>4, <2>7, <2>11, <3>1
            DEF Promise!Inclusion, Promise!Last, Last, Promise!ToSet, ToSet, Chain, Eof
  <2> QED BY <2>10, <2>13
<1> QED BY <1>1, <1>11, <1>12, <1>13, <1>14

-----------------------------------------------------------------------------
(* The theorems.                                                           *)

LEMMA InitRefines ==
  ASSUME Init
  PROVE  Reads /\ Promise!Init
<1>1. /\ unit \in Units /\ state = [file |-> unit.root, at |-> 1]
      /\ stack = <<>> /\ macros = <<>> /\ ifs = <<>> /\ skipping = FALSE
      /\ deps = <<unit.root>> /\ out = <<>> /\ status = "reading"
  BY DEF Init
<1>2. /\ unit.root \in DOMAIN unit.files
      /\ unit.files[unit.root] \in Seq(Marked) /\ Len(unit.files[unit.root]) \in Nat
  BY <1>1, UnitsAre
<1>3. state \in Places(unit) /\ state.file = unit.root /\ state.at = 1
  BY <1>1, <1>2 DEF Places
<1>4. stack \in Seq(Places(unit)) /\ Len(stack) = 0
  BY <1>1, EmptySeq
<1>5. [k \in DOMAIN stack |-> stack[k].file] = <<>>
  <2>1. PICK t : t = [k \in DOMAIN stack |-> stack[k].file]
    OBVIOUS
  <2>2. t \in Seq(DOMAIN unit.files) /\ Len(t) = 0
    BY <1>1, <1>4, <2>1, FilesOf
  <2>3. t = <<>>
    BY <2>2, EmptySeq
  <2> QED BY <2>1, <2>3
<1>6. Append([k \in DOMAIN stack |-> stack[k].file], state.file) = <<unit.root>>
  BY <1>3, <1>5
<1>7. deps \in Seq(DOMAIN unit.files) /\ IsInjective(deps) /\ ToSet(deps) = {unit.root}
  <2>1. PICK f \in DOMAIN unit.files : f = unit.root
    BY <1>2
  <2>2. <<f>> \in Seq(DOMAIN unit.files) /\ DOMAIN <<f>> = {1} /\ <<f>>[1] = f
    <3>1. <<f>> \in Seq(DOMAIN unit.files)
      BY EmptySeq, HeadAndRest
    <3>2. DOMAIN <<f>> = {1} /\ <<f>>[1] = f
      OBVIOUS
    <3> QED BY <3>1, <3>2
  <2>3. IsInjective(<<f>>) /\ ToSet(<<f>>) = {f}
    BY <2>2 DEF IsInjective, ToSet
  <2> QED BY <1>1, <2>1, <2>2, <2>3
<1>8. {state.file} \cup {stack[k].file : k \in DOMAIN stack} \subseteq ToSet(deps)
  BY <1>1, <1>3, <1>7
<1>9. Nest(ifs) /\ Active(ifs)
  <2>1. <<>> \in Seq(Conds) /\ Len(<<>>) = 0
    BY EmptySeq
  <2> QED BY <1>1, <2>1 DEF Nest, Active
<1>10. Reads
  BY <1>1, <1>3, <1>4, <1>7, <1>8, <1>9 DEF Reads, Opens, Nested, DependenciesAreFilesRead
<1>11. From(unit, state) \o Beyond(unit, stack) = unit.files[unit.root]
  <2>1. PICK t : t = unit.files[unit.root]
    OBVIOUS
  <2>2. t \in Seq(Marked)
    BY <1>2, <2>1
  <2>3. From(unit, state) = SubSeq(t, 1, Len(t))
    BY <1>3, <2>1 DEF From
  <2>4. From(unit, state) = t /\ Beyond(unit, stack) = <<>>
    BY <1>1, <2>2, <2>3, SubSeqFull, BeyondNone
  <2> QED BY <2>1, <2>2, <2>4, ConcatEmptySeq
<1>12. Open(ifs) = <<>> /\ Over(ifs) = <<>>
  BY <1>1, <1>9, NoneIs
<1>13. Promise!Init
  BY <1>1, <1>6, <1>7, <1>11, <1>12 DEF Promise!Init, ToSet, Promise!ToSet
<1> QED BY <1>10, <1>13

LEMMA NextRefines ==
  ASSUME Reads, [Next]_vars
  PROVE  Reads' /\ [Promise!Next \/ Departs]_Promise!vars
<1>1. CASE Skip
  BY <1>1, SkipStep DEF Promise!Next
<1>2. CASE TakeName
  BY <1>2, NameStep DEF Promise!Next
<1>3. CASE AddMacro
  BY <1>3, DefineStep DEF Promise!Next
<1>4. CASE RemoveMacro
  BY <1>4, UndefStep DEF Promise!Next
<1>5. CASE OpenCondition
  BY <1>5, IfStep DEF Promise!Next
<1>6. CASE TurnCondition
  BY <1>6, ElseStep DEF Promise!Next
<1>7. CASE CloseCondition
  BY <1>7, EndIfStep DEF Promise!Next
<1>8. CASE PushFile
  BY <1>8, PushStep DEF Promise!Next
<1>9. CASE UnknownDirective
  BY <1>9, UnknownStep DEF Promise!Next
<1>10. CASE PopFile
  BY <1>10, PopStep DEF Promise!Next
<1>11. CASE EndOfText
  BY <1>11, EndStep DEF Promise!Next
<1>12. CASE UNCHANGED vars
  <2>1. Reads'
    BY <1>12 DEF vars, Reads, Opens, Nested, DependenciesAreFilesRead
  <2>2. UNCHANGED Promise!vars
    BY <1>12 DEF vars, Promise!vars
  <2> QED BY <2>1, <2>2
<1> QED BY <1>1, <1>2, <1>3, <1>4, <1>5, <1>6, <1>7, <1>8, <1>9, <1>10, <1>11, <1>12 DEF Next

\* The lexer (lexer_next_token) delivers the tokens of the text that the unit stands
\* for, ends where it ends or with the same error, and lists the files met, in every
\* step but two: an unknown directive in skipped text, and the withdrawal of a name
\* that was defined twice.
THEOREM TextIsDelivered == Spec => DeliversTheText
<1>1. Init => Reads /\ Promise!Init
  BY InitRefines
<1>2. Reads /\ [Next]_vars => Reads' /\ [Promise!Next \/ Departs]_Promise!vars
  BY NextRefines
<1> QED BY <1>1, <1>2, PTL DEF Spec, DeliversTheText

\* Every file that is being read is in the list given to the build cache, once.
THEOREM DependenciesAreListed == Spec => []DependenciesAreFilesRead
<1>1. Init => Reads
  BY InitRefines
<1>2. Reads /\ [Next]_vars => Reads'
  BY NextRefines
<1>3. Reads => DependenciesAreFilesRead
  BY DEF Reads, Opens
<1> QED BY <1>1, <1>2, <1>3, PTL DEF Spec
=============================================================================
