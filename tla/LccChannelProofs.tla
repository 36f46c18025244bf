--------------------------- MODULE LccChannelProofs ---------------------------
(***************************************************************************)
(* The LCC-Link implements LinkChannel, for every size of its buffers and  *)
(* any amount of traffic: the frames of the computer keep their order and  *)
(* are not duplicated, except for one stray frame for each delimiter that  *)
(* ends no whole frame.                                                    *)
(*                                                                         *)
(* The damage of LinkChannel counts two sets of positions: Torn, in the    *)
(* text that is not parsed, and Again, in the frames that are not on the   *)
(* bus.  What a step does to these sequences is one of few things: it      *)
(* appends an element, drops the first ones or the last ones, or removes   *)
(* or inserts one in the middle.  A lemma for each says what becomes of    *)
(* the count.                                                              *)
(***************************************************************************)
EXTENDS LccLinkProofs, FiniteSetTheorems

-------------------------------------------------------------------------------
(* Counting. *)

\* A set that maps into another one, no two elements to the same, has no more
\* elements, and has fewer when an element of the other is missed.
LEMMA Fewer ==
    ASSUME NEW S, NEW T, IsFiniteSet(T), NEW f \in [S -> T],
           \A x, y \in S : f[x] = f[y] => x = y
    PROVE  /\ Cardinality(S) \in Nat /\ Cardinality(T) \in Nat
           /\ Cardinality(S) <= Cardinality(T)
           /\ \A z \in T : (\A x \in S : f[x] # z) => Cardinality(S) < Cardinality(T)
<1>1. f \in Injection(S, T)
  BY DEF Injection, IsInjective
<1>2. /\ IsFiniteSet(S) /\ Cardinality(S) <= Cardinality(T)
      /\ Cardinality(S) = Cardinality(T) <=> f \in Surjection(S, T)
  BY <1>1, FS_Injection
<1>3. Cardinality(S) \in Nat /\ Cardinality(T) \in Nat
  BY <1>2, FS_CardinalityType
<1>4. ASSUME NEW z \in T, \A x \in S : f[x] # z PROVE Cardinality(S) < Cardinality(T)
  <2>1. f \notin Surjection(S, T)
    BY <1>4 DEF Surjection
  <2>2. Cardinality(S) # Cardinality(T)
    BY <1>2, <2>1
  <2> QED
    BY <1>2, <1>3, <2>2
<1> QED
  BY <1>2, <1>3, <1>4

\* A set that another one and one element make up has at most one more.
LEMMA OneMore ==
    ASSUME NEW S, NEW T, IsFiniteSet(T), NEW x, S \subseteq T \cup {x}
    PROVE  /\ Cardinality(S) \in Nat /\ Cardinality(T) \in Nat
           /\ Cardinality(S) <= Cardinality(T) + 1
<1>1. IsFiniteSet(T \cup {x}) /\ Cardinality(T) \in Nat /\ Cardinality(T \cup {x}) \in Nat
        /\ Cardinality(T \cup {x}) <= Cardinality(T) + 1
  <2>1. Cardinality(T) \in Nat
    BY FS_CardinalityType
  <2> QED
    BY <2>1, FS_AddElement
<1>2. IsFiniteSet(S) /\ Cardinality(S) <= Cardinality(T \cup {x})
  BY <1>1, FS_Subset
<1>3. Cardinality(S) \in Nat
  BY <1>2, FS_CardinalityType
<1> QED
  BY <1>1, <1>2, <1>3

\* Positions in a sequence are finitely many.
LEMMA Positions ==
    ASSUME NEW S, NEW s \in Seq(S), NEW P \in SUBSET DOMAIN s
    PROVE  IsFiniteSet(P) /\ Cardinality(P) \in Nat /\ P \subseteq 1..Len(s)
<1>1. DOMAIN s = 1..Len(s) /\ Len(s) \in Nat
  BY LenProperties
<1>2. IsFiniteSet(1..Len(s))
  BY <1>1, FS_Interval
<1>3. IsFiniteSet(P)
  BY <1>1, <1>2, FS_Subset
<1> QED
  BY <1>1, <1>3, FS_CardinalityType

\* A frame removed, or inserted, in the middle.
Without(q, p, r) ==
    /\ p \in 1..Len(q) /\ Len(r) = Len(q) - 1
    /\ \A i \in 1..(p - 1) : r[i] = q[i]
    /\ \A i \in p..Len(r) : r[i] = q[i + 1]

\* In these terms: what removing the element between two sequences leaves.
LEMMA WithoutMiddle ==
    ASSUME NEW S, NEW a \in Seq(S), NEW x \in S, NEW b \in Seq(S)
    PROVE  /\ a \o b \in Seq(S) /\ a \o (<<x>> \o b) \in Seq(S)
           /\ Without(a \o (<<x>> \o b), Len(a) + 1, a \o b)
           /\ (a \o (<<x>> \o b))[Len(a) + 1] = x
<1>1. Len(a) \in Nat /\ Len(b) \in Nat /\ <<x>> \in Seq(S) /\ Len(<<x>>) = 1 /\ <<x>>[1] = x
  BY LenProperties
<1>2. /\ <<x>> \o b \in Seq(S) /\ Len(<<x>> \o b) = 1 + Len(b)
      /\ (<<x>> \o b)[1] = x
      /\ \A i \in 2..(1 + Len(b)) : (<<x>> \o b)[i] = b[i - 1]
  BY <1>1, ConcatProperties
<1> DEFINE xb == <<x>> \o b
<1> HIDE DEF xb
<1>3. xb \in Seq(S) /\ Len(xb) = 1 + Len(b) /\ xb[1] = x /\ \A i \in 2..(1 + Len(b)) : xb[i] = b[i - 1]
  BY <1>2 DEF xb
<1>4. /\ a \o xb \in Seq(S) /\ Len(a \o xb) = Len(a) + 1 + Len(b)
      /\ \A i \in 1..(Len(a) + 1 + Len(b)) :
             (a \o xb)[i] = IF i <= Len(a) THEN a[i] ELSE xb[i - Len(a)]
  <2>1. Len(a) + Len(xb) = Len(a) + 1 + Len(b)
    BY <1>1, <1>3
  <2>2. /\ a \o xb \in Seq(S) /\ Len(a \o xb) = Len(a) + Len(xb)
        /\ \A i \in 1..(Len(a) + Len(xb)) :
               (a \o xb)[i] = IF i <= Len(a) THEN a[i] ELSE xb[i - Len(a)]
    BY <1>3, ConcatProperties
  <2> QED
    BY <2>1, <2>2
<1>5. /\ a \o b \in Seq(S) /\ Len(a \o b) = Len(a) + Len(b)
      /\ \A i \in 1..(Len(a) + Len(b)) : (a \o b)[i] = IF i <= Len(a) THEN a[i] ELSE b[i - Len(a)]
  BY ConcatProperties
<1>6. (a \o xb)[Len(a) + 1] = x
  BY <1>1, <1>3, <1>4
<1>7. ASSUME NEW i \in 1..Len(a) PROVE (a \o b)[i] = (a \o xb)[i]
  BY <1>1, <1>4, <1>5
<1>8. ASSUME NEW i \in (Len(a) + 1)..(Len(a) + Len(b)) PROVE (a \o b)[i] = (a \o xb)[i + 1]
  <2>1. i - Len(a) \in 1..Len(b) /\ (i + 1) - Len(a) \in 2..(1 + Len(b))
          /\ (i + 1) - Len(a) - 1 = i - Len(a)
    BY <1>1
  <2>2. (a \o b)[i] = b[i - Len(a)]
    BY <1>1, <1>5
  <2>3. (a \o xb)[i + 1] = xb[(i + 1) - Len(a)]
    BY <1>1, <1>4
  <2> QED
    BY <1>3, <2>1, <2>2, <2>3
<1>9. Without(a \o xb, Len(a) + 1, a \o b)
  BY <1>1, <1>4, <1>5, <1>7, <1>8 DEF Without
<1> QED
  BY <1>4, <1>5, <1>6, <1>9 DEF xb

-------------------------------------------------------------------------------
(* Frames that come again. *)

\* They are positions in the queue.
LEMMA AgainPositions ==
    ASSUME NEW q \in Seq(Frame), NEW o
    PROVE  IsFiniteSet(Again(q, o)) /\ Cardinality(Again(q, o)) \in Nat
             /\ Again(q, o) \subseteq 1..Len(q)
<1>1. Again(q, o) \in SUBSET DOMAIN q
  BY DEF Again
<1> QED
  BY <1>1, Positions

\* A frame that leaves the queue makes no other one come again, not even by
\* getting to the bus from its head; if it comes again itself there is one less.
LEMMA AgainRemoved ==
    ASSUME NEW q \in Seq(Frame), NEW r \in Seq(Frame), NEW p, Without(q, p, r),
           NEW o \in Nat, NEW o2 \in Nat, o2 = o \/ (p = 1 /\ o2 = q[1])
    PROVE  /\ Cardinality(Again(r, o2)) <= Cardinality(Again(q, o))
           /\ p \in Again(q, o) => Cardinality(Again(r, o2)) < Cardinality(Again(q, o))
<1>1. /\ Len(q) \in Nat /\ Len(r) \in Nat /\ DOMAIN q = 1..Len(q) /\ DOMAIN r = 1..Len(r)
      /\ p \in 1..Len(q) /\ Len(r) = Len(q) - 1
      /\ \A i \in 1..Len(q) : q[i] \in Int
      /\ \A i \in 1..Len(r) : r[i] \in Int
  <2>1. Frame \subseteq Int
    BY LinkAssumption DEF Frame, LinkAssumption, Undefined
  <2> QED
    BY <2>1, LenProperties, ElementOfSeq DEF Without
<1> DEFINE m(i) == IF i < p THEN i ELSE i + 1
           f == [i \in Again(r, o2) |-> m(i)]
<1>2. ASSUME NEW i \in 1..Len(r) PROVE m(i) \in 1..Len(q) /\ m(i) # p /\ r[i] = q[m(i)]
  BY <1>1 DEF Without
<1>3. \A i, j \in 1..Len(r) : /\ j < i => m(j) < m(i)
                              /\ m(i) = m(j) => i = j
  BY <1>1
<1>4. Again(r, o2) \subseteq 1..Len(r)
  BY AgainPositions
<1>5. ASSUME NEW i \in Again(r, o2) PROVE m(i) \in Again(q, o)
  <2>1. i \in 1..Len(r) /\ r[i] # Local /\ (r[i] <= o2 \/ \E j \in 1..(i - 1) : r[j] >= r[i])
    BY <1>1 DEF Again
  <2>2. m(i) \in 1..Len(q) /\ q[m(i)] # Local /\ q[m(i)] = r[i]
    BY <1>2, <2>1
  <2>3. CASE r[i] <= o2 /\ o2 = o
    BY <1>1, <2>2, <2>3 DEF Again
  <2>4. CASE r[i] <= o2 /\ p = 1 /\ o2 = q[1]
    <3>1. 1 \in 1..(m(i) - 1) /\ q[1] >= q[m(i)]
      BY <1>1, <2>1, <2>2, <2>4
    <3> QED
      BY <1>1, <2>2, <3>1 DEF Again
  <2>5. CASE \E j \in 1..(i - 1) : r[j] >= r[i]
    <3>1. PICK j \in 1..(i - 1) : r[j] >= r[i]
      BY <2>5
    <3>2. j \in 1..Len(r) /\ j < i
      BY <1>1, <2>1
    <3>3. m(j) < m(i) /\ q[m(j)] = r[j] /\ m(j) \in 1..Len(q)
      BY <1>2, <1>3, <2>1, <3>2
    <3>4. q[m(j)] >= q[m(i)]
      BY <2>2, <3>1, <3>3, Zenon
    <3>5. m(j) \in 1..(m(i) - 1)
      <4>1. Len(q) \in Nat
        BY <1>1
      <4> HIDE DEF m
      <4> QED
        BY <2>2, <3>3, <4>1
    <3> QED
      BY <1>1, <2>2, <3>4, <3>5 DEF Again
  <2> QED
    BY <2>1, <2>3, <2>4, <2>5
<1>6. f \in [Again(r, o2) -> Again(q, o)]
  BY <1>5
<1>7. \A i, j \in Again(r, o2) : f[i] = f[j] => i = j
  BY <1>3, <1>4
<1>8. \A i \in Again(r, o2) : f[i] # p
  BY <1>2, <1>4
<1> HIDE DEF f
<1>9. IsFiniteSet(Again(q, o))
  BY AgainPositions
<1> QED
  BY <1>6, <1>7, <1>8, <1>9, Fewer

\* Nor does a local frame that comes between the others.
LEMMA AgainInserted ==
    ASSUME NEW q \in Seq(Frame), NEW r \in Seq(Frame), NEW p, Without(r, p, q), r[p] = Local,
           NEW o \in Nat
    PROVE  Cardinality(Again(r, o)) <= Cardinality(Again(q, o))
<1>1. /\ Len(q) \in Nat /\ Len(r) \in Nat /\ DOMAIN q = 1..Len(q) /\ DOMAIN r = 1..Len(r)
      /\ p \in 1..Len(r) /\ Len(q) = Len(r) - 1
      /\ \A i \in 1..Len(q) : q[i] \in Int
      /\ \A i \in 1..Len(r) : r[i] \in Frame
  <2>1. Frame \subseteq Int
    BY LinkAssumption DEF Frame, LinkAssumption, Undefined
  <2> QED
    BY <2>1, LenProperties, ElementOfSeq DEF Without
<1> DEFINE m(i) == IF i < p THEN i ELSE i - 1
           f == [i \in Again(r, o) |-> m(i)]
<1>2. ASSUME NEW i \in 1..Len(r), i # p PROVE m(i) \in 1..Len(q) /\ r[i] = q[m(i)]
  BY <1>1, <1>2 DEF Without
<1>3. \A i, j \in 1..Len(r) : i # p /\ j # p => /\ j < i => m(j) < m(i)
                                                /\ m(i) = m(j) => i = j
  BY <1>1
<1>4. \A i \in Again(r, o) : i \in 1..Len(r) /\ i # p
  BY AgainPositions DEF Again
<1>5. ASSUME NEW i \in Again(r, o) PROVE m(i) \in Again(q, o)
  <2>1. i \in 1..Len(r) /\ i # p /\ r[i] # Local /\ (r[i] <= o \/ \E j \in 1..(i - 1) : r[j] >= r[i])
    BY <1>1, <1>4 DEF Again
  <2>2. m(i) \in 1..Len(q) /\ q[m(i)] # Local /\ q[m(i)] = r[i]
    BY <1>2, <2>1
  <2>3. CASE r[i] <= o
    BY <1>1, <2>2, <2>3 DEF Again
  <2>4. CASE \E j \in 1..(i - 1) : r[j] >= r[i]
    <3>1. PICK j \in 1..(i - 1) : r[j] >= r[i]
      BY <2>4
    <3>2. j \in 1..Len(r) /\ j < i
      BY <1>1, <2>1
    <3>3. CASE j = p
      <4>1. r[i] <= 0 /\ r[i] # 0
        BY <2>1, <3>1, <3>3 DEF Local
      <4>2. r[i] \in Int
        BY <1>1, <2>1, LinkAssumption DEF Frame, LinkAssumption, Undefined
      <4>3. r[i] <= o
        BY <4>1, <4>2
      <4> QED
        BY <2>3, <4>3
    <3>4. CASE j # p
      <4>1. m(j) < m(i) /\ q[m(j)] = r[j] /\ m(j) \in 1..Len(q)
        BY <1>2, <1>3, <2>1, <3>2, <3>4
      <4>2. m(j) \in 1..(m(i) - 1) /\ q[m(j)] >= q[m(i)]
        BY <1>1, <2>2, <3>1, <4>1
      <4> QED
        BY <1>1, <2>2, <4>2 DEF Again
    <3> QED
      BY <3>3, <3>4
  <2> QED
    BY <2>1, <2>3, <2>4
<1>6. f \in [Again(r, o) -> Again(q, o)]
  BY <1>5
<1>7. \A i, j \in Again(r, o) : f[i] = f[j] => i = j
  BY <1>3, <1>4
<1> HIDE DEF f
<1>8. IsFiniteSet(Again(q, o))
  BY AgainPositions
<1> QED
  BY <1>6, <1>7, <1>8, Fewer

\* A frame that is parsed adds at most itself, and not even that when it is
\* later than all before it.
LEMMA AgainAppended ==
    ASSUME NEW q \in Seq(Frame), NEW x \in Frame, NEW o \in Nat
    PROVE  /\ Cardinality(Again(Append(q, x), o)) <= Cardinality(Again(q, o)) + 1
           /\ x > o /\ (\A i \in DOMAIN q : q[i] < x)
                => Cardinality(Again(Append(q, x), o)) <= Cardinality(Again(q, o))
<1> DEFINE r == Append(q, x)
<1>1. /\ Len(q) \in Nat /\ DOMAIN q = 1..Len(q) /\ \A i \in 1..Len(q) : q[i] \in Int
      /\ x \in Int
  <2>1. Frame \subseteq Int
    BY LinkAssumption DEF Frame, LinkAssumption, Undefined
  <2> QED
    BY <2>1, LenProperties, ElementOfSeq
<1>2. /\ r \in Seq(Frame) /\ Len(r) = Len(q) + 1 /\ DOMAIN r = 1..(Len(q) + 1)
      /\ \A i \in 1..Len(q) : r[i] = q[i]
      /\ r[Len(q) + 1] = x
  BY AppendProperties, LenProperties
<1> HIDE DEF r
<1>3. ASSUME NEW i \in Again(r, o), i # Len(q) + 1 PROVE i \in Again(q, o)
  <2>1. i \in 1..Len(q) /\ r[i] = q[i] /\ \A j \in 1..(i - 1) : r[j] = q[j]
    BY <1>1, <1>2, <1>3 DEF Again
  <2> QED
    BY <1>1, <1>2, <1>3, <2>1 DEF Again
<1>4. Again(r, o) \subseteq Again(q, o) \cup {Len(q) + 1}
  BY <1>3
<1>5. IsFiniteSet(Again(q, o))
  BY AgainPositions
<1>6. Cardinality(Again(r, o)) <= Cardinality(Again(q, o)) + 1
  BY <1>4, <1>5, OneMore
<1>7. ASSUME x > o, \A i \in DOMAIN q : q[i] < x
      PROVE  Cardinality(Again(r, o)) <= Cardinality(Again(q, o))
  <2>1. Len(q) + 1 \notin Again(r, o)
    BY <1>1, <1>2, <1>7 DEF Again
  <2>2. Again(r, o) \subseteq Again(q, o)
    BY <1>4, <2>1
  <2> QED
    BY <1>5, <2>2, FS_Subset
<1> QED
  BY <1>6, <1>7 DEF r

-------------------------------------------------------------------------------
(* Delimiters that end no whole frame. *)

\* They are positions in the text.
LEMMA TornPositions ==
    ASSUME NEW t \in Seq(Halves)
    PROVE  IsFiniteSet(Torn(t)) /\ Cardinality(Torn(t)) \in Nat /\ Torn(t) \subseteq 1..Len(t)
<1>1. Torn(t) \in SUBSET DOMAIN t
  BY DEF Torn
<1> QED
  BY <1>1, Positions

\* A piece that is written adds at most itself.
LEMMA TornAppended ==
    ASSUME NEW t \in Seq(Halves), NEW h \in Halves
    PROVE  /\ Cardinality(Torn(Append(t, h))) \in {Cardinality(Torn(t)), Cardinality(Torn(t)) + 1}
           /\ h.part = "begin" => Torn(Append(t, h)) = Torn(t)
<1> DEFINE u == Append(t, h)
<1>1. /\ Len(t) \in Nat /\ DOMAIN t = 1..Len(t)
      /\ u \in Seq(Halves) /\ Len(u) = Len(t) + 1 /\ DOMAIN u = 1..(Len(t) + 1)
      /\ \A i \in 1..Len(t) : u[i] = t[i]
      /\ u[Len(t) + 1] = h
  BY AppendProperties, LenProperties
<1> HIDE DEF u
<1>2. ASSUME NEW i \in 1..Len(t) PROVE i \in Torn(u) <=> i \in Torn(t)
  <2>1. u[i] = t[i] /\ (i > 1 => u[i - 1] = t[i - 1])
    BY <1>1
  <2> QED
    BY <1>1, <2>1 DEF Torn
<1>3. IsFiniteSet(Torn(t)) /\ Cardinality(Torn(t)) \in Nat /\ Torn(t) \subseteq 1..Len(t)
  BY TornPositions
<1>4. Torn(u) \subseteq 1..(Len(t) + 1) /\ Len(t) + 1 \notin Torn(t)
  BY <1>1, <1>3 DEF Torn
<1>5. Torn(u) = Torn(t) \/ Torn(u) = Torn(t) \cup {Len(t) + 1}
  <2>1. \A i \in Torn(u) : i # Len(t) + 1 => i \in Torn(t)
    BY <1>1, <1>2, <1>4
  <2>2. \A i \in Torn(t) : i \in Torn(u)
    BY <1>2, <1>3
  <2> QED
    BY <2>1, <2>2
<1>6. Cardinality(Torn(t) \cup {Len(t) + 1}) = Cardinality(Torn(t)) + 1
  BY <1>3, <1>4, FS_AddElement
<1>7. ASSUME h.part = "begin" PROVE Torn(u) = Torn(t)
  <2>1. Len(t) + 1 \notin Torn(u)
    BY <1>1, <1>7 DEF Torn
  <2> QED
    BY <1>5, <2>1
<1> QED
  BY <1>5, <1>6, <1>7 DEF u

\* What does not fit into the ring is the end of the text.
LEMMA TornCut ==
    ASSUME NEW t \in Seq(Halves), NEW u \in Seq(Halves), Len(u) <= Len(t),
           \A i \in 1..Len(u) : u[i] = t[i]
    PROVE  Cardinality(Torn(u)) <= Cardinality(Torn(t))
<1>1. Len(t) \in Nat /\ DOMAIN t = 1..Len(t) /\ Len(u) \in Nat /\ DOMAIN u = 1..Len(u)
  BY LenProperties
<1>2. ASSUME NEW i \in Torn(u) PROVE i \in Torn(t)
  <2>1. i \in 1..Len(u) /\ i \in 1..Len(t) /\ u[i] = t[i] /\ (i > 1 => u[i - 1] = t[i - 1])
    BY <1>1 DEF Torn
  <2> QED
    BY <1>1, <2>1 DEF Torn
<1>3. IsFiniteSet(Torn(t))
  BY TornPositions
<1>4. Torn(u) \subseteq Torn(t)
  BY <1>2
<1> QED
  BY <1>3, <1>4, FS_Subset

\* What is parsed is the beginning of the text.  When it is cut at a delimiter,
\* or before another beginning, no other delimiter loses its frame.
LEMMA TornParsed ==
    ASSUME NEW t \in Seq(Halves), NEW u \in Seq(Halves), NEW k \in Nat,
           Len(t) = Len(u) + k, \A i \in 1..Len(u) : u[i] = t[i + k],
           k > 0 => t[k].part = "end" \/ (Len(u) > 0 => u[1].part = "begin")
    PROVE  /\ Cardinality(Torn(u)) <= Cardinality(Torn(t))
           /\ \A z \in 1..k : z \in Torn(t) => Cardinality(Torn(u)) < Cardinality(Torn(t))
<1>1. Len(t) \in Nat /\ DOMAIN t = 1..Len(t) /\ Len(u) \in Nat /\ DOMAIN u = 1..Len(u)
  BY LenProperties
<1>2. ASSUME NEW i \in Torn(u) PROVE i + k \in Torn(t)
  <2>1. i \in 1..Len(u) /\ i + k \in 1..Len(t) /\ u[i] = t[i + k] /\ u[i].part = "end"
    BY <1>1 DEF Torn
  <2>2. CASE i > 1
    <3>1. i - 1 \in 1..Len(u) /\ (i - 1) + k = (i + k) - 1 /\ i + k > 1
      BY <1>1, <2>1, <2>2
    <3>2. u[i - 1] = t[(i + k) - 1]
      BY <3>1
    <3> QED
      BY <1>1, <2>1, <2>2, <3>1, <3>2 DEF Torn
  <2>3. CASE i = 1
    <3>1. Len(u) > 0 /\ u[1].part # "begin"
      BY <1>1, <2>1, <2>3
    <3>2. k > 0 => t[k].part = "end"
      BY <3>1
    <3>3. k > 0 => t[k] # Begin(t[i + k].n)
      BY <3>2 DEF Begin, Piece
    <3>4. (i + k) - 1 = k /\ (i + k > 1 <=> k > 0)
      BY <2>3
    <3> QED
      BY <1>1, <2>1, <3>3, <3>4 DEF Torn
  <2> QED
    BY <2>1, <2>2, <2>3
<1> DEFINE f == [i \in Torn(u) |-> i + k]
<1>3. f \in [Torn(u) -> Torn(t)]
  BY <1>2
<1>4. Torn(u) \subseteq 1..Len(u)
  BY TornPositions
<1>5. \A i, j \in Torn(u) : f[i] = f[j] => i = j
  BY <1>4
<1>6. \A i \in Torn(u) : f[i] > k
  BY <1>1, <1>4
<1> HIDE DEF f
<1>7. IsFiniteSet(Torn(t))
  BY TornPositions
<1>8. \A z \in 1..k : \A i \in Torn(u) : f[i] # z
  <2> SUFFICES ASSUME NEW z \in 1..k, NEW i \in Torn(u), f[i] = z PROVE FALSE
    OBVIOUS
  <2>1. z > k /\ z <= k /\ z \in Nat
    BY <1>6
  <2> QED
    BY <2>1
<1> QED
  BY <1>3, <1>5, <1>7, <1>8, Fewer

-------------------------------------------------------------------------------
(* The text and the frames of a state. *)

\* The first half in gridconnect_in, and the frame that the parse thread puts.
HalfLine == IF line = 0 THEN <<>> ELSE <<Begin(line)>>
Latest == IF parser = "putting" THEN <<frame>> ELSE <<>>

\* The sequences that the text and the frames on their way consist of.
Parts ==
    /\ HalfLine \in Seq(Halves) /\ ring \in Seq(Halves) /\ usb \in Seq(Halves)
    /\ sending \in Seq(Frame) /\ txq \in Seq(Frame) /\ parsed \in Seq(Frame)
    /\ Latest \in Seq(Frame)
    /\ Text = (HalfLine \o ring) \o usb
    /\ Pipeline = ((sending \o txq) \o parsed) \o Latest

\* What is used of the types of the text and of the frames on their way.
Wholes ==
    /\ Text \in Seq(Halves) /\ Len(Text) \in Nat /\ DOMAIN Text = 1..Len(Text)
    /\ \A i \in DOMAIN Text : Text[i] \in Halves /\ Text[i].n \in Nat
    /\ Pipeline \in Seq(Frame) /\ Len(Pipeline) \in Nat /\ DOMAIN Pipeline = 1..Len(Pipeline)
    /\ \A j \in DOMAIN Pipeline : Pipeline[j] \in Frame /\ Pipeline[j] \in Int
    /\ sent \in Nat /\ junk \in Nat /\ out \in Nat /\ strays \in Nat /\ frame \in Int
    /\ Cardinality(Torn(Text)) \in Nat /\ Cardinality(Again(Pipeline, out)) \in Nat
    /\ Damage \in Nat

\* A well-typed state consists of such sequences.
LEMMA PartsTyped == Typed => Parts
<1> SUFFICES ASSUME Typed PROVE Parts
  OBVIOUS
<1>1. ring \in Seq(Halves) /\ usb \in Seq(Halves)
  BY DEF Typed, InputFromComputer
<1>2. sending \in Seq(Frame) /\ txq \in Seq(Frame) /\ parsed \in Seq(Frame) /\ frame \in Frame
        /\ line \in 0..MaxTraffic
  BY DEF Typed, TypeOK, SeqUpTo
<1>3. Latest \in Seq(Frame)
  BY <1>2, EmptySeq DEF Latest
<1>4. HalfLine \in Seq(Halves)
  <2>1. Begin(line) \in Halves
    BY <1>2 DEF Begin, Piece, Halves
  <2> QED
    BY <2>1, EmptySeq DEF HalfLine
<1> QED
  BY <1>1, <1>2, <1>3, <1>4 DEF Parts, Text, Pipeline, HalfLine, Latest

\* Its text and its frames are such sequences, and the damage is a number.
LEMMA WholesTyped == Typed => Wholes
<1> SUFFICES ASSUME Typed PROVE Wholes
  OBVIOUS
<1>0. Parts
  BY PartsTyped
<1>1. Text \in Seq(Halves) /\ Pipeline \in Seq(Frame)
  <2>1. HalfLine \o ring \in Seq(Halves)
    BY <1>0, ConcatProperties DEF Parts
  <2>2. (sending \o txq) \o parsed \in Seq(Frame)
    <3>1. sending \o txq \in Seq(Frame)
      BY <1>0, ConcatProperties DEF Parts
    <3> QED
      BY <1>0, <3>1, ConcatProperties DEF Parts
  <2> QED
    BY <1>0, <2>1, <2>2, ConcatProperties DEF Parts
<1>2. Frame \subseteq Int /\ \A h \in Halves : h.n \in Nat
  BY LinkAssumption DEF LinkAssumption, Frame, Undefined, Halves
<1>3. Len(Text) \in Nat /\ DOMAIN Text = 1..Len(Text) /\ \A i \in DOMAIN Text : Text[i] \in Halves
  BY <1>1, LenProperties, ElementOfSeq
<1>4. /\ Len(Pipeline) \in Nat /\ DOMAIN Pipeline = 1..Len(Pipeline)
      /\ \A j \in DOMAIN Pipeline : Pipeline[j] \in Frame
  BY <1>1, LenProperties, ElementOfSeq
<1>5. sent \in Nat /\ junk \in Nat /\ out \in Nat /\ strays \in Nat /\ frame \in Int
  BY <1>2, LinkAssumption DEF Typed, TypeOK, LinkAssumption
<1>6. Cardinality(Torn(Text)) \in Nat /\ Cardinality(Again(Pipeline, out)) \in Nat
  BY <1>1, TornPositions, AgainPositions
<1>7. Damage \in Nat
  BY <1>6 DEF Damage
<1> QED
  BY <1>1, <1>2, <1>3, <1>4, <1>5, <1>6, <1>7 DEF Wholes

\* So it is in the next state.
LEMMA NextPartsTyped == Typed' => Parts' /\ Wholes'
  BY PartsTyped, WholesTyped, PTL

\* Three sequences in a row, joined from either end.
Joins(s, t, u) == (s \o t) \o u = s \o (t \o u)

\* Sequences of frames may be cut and joined anywhere.
LEMMA FramesJoined == \A s, t, u \in Seq(Frame) : Joins(s, t, u)
  BY ConcatAssociative DEF Joins

\* So may those around one frame.
LEMMA JoinedAroundOne ==
    \A a, b \in Seq(Frame), x \in Frame : /\ (a \o b) \o <<x>> = a \o (b \o <<x>>)
                                         /\ (a \o <<x>>) \o b = a \o (<<x>> \o b)
                                         /\ (<<x>> \o a) \o b = <<x>> \o (a \o b)
<1> SUFFICES ASSUME NEW a \in Seq(Frame), NEW b \in Seq(Frame), NEW x \in Frame
             PROVE  /\ (a \o b) \o <<x>> = a \o (b \o <<x>>)
                    /\ (a \o <<x>>) \o b = a \o (<<x>> \o b)
                    /\ (<<x>> \o a) \o b = <<x>> \o (a \o b)
  OBVIOUS
<1> DEFINE y == <<x>>
<1>1. y \in Seq(Frame)
  OBVIOUS
<1> HIDE DEF y
<1>2. (a \o b) \o y = a \o (b \o y)
  <2>1. Joins(a, b, y)
    BY <1>1, FramesJoined, Zenon
  <2> QED
    BY <2>1 DEF Joins
<1>3. (a \o y) \o b = a \o (y \o b)
  <2>1. Joins(a, y, b)
    BY <1>1, FramesJoined, Zenon
  <2> QED
    BY <2>1 DEF Joins
<1>4. (y \o a) \o b = y \o (a \o b)
  <2>1. Joins(y, a, b)
    BY <1>1, FramesJoined, Zenon
  <2> QED
    BY <2>1 DEF Joins
<1> QED
  BY <1>2, <1>3, <1>4 DEF y

\* What else is used of them.
LEMMA FrameSequences ==
    /\ \A s, t \in Seq(Frame) : s \o t \in Seq(Frame)
    /\ \A s \in Seq(Frame) : s \o <<>> = s /\ <<>> \o s = s
    /\ <<>> \in Seq(Frame) /\ Len(<<>>) = 0
    /\ \A x \in Frame : <<x>> \in Seq(Frame)
    /\ \A s \in Seq(Frame), x \in Frame : Append(s, x) = s \o <<x>>
  BY ConcatProperties, ConcatEmptySeq, EmptySeq, AppendIsConcat

\* A sequence is its head and its tail.
LEMMA HeadAndTail ==
    ASSUME NEW S, NEW s \in Seq(S), s # <<>>
    PROVE  /\ Head(s) \in S /\ Tail(s) \in Seq(S) /\ s = <<Head(s)>> \o Tail(s)
           /\ s[1] = Head(s)
<1>1. Len(s) \in Nat /\ Len(s) >= 1
  BY EmptySeq, LenProperties
<1>2. Tail(s) = SubSeq(s, 2, Len(s)) /\ Head(s) \in S /\ Tail(s) \in Seq(S) /\ Head(s) = s[1]
  BY TailIsSubSeq, HeadTailProperties
<1>3. SubSeq(s, 1, Len(s)) = <<s[1]>> \o SubSeq(s, 1 + 1, Len(s))
  BY <1>1, SubSeqRecursiveFirst
<1> QED
  BY <1>2, <1>3, SubSeqFull

\* A queue takes a frame behind the others, or drops it.
LEMMA QueuedOrDropped ==
    ASSUME NEW q \in Seq(Frame), NEW x \in Frame
    PROVE  Queued(q, x) = q \o <<x>> \/ Queued(q, x) = q
  BY FrameSequences DEF Queued

\* A frame between two sequences of them, and what is left without it.
LEMMA FrameBetween ==
    \A a, b \in Seq(Frame), x \in Frame :
        /\ Without(a \o (<<x>> \o b), Len(a) + 1, a \o b)
        /\ (a \o (<<x>> \o b))[Len(a) + 1] = x
        /\ Len(a) + 1 \in Nat
<1> SUFFICES ASSUME NEW a \in Seq(Frame), NEW b \in Seq(Frame), NEW x \in Frame
             PROVE  /\ Without(a \o (<<x>> \o b), Len(a) + 1, a \o b)
                    /\ (a \o (<<x>> \o b))[Len(a) + 1] = x
                    /\ Len(a) + 1 \in Nat
  OBVIOUS
<1>1. Len(a) \in Nat
  BY LenProperties
<1>2. /\ Without(a \o (<<x>> \o b), Len(a) + 1, a \o b)
      /\ (a \o (<<x>> \o b))[Len(a) + 1] = x
  BY WithoutMiddle
<1> QED
  BY <1>1, <1>2

\* A frame that goes from one queue to the next keeps its place.
Moves(a, q, t, x) == (a \o (q \o <<x>>)) \o t = (a \o q) \o (<<x>> \o t)

LEMMA MovedOn ==
    \A a, q, t \in Seq(Frame), x \in Frame : Moves(a, q, t, x)
<1> SUFFICES ASSUME NEW a \in Seq(Frame), NEW q \in Seq(Frame), NEW t \in Seq(Frame), NEW x \in Frame
             PROVE  (a \o (q \o <<x>>)) \o t = (a \o q) \o (<<x>> \o t)
  BY DEF Moves
<1> DEFINE b == a \o q
<1>1. b \in Seq(Frame)
  BY FrameSequences
<1>2. a \o (q \o <<x>>) = b \o <<x>>
  BY JoinedAroundOne
<1> HIDE DEF b
<1>3. (b \o <<x>>) \o t = b \o (<<x>> \o t)
  BY <1>1, JoinedAroundOne
<1> QED
  BY <1>2, <1>3, Zenon DEF b

\* One that is dropped between them leaves its place.
Drops(a, q, t, l, x) ==
    /\ Without(((a \o q) \o (<<x>> \o t)) \o l, Len(a \o q) + 1, ((a \o q) \o t) \o l)
    /\ (((a \o q) \o (<<x>> \o t)) \o l)[Len(a \o q) + 1] = x
    /\ Len(a \o q) + 1 \in Nat

LEMMA DroppedBetween ==
    \A a, q, t, l \in Seq(Frame), x \in Frame : Drops(a, q, t, l, x)
<1> SUFFICES ASSUME NEW a \in Seq(Frame), NEW q \in Seq(Frame), NEW t \in Seq(Frame),
                    NEW l \in Seq(Frame), NEW x \in Frame
             PROVE  Drops(a, q, t, l, x)
  OBVIOUS
<1> DEFINE b == a \o q
           xt == <<x>> \o t
           tl == t \o l
<1>1. b \in Seq(Frame) /\ tl \in Seq(Frame) /\ xt \in Seq(Frame)
  BY FrameSequences
<1>2. xt \o l = <<x>> \o tl
  BY JoinedAroundOne
<1> HIDE DEF b
<1>3. (b \o t) \o l = b \o tl
  <2>1. Joins(b, t, l)
    BY <1>1, FramesJoined, Zenon
  <2> QED
    BY <2>1 DEF Joins
<1> HIDE DEF xt, tl
<1>4. b \in Seq(Frame) /\ xt \in Seq(Frame) /\ l \in Seq(Frame)
  BY <1>1
<1>5. (b \o xt) \o l = b \o (xt \o l)
  <2>1. Joins(b, xt, l)
    BY <1>4, FramesJoined, Zenon
  <2> QED
    BY <2>1 DEF Joins
<1>6. Without(b \o (<<x>> \o tl), Len(b) + 1, b \o tl) /\ Len(b) + 1 \in Nat
        /\ (b \o (<<x>> \o tl))[Len(b) + 1] = x
  BY <1>1, FrameBetween
<1>7. (b \o xt) \o l = b \o (<<x>> \o tl)
  BY <1>2, <1>5, Zenon
<1>8. Without((b \o xt) \o l, Len(b) + 1, (b \o t) \o l) /\ ((b \o xt) \o l)[Len(b) + 1] = x
  BY <1>3, <1>6, <1>7, Zenon
<1> QED
  BY <1>6, <1>8, Zenon DEF b, xt, Drops

\* The first one leaves.
LEMMA FirstLeaves ==
    ASSUME NEW t \in Seq(Frame), NEW p \in Seq(Frame), NEW l \in Seq(Frame), NEW x \in Frame
    PROVE  /\ Without(((<<x>> \o t) \o p) \o l, 1, (t \o p) \o l)
           /\ (((<<x>> \o t) \o p) \o l)[1] = x
<1> DEFINE e == <<>>
           tp == t \o p
<1>1. e \in Seq(Frame) /\ Len(e) = 0 /\ tp \in Seq(Frame) /\ \A s \in Seq(Frame) : e \o s = s
  BY FrameSequences
<1>2. (<<x>> \o t) \o p = <<x>> \o tp
  BY JoinedAroundOne
<1> HIDE DEF tp, e
<1> DEFINE r == tp \o l
           xr == <<x>> \o r
<1>3. (<<x>> \o tp) \o l = xr
  <2>1. <<x>> \in Seq(Frame)
    BY FrameSequences
  <2>2. Joins(<<x>>, tp, l)
    BY <1>1, <2>1, FramesJoined, Zenon
  <2> QED
    BY <2>2 DEF Joins
<1>4. r \in Seq(Frame) /\ xr \in Seq(Frame)
  BY <1>1, FrameSequences
<1>5. Without(e \o (<<x>> \o r), Len(e) + 1, e \o r) /\ (e \o (<<x>> \o r))[Len(e) + 1] = x
  BY <1>1, <1>4, FrameBetween
<1> HIDE DEF r
<1>6. e \o xr = xr /\ e \o r = r /\ Len(e) + 1 = 1
  BY <1>1, <1>4
<1>7. Without(xr, 1, r) /\ xr[1] = x
  BY <1>5, <1>6
<1> QED
  BY <1>2, <1>3, <1>7, Zenon DEF r, tp

-------------------------------------------------------------------------------
(* What the steps do to the frames. *)

\* A frame is queued behind the others, or dropped.
LEMMA PutsFrame ==
    ASSUME Typed, Typed', ParserPuts
    PROVE  Pipeline' = Pipeline \/ \E p \in Nat : Without(Pipeline, p, Pipeline')
<1> DEFINE A == sending \o txq
<1>1. /\ A \in Seq(Frame) /\ parsed \in Seq(Frame) /\ frame \in Frame
      /\ Pipeline = (A \o parsed) \o <<frame>>
      /\ Pipeline' = (A \o parsed') \o <<>>
      /\ parsed' \in Seq(Frame) /\ <<frame>> \in Seq(Frame)
      /\ parsed' = parsed \o <<frame>> \/ parsed' = parsed
  <2>1. parser = "putting" /\ parser' = "waiting" /\ sending' = sending /\ txq' = txq
          /\ parsed' = Queued(parsed, frame)
    BY DEF ParserPuts, busVars
  <2>2. frame \in Frame /\ parsed \in Seq(Frame) /\ parsed' \in Seq(Frame) /\ A \in Seq(Frame)
    BY PartsTyped, NextPartsTyped, FrameSequences DEF Parts, Typed, TypeOK
  <2>3. Pipeline = (A \o parsed) \o <<frame>> /\ Pipeline' = (A \o parsed') \o <<>>
    BY <2>1 DEF Pipeline
  <2> QED
    BY <2>1, <2>2, <2>3, FrameSequences, QueuedOrDropped
<1> HIDE DEF A
<1>2. A \o parsed \in Seq(Frame) /\ A \o parsed' \in Seq(Frame) /\ Pipeline' = A \o parsed'
  BY <1>1, FrameSequences
<1>3. CASE parsed' = parsed
  <2>1. Pipeline = (A \o parsed) \o (<<frame>> \o <<>>) /\ Pipeline' = (A \o parsed) \o <<>>
    BY <1>1, <1>2, <1>3, FrameSequences
  <2>2. <<>> \in Seq(Frame)
    BY FrameSequences
  <2>3. /\ Without((A \o parsed) \o (<<frame>> \o <<>>), Len(A \o parsed) + 1, (A \o parsed) \o <<>>)
        /\ Len(A \o parsed) + 1 \in Nat
    BY <1>1, <1>2, <2>2, FrameBetween
  <2> QED
    BY <2>1, <2>3, Zenon
<1>4. CASE parsed' = parsed \o <<frame>>
  <2>2. (A \o parsed) \o <<frame>> = A \o (parsed \o <<frame>>)
    BY <1>1, JoinedAroundOne
  <2> QED
    BY <1>1, <1>2, <1>4, <2>2
<1> QED
  BY <1>1, <1>3, <1>4

\* The main thread queues it for the bus, or drops it.
LEMMA ForwardsFrame ==
    ASSUME Typed, Typed', MainForwards
    PROVE  Pipeline' = Pipeline \/ \E p \in Nat : Without(Pipeline, p, Pipeline')
<1> DEFINE x == Head(parsed)
           t == Tail(parsed)
<1>1. /\ sending \in Seq(Frame) /\ txq \in Seq(Frame) /\ Latest \in Seq(Frame)
      /\ x \in Frame /\ t \in Seq(Frame) /\ parsed = <<x>> \o t
  <2>1. parsed # <<>> /\ parsed \in Seq(Frame)
    BY PartsTyped DEF Parts, MainForwards
  <2> QED
    BY <2>1, PartsTyped, HeadAndTail DEF Parts
<1>2. parsed' = t /\ sending' = sending /\ Latest' = Latest
        /\ (txq' = txq \o <<x>> \/ txq' = txq)
  BY <1>1, QueuedOrDropped DEF MainForwards, Latest
<1> HIDE DEF x, t
<1>3. /\ Pipeline = ((sending \o txq) \o (<<x>> \o t)) \o Latest
      /\ Pipeline' = ((sending \o txq') \o t) \o Latest
  BY <1>1, <1>2, PartsTyped, NextPartsTyped DEF Parts
<1>t. /\ sending \in Seq(Frame) /\ txq \in Seq(Frame) /\ Latest \in Seq(Frame)
      /\ x \in Frame /\ t \in Seq(Frame)
  BY <1>1
<1>4. (sending \o (txq \o <<x>>)) \o t = (sending \o txq) \o (<<x>> \o t)
  <2>1. Moves(sending, txq, t, x)
    BY <1>t, MovedOn, Zenon
  <2> QED
    BY <2>1 DEF Moves
<1>5. /\ Without(((sending \o txq) \o (<<x>> \o t)) \o Latest, Len(sending \o txq) + 1, ((sending \o txq) \o t) \o Latest)
      /\ Len(sending \o txq) + 1 \in Nat
  <2>1. Drops(sending, txq, t, Latest, x)
    BY <1>t, DroppedBetween, Zenon
  <2> QED
    BY <2>1, Zenon DEF Drops
<1> QED
  BY <1>2, <1>3, <1>4, <1>5, Zenon

\* The sending thread takes it, or drops it when the bus is off.
LEMMA TakesFrame ==
    ASSUME Typed, Typed', SenderTakes
    PROVE  Pipeline' = Pipeline \/ Without(Pipeline, 1, Pipeline')
<1> DEFINE x == Head(txq)
           t == Tail(txq)
<1>1. /\ parsed \in Seq(Frame) /\ Latest \in Seq(Frame)
      /\ x \in Frame /\ t \in Seq(Frame) /\ txq = <<x>> \o t
  <2>1. txq # <<>> /\ txq \in Seq(Frame)
    BY PartsTyped DEF Parts, SenderTakes
  <2> QED
    BY <2>1, PartsTyped, HeadAndTail DEF Parts
<1>2. /\ sending = <<>> /\ txq' = t /\ parsed' = parsed /\ Latest' = Latest
      /\ sending' = <<x>> \/ sending' = <<>>
  BY DEF SenderTakes, Latest, parserVars
<1> HIDE DEF x, t
<1>3. <<>> \o (<<x>> \o t) = <<x>> \o t /\ <<>> \o t = t
  BY <1>1, FrameSequences
<1>4. /\ Pipeline = ((<<>> \o (<<x>> \o t)) \o parsed) \o Latest
      /\ Pipeline' = ((sending' \o t) \o parsed) \o Latest
  BY <1>1, <1>2, PartsTyped, NextPartsTyped DEF Parts
<1>5. Without(((<<x>> \o t) \o parsed) \o Latest, 1, (t \o parsed) \o Latest)
  BY <1>1, FirstLeaves
<1> QED
  BY <1>2, <1>3, <1>4, <1>5, Zenon

\* The first frame gets to the bus, or the bus fails.
LEMMA SendsFrame ==
    ASSUME Typed, Typed', SenderSends
    PROVE  Without(Pipeline, 1, Pipeline') /\ Pipeline[1] = sending[1] /\ sending[1] \in Frame
<1> DEFINE x == sending[1]
<1>1. /\ parsed \in Seq(Frame) /\ Latest \in Seq(Frame) /\ txq \in Seq(Frame)
      /\ x \in Frame /\ sending = <<x>>
  <2>1. sending # <<>> /\ sending \in Seq(Frame) /\ Len(sending) <= 1
    BY DEF SenderSends, Typed, TypeOK, SeqUpTo
  <2>2. Len(sending) = 1 /\ x \in Frame
    <3>1. Len(sending) \in Nat \ {0}
      BY <2>1, EmptySeq
    <3> DEFINE n == Len(sending)
    <3>3. n \in Nat /\ n # 0 /\ n <= 1
      BY <2>1, <3>1
    <3> HIDE DEF n
    <3>4. n = 1 /\ 1 \in 1..n
      BY <3>3
    <3>2. Len(sending) = 1 /\ 1 \in 1..Len(sending)
      BY <3>4 DEF n
    <3> QED
      BY <2>1, <3>2, ElementOfSeq
  <2>3. sending = <<x>>
    BY <2>1, <2>2
  <2> QED
    BY <2>2, <2>3, PartsTyped DEF Parts
<1>2. sending' = <<>> /\ txq' = txq /\ parsed' = parsed /\ Latest' = Latest
  BY DEF SenderSends, Latest, parserVars
<1> HIDE DEF x
<1>3. <<>> \o txq = txq
  BY <1>1, FrameSequences
<1>4. /\ Pipeline = ((<<x>> \o txq) \o parsed) \o Latest
      /\ Pipeline' = ((<<>> \o txq) \o parsed) \o Latest
  BY <1>1, <1>2, PartsTyped, NextPartsTyped DEF Parts
<1>5. /\ Without(((<<x>> \o txq) \o parsed) \o Latest, 1, (txq \o parsed) \o Latest)
      /\ (((<<x>> \o txq) \o parsed) \o Latest)[1] = x
  BY <1>1, FirstLeaves
<1>6. Without(Pipeline, 1, Pipeline') /\ Pipeline[1] = x
  BY <1>3, <1>4, <1>5, Zenon
<1> QED
  BY <1>1, <1>6 DEF x

\* A local frame is queued for the bus.
LEMMA EnablesFrame ==
    ASSUME Typed, Typed', EnablesInterrupt
    PROVE  \/ Pipeline' = Pipeline
           \/ \E p \in Nat : Without(Pipeline', p, Pipeline) /\ Pipeline'[p] = Local
<1>1. /\ sending \in Seq(Frame) /\ txq \in Seq(Frame) /\ parsed \in Seq(Frame)
      /\ Latest \in Seq(Frame) /\ Local \in Frame
  BY PartsTyped, LinkAssumption DEF Parts, Local, Frame, Undefined, LinkAssumption
<1>2. /\ sending' = sending /\ parsed' = parsed /\ Latest' = Latest
      /\ txq' = txq \o <<Local>> \/ txq' = txq
  BY <1>1, QueuedOrDropped DEF EnablesInterrupt, Latest, parserVars
<1>3. /\ Pipeline = ((sending \o txq) \o parsed) \o Latest
      /\ Pipeline' = ((sending \o txq') \o parsed) \o Latest
  BY <1>2, PartsTyped, NextPartsTyped DEF Parts
<1> DEFINE q == ((sending \o txq) \o (<<Local>> \o parsed)) \o Latest
<1>4. (sending \o (txq \o <<Local>>)) \o parsed = (sending \o txq) \o (<<Local>> \o parsed)
  <2>1. Moves(sending, txq, parsed, Local)
    BY <1>1, MovedOn, Zenon
  <2> QED
    BY <2>1 DEF Moves
<1>5. /\ Without(q, Len(sending \o txq) + 1, ((sending \o txq) \o parsed) \o Latest)
      /\ q[Len(sending \o txq) + 1] = Local /\ Len(sending \o txq) + 1 \in Nat
  <2>1. Drops(sending, txq, parsed, Latest, Local)
    BY <1>1, DroppedBetween, Zenon
  <2> QED
    BY <2>1, Zenon DEF Drops
<1> QED
  BY <1>2, <1>3, <1>4, <1>5, Zenon

-------------------------------------------------------------------------------
(* What the steps do to the invariant and to the damage. *)

Before(f, n, t) == f <= n /\ \A i \in DOMAIN t : t[i].part = "begin" => f < t[i].n

\* What a step leaves of the text, from its first or its later pieces on, is in
\* order, and later than all that the text was later than.
LEMMA TextKept ==
    ASSUME Typed, Typed', TextInOrder, sent' = sent, begun' = begun,
           NEW k \in Nat, Len(Text') + k <= Len(Text),
           \A i \in 1..Len(Text') : Text'[i] = Text[i + k]
    PROVE  TextInOrder' /\ \A f : Before(f, sent, Text) => Before(f, sent', Text')
<1> DEFINE m == sent + (IF begun THEN 1 ELSE 0)
<1>1. /\ Len(Text) \in Nat /\ DOMAIN Text = 1..Len(Text)
      /\ Len(Text') \in Nat /\ DOMAIN Text' = 1..Len(Text')
  BY WholesTyped, NextPartsTyped DEF Wholes
<1>2. \A i \in DOMAIN Text' : i + k \in DOMAIN Text /\ Text'[i] = Text[i + k]
  BY <1>1
<1>3. (sent + (IF begun THEN 1 ELSE 0))' = m
  OBVIOUS
<1> HIDE DEF m
<1>4. ASSUME NEW i \in DOMAIN Text'
      PROVE  IF Text'[i].part = "begin"
             THEN /\ Text'[i].n <= m
                  /\ \A j \in 1..(i - 1) : Text'[j].part = "begin" => Text'[j].n < Text'[i].n
             ELSE Text'[i].n <= sent
  <2>1. IF Text[i + k].part = "begin"
        THEN /\ Text[i + k].n <= m
             /\ \A j \in 1..(i + k - 1) : Text[j].part = "begin" => Text[j].n < Text[i + k].n
        ELSE Text[i + k].n <= sent
    BY <1>2 DEF TextInOrder, m
  <2>2. ASSUME NEW j \in 1..(i - 1) PROVE j \in DOMAIN Text' /\ j + k \in 1..(i + k - 1)
    BY <1>1
  <2> QED
    BY <1>2, <2>1, <2>2
<1>5. TextInOrder'
  BY <1>3, <1>4 DEF TextInOrder
<1>6. \A f : Before(f, sent, Text) => Before(f, sent', Text')
  BY <1>2 DEF Before
<1> QED
  BY <1>5, <1>6

\* In the terms of the next state.
LEMMA InvariantFrom ==
    ASSUME TextInOrder', Before(Local, sent', Text'), Before(out', sent', Text'),
           Before(frame', sent', Text'),
           \A j \in DOMAIN Pipeline' : Before(Pipeline'[j], sent', Text')
    PROVE  ChannelInv'
  BY DEF ChannelInv, Passed, Before, Local

\* And of this state.
LEMMA InvariantGives ==
    ASSUME ChannelInv
    PROVE  /\ TextInOrder /\ Before(Local, sent, Text) /\ Before(out, sent, Text)
           /\ Before(frame, sent, Text)
           /\ \A j \in DOMAIN Pipeline : Before(Pipeline[j], sent, Text)
  BY DEF ChannelInv, Passed, Before, Local

\* Steps that leave the text as it is.
SameText == Text' = Text /\ sent' = sent /\ begun' = begun /\ frame' = frame

\* A frame leaves, perhaps for the bus.
LEMMA StepRemoves ==
    ASSUME Typed, Typed', ChannelInv, SameText,
           NEW p, Without(Pipeline, p, Pipeline'),
           out' = out \/ (p = 1 /\ out' = Pipeline[1])
    PROVE  /\ ChannelInv' /\ Damage' <= Damage
           /\ p \in Again(Pipeline, out) => Damage' < Damage
<1>1. /\ Pipeline \in Seq(Frame) /\ Pipeline' \in Seq(Frame) /\ out \in Nat /\ out' \in Nat
      /\ Len(Pipeline) \in Nat /\ DOMAIN Pipeline = 1..Len(Pipeline)
      /\ Len(Pipeline') \in Nat /\ DOMAIN Pipeline' = 1..Len(Pipeline')
  BY WholesTyped, NextPartsTyped DEF Wholes
<1>2. /\ Cardinality(Again(Pipeline', out')) <= Cardinality(Again(Pipeline, out))
      /\ p \in Again(Pipeline, out) => Cardinality(Again(Pipeline', out')) < Cardinality(Again(Pipeline, out))
  BY <1>1, AgainRemoved
<1>3. Damage' <= Damage /\ (p \in Again(Pipeline, out) => Damage' < Damage)
  <2>1. /\ Cardinality(Torn(Text)) \in Nat /\ Cardinality(Again(Pipeline, out)) \in Nat
        /\ Cardinality(Again(Pipeline', out')) \in Nat
    BY WholesTyped, NextPartsTyped DEF Wholes
  <2>2. /\ Damage = Cardinality(Torn(Text)) + Cardinality(Again(Pipeline, out))
        /\ Damage' = Cardinality(Torn(Text)) + Cardinality(Again(Pipeline', out'))
    BY DEF Damage, SameText
  <2> QED
    BY <1>2, <2>1, <2>2
<1>4. \A j \in DOMAIN Pipeline' : \E i \in DOMAIN Pipeline : Pipeline'[j] = Pipeline[i]
  <2> SUFFICES ASSUME NEW j \in 1..Len(Pipeline')
               PROVE  \E i \in 1..Len(Pipeline) : Pipeline'[j] = Pipeline[i]
    BY <1>1
  <2>1. CASE j < p
    BY <1>1, <2>1 DEF Without
  <2>2. CASE j >= p
    <3>1. j + 1 \in 1..Len(Pipeline) /\ Pipeline'[j] = Pipeline[j + 1]
      BY <1>1, <2>2 DEF Without
    <3> QED
      BY <3>1
  <2> QED
    BY <1>1, <2>1, <2>2 DEF Without
<1>5. 1 \in DOMAIN Pipeline
  BY <1>1 DEF Without
<1>6. ChannelInv'
  <2>1. TextInOrder'
    BY InvariantGives DEF TextInOrder, SameText
  <2>2. /\ Before(Local, sent', Text') /\ Before(out', sent', Text') /\ Before(frame', sent', Text')
        /\ \A j \in DOMAIN Pipeline' : Before(Pipeline'[j], sent', Text')
    BY <1>4, <1>5, InvariantGives DEF SameText
  <2> QED
    BY <2>1, <2>2, InvariantFrom
<1> QED
  BY <1>3, <1>6

\* A local frame comes.
LEMMA StepInserts ==
    ASSUME Typed, Typed', ChannelInv, SameText, out' = out,
           NEW p, Without(Pipeline', p, Pipeline), Pipeline'[p] = Local
    PROVE  ChannelInv' /\ Damage' <= Damage
<1>1. /\ Pipeline \in Seq(Frame) /\ Pipeline' \in Seq(Frame) /\ out \in Nat
      /\ Len(Pipeline) \in Nat /\ DOMAIN Pipeline = 1..Len(Pipeline)
      /\ Len(Pipeline') \in Nat /\ DOMAIN Pipeline' = 1..Len(Pipeline')
  BY WholesTyped, NextPartsTyped DEF Wholes
<1>2. Cardinality(Again(Pipeline', out)) <= Cardinality(Again(Pipeline, out))
  BY <1>1, AgainInserted
<1>3. Damage' <= Damage
  <2>1. /\ Cardinality(Torn(Text)) \in Nat /\ Cardinality(Again(Pipeline, out)) \in Nat
        /\ Cardinality(Again(Pipeline', out')) \in Nat
    BY WholesTyped, NextPartsTyped DEF Wholes
  <2>2. /\ Damage = Cardinality(Torn(Text)) + Cardinality(Again(Pipeline, out))
        /\ Damage' = Cardinality(Torn(Text)) + Cardinality(Again(Pipeline', out'))
    BY DEF Damage, SameText
  <2> QED
    BY <1>2, <2>1, <2>2
<1>4. \A j \in DOMAIN Pipeline' :
          Pipeline'[j] = Local \/ \E i \in DOMAIN Pipeline : Pipeline'[j] = Pipeline[i]
  <2> SUFFICES ASSUME NEW j \in 1..Len(Pipeline'), j # p
               PROVE  \E i \in 1..Len(Pipeline) : Pipeline'[j] = Pipeline[i]
    BY <1>1
  <2>1. CASE j < p
    BY <1>1, <2>1 DEF Without
  <2>2. CASE j > p
    <3>1. j - 1 \in p..Len(Pipeline) /\ j - 1 \in 1..Len(Pipeline) /\ (j - 1) + 1 = j
      BY <1>1, <2>2 DEF Without
    <3>2. Pipeline[j - 1] = Pipeline'[j]
      BY <3>1 DEF Without
    <3> QED
      BY <3>1, <3>2
  <2> QED
    BY <1>1, <2>1, <2>2 DEF Without
<1>5. ChannelInv'
  <2>1. TextInOrder'
    BY InvariantGives DEF TextInOrder, SameText
  <2>2. /\ Before(Local, sent', Text') /\ Before(out', sent', Text') /\ Before(frame', sent', Text')
        /\ \A j \in DOMAIN Pipeline' : Before(Pipeline'[j], sent', Text')
    BY <1>4, InvariantGives DEF SameText
  <2> QED
    BY <2>1, <2>2, InvariantFrom
<1> QED
  BY <1>3, <1>5

\* Nothing comes or leaves.
LEMMA StepKeeps ==
    ASSUME ChannelInv, SameText, out' = out, Pipeline' = Pipeline
    PROVE  ChannelInv' /\ Damage' = Damage
<1>1. TextInOrder'
  BY InvariantGives DEF TextInOrder, SameText
<1>2. /\ Before(Local, sent', Text') /\ Before(out', sent', Text') /\ Before(frame', sent', Text')
      /\ \A j \in DOMAIN Pipeline' : Before(Pipeline'[j], sent', Text')
  BY InvariantGives DEF SameText
<1>3. Damage' = Damage
  BY DEF Damage, SameText
<1> QED
  BY <1>1, <1>2, <1>3, InvariantFrom

-------------------------------------------------------------------------------
(* Steps that write, receive or parse text. *)

\* Pieces of text may be cut and joined anywhere as well.
LEMMA TextJoined == \A s, t, u \in Seq(Halves) : Joins(s, t, u)
  BY ConcatAssociative DEF Joins

\* What else is used of them.
LEMMA TextSequences ==
    /\ \A s, t \in Seq(Halves) : s \o t \in Seq(Halves) /\ Len(s \o t) = Len(s) + Len(t)
    /\ \A s \in Seq(Halves) : s \o <<>> = s /\ <<>> \o s = s /\ Len(s) \in Nat
    /\ <<>> \in Seq(Halves) /\ Len(<<>>) = 0
    /\ \A h \in Halves : <<h>> \in Seq(Halves) /\ Len(<<h>>) = 1 /\ <<h>>[1] = h
    /\ \A s \in Seq(Halves), h \in Halves : Append(s, h) = s \o <<h>> /\ Append(s, h) \in Seq(Halves)
  BY ConcatProperties, ConcatEmptySeq, EmptySeq, LenProperties, AppendIsConcat, AppendProperties

\* The first and the later pieces of a text.
LEMMA TextParts ==
    ASSUME NEW s \in Seq(Halves), NEW t \in Seq(Halves)
    PROVE  /\ \A i \in 1..Len(s) : (s \o t)[i] = s[i]
           /\ \A i \in 1..Len(t) : (s \o t)[i + Len(s)] = t[i]
<1>1. Len(s) \in Nat /\ Len(t) \in Nat
  BY LenProperties
<1>2. \A i \in 1..(Len(s) + Len(t)) : (s \o t)[i] = IF i <= Len(s) THEN s[i] ELSE t[i - Len(s)]
  BY ConcatProperties
<1>3. ASSUME NEW i \in 1..Len(t) PROVE (s \o t)[i + Len(s)] = t[i]
  <2>1. i + Len(s) \in 1..(Len(s) + Len(t)) /\ ~(i + Len(s) <= Len(s)) /\ (i + Len(s)) - Len(s) = i
    BY <1>1
  <2> QED
    BY <1>2, <2>1
<1>4. \A i \in 1..Len(s) : (s \o t)[i] = s[i]
  BY <1>1, <1>2
<1> QED
  BY <1>3, <1>4

\* The computer writes: a piece is appended to the text.
LEMMA StepWrites ==
    ASSUME Typed, Typed', ChannelInv, NEW h \in Halves, usb' = Append(usb, h),
           UNCHANGED <<ring, parserVars, busVars>>,
           sent' \in Nat, sent <= sent',
           sent + (IF begun THEN 1 ELSE 0) <= sent' + (IF begun' THEN 1 ELSE 0),
           IF h.part = "begin"
           THEN h.n > sent + (IF begun THEN 1 ELSE 0) /\ h.n <= sent' + (IF begun' THEN 1 ELSE 0) /\ h.n > sent'
           ELSE h.n <= sent'
    PROVE  /\ ChannelInv'
           /\ Damage' \in {Damage, Damage + 1}
           /\ h.part = "begin" => Damage' = Damage
<1>1. /\ Pipeline' = Pipeline /\ out' = out /\ frame' = frame /\ HalfLine' = HalfLine /\ ring' = ring
  BY DEF parserVars, busVars, Pipeline, HalfLine
<1>2. /\ HalfLine \in Seq(Halves) /\ ring \in Seq(Halves) /\ usb \in Seq(Halves)
      /\ Text = (HalfLine \o ring) \o usb
      /\ Text' = (HalfLine \o ring) \o Append(usb, h)
  BY <1>1, PartsTyped, NextPartsTyped DEF Parts
<1>3. Text' = Append(Text, h)
  <2> DEFINE s == HalfLine \o ring
             e == <<h>>
  <2>1. s \in Seq(Halves) /\ e \in Seq(Halves) /\ Append(usb, h) = usb \o e
    BY <1>2, TextSequences
  <2> HIDE DEF s
  <2>2. s \o usb \in Seq(Halves)
    BY <1>2, <2>1, TextSequences
  <2>3. Append(s \o usb, h) = (s \o usb) \o e
    BY <2>2, TextSequences
  <2> HIDE DEF e
  <2>4. (s \o usb) \o e = s \o (usb \o e)
    <3>1. Joins(s, usb, e)
      BY <1>2, <2>1, TextJoined, Zenon
    <3> QED
      BY <3>1 DEF Joins
  <2> QED
    BY <1>2, <2>1, <2>3, <2>4, Zenon DEF s
<1>4. /\ Text \in Seq(Halves) /\ Len(Text) \in Nat /\ DOMAIN Text = 1..Len(Text)
      /\ \A i \in DOMAIN Text : Text[i].n \in Nat
      /\ sent \in Nat /\ out \in Nat /\ frame \in Int /\ \A j \in DOMAIN Pipeline : Pipeline[j] \in Int
  BY WholesTyped DEF Wholes
<1>5. /\ DOMAIN Text' = 1..(Len(Text) + 1) /\ Text'[Len(Text) + 1] = h
      /\ \A i \in 1..Len(Text) : Text'[i] = Text[i]
  BY <1>3, <1>4, AppendProperties, LenProperties
<1>6. h.n \in Nat /\ h.part \in {"begin", "end"}
  BY LinkAssumption DEF Halves, LinkAssumption
<1> DEFINE m == sent + (IF begun THEN 1 ELSE 0)
<1>7. m \in Nat /\ m' \in Nat /\ sent <= m /\ m <= m'
  <2> DEFINE b == IF begun THEN 1 ELSE 0
  <2>1. b \in Nat /\ b' \in Nat /\ sent + b <= sent' + b'
    OBVIOUS
  <2> HIDE DEF b
  <2>2. sent + b \in Nat /\ sent' + b' \in Nat /\ sent <= sent + b
    BY <1>4, <2>1
  <2> QED
    BY <2>1, <2>2 DEF b
<1>8. TextInOrder'
  <2> SUFFICES ASSUME NEW i \in 1..(Len(Text) + 1)
               PROVE  IF Text'[i].part = "begin"
                      THEN /\ Text'[i].n <= m'
                           /\ \A j \in 1..(i - 1) : Text'[j].part = "begin" => Text'[j].n < Text'[i].n
                      ELSE Text'[i].n <= sent'
    BY <1>5 DEF TextInOrder
  <2>1. ASSUME NEW x \in 1..Len(Text)
        PROVE  IF Text[x].part = "begin"
               THEN /\ Text[x].n <= m
                    /\ \A j \in 1..(x - 1) : Text[j].part = "begin" => Text[j].n < Text[x].n
               ELSE Text[x].n <= sent
    BY <1>4 DEF ChannelInv, TextInOrder
  <2> HIDE DEF m
  <2>2. CASE i \in 1..Len(Text)
    <3>1. Text'[i] = Text[i] /\ Text[i].n \in Nat /\ \A j \in 1..(i - 1) : Text'[j] = Text[j]
      <4>1. \A j \in 1..(i - 1) : j \in 1..Len(Text)
        BY <1>4, <2>2
      <4>2. i \in DOMAIN Text
        BY <1>4, <2>2
      <4>3. Text[i].n \in Nat
        BY <1>4, <4>2, Zenon
      <4> QED
        BY <1>5, <2>2, <4>1, <4>3
    <3> QED
      BY <1>4, <1>7, <2>1, <2>2, <3>1
  <2>3. CASE i = Len(Text) + 1
    <3>1. Text'[i] = h /\ \A j \in 1..(i - 1) : Text'[j] = Text[j] /\ j \in 1..Len(Text)
      BY <1>4, <1>5, <2>3
    <3>2. \A j \in 1..(i - 1) : Text'[j].part = "begin" => Text'[j].n <= m /\ Text'[j].n \in Nat
      BY <1>4, <2>1, <3>1
    <3>3. h.part = "begin" => h.n > m /\ h.n <= m'
      BY DEF m
    <3>4. h.part # "begin" => h.n <= sent'
      OBVIOUS
    <3>5. h.part = "begin" => \A j \in 1..(i - 1) : Text'[j].part = "begin" => Text'[j].n < h.n
      BY <1>6, <1>7, <3>2, <3>3
    <3> QED
      BY <3>1, <3>3, <3>4, <3>5
  <2>4. i \in 1..Len(Text) \/ i = Len(Text) + 1
    BY <1>4
  <2> QED
    BY <2>2, <2>3, <2>4
<1>9. ASSUME NEW f \in Int, Before(f, sent, Text) PROVE Before(f, sent', Text')
  <2>1. f <= sent'
    BY <1>4, <1>9 DEF Before
  <2>2. \A i \in DOMAIN Text' : Text'[i].part = "begin" => f < Text'[i].n
    <3> SUFFICES ASSUME NEW i \in 1..(Len(Text) + 1), Text'[i].part = "begin" PROVE f < Text'[i].n
      BY <1>5
    <3>1. CASE i \in 1..Len(Text)
      BY <1>4, <1>5, <1>9, <3>1 DEF Before
    <3>2. CASE i = Len(Text) + 1
      BY <1>5, <1>6, <2>1, <3>2
    <3>3. i \in 1..Len(Text) \/ i = Len(Text) + 1
      BY <1>4
    <3> QED
      BY <3>1, <3>2, <3>3
  <2> QED
    BY <2>1, <2>2 DEF Before
<1>10. ChannelInv'
  <2>1. Local \in Int
    BY DEF Local
  <2>2. /\ Before(Local, sent', Text') /\ Before(out, sent', Text') /\ Before(frame, sent', Text')
        /\ \A j \in DOMAIN Pipeline : Before(Pipeline[j], sent', Text')
    BY <1>4, <1>9, <2>1, InvariantGives
  <2> QED
    BY <1>1, <1>8, <2>2, InvariantFrom
<1>11. /\ Cardinality(Torn(Text')) \in {Cardinality(Torn(Text)), Cardinality(Torn(Text)) + 1}
       /\ h.part = "begin" => Torn(Text') = Torn(Text)
  BY <1>3, <1>4, TornAppended
<1>12. /\ Damage = Cardinality(Torn(Text)) + Cardinality(Again(Pipeline, out))
       /\ Damage' = Cardinality(Torn(Text')) + Cardinality(Again(Pipeline, out))
       /\ Cardinality(Torn(Text)) \in Nat /\ Cardinality(Again(Pipeline, out)) \in Nat
  BY <1>1, WholesTyped DEF Damage, Wholes
<1> QED
  BY <1>10, <1>11, <1>12

\* The interrupt handler puts what was written into the ring: the end of it is
\* lost when the ring is full.
LEMMA StepReceives ==
    ASSUME Typed, Typed', ChannelInv, Receives
    PROVE  ChannelInv' /\ Damage' <= Damage
<1> DEFINE taken == Accepted(ring, usb)
           rest == SubSeq(usb, Len(taken) + 1, Len(usb))
           s == HalfLine \o ring
<1>1. /\ HalfLine \in Seq(Halves) /\ ring \in Seq(Halves) /\ usb \in Seq(Halves)
      /\ Text = s \o usb /\ Text' = (HalfLine \o (ring \o taken)) \o <<>>
  <2>1. ring' = ring \o taken /\ usb' = <<>> /\ HalfLine' = HalfLine
    BY DEF Receives, parserVars, HalfLine
  <2> QED
    BY <2>1, PartsTyped, NextPartsTyped DEF Parts
<1>2. taken \in Seq(Halves) /\ rest \in Seq(Halves) /\ taken \o rest = usb
  <2>1. RingSize - Len(ring) \in Nat
    <3>1. Len(ring) <= RingSize /\ RingSize \in Nat /\ Len(ring) \in Nat
      BY <1>1, LenProperties, LinkAssumption DEF Typed, TypeOK, SeqUpTo, LinkAssumption
    <3> QED
      BY <3>1
  <2> QED
    BY <1>1, <2>1, FirstFacts DEF Accepted
<1> HIDE DEF taken, rest
<1>3. s \in Seq(Halves) /\ ring \o taken \in Seq(Halves)
  BY <1>1, <1>2, TextSequences
<1>4. HalfLine \o (ring \o taken) = s \o taken
  <2>1. Joins(HalfLine, ring, taken)
    BY <1>1, <1>2, TextJoined, Zenon
  <2> QED
    BY <2>1 DEF Joins
<1>5. (HalfLine \o (ring \o taken)) \o <<>> = HalfLine \o (ring \o taken)
  BY <1>1, <1>3, TextSequences
<1> HIDE DEF s
<1>6. s \o taken \in Seq(Halves) /\ Text' = s \o taken
  BY <1>1, <1>2, <1>3, <1>4, <1>5, TextSequences
<1>7. (s \o taken) \o rest = s \o (taken \o rest)
  <2>1. Joins(s, taken, rest)
    BY <1>2, <1>3, TextJoined, Zenon
  <2> QED
    BY <2>1 DEF Joins
<1>8. Text = Text' \o rest
  BY <1>1, <1>2, <1>6, <1>7
<1>9. /\ Text \in Seq(Halves) /\ Text' \in Seq(Halves) /\ Len(Text') \in Nat /\ Len(Text') <= Len(Text)
      /\ \A i \in 1..Len(Text') : Text'[i] = Text[i]
  <2>1. Text' \in Seq(Halves) /\ Text \in Seq(Halves)
    BY WholesTyped, NextPartsTyped DEF Wholes
  <2>2. \A i \in 1..Len(Text') : (Text' \o rest)[i] = Text'[i]
    BY <1>2, <2>1, TextParts
  <2>3. Len(Text' \o rest) = Len(Text') + Len(rest) /\ Len(rest) \in Nat /\ Len(Text') \in Nat
    BY <1>2, <2>1, TextSequences
  <2> QED
    BY <1>8, <2>1, <2>2, <2>3
<1>10. /\ sent' = sent /\ begun' = begun /\ frame' = frame /\ out' = out /\ Pipeline' = Pipeline
  BY DEF Receives, parserVars, busVars, Pipeline
<1>11. ChannelInv'
  <2>1. \A i \in 1..Len(Text') : Text'[i] = Text[i + 0]
    BY <1>9
  <2>2. Len(Text') + 0 <= Len(Text) /\ 0 \in Nat
    BY <1>9
  <2>3. TextInOrder' /\ \A f : Before(f, sent, Text) => Before(f, sent', Text')
    BY <1>10, <2>1, <2>2, InvariantGives, TextKept
  <2> QED
    BY <1>10, <2>3, InvariantGives, InvariantFrom
<1>12. Damage' <= Damage
  <2>1. Cardinality(Torn(Text')) <= Cardinality(Torn(Text))
    BY <1>9, TornCut
  <2>2. /\ Cardinality(Torn(Text)) \in Nat /\ Cardinality(Torn(Text')) \in Nat
        /\ Cardinality(Again(Pipeline, out)) \in Nat
    BY WholesTyped, NextPartsTyped DEF Wholes
  <2> QED
    BY <1>10, <2>1, <2>2 DEF Damage
<1> QED
  BY <1>11, <1>12

\* The parse thread reads the beginning of a frame.
LEMMA StepReadsBegin ==
    ASSUME Typed, Typed', ChannelInv, ParserReads, Head(ring).part = "begin"
    PROVE  ChannelInv' /\ Damage' <= Damage
<1> DEFINE h == Head(ring)
           t == Tail(ring)
           e == <<h>>
<1>1. h \in Halves /\ t \in Seq(Halves) /\ ring = e \o t /\ e \in Seq(Halves)
        /\ HalfLine \in Seq(Halves) /\ usb \in Seq(Halves)
  <2>1. ring # <<>> /\ ring \in Seq(Halves)
    BY PartsTyped DEF Parts, ParserReads
  <2> QED
    BY <2>1, PartsTyped, HeadAndTail DEF Parts
<1>2. /\ line' = h.n /\ ring' = t /\ usb' = usb /\ sent' = sent /\ begun' = begun /\ frame' = frame
      /\ out' = out /\ Pipeline' = Pipeline /\ HalfLine \in {<<>>, <<Begin(line)>>}
  BY DEF ParserReads, busVars, Pipeline, HalfLine
<1>3. h = Begin(h.n)
  BY <1>1 DEF Halves, Begin, Piece
<1>4. /\ Text = (HalfLine \o (e \o t)) \o usb
      /\ Text' = (HalfLine' \o t) \o usb
      /\ Text \in Seq(Halves) /\ Text' \in Seq(Halves) /\ Len(Text) \in Nat /\ Len(Text') \in Nat
      /\ DOMAIN Text = 1..Len(Text) /\ HalfLine' \in Seq(Halves)
  BY <1>1, <1>2, PartsTyped, NextPartsTyped, WholesTyped DEF Parts, Wholes
<1> HIDE DEF h, t
<1> DEFINE r == (e \o t) \o usb
<1>5. Text = HalfLine \o r /\ r \in Seq(Halves) /\ Len(HalfLine) \in Nat
        /\ Len(Text) = Len(HalfLine) + Len(r) /\ Len(r) \in Nat
  <2> DEFINE et == e \o t
  <2>1. et \in Seq(Halves)
    BY <1>1, TextSequences
  <2> HIDE DEF e, et
  <2>2. (HalfLine \o et) \o usb = HalfLine \o (et \o usb)
    <3>1. Joins(HalfLine, et, usb)
      BY <1>1, <2>1, TextJoined, Zenon
    <3> QED
      BY <3>1 DEF Joins
  <2>3. et \o usb \in Seq(Halves)
    BY <1>1, <2>1, TextSequences
  <2>4. Text = HalfLine \o (et \o usb)
    BY <1>4, <2>2 DEF et
  <2>5. Len(HalfLine \o (et \o usb)) = Len(HalfLine) + Len(et \o usb) /\ Len(HalfLine) \in Nat
          /\ Len(et \o usb) \in Nat
    BY <1>1, <2>3, TextSequences
  <2> QED
    BY <2>3, <2>4, <2>5 DEF et
<1>6. Len(r) > 0 /\ r[1] = h
  <2>1. t \o usb \in Seq(Halves) /\ r = e \o (t \o usb) /\ Len(e) = 1 /\ e[1] = h
    <3>1. Len(e) = 1 /\ e[1] = h
      OBVIOUS
    <3> HIDE DEF e
    <3>2. (e \o t) \o usb = e \o (t \o usb)
      <4>1. Joins(e, t, usb)
        BY <1>1, TextJoined, Zenon
      <4> QED
        BY <4>1 DEF Joins
    <3> QED
      BY <1>1, <3>1, <3>2, TextSequences
  <2> HIDE DEF r, e
  <2>2. \A i \in 1..Len(e) : (e \o (t \o usb))[i] = e[i]
    BY <1>1, <2>1, TextParts
  <2>3. Len(e \o (t \o usb)) = Len(e) + Len(t \o usb) /\ Len(t \o usb) \in Nat
    BY <1>1, <2>1, TextSequences
  <2> QED
    BY <2>1, <2>2, <2>3
<1> HIDE DEF r
<1>7. \A i \in 1..Len(r) : Text[i + Len(HalfLine)] = r[i]
  BY <1>1, <1>5, TextParts
<1>8. h.n > 0
  <2>1. 1 + Len(HalfLine) \in DOMAIN Text /\ Text[1 + Len(HalfLine)] = h
    BY <1>4, <1>5, <1>6, <1>7
  <2>2. Before(Local, sent, Text) /\ h.part = "begin"
    BY InvariantGives DEF h
  <2> QED
    BY <2>1, <2>2 DEF Before, Local
<1>9. Text' = r
  <2>1. HalfLine' = <<Begin(h.n)>>
    <3>1. h.n # 0
      BY <1>8
    <3> QED
      BY <1>2, <3>1 DEF HalfLine
  <2> QED
    BY <1>3, <1>4, <2>1 DEF r
<1>10. ChannelInv'
  <2>1. Len(Text') + Len(HalfLine) <= Len(Text) /\ \A i \in 1..Len(Text') : Text'[i] = Text[i + Len(HalfLine)]
    BY <1>5, <1>7, <1>9
  <2>2. TextInOrder' /\ \A f : Before(f, sent, Text) => Before(f, sent', Text')
    BY <1>2, <1>5, <2>1, InvariantGives, TextKept
  <2> QED
    BY <1>2, <2>2, InvariantGives, InvariantFrom
<1>11. Damage' <= Damage
  <2>1. Cardinality(Torn(r)) <= Cardinality(Torn(Text))
    <3>1. r[1].part = "begin" /\ Len(Text) = Len(r) + Len(HalfLine)
      BY <1>5, <1>6 DEF h
    <3>2. \A i \in 1..Len(r) : r[i] = Text[i + Len(HalfLine)]
      BY <1>7
    <3> QED
      BY <1>4, <1>5, <3>1, <3>2, TornParsed
  <2>2. /\ Cardinality(Torn(Text)) \in Nat /\ Cardinality(Torn(Text')) \in Nat
        /\ Cardinality(Again(Pipeline, out)) \in Nat
    BY WholesTyped, NextPartsTyped DEF Wholes
  <2> QED
    BY <1>2, <1>9, <2>1, <2>2 DEF Damage
<1> QED
  BY <1>10, <1>11

\* It reads a delimiter, and takes what there is for a frame.
LEMMA StepReadsEnd ==
    ASSUME Typed, Typed', ChannelInv, ParserReads, Head(ring).part # "begin"
    PROVE  ChannelInv' /\ Damage' <= Damage
<1> DEFINE h == Head(ring)
           t == Tail(ring)
           e == <<h>>
           r == t \o usb
           k == Len(HalfLine) + 1
<1>1. h \in Halves /\ t \in Seq(Halves) /\ ring = e \o t /\ e \in Seq(Halves)
        /\ HalfLine \in Seq(Halves) /\ usb \in Seq(Halves)
  <2>1. ring # <<>> /\ ring \in Seq(Halves)
    BY PartsTyped DEF Parts, ParserReads
  <2> QED
    BY <2>1, PartsTyped, HeadAndTail DEF Parts
<1>2. /\ line' = 0 /\ frame' \in ParsedFrames(h) /\ ring' = t /\ usb' = usb
      /\ sent' = sent /\ begun' = begun /\ out' = out
      /\ HalfLine = (IF line = 0 THEN <<>> ELSE <<Begin(line)>>) /\ HalfLine' = <<>>
      /\ h.part = "end" /\ h.n \in Nat
  BY <1>1 DEF ParserReads, busVars, HalfLine, Halves
<1>3. Pipeline' = Append(Pipeline, frame') /\ frame' \in Frame
  <2> DEFINE A == (sending \o txq) \o parsed
  <2>1. A \in Seq(Frame) /\ Pipeline = A \o Latest /\ Latest = <<>> /\ frame' \in Frame
    <3>1. sending \o txq \in Seq(Frame)
      BY PartsTyped, FrameSequences DEF Parts
    <3> QED
      BY <3>1, PartsTyped, FrameSequences DEF Parts, ParserReads, Latest, Typed, TypeOK
  <2>2. Pipeline' = A \o <<frame'>>
    BY NextPartsTyped DEF Parts, ParserReads, Latest, busVars
  <2> HIDE DEF A
  <2>3. Pipeline = A
    BY <2>1, FrameSequences
  <2>4. Append(A, frame') = A \o <<frame'>>
    BY <2>1, FrameSequences
  <2> QED
    BY <2>1, <2>2, <2>3, <2>4
<1> HIDE DEF h, t
<1>4. /\ r \in Seq(Halves) /\ Text = (HalfLine \o e) \o r /\ Text' = r
      /\ HalfLine \o e \in Seq(Halves) /\ Len(HalfLine \o e) = k
      /\ Len(HalfLine) \in Nat /\ Len(r) \in Nat /\ Len(Text) = Len(r) + k
      /\ Text \in Seq(Halves) /\ DOMAIN Text = 1..Len(Text) /\ Len(Text) \in Nat
      /\ DOMAIN r = 1..Len(r)
  <2>1. Text = (HalfLine \o (e \o t)) \o usb /\ Text' = (<<>> \o t) \o usb /\ Len(e) = 1
    BY <1>1, <1>2, PartsTyped, NextPartsTyped DEF Parts
  <2>2. <<>> \o t = t /\ r \in Seq(Halves) /\ e \o t \in Seq(Halves)
    BY <1>1, TextSequences
  <2>3. HalfLine \o (e \o t) = (HalfLine \o e) \o t
    <3> HIDE DEF e
    <3>1. Joins(HalfLine, e, t)
      BY <1>1, TextJoined, Zenon
    <3> QED
      BY <3>1 DEF Joins
  <2>4. HalfLine \o e \in Seq(Halves) /\ Len(HalfLine \o e) = Len(HalfLine) + Len(e)
          /\ Len(HalfLine) \in Nat
    BY <1>1, TextSequences
  <2> DEFINE he == HalfLine \o e
  <2>5. (he \o t) \o usb = he \o r
    <3> HIDE DEF he
    <3>1. he \in Seq(Halves)
      BY <2>4 DEF he
    <3>2. Joins(he, t, usb)
      BY <1>1, <3>1, TextJoined, Zenon
    <3> QED
      BY <3>2 DEF Joins
  <2>6. Text = he \o r
    BY <2>1, <2>3, <2>5
  <2>7. Len(he \o r) = Len(he) + Len(r) /\ Len(r) \in Nat
    <3> HIDE DEF he, r
    <3> QED
      BY <2>2, <2>4, TextSequences DEF he
  <2>8. Text \in Seq(Halves) /\ DOMAIN Text = 1..Len(Text) /\ Len(Text) \in Nat
    BY WholesTyped DEF Wholes
  <2>9. DOMAIN r = 1..Len(r)
    BY <2>2, LenProperties
  <2> HIDE DEF he, r, e
  <2>10. Len(Text) = Len(r) + k
    BY <2>1, <2>4, <2>6, <2>7 DEF he
  <2> QED
    BY <2>1, <2>2, <2>4, <2>6, <2>7, <2>8, <2>9, <2>10 DEF he, r
<1>5. \A i \in 1..Len(r) : Text[i + k] = r[i]
  BY <1>4, TextParts
<1>6. Text[k] = h /\ (line # 0 => Text[1] = Begin(line) /\ k = 2) /\ (line = 0 => k = 1)
  <2>1. \A i \in 1..k : Text[i] = (HalfLine \o e)[i]
    BY <1>4, TextParts
  <2>2. /\ \A i \in 1..Len(HalfLine) : (HalfLine \o e)[i] = HalfLine[i]
        /\ \A i \in 1..Len(e) : (HalfLine \o e)[i + Len(HalfLine)] = e[i]
    BY <1>1, TextParts
  <2>3. Len(e) = 1 /\ e[1] = h
    OBVIOUS
  <2> HIDE DEF e
  <2>4. (HalfLine \o e)[k] = h
    BY <1>4, <2>2, <2>3
  <2>5. CASE line = 0
    <3>1. Len(HalfLine) = 0
      BY <1>2, <2>5
    <3> QED
      BY <1>4, <2>1, <2>4, <2>5, <3>1
  <2>6. CASE line # 0
    <3>1. Len(HalfLine) = 1 /\ HalfLine[1] = Begin(line)
      BY <1>2, <2>6
    <3> QED
      BY <1>4, <2>1, <2>2, <2>4, <2>6, <3>1
  <2> QED
    BY <2>5, <2>6
<1>k. k \in 1..Len(Text) /\ k \in Nat
  BY <1>4
<1> HIDE DEF r, k
<1>7. TextInOrder' /\ \A f : Before(f, sent, Text) => Before(f, sent', Text')
  <2>1. Len(Text') + k <= Len(Text) /\ \A i \in 1..Len(Text') : Text'[i] = Text[i + k]
    BY <1>4, <1>5, <1>k
  <2> QED
    BY <1>2, <1>k, <2>1, InvariantGives, TextKept
<1>8. /\ Cardinality(Torn(r)) <= Cardinality(Torn(Text))
      /\ k \in Torn(Text) => Cardinality(Torn(r)) < Cardinality(Torn(Text))
  <2>1. Text[k].part = "end" /\ \A i \in 1..Len(r) : r[i] = Text[i + k]
    BY <1>2, <1>5, <1>6
  <2>2. k \in 1..k
    BY <1>k
  <2>3. /\ Cardinality(Torn(r)) <= Cardinality(Torn(Text))
        /\ \A z \in 1..k : z \in Torn(Text) => Cardinality(Torn(r)) < Cardinality(Torn(Text))
    BY <1>4, <1>k, <2>1, TornParsed
  <2> QED
    BY <2>2, <2>3
<1>9. /\ Cardinality(Again(Pipeline', out)) <= Cardinality(Again(Pipeline, out)) + 1
      /\ frame' > out /\ (\A j \in DOMAIN Pipeline : Pipeline[j] < frame')
           => Cardinality(Again(Pipeline', out)) <= Cardinality(Again(Pipeline, out))
  <2>1. Pipeline \in Seq(Frame) /\ out \in Nat
    BY WholesTyped DEF Wholes
  <2> QED
    BY <1>3, <2>1, AgainAppended
<1>10. /\ Damage = Cardinality(Torn(Text)) + Cardinality(Again(Pipeline, out))
       /\ Damage' = Cardinality(Torn(r)) + Cardinality(Again(Pipeline', out))
       /\ Cardinality(Torn(Text)) \in Nat /\ Cardinality(Torn(r)) \in Nat
       /\ Cardinality(Again(Pipeline, out)) \in Nat /\ Cardinality(Again(Pipeline', out)) \in Nat
  BY <1>2, <1>4, WholesTyped, NextPartsTyped DEF Wholes, Damage
<1>11. ASSUME Before(frame', sent', Text') PROVE ChannelInv'
  <2>1. Pipeline \in Seq(Frame) /\ Len(Pipeline) \in Nat /\ DOMAIN Pipeline = 1..Len(Pipeline)
    BY WholesTyped DEF Wholes
  <2>2. /\ DOMAIN Pipeline' = 1..(Len(Pipeline) + 1) /\ Pipeline'[Len(Pipeline) + 1] = frame'
        /\ \A j \in 1..Len(Pipeline) : Pipeline'[j] = Pipeline[j]
    BY <1>3, <2>1, AppendProperties, LenProperties
  <2>3. \A j \in DOMAIN Pipeline' : j \in DOMAIN Pipeline \/ Pipeline'[j] = frame'
    BY <2>1, <2>2
  <2>4. \A j \in DOMAIN Pipeline' : Before(Pipeline'[j], sent', Text')
    BY <1>7, <1>11, <2>1, <2>2, <2>3, InvariantGives
  <2> QED
    BY <1>2, <1>7, <1>11, <2>4, InvariantGives, InvariantFrom
<1>12. CASE h.n # 0 /\ line = h.n
  <2>1. frame' = line /\ line # 0 /\ Text[1] = Begin(line) /\ k = 2
    BY <1>2, <1>6, <1>12 DEF ParsedFrames
  <2>2. 1 \in DOMAIN Text /\ Text[1].part = "begin" /\ Text[1].n = line
    BY <1>4, <1>k, <2>1 DEF Begin, Piece
  <2>3. out < line /\ \A j \in DOMAIN Pipeline : Pipeline[j] < line
    BY <2>2, InvariantGives DEF Before
  <2>4. line <= sent
    <3>1. Text[k].n = line /\ Text[k].part # "begin" /\ k \in DOMAIN Text
      BY <1>2, <1>4, <1>6, <1>12, <1>k
    <3> QED
      BY <3>1, InvariantGives DEF TextInOrder
  <2>5. \A i \in DOMAIN Text' : Text'[i].part = "begin" => line < Text'[i].n
    <3> SUFFICES ASSUME NEW i \in 1..Len(r), r[i].part = "begin" PROVE line < r[i].n
      BY <1>4
    <3>1. i + k \in DOMAIN Text /\ Text[i + k] = r[i] /\ 1 \in 1..(i + k - 1)
      BY <1>4, <1>5, <1>k
    <3>2. TextInOrder
      BY InvariantGives
    <3> DEFINE x == i + k
    <3>6. r[i].part = "begin"
      OBVIOUS
    <3>4. x \in DOMAIN Text /\ Text[x].part = "begin"
      BY <3>1, <3>6, Zenon
    <3>7. x - 1 = i + k - 1
      BY <1>4, <1>k
    <3> HIDE DEF x
    <3>5. \A j \in 1..(x - 1) : Text[j].part = "begin" => Text[j].n < Text[x].n
      BY <3>2, <3>4 DEF TextInOrder
    <3>3. \A j \in 1..(i + k - 1) : Text[j].part = "begin" => Text[j].n < Text[i + k].n
      BY <3>4, <3>5, <3>7, Zenon DEF x
    <3> QED
      BY <2>2, <3>1, <3>3
  <2>6. ChannelInv'
    BY <1>2, <1>11, <2>1, <2>4, <2>5 DEF Before
  <2>7. line \in Nat /\ out \in Nat
    BY <1>2, <1>12, WholesTyped DEF Wholes
  <2>8. Damage' <= Damage
    BY <1>8, <1>9, <1>10, <2>1, <2>3, <2>7
  <2> QED
    BY <2>6, <2>8
<1>13. CASE ~(h.n # 0 /\ line = h.n)
  <2>1. frame' = frame \/ frame' = Undefined
    BY <1>2, <1>13 DEF ParsedFrames
  <2>2. k \in Torn(Text)
    <3>1. CASE line = 0
      BY <1>2, <1>4, <1>6, <1>k, <3>1 DEF Torn
    <3>2. CASE line # 0
      <4>1. k = 2 /\ Text[k - 1] = Begin(line) /\ line # h.n
        BY <1>6, <1>13, <3>2
      <4>2. Text[k - 1] # Begin(Text[k].n)
        BY <1>6, <4>1 DEF Begin, Piece
      <4> QED
        BY <1>2, <1>4, <1>6, <1>k, <4>2 DEF Torn
    <3> QED
      BY <3>1, <3>2
  <2>3. Before(frame', sent', Text')
    <3>1. CASE frame' = frame
      BY <1>7, <3>1, InvariantGives
    <3>2. CASE frame' = Undefined
      <4>1. Before(0, sent', Text')
        BY <1>7, InvariantGives DEF Local
      <4>2. sent' \in Nat /\ \A i \in DOMAIN Text' : Text'[i].n \in Nat
        BY NextPartsTyped DEF Wholes
      <4> QED
        BY <3>2, <4>1, <4>2 DEF Before, Undefined
    <3> QED
      BY <2>1, <3>1, <3>2
  <2>4. Damage' <= Damage
    BY <1>8, <1>9, <1>10, <2>2
  <2> QED
    BY <1>11, <2>3, <2>4
<1> QED
  BY <1>12, <1>13

-------------------------------------------------------------------------------
(* The refinement. *)

\* The invariant holds at first.
LEMMA InitChannel == Init => ChannelInv /\ Channel!Init
<1> SUFFICES ASSUME Init PROVE ChannelInv /\ Channel!Init
  OBVIOUS
<1>1. Text = <<>> /\ Pipeline = <<>>
  <2>1. Typed
    BY InitTyped
  <2>2. HalfLine = <<>> /\ ring = <<>> /\ usb = <<>> /\ sending = <<>> /\ txq = <<>>
          /\ parsed = <<>> /\ Latest = <<>>
    BY DEF Init, HalfLine, Latest
  <2>3. Text = (<<>> \o <<>>) \o <<>> /\ Pipeline = ((<<>> \o <<>>) \o <<>>) \o <<>>
    BY <2>1, <2>2, PartsTyped DEF Parts
  <2> QED
    BY <2>3, TextSequences
<1>2. sent = 0 /\ out = 0 /\ frame = -1 /\ junk = 0 /\ strays = 0
  BY DEF Init, Undefined
<1>3. DOMAIN <<>> = {}
  OBVIOUS
<1>4. ChannelInv
  BY <1>1, <1>2, <1>3 DEF ChannelInv, TextInOrder, Passed, Local
<1>5. Damage = 0
  <2>1. Torn(Text) = {} /\ Again(Pipeline, out) = {}
    BY <1>1, <1>3 DEF Torn, Again
  <2> QED
    BY <2>1, FS_EmptySet DEF Damage
<1> QED
  BY <1>2, <1>4, <1>5 DEF Channel!Init

\* A step that adds no delimiter, puts nothing on the bus and does no damage
\* loses frames, or none.
LEMMA LosesOnly ==
    ASSUME Damage \in Nat, Damage' \in Nat, Damage' <= Damage,
           sent' = sent, junk' = junk, out' = out, strays' = strays
    PROVE  Channel!Lose
  BY DEF Channel!Lose

\* Every step keeps the invariant, and is one of the channel, or none.
LEMMA NextChannel ==
    Typed /\ Typed' /\ ChannelInv /\ [Next]_vars
        => ChannelInv' /\ (Channel!Next \/ UNCHANGED Channel!vars)
<1> SUFFICES ASSUME Typed, Typed', ChannelInv, [Next]_vars
             PROVE  ChannelInv' /\ (Channel!Next \/ UNCHANGED Channel!vars)
  OBVIOUS
<1>t. /\ Damage \in Nat /\ Damage' \in Nat /\ sent \in Nat /\ out \in Nat /\ strays \in Nat /\ junk \in Nat
      /\ sent' \in Nat /\ out' \in Nat
  BY WholesTyped, NextPartsTyped DEF Wholes
<1>l. ASSUME ChannelInv', Damage' <= Damage, UNCHANGED <<sent, junk, out, strays>>
      PROVE  ChannelInv' /\ (Channel!Next \/ UNCHANGED Channel!vars)
  BY <1>t, <1>l, LosesOnly DEF Channel!Next
<1>s. ASSUME UNCHANGED <<sent, begun, junk, usb, ring, line, frame, strays>>,
             \/ out' = out /\ (Pipeline' = Pipeline \/ \E p : Without(Pipeline, p, Pipeline'))
             \/ out' = out /\ \E p : Without(Pipeline', p, Pipeline) /\ Pipeline'[p] = Local
      PROVE  ChannelInv' /\ (Channel!Next \/ UNCHANGED Channel!vars)
  <2>1. SameText
    BY <1>s DEF SameText, Text
  <2>2. CASE Pipeline' = Pipeline /\ out' = out
    BY <1>l, <1>s, <1>t, <2>1, <2>2, StepKeeps
  <2>3. ASSUME NEW p, Without(Pipeline, p, Pipeline'), out' = out
        PROVE  ChannelInv' /\ (Channel!Next \/ UNCHANGED Channel!vars)
    BY <1>l, <1>s, <2>1, <2>3, StepRemoves
  <2>4. ASSUME NEW p, Without(Pipeline', p, Pipeline), Pipeline'[p] = Local, out' = out
        PROVE  ChannelInv' /\ (Channel!Next \/ UNCHANGED Channel!vars)
    BY <1>l, <1>s, <2>1, <2>4, StepInserts
  <2> QED
    BY <1>s, <2>2, <2>3, <2>4
<1>1. CASE ComputerWrites
  <2>1. /\ UNCHANGED <<ring, parserVars, busVars>> /\ out' = out /\ strays' = strays
        /\ sent + (IF begun THEN 1 ELSE 0) <= MaxTraffic
    <3>1. sent + junk + rxq + shown + (IF begun THEN 1 ELSE 0) <= MaxTraffic
            /\ junk \in Nat /\ rxq \in Nat /\ shown \in Nat /\ MaxTraffic \in Nat
      BY LinkAssumption DEF Typed, TypeOK, Traffic, LinkAssumption
    <3> DEFINE b == IF begun THEN 1 ELSE 0
    <3>2. b \in Nat
      OBVIOUS
    <3> HIDE DEF b
    <3>3. sent + b <= MaxTraffic
      BY <1>t, <3>1, <3>2 DEF b
    <3> QED
      BY <1>1, <3>3 DEF b, ComputerWrites, busVars
  <2>2. sent + 1 \in 0..MaxTraffic \/ ~begun
    BY <1>t, <2>1
  <2>3. CASE begun
    <3>1. usb' = Append(usb, End(sent + 1)) /\ begun' = FALSE /\ sent' = sent + 1 /\ junk' = junk
      BY <1>1, <2>3 DEF ComputerWrites
    <3> DEFINE h == End(sent + 1)
    <3>2. h \in Halves /\ h.part = "end" /\ h.n = sent + 1
      BY <2>2, <2>3 DEF End, Piece, Halves
    <3> HIDE DEF h
    <3>3. ChannelInv' /\ Damage' \in {Damage, Damage + 1}
      <4>1. usb' = Append(usb, h) /\ sent <= sent'
              /\ sent + (IF begun THEN 1 ELSE 0) <= sent' + (IF begun' THEN 1 ELSE 0)
              /\ h.part # "begin" /\ h.n <= sent'
        BY <1>t, <2>3, <3>1, <3>2 DEF h
      <4> QED
        BY <1>t, <2>1, <3>2, <4>1, StepWrites
    <3> QED
      BY <1>t, <2>1, <3>1, <3>3 DEF Channel!Next, Channel!Write
  <2>4. CASE ~begun /\ begun'
    <3>1. usb' = Append(usb, Begin(sent + 1)) /\ sent' = sent /\ junk' = junk /\ MoreTraffic
      BY <1>1, <2>4 DEF ComputerWrites
    <3> DEFINE h == Begin(sent + 1)
    <3>2. h \in Halves /\ h.part = "begin" /\ h.n = sent + 1
      <4>1. sent < MaxTraffic
        <5>1. (IF begun THEN 1 ELSE 0) = 0
          BY <2>4
        <5>2. sent + junk + rxq + shown < MaxTraffic
          BY <3>1, <5>1, LinkAssumption DEF MoreTraffic, Traffic, Typed, TypeOK, LinkAssumption
        <5>3. rxq \in Nat /\ shown \in Nat /\ MaxTraffic \in Nat
          BY LinkAssumption DEF Typed, TypeOK, LinkAssumption
        <5> QED
          BY <1>t, <5>2, <5>3
      <4>2. sent + 1 \in 0..MaxTraffic
        BY <1>t, <4>1, LinkAssumption DEF LinkAssumption
      <4> QED
        BY <4>2 DEF Begin, Piece, Halves
    <3> HIDE DEF h
    <3>3. ChannelInv' /\ Damage' = Damage
      <4>1. usb' = Append(usb, h) /\ sent <= sent'
              /\ sent + (IF begun THEN 1 ELSE 0) <= sent' + (IF begun' THEN 1 ELSE 0)
              /\ h.n > sent + (IF begun THEN 1 ELSE 0) /\ h.n <= sent' + (IF begun' THEN 1 ELSE 0)
              /\ h.n > sent'
        BY <1>t, <2>4, <3>1, <3>2 DEF h
      <4> QED
        BY <1>t, <2>1, <3>2, <4>1, StepWrites
    <3> QED
      BY <1>l, <1>t, <2>1, <3>1, <3>3
  <2>5. CASE ~begun /\ ~begun'
    <3>1. usb' = Append(usb, End(0)) /\ sent' = sent /\ junk' = junk + 1 /\ begun' = begun
      BY <1>1, <2>5 DEF ComputerWrites
    <3> DEFINE h == End(0)
    <3>2. h \in Halves /\ h.part = "end" /\ h.n = 0
      BY LinkAssumption DEF End, Piece, Halves, LinkAssumption
    <3> HIDE DEF h
    <3>3. ChannelInv' /\ Damage' \in {Damage, Damage + 1}
      <4>1. usb' = Append(usb, h) /\ sent <= sent'
              /\ sent + (IF begun THEN 1 ELSE 0) <= sent' + (IF begun' THEN 1 ELSE 0)
              /\ h.part # "begin" /\ h.n <= sent'
        BY <1>t, <2>5, <3>1, <3>2 DEF h
      <4> QED
        BY <1>t, <2>1, <3>2, <4>1, StepWrites
    <3> QED
      BY <1>t, <2>1, <3>1, <3>3 DEF Channel!Next, Channel!Write
  <2> QED
    BY <2>3, <2>4, <2>5
<1>2. CASE Receives
  BY <1>2, <1>l, StepReceives DEF Receives, busVars
<1>3. CASE ParserReads
  <2>1. ChannelInv' /\ Damage' <= Damage
    BY <1>3, StepReadsBegin, StepReadsEnd
  <2> QED
    BY <1>3, <1>l, <2>1 DEF ParserReads, busVars
<1>4. CASE ParserPuts
  BY <1>4, <1>s, PutsFrame DEF ParserPuts, busVars
<1>5. CASE MainForwards
  BY <1>5, <1>s, ForwardsFrame DEF MainForwards, inputVars
<1>6. CASE SenderTakes
  BY <1>6, <1>s, TakesFrame DEF SenderTakes, inputVars, parserVars
<1>7. CASE EnablesInterrupt
  BY <1>7, <1>s, EnablesFrame DEF EnablesInterrupt, inputVars, parserVars
<1>8. CASE SenderSends
  <2>1. /\ Without(Pipeline, 1, Pipeline') /\ Pipeline[1] = sending[1] /\ sending[1] \in Frame
        /\ sending[1] \in Int
    BY <1>8, SendsFrame, LinkAssumption DEF Frame, Undefined, LinkAssumption
  <2>2. UNCHANGED <<sent, begun, junk, usb, ring, line, frame>>
    BY <1>8 DEF SenderSends, inputVars, parserVars
  <2>3. SameText
    BY <2>2 DEF SameText, Text
  <2>4. \/ out' = out /\ strays' = strays
        \/ out' = sending[1] /\ sending[1] > out /\ strays' = strays
        \/ out' = out /\ ~(sending[1] > out) /\ sending[1] # Local /\ strays' = strays + 1
    BY <1>8 DEF SenderSends
  <2>5. /\ ChannelInv' /\ Damage' <= Damage
        /\ 1 \in Again(Pipeline, out) => Damage' < Damage
    <3>1. out' = out \/ (1 = 1 /\ out' = Pipeline[1])
      BY <2>1, <2>4
    <3> QED
      BY <2>1, <2>3, <3>1, StepRemoves
  <2>6. 1 \in DOMAIN Pipeline
    <3>1. Len(Pipeline) \in Nat /\ DOMAIN Pipeline = 1..Len(Pipeline)
      BY WholesTyped DEF Wholes
    <3> QED
      BY <2>1, <3>1 DEF Without
  <2>7. CASE out' = out /\ strays' = strays
    BY <1>l, <2>2, <2>5, <2>7
  <2>8. CASE out' = sending[1] /\ sending[1] > out /\ strays' = strays
    <3>1. sending[1] <= sent
      BY <2>1, <2>6, InvariantGives DEF Before
    <3>2. Channel!Put
      BY <1>t, <2>1, <2>2, <2>5, <2>8, <3>1 DEF Channel!Put
    <3> QED
      BY <2>5, <3>2 DEF Channel!Next
  <2>9. CASE out' = out /\ ~(sending[1] > out) /\ sending[1] # Local /\ strays' = strays + 1
    <3>1. 1 \in Again(Pipeline, out)
      BY <1>t, <2>1, <2>6, <2>9 DEF Again
    <3>2. Channel!PutStray
      BY <1>t, <2>2, <2>5, <2>9, <3>1 DEF Channel!PutStray
    <3> QED
      BY <2>5, <3>2 DEF Channel!Next
  <2> QED
    BY <2>4, <2>7, <2>8, <2>9
<1>9. CASE ParserWakes \/ ParserRests
  <2>1. UNCHANGED <<sent, begun, junk, usb, ring, line, frame, parsed, busVars>>
          /\ parser # "putting" /\ parser' # "putting"
    BY <1>9 DEF ParserWakes, ParserRests, inputVars
  <2>2. Pipeline' = Pipeline /\ out' = out /\ strays' = strays
    BY <2>1 DEF Pipeline, busVars
  <2> QED
    BY <1>s, <2>1, <2>2
<1>10. CASE BusFrame \/ ShowsBusFrame \/ ShowsLocalFrame \/ PutsLineEnd
              \/ (\E k \in 1..Chunk : Transmits(k)) \/ DisablesInterrupt \/ UNCHANGED vars
  <2>1. UNCHANGED <<inputVars, parserVars, busVars>>
    BY <1>10 DEF BusFrame, ShowsBusFrame, ShowsLocalFrame, Shows, PutsLineEnd, Transmits,
       DisablesInterrupt, vars
  <2>2. Pipeline' = Pipeline /\ UNCHANGED <<sent, begun, junk, usb, ring, line, frame, strays>> /\ out' = out
    BY <2>1 DEF Pipeline, inputVars, parserVars, busVars
  <2> QED
    BY <1>s, <2>2
<1> QED
  BY <1>1, <1>2, <1>3, <1>4, <1>5, <1>6, <1>7, <1>8, <1>9, <1>10 DEF Next

\* The texts and the queues keep the frames of the computer in order: a frame
\* that is begun is later than all that were parsed or are on the bus.
THEOREM FramesInOrder == Spec => []ChannelInv
<1>1. Typed /\ ChannelInv /\ [Next]_vars => (Typed /\ ChannelInv)'
  BY NextTyped, NextChannel
<1> QED
  BY <1>1, InitTyped, InitChannel, PTL DEF Spec

\* The link is a LinkChannel: every frame of the computer that gets to the bus
\* gets there once and in its order, and there is a stray frame at most for
\* each delimiter that ends no whole frame.
THEOREM LinkIsChannel == Spec => ChannelImplemented
<1>1. Typed /\ ChannelInv /\ [Next]_vars => (Typed /\ ChannelInv)'
  BY NextTyped, NextChannel
<1>2. Typed /\ ChannelInv /\ [Next]_vars => [Channel!Next]_(Channel!vars)
  BY NextTyped, NextChannel
<1> QED
  BY <1>1, <1>2, InitTyped, InitChannel, PTL DEF Spec, ChannelImplemented, Channel!Spec
===============================================================================
