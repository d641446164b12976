---------------------------- MODULE Intake_proofs ----------------------------
(***************************************************************************)
(* What the planner and the ingestion pipeline keep, for any proposals,    *)
(* sources and bounds.  Both walk lists with loops and calls of themselves,*)
(* so the module begins with what a fold and a recursive function are.     *)
(***************************************************************************)
EXTENDS Planning, Documents, TLAPS, FiniteSetTheorems, WellFoundedInduction

-----------------------------------------------------------------------------
(* Induction and folds.                                                    *)

(* Of a set of numbers one is the least.                                   *)
LEMMA LeastThere ==
  ASSUME NEW I \in SUBSET Nat, I # {}
  PROVE  \E i \in I : \A k \in I : i <= k
<1>1. PICK i \in I : \A k \in I : ~ (<<k, i>> \in OpToRel(<, Nat))
  BY WFMin, NatLessThanWellFounded
<1>2. I \subseteq Nat /\ i \in Nat
  OBVIOUS
<1>3. \A k \in I : ~ (k < i)
  BY <1>1, <1>2 DEF OpToRel
<1>4. \A k \in I : i <= k
  BY <1>2, <1>3
<1> QED BY <1>4

(* What holds of 0 and is passed on from each number to the next holds of  *)
(* all numbers up to n.                                                    *)
LEMMA UpTo ==
  ASSUME NEW n \in Nat, NEW G, 0 \in G, \A i \in 0..n : i \in G /\ i < n => i + 1 \in G
  PROVE  \A i \in 0..n : i \in G
<1> DEFINE H == {i \in Nat : i \in 0..n /\ i \notin G}
<1> SUFFICES ASSUME H # {} PROVE FALSE
  <2>1. \A i \in 0..n : i \in Nat
    OBVIOUS
  <2> QED BY <2>1
<1>1. PICK m \in H : \A k \in H : m <= k
  <2>1. H \in SUBSET Nat
    OBVIOUS
  <2> HIDE DEF H
  <2> QED BY <2>1, LeastThere
<1>2. m \in Nat /\ m \in 0..n /\ m \notin G /\ m # 0
  OBVIOUS
<1>3. m - 1 \in Nat /\ m - 1 \in 0..n /\ m - 1 < n /\ ~ (m <= m - 1)
  BY <1>2
<1>4. m - 1 \in G
  BY <1>1, <1>3
<1>5. (m - 1) + 1 \in G
  BY <1>3, <1>4
<1> QED BY <1>2, <1>5

(* What a fold does at each of n places, and the values it goes through    *)
Steppers(n, A) == [1..n -> [A -> A]]
Goes(h, n, A, base, F) ==
  h \in [0..n -> A] /\ h[0] = base /\ \A i \in 1..n : h[i] = F[i][h[i - 1]]

(* A fold over n places goes through some values                                            *)
LEMMA Iterates ==
  ASSUME NEW n \in Nat, NEW A, NEW base \in A, NEW F \in Steppers(n, A)
  PROVE  \E h : Goes(h, n, A, base, F)
<1> USE DEF Steppers
<1> DEFINE Run(m, h) == h[0] = base /\ \A i \in 1..m : h[i] = F[i][h[i - 1]]
           G == {m \in 0..n : \E h \in [0..m -> A] : Run(m, h)}
<1>1. 0 \in G
  <2>1. [i \in 0..0 |-> base] \in [0..0 -> A] /\ Run(0, [i \in 0..0 |-> base])
    OBVIOUS
  <2>2. 0 \in 0..n
    OBVIOUS
  <2> HIDE DEF Run
  <2> QED BY <2>1, <2>2
<1>2. ASSUME NEW m \in 0..n, m \in G, m < n PROVE m + 1 \in G
  <2>1. PICK h \in [0..m -> A] : Run(m, h)
    BY <1>2
  <2> DEFINE k == [i \in 0..m + 1 |-> IF i = m + 1 THEN F[m + 1][h[m]] ELSE h[i]]
  <2>2. m + 1 \in 1..n /\ m + 1 \in 0..n /\ h[m] \in A /\ F[m + 1] \in [A -> A]
    BY <1>2, <2>1
  <2>3. k \in [0..m + 1 -> A]
    BY <2>1, <2>2
  <2>4. Run(m + 1, k)
    <3>1. k[0] = base
      BY <2>1
    <3>2. \A i \in 1..m : k[i] = h[i] /\ k[i - 1] = h[i - 1]
      BY <2>1
    <3>3. k[m + 1] = F[m + 1][k[m]]
      BY <2>1, <2>2
    <3> QED BY <2>1, <3>1, <3>2, <3>3
  <2> HIDE DEF Run, k
  <2> QED BY <2>2, <2>3, <2>4
<1>3. n \in G
  <2>1. n \in 0..n
    OBVIOUS
  <2> HIDE DEF G
  <2> QED BY <1>1, <1>2, <2>1, UpTo
<1> QED BY <1>3 DEF Goes

(* The highest of the numbers up to the last                               *)
LEMMA LastIsMax ==
  ASSUME NEW n \in Nat, NEW s \in SUBSET (1..n), n \in s
  PROVE  Max(s) = n
<1>1. \A y \in s : y \in Nat /\ n >= y
  OBVIOUS
<1>2. \A x \in s : (\A y \in s : x >= y) => x = n
  BY <1>1
<1> QED BY <1>1, <1>2 DEF Max

(* What FoldLeft computes, for every set of places                         *)
Picks(g, n, A, base, F) ==
  /\ g \in [SUBSET (1..n) -> A]
  /\ \A s \in SUBSET (1..n) : g[s] = IF s = {} THEN base ELSE F[Max(s)][g[s \ {Max(s)}]]

Follows(c, n, A, base, F) ==
  \A s \in SUBSET (1..n) :
    /\ s = {} => c[s] = base
    /\ s # {} /\ c[s \ {Max(s)}] \in A => c[s] = F[Max(s)][c[s \ {Max(s)}]]

(* FoldLeft picks the places of a list from the highest down: there is a   *)
(* function that does so for every set of places.                          *)
LEMMA FoldThere ==
  ASSUME NEW n \in Nat, NEW A, NEW base \in A, NEW F \in Steppers(n, A)
  PROVE  \E g : Picks(g, n, A, base, F)
<1> USE DEF Steppers
<1> DEFINE Run(m, g) == \A s \in SUBSET (1..m) :
                          g[s] = IF s = {} THEN base ELSE F[Max(s)][g[s \ {Max(s)}]]
           G == {m \in 0..n : \E g \in [SUBSET (1..m) -> A] : Run(m, g)}
<1>1. 0 \in G
  <2> DEFINE g == [s \in SUBSET (1..0) |-> base]
  <2>1. g \in [SUBSET (1..0) -> A] /\ Run(0, g)
    <3>1. \A s \in SUBSET (1..0) : s = {}
      OBVIOUS
    <3> QED BY <3>1
  <2>2. 0 \in 0..n
    OBVIOUS
  <2> HIDE DEF Run, g
  <2> QED BY <2>1, <2>2
<1>2. ASSUME NEW m \in 0..n, m \in G, m < n PROVE m + 1 \in G
  <2>1. PICK g \in [SUBSET (1..m) -> A] : Run(m, g)
    BY <1>2
  <2> DEFINE k == [s \in SUBSET (1..m + 1) |->
                     IF m + 1 \in s THEN F[m + 1][g[s \ {m + 1}]] ELSE g[s]]
  <2>2. m \in Nat /\ m + 1 \in 1..n /\ m + 1 \in 0..n /\ F[m + 1] \in [A -> A]
    BY <1>2
  <2>3. \A s \in SUBSET (1..m + 1) :
          /\ m + 1 \in s => s \ {m + 1} \in SUBSET (1..m)
          /\ m + 1 \notin s => s \in SUBSET (1..m)
    BY <2>2
  <2>4. k \in [SUBSET (1..m + 1) -> A]
    BY <2>1, <2>2, <2>3
  <2>5. ASSUME NEW s \in SUBSET (1..m + 1)
        PROVE  k[s] = IF s = {} THEN base ELSE F[Max(s)][k[s \ {Max(s)}]]
    <3>1. CASE m + 1 \in s
      <4>1. Max(s) = m + 1
        BY <2>2, <3>1, LastIsMax
      <4>2. s \ {m + 1} \in SUBSET (1..m + 1) /\ m + 1 \notin s \ {m + 1}
        OBVIOUS
      <4> QED BY <3>1, <4>1, <4>2
    <3>2. CASE m + 1 \notin s
      <4>1. s \in SUBSET (1..m) /\ s \ {Max(s)} \in SUBSET (1..m + 1) /\ m + 1 \notin s \ {Max(s)}
        BY <2>3, <3>2
      <4>2. k[s] = g[s] /\ k[s \ {Max(s)}] = g[s \ {Max(s)}]
        BY <3>2, <4>1
      <4> QED BY <2>1, <4>1, <4>2
    <3> QED BY <3>1, <3>2
  <2>6. Run(m + 1, k)
    BY <2>5
  <2> HIDE DEF Run, k
  <2> QED BY <2>2, <2>4, <2>6
<1>3. n \in G
  <2>1. n \in 0..n
    OBVIOUS
  <2> HIDE DEF G
  <2> QED BY <1>1, <1>2, <2>1, UpTo
<1> QED BY <1>3 DEF Picks

(* The highest of some of the numbers up to n                              *)
LEMMA HighestIn ==
  ASSUME NEW n \in Nat, NEW s \in SUBSET (1..n), s # {}
  PROVE  Max(s) \in s /\ \A y \in s : Max(s) >= y
<1> DEFINE I == {k \in 0..n : \A y \in s : y <= k}
<1>1. I \in SUBSET Nat /\ n \in I
  OBVIOUS
<1>2. PICK m \in I : \A k \in I : m <= k
  <2> HIDE DEF I
  <2> QED BY <1>1, LeastThere
<1>3. m \in s
  <2> SUFFICES ASSUME m \notin s PROVE FALSE
    OBVIOUS
  <2>1. \A y \in s : y \in 1..n /\ y <= m /\ y # m
    OBVIOUS
  <2>2. PICK y \in s : TRUE
    OBVIOUS
  <2>5. y \in 1..n /\ y <= m /\ m \in Nat
    BY <2>1
  <2>4. \A z \in s : z <= m - 1
    BY <2>1, <2>5
  <2>3. m - 1 \in I /\ ~ (m <= m - 1)
    BY <2>4, <2>5
  <2> QED BY <1>2, <2>3
<1>4. \A y \in s : y \in Nat /\ m \in Nat /\ m >= y
  OBVIOUS
<1> QED BY <1>3, <1>4 DEF Max

(* The places up to each one                                               *)
LEMMA PlacesUpTo ==
  ASSUME NEW n \in Nat
  PROVE  /\ 1..0 = {}
         /\ \A i \in 1..n : /\ 1..i \in SUBSET (1..n) /\ 1..i # {}
                            /\ Max(1..i) = i /\ (1..i) \ {i} = 1..(i - 1)
<1>1. 1..0 = {}
  OBVIOUS
<1>2. ASSUME NEW i \in 1..n
      PROVE  /\ 1..i \in SUBSET (1..n) /\ 1..i # {}
             /\ Max(1..i) = i /\ (1..i) \ {i} = 1..(i - 1)
  <2>1. i \in Nat /\ i \in 1..i /\ i <= n
    OBVIOUS
  <2>2. \A k \in 1..i : k \in 1..n
    BY <2>1
  <2>3. \A k : k \in (1..i) \ {i} <=> k \in 1..(i - 1)
    BY <2>1
  <2>4. Max(1..i) = i
    BY <2>1, LastIsMax
  <2>5. (1..i) \ {i} = 1..(i - 1)
    BY <2>3
  <2>6. 1..i \in SUBSET (1..n) /\ 1..i # {}
    BY <2>1, <2>2
  <2> QED BY <2>4, <2>5, <2>6
<1> QED BY <1>1, <1>2

(* What a function that picks the places from the highest down gives for   *)
(* all places is what going through them in their order gives.             *)
LEMMA FoldSteps ==
  ASSUME NEW n \in Nat, NEW A, NEW base \in A, NEW F \in Steppers(n, A), NEW c,
         Follows(c, n, A, base, F)
  PROVE  \E h : Goes(h, n, A, base, F) /\ c[1..n] = h[n]
<1> USE DEF Steppers, Follows
<1> DEFINE h == [i \in 0..n |-> c[1..i]]
           G == {i \in 0..n : h[i] \in A}
<1>1. h[0] = base
  <2>1. h[0] = c[1..0]
    OBVIOUS
  <2>2. 1..0 = {} /\ {} \in SUBSET (1..n)
    OBVIOUS
  <2>3. c[{}] = base
    BY <2>2
  <2> QED BY <2>1, <2>2, <2>3
<1>2. ASSUME NEW i \in 1..n, h[i - 1] \in A PROVE h[i] \in A /\ h[i] = F[i][h[i - 1]]
  <2>1. i - 1 \in 0..n /\ i \in 0..n
    OBVIOUS
  <2>2. /\ 1..i \in SUBSET (1..n) /\ 1..i # {}
        /\ Max(1..i) = i /\ (1..i) \ {i} = 1..(i - 1)
    BY PlacesUpTo
  <2>3. c[1..i] = F[i][c[1..(i - 1)]]
    BY <1>2, <2>1, <2>2
  <2> QED BY <1>2, <2>1, <2>3
<1>3. 0 \in G
  BY <1>1
<1>4. ASSUME NEW i \in 0..n, i \in G, i < n PROVE i + 1 \in G
  <2>1. i + 1 \in 1..n /\ i + 1 \in 0..n /\ (i + 1) - 1 = i
    BY <1>4
  <2> QED BY <1>2, <1>4, <2>1
<1>5. \A i \in 0..n : i \in G
  <2> HIDE DEF G
  <2> QED BY <1>3, <1>4, UpTo
<1>6. h \in [0..n -> A]
  BY <1>5
<1>7. \A i \in 1..n : h[i] = F[i][h[i - 1]]
  <2>1. \A i \in 1..n : i - 1 \in 0..n
    OBVIOUS
  <2> QED BY <1>2, <1>5, <2>1
<1>8. c[1..n] = h[n]
  OBVIOUS
<1> HIDE DEF h
<1> QED BY <1>1, <1>6, <1>7, <1>8 DEF Goes

(* Only goes through a list place by place.                                *)
LEMMA OnlyFold ==
  ASSUME NEW A, NEW s \in Seq(A), NEW S
  PROVE  \E h \in [0..Len(s) -> Seq(A)] :
           /\ h[0] = <<>> /\ Only(s, S) = h[Len(s)]
           /\ \A i \in 1..Len(s) :
                h[i] = IF s[i] \in S THEN Append(h[i - 1], s[i]) ELSE h[i - 1]
<1> DEFINE n == Len(s)
           B == Seq(A)
           Form(g) == [p \in SUBSET (1..n) |->
                         IF p = {} THEN <<>>
                         ELSE IF s[Max(p)] \in S THEN Append(g[p \ {Max(p)}], s[Max(p)])
                         ELSE g[p \ {Max(p)}]]
           F == [i \in 1..n |-> [a \in B |-> IF s[i] \in S THEN Append(a, s[i]) ELSE a]]
<1>1. n \in Nat /\ DOMAIN s = 1..n /\ <<>> \in B /\ F \in Steppers(n, B)
  BY DEF Steppers
<1>2. Only(s, S) = (CHOOSE g : g = Form(g))[1..n]
  BY <1>1 DEF Only, FoldLeft, MapThenFoldSet
<1>3. \E g : g = Form(g)
  <2>1. PICK g : Picks(g, n, B, <<>>, F)
    <3> HIDE DEF F, n, B
    <3> QED BY <1>1, FoldThere
  <2>2. ASSUME NEW p \in SUBSET (1..n), p # {} PROVE Max(p) \in 1..n /\ g[p \ {Max(p)}] \in B
    <3>1. Max(p) \in p /\ p \ {Max(p)} \in SUBSET (1..n)
      BY <1>1, <2>2, HighestIn
    <3> HIDE DEF B, n
    <3> QED BY <2>1, <3>1 DEF Picks
  <2>3. g = Form(g)
    <3>1. \A p \in SUBSET (1..n) : g[p] = Form(g)[p]
      BY <2>1, <2>2 DEF Picks
    <3> QED BY <2>1, <3>1 DEF Picks
  <2> QED BY <2>3
<1>4. PICK c : c = (CHOOSE g : g = Form(g)) /\ c = Form(c)
  <2> HIDE DEF Form
  <2> QED BY <1>3
<1>5. Follows(c, n, B, <<>>, F)
  <2> SUFFICES ASSUME NEW p \in SUBSET (1..n)
               PROVE  /\ p = {} => c[p] = <<>>
                      /\ p # {} /\ c[p \ {Max(p)}] \in B => c[p] = F[Max(p)][c[p \ {Max(p)}]]
    BY DEF Follows
  <2>1. p # {} => Max(p) \in 1..n
    BY <1>1, HighestIn
  <2>2. c[p] = Form(c)[p]
    BY <1>4
  <2> QED BY <2>1, <2>2
<1>6. PICK h : Goes(h, n, B, <<>>, F) /\ c[1..n] = h[n]
  <2> HIDE DEF F, n, B
  <2> QED BY <1>1, <1>5, FoldSteps
<1>7. ASSUME NEW i \in 1..n
      PROVE  h[i] = IF s[i] \in S THEN Append(h[i - 1], s[i]) ELSE h[i - 1]
  <2>1. i - 1 \in 0..n
    BY <1>1
  <2>2. h[i - 1] \in B
    <3> HIDE DEF n, B, F
    <3> QED BY <1>6, <2>1 DEF Goes
  <2> QED BY <1>6, <2>2 DEF Goes
<1>8. Only(s, S) = h[n]
  BY <1>2, <1>4, <1>6
<1> QED BY <1>6, <1>7, <1>8 DEF Goes

(* What a list with one element more has                                   *)
LEMMA AppendHas ==
  ASSUME NEW A, NEW s \in Seq(A), NEW e \in A
  PROVE  /\ Append(s, e) \in Seq(A) /\ Len(Append(s, e)) = Len(s) + 1
         /\ Range(Append(s, e)) = Range(s) \cup {e}
         /\ \A i \in 1..Len(s) : Append(s, e)[i] = s[i]
         /\ Append(s, e)[Len(s) + 1] = e
<1>1. /\ Append(s, e) \in Seq(A) /\ Len(Append(s, e)) = Len(s) + 1
      /\ DOMAIN s = 1..Len(s) /\ DOMAIN Append(s, e) = 1..Len(s) + 1 /\ Len(s) \in Nat
  OBVIOUS
<1>2. \A i \in 1..Len(s) : Append(s, e)[i] = s[i]
  OBVIOUS
<1>3. Append(s, e)[Len(s) + 1] = e
  OBVIOUS
<1>4. \A i \in 1..Len(s) + 1 : i \in 1..Len(s) \/ i = Len(s) + 1
  BY <1>1
<1>5. \A i \in 1..Len(s) : i \in 1..Len(s) + 1
  BY <1>1
<1>6. Len(s) + 1 \in 1..Len(s) + 1
  BY <1>1
<1>7. Range(Append(s, e)) = Range(s) \cup {e}
  BY <1>1, <1>2, <1>3, <1>4, <1>5, <1>6, Zenon DEF Range
<1> QED BY <1>1, <1>2, <1>3, <1>7

(* Only keeps the elements that are in the set, and nothing else.          *)
LEMMA OnlyKeeps ==
  ASSUME NEW A, NEW s \in Seq(A), NEW S
  PROVE  /\ Only(s, S) \in Seq(A) /\ Range(Only(s, S)) = Range(s) \cap S
         /\ Len(Only(s, S)) <= Len(s)
<1>1. PICK h \in [0..Len(s) -> Seq(A)] :
        /\ h[0] = <<>> /\ Only(s, S) = h[Len(s)]
        /\ \A i \in 1..Len(s) :
             h[i] = IF s[i] \in S THEN Append(h[i - 1], s[i]) ELSE h[i - 1]
  BY OnlyFold
<1> DEFINE Good(i) == Len(h[i]) <= i /\ Range(h[i]) = {s[j] : j \in 1..i} \cap S
           G == {i \in 0..Len(s) : Good(i)}
<1>2. Len(s) \in Nat /\ DOMAIN s = 1..Len(s)
  OBVIOUS
<1>3. 0 \in G
  <2>1. Len(h[0]) = 0 /\ Range(h[0]) = {} /\ {s[j] : j \in 1..0} = {} /\ 0 \in 0..Len(s)
    BY <1>1 DEF Range
  <2> QED BY <2>1
<1>4. ASSUME NEW i \in 0..Len(s), i \in G, i < Len(s) PROVE i + 1 \in G
  <2>1. i + 1 \in 1..Len(s) /\ i + 1 \in 0..Len(s) /\ (i + 1) - 1 = i /\ i \in Nat
    BY <1>4
  <2>2. s[i + 1] \in A /\ h[i] \in Seq(A) /\ Len(h[i]) \in Nat
    BY <1>1, <2>1
  <2>3. {s[j] : j \in 1..i + 1} = {s[j] : j \in 1..i} \cup {s[i + 1]}
    <3>1. \A j : j \in 1..i + 1 <=> j \in 1..i \/ j = i + 1
      BY <2>1
    <3> QED BY <3>1
  <2>4. CASE s[i + 1] \in S
    <3>1. h[i + 1] = Append(h[i], s[i + 1])
      BY <1>1, <2>1, <2>4
    <3>2. Range(h[i + 1]) = Range(h[i]) \cup {s[i + 1]} /\ Len(h[i + 1]) = Len(h[i]) + 1
      BY <2>2, <3>1, AppendHas
    <3>3. Len(h[i + 1]) <= i + 1
      BY <1>4, <2>1, <2>2, <3>2
    <3>4. Range(h[i + 1]) = {s[j] : j \in 1..i + 1} \cap S
      BY <1>4, <2>3, <2>4, <3>2
    <3> QED BY <2>1, <3>3, <3>4
  <2>5. CASE s[i + 1] \notin S
    <3>1. h[i + 1] = h[i]
      BY <1>1, <2>1, <2>5
    <3>2. Len(h[i + 1]) <= i + 1
      BY <1>4, <2>1, <2>2, <3>1
    <3>3. Range(h[i + 1]) = {s[j] : j \in 1..i + 1} \cap S
      BY <1>4, <2>3, <2>5, <3>1
    <3> QED BY <2>1, <3>2, <3>3
  <2> QED BY <2>4, <2>5
<1>5. Good(Len(s))
  <2>1. \A i \in 0..Len(s) : i \in G
    <3> HIDE DEF G
    <3> QED BY <1>2, <1>3, <1>4, UpTo
  <2>2. Len(s) \in 0..Len(s)
    BY <1>2
  <2> QED BY <2>1, <2>2
<1>6. Range(s) = {s[j] : j \in 1..Len(s)}
  BY <1>2 DEF Range
<1> QED BY <1>1, <1>2, <1>5, <1>6

-----------------------------------------------------------------------------
(* Plans.                                                                  *)

NodeSet == UNION {Range(nodes) : nodes \in Proposals \cup Templates}

(* Plans that _validate_nodes lets through, and templates                  *)
Sound(nodes) ==
  /\ nodes \in Seq(NodeSet) /\ TypesOf(nodes) \subseteq TaskTypes
  /\ \A i \in DOMAIN nodes : nodes[i].deps \in Seq(Ids(nodes))

DepsOf(nodes, id) == ById(nodes)[id].deps
CallsOn(K, A) == [K -> [A -> A]]
Calls(nodes) == CallsOn(Ids(nodes), Keeping(nodes))

(* The node of an id has that id, and the lists of Sound's nodes.          *)
LEMMA NodeOf ==
  ASSUME NEW nodes, Sound(nodes), NEW id \in Ids(nodes)
  PROVE  /\ ById(nodes)[id] \in NodeSet /\ ById(nodes)[id].id = id
         /\ \E i \in DOMAIN nodes : ById(nodes)[id] = nodes[i]
         /\ DepsOf(nodes, id) \in Seq(Ids(nodes))
         /\ Range(DepsOf(nodes, id)) \subseteq Ids(nodes)
<1>1. PICK i \in DOMAIN nodes : i = (CHOOSE k \in DOMAIN nodes : nodes[k].id = id) /\ nodes[i].id = id
  BY DEF Ids
<1>2. ById(nodes)[id] = nodes[i]
  BY <1>1 DEF ById
<1>3. nodes[i] \in NodeSet /\ nodes[i].deps \in Seq(Ids(nodes))
  BY DEF Sound
<1>4. Range(nodes[i].deps) \subseteq Ids(nodes)
  BY <1>3 DEF Range
<1> QED BY <1>1, <1>2, <1>3, <1>4 DEF DepsOf

(* There are no more ids than nodes.                                       *)
LEMMA FewIds ==
  ASSUME NEW nodes, Sound(nodes)
  PROVE  IsFiniteSet(Ids(nodes)) /\ Cardinality(Ids(nodes)) <= Len(nodes)
<1>1. Len(nodes) \in Nat /\ DOMAIN nodes = 1..Len(nodes)
  BY DEF Sound
<1>2. IsFiniteSet(1..Len(nodes)) /\ Cardinality(1..Len(nodes)) = Len(nodes)
  <2>1. 1 \in Int /\ Len(nodes) \in Int
    BY <1>1
  <2>2. Cardinality(1..Len(nodes)) = IF 1 > Len(nodes) THEN 0 ELSE Len(nodes) - 1 + 1
    BY <2>1, FS_Interval
  <2>3. IsFiniteSet(1..Len(nodes))
    BY <2>1, FS_Interval
  <2> QED BY <1>1, <2>2, <2>3
<1> DEFINE f == [i \in 1..Len(nodes) |-> nodes[i].id]
<1>3. f \in Surjection(1..Len(nodes), Ids(nodes))
  BY <1>1 DEF Surjection, Ids
<1>4. IsFiniteSet(Ids(nodes)) /\ Cardinality(Ids(nodes)) <= Cardinality(1..Len(nodes))
  <2> HIDE DEF f
  <2> QED BY <1>2, <1>3, FS_Surjection
<1> QED BY <1>2, <1>4

(* KeepAll goes through the list.                                          *)
LEMMA KeepAllFold ==
  ASSUME NEW K, NEW A, NEW keep \in CallsOn(K, A), NEW acc \in A, NEW ids \in Seq(K)
  PROVE  \E h \in [0..Len(ids) -> A] :
           /\ h[0] = acc /\ KeepAll(keep, acc, ids) = h[Len(ids)]
           /\ \A i \in 1..Len(ids) : h[i] = keep[ids[i]][h[i - 1]]
<1> DEFINE n == Len(ids)
           B == A
           Form(g) == [p \in SUBSET (1..n) |->
                         IF p = {} THEN acc ELSE keep[ids[Max(p)]][g[p \ {Max(p)}]]]
           F == [i \in 1..n |-> [a \in B |-> keep[ids[i]][a]]]
<1>1. n \in Nat /\ DOMAIN ids = 1..n /\ acc \in B
  OBVIOUS
<1>2. F \in Steppers(n, B)
  BY DEF Steppers, CallsOn
<1>3. KeepAll(keep, acc, ids) = (CHOOSE g : g = Form(g))[1..n]
  BY <1>1 DEF KeepAll, FoldLeft, MapThenFoldSet
<1>4. \E g : g = Form(g)
  <2>1. PICK g : Picks(g, n, B, acc, F)
    <3> HIDE DEF F, n, B
    <3> QED BY <1>1, <1>2, FoldThere
  <2>2. ASSUME NEW p \in SUBSET (1..n), p # {} PROVE Max(p) \in 1..n /\ g[p \ {Max(p)}] \in B
    <3>1. Max(p) \in p /\ p \ {Max(p)} \in SUBSET (1..n)
      BY <1>1, <2>2, HighestIn
    <3> HIDE DEF B, n
    <3> QED BY <2>1, <3>1 DEF Picks
  <2>3. \A p \in SUBSET (1..n) : g[p] = Form(g)[p]
    BY <2>1, <2>2 DEF Picks
  <2>4. g = [p \in SUBSET (1..n) |-> g[p]]
    <3> HIDE DEF B, n, F
    <3> QED BY <2>1 DEF Picks
  <2>5. g = Form(g)
    BY <2>3, <2>4
  <2> QED BY <2>5
<1>5. PICK c : c = (CHOOSE g : g = Form(g)) /\ c = Form(c)
  <2> HIDE DEF Form
  <2> QED BY <1>4
<1>6. Follows(c, n, B, acc, F)
  <2> SUFFICES ASSUME NEW p \in SUBSET (1..n)
               PROVE  /\ p = {} => c[p] = acc
                      /\ p # {} /\ c[p \ {Max(p)}] \in B => c[p] = F[Max(p)][c[p \ {Max(p)}]]
    BY DEF Follows
  <2>1. p # {} => Max(p) \in 1..n
    BY <1>1, HighestIn
  <2>2. c[p] = Form(c)[p]
    BY <1>5
  <2> QED BY <2>1, <2>2
<1>7. PICK h : Goes(h, n, B, acc, F) /\ c[1..n] = h[n]
  <2> HIDE DEF F, n, B
  <2> QED BY <1>1, <1>2, <1>6, FoldSteps
<1>8. ASSUME NEW i \in 1..n PROVE h[i] = keep[ids[i]][h[i - 1]]
  <2>1. i - 1 \in 0..n
    BY <1>1
  <2>2. h[i - 1] \in B
    <3> HIDE DEF n, B, F
    <3> QED BY <1>7, <2>1 DEF Goes
  <2> QED BY <1>7, <2>2 DEF Goes
<1>9. KeepAll(keep, acc, ids) = h[n]
  BY <1>3, <1>5, <1>7
<1> QED BY <1>7, <1>8, <1>9 DEF Goes

(* keep turns what it is given into what may be given to it.               *)
LEMMA KeepByTyped ==
  ASSUME NEW nodes, Sound(nodes), NEW deeper \in Calls(nodes)
  PROVE  KeepBy(nodes, deeper) \in Calls(nodes)
<1> SUFFICES ASSUME NEW id \in Ids(nodes), NEW acc \in Keeping(nodes), id \notin acc.ids
             PROVE  [KeepAll(deeper, [acc EXCEPT !.ids = @ \cup {id}], ById(nodes)[id].deps)
                       EXCEPT !.kept = Append(@, id)] \in Keeping(nodes)
  BY DEF Calls, CallsOn, KeepBy
<1> DEFINE begin == [acc EXCEPT !.ids = @ \cup {id}]
           ids == ById(nodes)[id].deps
<1>1. begin \in Keeping(nodes)
  BY DEF Keeping
<1>2. ids \in Seq(Ids(nodes))
  BY NodeOf DEF DepsOf
<1>3. KeepAll(deeper, begin, ids) \in Keeping(nodes)
  <2>1. PICK h \in [0..Len(ids) -> Keeping(nodes)] : KeepAll(deeper, begin, ids) = h[Len(ids)]
    <3> HIDE DEF begin, ids
    <3> QED BY <1>1, <1>2, KeepAllFold DEF Calls
  <2>2. Len(ids) \in 0..Len(ids)
    BY <1>2
  <2> HIDE DEF begin, ids
  <2> QED BY <2>1, <2>2
<1> HIDE DEF begin, ids
<1>4. ASSUME NEW r \in Keeping(nodes) PROVE [r EXCEPT !.kept = Append(@, id)] \in Keeping(nodes)
  <2>1. r.kept \in Seq(Ids(nodes)) /\ Append(r.kept, id) \in Seq(Ids(nodes))
    BY DEF Keeping
  <2> QED BY <2>1 DEF Keeping
<1> QED BY <1>3, <1>4 DEF begin, ids

(* Keep is keep with calls nested up to the number of nodes.               *)
LEMMA KeepThere ==
  ASSUME NEW nodes, Sound(nodes)
  PROVE  \E k \in [0..Len(nodes) -> Calls(nodes)] :
           /\ k[0] = [id \in Ids(nodes) |-> [acc \in Keeping(nodes) |-> acc]]
           /\ Keep(nodes) = k[Len(nodes)]
           /\ \A c \in 1..Len(nodes) : k[c] = KeepBy(nodes, k[c - 1])
<1> DEFINE n == Len(nodes)
           A == Calls(nodes)
           base == [id \in Ids(nodes) |-> [acc \in Keeping(nodes) |-> acc]]
           Form(k) == [c \in 0..n |-> IF c = 0 THEN base ELSE KeepBy(nodes, k[c - 1])]
           F == [c \in 1..n |-> [x \in A |-> KeepBy(nodes, x)]]
<1>1. n \in Nat
  BY DEF Sound
<1>2. base \in A
  BY DEF Calls, CallsOn
<1>3. F \in Steppers(n, A)
  BY KeepByTyped DEF Steppers
<1>4. PICK h : Goes(h, n, A, base, F)
  <2> HIDE DEF n, A, base, F
  <2> QED BY <1>1, <1>2, <1>3, Iterates
<1>5. h = Form(h) /\ h \in [0..n -> A]
  <2>1. h \in [0..n -> A] /\ h[0] = base /\ \A c \in 1..n : h[c] = F[c][h[c - 1]]
    <3> HIDE DEF n, A, base, F
    <3> QED BY <1>4 DEF Goes
  <2>2. \A c \in 0..n : c # 0 => c \in 1..n /\ c - 1 \in 0..n
    BY <1>1
  <2>3. \A c \in 0..n : h[c] = Form(h)[c]
    <3> HIDE DEF n, A, base
    <3> QED BY <2>1, <2>2
  <2>4. h = [c \in 0..n |-> h[c]]
    <3> HIDE DEF n, A
    <3> QED BY <2>1
  <2> HIDE DEF n, A, base
  <2> QED BY <2>1, <2>3, <2>4
<1>6. PICK k : k = (CHOOSE f : f = Form(f)) /\ k = Form(k)
  <2> HIDE DEF Form
  <2> QED BY <1>5
<1>7. Keep(nodes) = k[n]
  BY <1>6 DEF Keep
<1>8. k[0] = base
  <2>1. 0 \in 0..n
    BY <1>1
  <2> HIDE DEF base
  <2> QED BY <1>6, <2>1
<1>9. ASSUME NEW c \in 1..n PROVE k[c] = KeepBy(nodes, k[c - 1])
  <2>1. c \in 0..n /\ c # 0
    BY <1>1
  <2> QED BY <1>6, <2>1
<1>10. k \in [0..n -> A]
  <2> DEFINE G == {c \in 0..n : k[c] \in A}
  <2>1. 0 \in G
    BY <1>1, <1>2, <1>8
  <2>2. ASSUME NEW c \in 0..n, c \in G, c < n PROVE c + 1 \in G
    <3>1. c + 1 \in 1..n /\ c + 1 \in 0..n /\ (c + 1) - 1 = c
      BY <1>1, <2>2
    <3> QED BY <1>9, <2>2, <3>1, KeepByTyped
  <2>3. \A c \in 0..n : c \in G
    <3> HIDE DEF G, n
    <3> QED BY <1>1, <2>1, <2>2, UpTo
  <2>4. k = [c \in 0..n |-> k[c]]
    <3> HIDE DEF A, base
    <3> QED BY <1>6
  <2> HIDE DEF A, n
  <2> QED BY <2>3, <2>4
<1> QED BY <1>7, <1>8, <1>9, <1>10

(* The nodes whose calls are not over                                      *)
Gray(a) == a.ids \ Range(a.kept)

(* Every kept node comes after what it depends on.                         *)
Ordered(nodes, kept) ==
  \A i \in 1..Len(kept) : \A d \in Range(DepsOf(nodes, kept[i])) :
    \E j \in 1..Len(kept) : j < i /\ kept[j] = d

KeptWell(nodes, a) ==
  a \in Keeping(nodes) /\ Range(a.kept) \subseteq a.ids /\ Ordered(nodes, a.kept)

(* Before a call of keep: every call under way waits for one of the calls  *)
(* below it.                                                               *)
Due(nodes, id, a) ==
  /\ KeptWell(nodes, a)
  /\ \A g \in Gray(a) : Range(DepsOf(nodes, g)) \cap (Gray(a) \cup {id}) # {}

(* After it: the node is kept, and no other call has ended.                *)
StillKept(nodes, id, a, r) ==
  /\ KeptWell(nodes, r) /\ Gray(r) = Gray(a) /\ a.ids \subseteq r.ids
  /\ Range(a.kept) \subseteq Range(r.kept) /\ id \in Range(r.kept)

(* The nodes that have no call yet are not more than the calls left.       *)
Enough(nodes, a, c) == Cardinality(a.ids) + c >= Cardinality(Ids(nodes))

(* No node is waited for twice when there is no cycle.                     *)
LEMMA NotGray ==
  ASSUME NEW nodes, Acyclic(nodes), NEW id \in Ids(nodes), NEW a, Due(nodes, id, a)
  PROVE  id \notin Gray(a)
<1> SUFFICES ASSUME id \in Gray(a) PROVE FALSE
  OBVIOUS
<1>1. Gray(a) \in (SUBSET Ids(nodes)) \ {{}} /\ Gray(a) \cup {id} = Gray(a)
  BY DEF Gray, Due, KeptWell, Keeping
<1>2. PICK g \in Gray(a) : Range(DepsOf(nodes, g)) \cap Gray(a) = {}
  BY <1>1 DEF Acyclic, DepsOf
<1> QED BY <1>1, <1>2 DEF Due

LEMMA EnoughLeft ==
  ASSUME NEW nodes, Sound(nodes), NEW c \in Nat,
         NEW a \in Keeping(nodes), NEW b \in Keeping(nodes)
  PROVE  /\ a.ids \subseteq b.ids /\ Enough(nodes, a, c) => Enough(nodes, b, c)
         /\ \A id \in Ids(nodes) : id \notin a.ids /\ b.ids = a.ids \cup {id}
                                     /\ Enough(nodes, a, c + 1) => Enough(nodes, b, c)
         /\ Enough(nodes, a, 0) => a.ids = Ids(nodes)
<1>1. /\ IsFiniteSet(Ids(nodes)) /\ a.ids \subseteq Ids(nodes) /\ b.ids \subseteq Ids(nodes)
  BY FewIds DEF Keeping
<1>2. IsFiniteSet(a.ids) /\ IsFiniteSet(b.ids)
  BY <1>1, FS_Subset
<1>3. Cardinality(a.ids) \in Nat /\ Cardinality(b.ids) \in Nat /\ Cardinality(Ids(nodes)) \in Nat
  BY <1>1, <1>2, FS_CardinalityType
<1>4. a.ids \subseteq b.ids => Cardinality(a.ids) <= Cardinality(b.ids)
  BY <1>2, FS_Subset
<1>5. ASSUME NEW id, id \notin a.ids, b.ids = a.ids \cup {id}
      PROVE  Cardinality(b.ids) = Cardinality(a.ids) + 1
  BY <1>2, <1>5, FS_AddElement
<1>6. Cardinality(a.ids) >= Cardinality(Ids(nodes)) => a.ids = Ids(nodes)
  <2>1. Cardinality(a.ids) <= Cardinality(Ids(nodes))
    BY <1>1, FS_Subset
  <2>2. Cardinality(a.ids) = Cardinality(Ids(nodes)) => a.ids = Ids(nodes)
    BY <1>1, FS_Subset
  <2> QED BY <1>3, <2>1, <2>2
<1>7. a.ids \subseteq b.ids /\ Enough(nodes, a, c) => Enough(nodes, b, c)
  BY <1>3, <1>4 DEF Enough
<1>8. \A id \in Ids(nodes) : id \notin a.ids /\ b.ids = a.ids \cup {id}
                               /\ Enough(nodes, a, c + 1) => Enough(nodes, b, c)
  BY <1>3, <1>5 DEF Enough
<1>9. Enough(nodes, a, 0) => a.ids = Ids(nodes)
  BY <1>3, <1>6 DEF Enough
<1> QED BY <1>7, <1>8, <1>9

(* keep keeps a node after what it depends on, when the calls below do.    *)
LEMMA KeepByKeeps ==
  ASSUME NEW nodes, Sound(nodes), Acyclic(nodes), NEW deeper \in Calls(nodes), NEW c \in Nat,
         \A d \in Ids(nodes) : \A a \in Keeping(nodes) :
           Due(nodes, d, a) /\ Enough(nodes, a, c) => StillKept(nodes, d, a, deeper[d][a]),
         NEW id \in Ids(nodes), NEW acc \in Keeping(nodes), id \notin acc.ids,
         Due(nodes, id, acc), Enough(nodes, acc, c + 1)
  PROVE  StillKept(nodes, id, acc, KeepBy(nodes, deeper)[id][acc])
<1> DEFINE begin == [acc EXCEPT !.ids = @ \cup {id}]
           ids == DepsOf(nodes, id)
<1>1. /\ begin \in Keeping(nodes) /\ begin.ids = acc.ids \cup {id} /\ begin.kept = acc.kept
      /\ Gray(begin) = Gray(acc) \cup {id}
  BY DEF Keeping, Gray, Due, KeptWell
<1>2. ids \in Seq(Ids(nodes)) /\ Len(ids) \in Nat /\ DOMAIN ids = 1..Len(ids)
  BY NodeOf
<1>3. PICK h \in [0..Len(ids) -> Keeping(nodes)] :
        /\ h[0] = begin /\ KeepAll(deeper, begin, ids) = h[Len(ids)]
        /\ \A i \in 1..Len(ids) : h[i] = deeper[ids[i]][h[i - 1]]
  <2>1. deeper \in CallsOn(Ids(nodes), Keeping(nodes))
    BY DEF Calls
  <2>2. begin \in Keeping(nodes)
    BY <1>1
  <2> HIDE DEF begin, ids
  <2> QED BY <1>2, <2>1, <2>2, KeepAllFold
<1>4. Enough(nodes, begin, c)
  BY <1>1, EnoughLeft
<1> DEFINE Good(i) == /\ KeptWell(nodes, h[i]) /\ Gray(h[i]) = Gray(begin)
                      /\ begin.ids \subseteq h[i].ids /\ Range(acc.kept) \subseteq Range(h[i].kept)
                      /\ \A j \in 1..i : ids[j] \in Range(h[i].kept)
           G == {i \in 0..Len(ids) : Good(i)}
<1> HIDE DEF begin, ids
<1>5. 0 \in G
  <2>1. KeptWell(nodes, begin)
    BY <1>1 DEF Due, KeptWell
  <2>2. 0 \in 0..Len(ids) /\ 1..0 = {}
    BY <1>2
  <2> QED BY <1>1, <1>3, <2>1, <2>2
<1>6. ASSUME NEW i \in 0..Len(ids), i \in G, i < Len(ids) PROVE i + 1 \in G
  <2> DEFINE a == h[i]
             d == ids[i + 1]
  <2>1. i + 1 \in 1..Len(ids) /\ i + 1 \in 0..Len(ids) /\ (i + 1) - 1 = i /\ i \in Nat
    BY <1>2, <1>6
  <2>2. a \in Keeping(nodes) /\ d \in Ids(nodes) /\ h[i + 1] = deeper[d][a]
    BY <1>2, <1>3, <2>1
  <2>3. d \in Range(DepsOf(nodes, id))
    BY <1>2, <2>1 DEF Range, ids
  <2>4. Due(nodes, d, a)
    <3>1. KeptWell(nodes, a) /\ Gray(a) = Gray(acc) \cup {id}
      BY <1>1, <1>6
    <3>2. ASSUME NEW g \in Gray(a)
          PROVE  Range(DepsOf(nodes, g)) \cap (Gray(a) \cup {d}) # {}
      <4>1. CASE g = id
        BY <2>3, <4>1
      <4>2. CASE g \in Gray(acc)
        BY <3>1, <4>2 DEF Due
      <4> QED BY <3>1, <4>1, <4>2
    <3> QED BY <3>1, <3>2 DEF Due
  <2>5. Enough(nodes, a, c)
    BY <1>1, <1>4, <1>6, <2>2, EnoughLeft
  <2>6. StillKept(nodes, d, a, h[i + 1])
    BY <2>2, <2>4, <2>5
  <2>7. \A j \in 1..i + 1 : ids[j] \in Range(h[i + 1].kept)
    <3>1. \A j \in 1..i + 1 : j \in 1..i \/ j = i + 1
      BY <2>1
    <3> QED BY <1>6, <2>6, <3>1 DEF StillKept
  <2>8. Good(i + 1)
    BY <1>6, <2>6, <2>7 DEF StillKept
  <2> QED BY <2>1, <2>8
<1>7. Good(Len(ids))
  <2>1. \A i \in 0..Len(ids) : i \in G
    <3> HIDE DEF G
    <3> QED BY <1>2, <1>5, <1>6, UpTo
  <2>2. Len(ids) \in 0..Len(ids)
    BY <1>2
  <2> QED BY <2>1, <2>2
<1> DEFINE m == h[Len(ids)]
           r == [m EXCEPT !.kept = Append(@, id)]
<1>8. KeepBy(nodes, deeper)[id][acc] = r
  BY <1>3 DEF KeepBy, begin, ids, DepsOf
<1>9. m \in Keeping(nodes) /\ m.kept \in Seq(Ids(nodes)) /\ m.ids \subseteq Ids(nodes)
  BY <1>2, <1>3 DEF Keeping
<1>10. r.ids = m.ids /\ r.kept = Append(m.kept, id) /\ r \in Keeping(nodes)
  <2>1. r.ids = m.ids /\ r.kept = Append(m.kept, id)
    BY <1>9 DEF Keeping
  <2>2. Append(m.kept, id) \in Seq(Ids(nodes))
    BY <1>9
  <2> QED BY <1>9, <2>2 DEF Keeping
<1>11. /\ Range(r.kept) = Range(m.kept) \cup {id} /\ Len(r.kept) = Len(m.kept) + 1
       /\ \A i \in 1..Len(m.kept) : r.kept[i] = m.kept[i]
       /\ r.kept[Len(m.kept) + 1] = id /\ Len(m.kept) \in Nat
  BY <1>9, <1>10, AppendHas
<1>12. id \in m.ids /\ id \notin Gray(acc)
  BY <1>1, <1>7 DEF Gray
<1>13. Gray(r) = Gray(acc)
  <2>1. Gray(m) = Gray(acc) \cup {id}
    BY <1>1, <1>7
  <2> QED BY <1>10, <1>11, <1>12, <2>1 DEF Gray
<1>14. Ordered(nodes, r.kept)
  <2> SUFFICES ASSUME NEW i \in 1..Len(r.kept), NEW d \in Range(DepsOf(nodes, r.kept[i]))
               PROVE  \E j \in 1..Len(r.kept) : j < i /\ r.kept[j] = d
    BY DEF Ordered
  <2>1. CASE i \in 1..Len(m.kept)
    <3>1. PICK j \in 1..Len(m.kept) : j < i /\ m.kept[j] = d
      BY <1>7, <1>11, <2>1 DEF KeptWell, Ordered
    <3>2. j \in 1..Len(r.kept) /\ r.kept[j] = d
      BY <1>11, <3>1
    <3> QED BY <3>1, <3>2
  <2>2. CASE i = Len(m.kept) + 1
    <3>1. d \in Range(ids)
      BY <1>11, <2>2 DEF ids
    <3>2. PICK k \in 1..Len(ids) : ids[k] = d
      BY <1>2, <3>1 DEF Range
    <3>3. d \in Range(m.kept)
      BY <1>7, <3>2
    <3>4. PICK j \in 1..Len(m.kept) : m.kept[j] = d
      BY <1>9, <3>3 DEF Range
    <3>5. j \in 1..Len(r.kept) /\ r.kept[j] = d /\ j < i
      BY <1>11, <2>2, <3>4
    <3> QED BY <3>5
  <2> QED BY <1>11, <2>1, <2>2
<1>15. Range(r.kept) \subseteq r.ids
  BY <1>7, <1>10, <1>11, <1>12 DEF KeptWell
<1> HIDE DEF r, m
<1>16. acc.ids \subseteq r.ids /\ Range(acc.kept) \subseteq Range(r.kept)
  BY <1>1, <1>7, <1>10, <1>11 DEF m
<1> QED BY <1>8, <1>10, <1>11, <1>13, <1>14, <1>15, <1>16 DEF StillKept, KeptWell

(* keep keeps a node after what it depends on, unless there is a cycle.    *)
LEMMA KeepKeeps ==
  ASSUME NEW nodes, Sound(nodes), Acyclic(nodes)
  PROVE  /\ Keep(nodes) \in Calls(nodes)
         /\ \A id \in Ids(nodes) : \A a \in Keeping(nodes) :
              Due(nodes, id, a) => StillKept(nodes, id, a, Keep(nodes)[id][a])
<1>1. PICK k \in [0..Len(nodes) -> Calls(nodes)] :
        /\ k[0] = [id \in Ids(nodes) |-> [acc \in Keeping(nodes) |-> acc]]
        /\ Keep(nodes) = k[Len(nodes)]
        /\ \A c \in 1..Len(nodes) : k[c] = KeepBy(nodes, k[c - 1])
  BY KeepThere
<1>2. Len(nodes) \in Nat
  BY DEF Sound
<1> DEFINE Good(c) == \A id \in Ids(nodes) : \A a \in Keeping(nodes) :
                        Due(nodes, id, a) /\ Enough(nodes, a, c) => StillKept(nodes, id, a, k[c][id][a])
           G == {c \in 0..Len(nodes) : Good(c)}
<1>3. ASSUME NEW id \in Ids(nodes), NEW a \in Keeping(nodes), Due(nodes, id, a), id \in a.ids
      PROVE  StillKept(nodes, id, a, a)
  BY <1>3, NotGray DEF StillKept, Gray, Due
<1>4. 0 \in G
  <2>1. ASSUME NEW id \in Ids(nodes), NEW a \in Keeping(nodes),
               Due(nodes, id, a), Enough(nodes, a, 0)
        PROVE  StillKept(nodes, id, a, k[0][id][a])
    <3>1. k[0][id][a] = a /\ 0 \in Nat
      BY <1>1
    <3>2. id \in a.ids
      BY <2>1, <3>1, EnoughLeft
    <3> QED BY <1>3, <2>1, <3>1, <3>2
  <2> QED BY <1>2, <2>1
<1>5. ASSUME NEW c \in 0..Len(nodes), c \in G, c < Len(nodes) PROVE c + 1 \in G
  <2>1. /\ c + 1 \in 1..Len(nodes) /\ c + 1 \in 0..Len(nodes) /\ (c + 1) - 1 = c /\ c \in Nat
    BY <1>2, <1>5
  <2>2. k[c + 1] = KeepBy(nodes, k[c]) /\ k[c] \in Calls(nodes)
    BY <1>1, <2>1
  <2>3. ASSUME NEW id \in Ids(nodes), NEW a \in Keeping(nodes),
               Due(nodes, id, a), Enough(nodes, a, c + 1)
        PROVE  StillKept(nodes, id, a, k[c + 1][id][a])
    <3>1. CASE id \in a.ids
      <4>1. k[c + 1][id][a] = a
        BY <2>2, <3>1 DEF KeepBy
      <4> QED BY <1>3, <2>3, <3>1, <4>1
    <3>2. CASE id \notin a.ids
      <4>1. \A d \in Ids(nodes) : \A b \in Keeping(nodes) :
              Due(nodes, d, b) /\ Enough(nodes, b, c) => StillKept(nodes, d, b, k[c][d][b])
        BY <1>5
      <4> HIDE DEF G
      <4> QED BY <2>1, <2>2, <2>3, <3>2, <4>1, KeepByKeeps
    <3> QED BY <3>1, <3>2
  <2> QED BY <2>1, <2>3
<1>6. Good(Len(nodes))
  <2>1. \A c \in 0..Len(nodes) : c \in G
    <3> HIDE DEF G
    <3> QED BY <1>2, <1>4, <1>5, UpTo
  <2>2. Len(nodes) \in 0..Len(nodes)
    BY <1>2
  <2> QED BY <2>1, <2>2
<1>7. ASSUME NEW a \in Keeping(nodes) PROVE Enough(nodes, a, Len(nodes))
  <2>1. Cardinality(Ids(nodes)) <= Len(nodes) /\ IsFiniteSet(Ids(nodes)) /\ a.ids \subseteq Ids(nodes)
    BY FewIds DEF Keeping
  <2>2. IsFiniteSet(a.ids)
    BY <2>1, FS_Subset
  <2>3. Cardinality(a.ids) \in Nat /\ Cardinality(Ids(nodes)) \in Nat
    BY <2>1, <2>2, FS_CardinalityType
  <2> QED BY <1>2, <2>1, <2>3 DEF Enough
<1>8. Keep(nodes) \in Calls(nodes)
  BY <1>1, <1>2
<1> QED BY <1>1, <1>6, <1>7, <1>8

(* _cap_nodes goes through the nodes until it has kept enough.             *)
LEMMA CapFold ==
  ASSUME NEW nodes, Sound(nodes), NEW keep \in Calls(nodes)
  PROVE  \E h \in [0..Len(nodes) -> Keeping(nodes)] :
           /\ h[0] = [kept |-> <<>>, ids |-> {}] /\ KeepUpTo(keep, nodes) = h[Len(nodes)]
           /\ \A i \in 1..Len(nodes) : h[i] = IF Len(h[i - 1].kept) >= MaxTasks
                                              THEN h[i - 1]
                                              ELSE keep[nodes[i].id][h[i - 1]]
<1> DEFINE n == Len(nodes)
           B == Keeping(nodes)
           Form(g) == [p \in SUBSET (1..n) |->
                         IF p = {}
                         THEN [kept |-> <<>>, ids |-> {}]
                         ELSE IF Len(g[p \ {Max(p)}].kept) >= MaxTasks
                              THEN g[p \ {Max(p)}]
                              ELSE keep[nodes[Max(p)].id][g[p \ {Max(p)}]]]
           F == [i \in 1..n |-> [a \in B |-> IF Len(a.kept) >= MaxTasks THEN a ELSE keep[nodes[i].id][a]]]
<1>1. n \in Nat /\ DOMAIN nodes = 1..n /\ [kept |-> <<>>, ids |-> {}] \in B
  BY DEF Sound, Keeping
<1>2. F \in Steppers(n, B)
  <2>1. \A i \in 1..n : nodes[i].id \in Ids(nodes)
    BY <1>1 DEF Ids
  <2> QED BY <2>1 DEF Steppers, Calls, CallsOn
<1>3. KeepUpTo(keep, nodes) = (CHOOSE g : g = Form(g))[1..n]
  BY <1>1 DEF KeepUpTo, FoldLeft, MapThenFoldSet
<1>4. \E g : g = Form(g)
  <2>1. PICK g : Picks(g, n, B, [kept |-> <<>>, ids |-> {}], F)
    <3> HIDE DEF F, n, B
    <3> QED BY <1>1, <1>2, FoldThere
  <2>2. ASSUME NEW p \in SUBSET (1..n), p # {} PROVE Max(p) \in 1..n /\ g[p \ {Max(p)}] \in B
    <3>1. Max(p) \in p /\ p \ {Max(p)} \in SUBSET (1..n)
      BY <1>1, <2>2, HighestIn
    <3> HIDE DEF B, n
    <3> QED BY <2>1, <3>1 DEF Picks
  <2>3. \A p \in SUBSET (1..n) : g[p] = Form(g)[p]
    BY <2>1, <2>2 DEF Picks
  <2>4. g = [p \in SUBSET (1..n) |-> g[p]]
    <3> HIDE DEF B, n, F
    <3> QED BY <2>1 DEF Picks
  <2>5. g = Form(g)
    BY <2>3, <2>4
  <2> QED BY <2>5
<1>5. PICK c : c = (CHOOSE g : g = Form(g)) /\ c = Form(c)
  <2> HIDE DEF Form
  <2> QED BY <1>4
<1>6. Follows(c, n, B, [kept |-> <<>>, ids |-> {}], F)
  <2> SUFFICES ASSUME NEW p \in SUBSET (1..n)
               PROVE  /\ p = {} => c[p] = [kept |-> <<>>, ids |-> {}]
                      /\ p # {} /\ c[p \ {Max(p)}] \in B => c[p] = F[Max(p)][c[p \ {Max(p)}]]
    BY DEF Follows
  <2>1. p # {} => Max(p) \in 1..n
    BY <1>1, HighestIn
  <2>2. c[p] = Form(c)[p]
    BY <1>5
  <2> QED BY <2>1, <2>2
<1>7. PICK h : Goes(h, n, B, [kept |-> <<>>, ids |-> {}], F) /\ c[1..n] = h[n]
  <2> HIDE DEF F, n, B
  <2> QED BY <1>1, <1>2, <1>6, FoldSteps
<1>8. ASSUME NEW i \in 1..n PROVE h[i] = IF Len(h[i - 1].kept) >= MaxTasks
                                         THEN h[i - 1]
                                         ELSE keep[nodes[i].id][h[i - 1]]
  <2>1. i - 1 \in 0..n
    BY <1>1
  <2>2. h[i - 1] \in B
    <3> HIDE DEF n, B, F
    <3> QED BY <1>7, <2>1 DEF Goes
  <2> QED BY <1>7, <2>2 DEF Goes
<1>9. KeepUpTo(keep, nodes) = h[n]
  BY <1>3, <1>5, <1>7
<1> QED BY <1>7, <1>8, <1>9 DEF Goes

(* A list has the ids, and the types, of the nodes that are in it.         *)
LEMMA IdsThere ==
  ASSUME NEW nodes \in Seq(NodeSet)
  PROVE  /\ \A i \in 1..Len(nodes) : nodes[i].id \in Ids(nodes) /\ nodes[i].type \in TypesOf(nodes)
         /\ \A id \in Ids(nodes) : \E i \in 1..Len(nodes) : nodes[i].id = id
         /\ \A t \in TypesOf(nodes) : \E i \in 1..Len(nodes) : nodes[i].type = t
<1> DOMAIN nodes = 1..Len(nodes)
  OBVIOUS
<1> QED BY DEF Ids, TypesOf

(* What _cap_nodes leaves is of the proposed nodes, and within the cap.    *)
LEMMA CapTyped ==
  ASSUME NEW nodes, Sound(nodes)
  PROVE  /\ CapNodes(nodes) \in Seq(NodeSet) /\ Len(CapNodes(nodes)) <= MaxTasks
         /\ Ids(CapNodes(nodes)) \subseteq Ids(nodes) /\ TypesOf(CapNodes(nodes)) \subseteq TaskTypes
         /\ Len(nodes) > MaxTasks =>
              \E kept \in Seq(Ids(nodes)) :
                /\ kept = KeepUpTo(Keep(nodes), nodes).kept
                /\ Len(CapNodes(nodes)) <= Len(kept)
                /\ \A i \in 1..Len(CapNodes(nodes)) : CapNodes(nodes)[i] = ById(nodes)[kept[i]]
<1>1. nodes \in Seq(NodeSet) /\ Len(nodes) \in Nat /\ MaxTasks \in Nat
  BY PlanAssumption DEF Sound
<1>2. CASE Len(nodes) <= MaxTasks
  <2>1. CapNodes(nodes) = nodes
    BY <1>2 DEF CapNodes
  <2> QED BY <1>1, <1>2, <2>1 DEF Sound
<1>3. CASE Len(nodes) > MaxTasks
  <2> DEFINE kept == KeepUpTo(Keep(nodes), nodes).kept
             n == Min({MaxTasks, Len(kept)})
             cut == [i \in 1..n |-> ById(nodes)[kept[i]]]
  <2>1. Keep(nodes) \in Calls(nodes)
    <3>1. PICK k \in [0..Len(nodes) -> Calls(nodes)] : Keep(nodes) = k[Len(nodes)]
      BY KeepThere
    <3>2. Len(nodes) \in 0..Len(nodes)
      BY <1>1
    <3> QED BY <3>1, <3>2
  <2>2. KeepUpTo(Keep(nodes), nodes) \in Keeping(nodes)
    BY <1>1, <2>1, CapFold
  <2>3. kept \in Seq(Ids(nodes))
    BY <2>2 DEF Keeping
  <2>4. n \in Nat /\ n <= MaxTasks /\ n <= Len(kept)
    <3>1. Len(kept) \in Nat
      BY <2>3
    <3> HIDE DEF kept
    <3>2. \E x \in {MaxTasks, Len(kept)} : \A y \in {MaxTasks, Len(kept)} : x <= y
      BY <1>1, <3>1
    <3> QED BY <1>1, <3>1, <3>2 DEF Min
  <2>5. CapNodes(nodes) = cut
    <3>1. ~ (Len(nodes) <= MaxTasks)
      BY <1>1, <1>3
    <3> QED BY <3>1 DEF CapNodes
  <2> HIDE DEF kept, n
  <2>6. \A i \in 1..n : kept[i] \in Ids(nodes) /\ ById(nodes)[kept[i]] \in NodeSet
    BY <2>3, <2>4, NodeOf
  <2>7. cut \in Seq(NodeSet) /\ Len(cut) = n
    BY <2>4, <2>6
  <2>8. Ids(cut) \subseteq Ids(nodes)
    <3>1. \A i \in 1..n : ById(nodes)[kept[i]].id = kept[i]
      BY <2>6, NodeOf
    <3> QED BY <2>6, <3>1 DEF Ids
  <2>9. TypesOf(cut) \subseteq TaskTypes
    <3>1. ASSUME NEW i \in 1..n PROVE ById(nodes)[kept[i]].type \in TaskTypes
      <4>1. \E j \in DOMAIN nodes : ById(nodes)[kept[i]] = nodes[j]
        BY <2>6, NodeOf
      <4> QED BY <4>1 DEF Sound, TypesOf
    <3> QED BY <3>1 DEF TypesOf
  <2> HIDE DEF cut
  <2>10. \A i \in 1..n : cut[i] = ById(nodes)[kept[i]]
    BY DEF cut
  <2> QED BY <1>1, <2>3, <2>4, <2>5, <2>7, <2>8, <2>9, <2>10 DEF kept
<1> QED BY <1>1, <1>2, <1>3

(* No kept node needs one that was cut off, unless there is a cycle.       *)
LEMMA CapSound ==
  ASSUME NEW nodes, Sound(nodes), Acyclic(nodes)
  PROVE  Sound(CapNodes(nodes))
<1> DEFINE cut == CapNodes(nodes)
<1>1. cut \in Seq(NodeSet) /\ TypesOf(cut) \subseteq TaskTypes
  BY CapTyped
<1>2. CASE Len(nodes) <= MaxTasks
  BY <1>2 DEF CapNodes
<1>3. CASE Len(nodes) > MaxTasks
  <2>1. Len(nodes) \in Nat /\ DOMAIN nodes = 1..Len(nodes) /\ nodes \in Seq(NodeSet)
    BY DEF Sound
  <2>2. PICK h \in [0..Len(nodes) -> Keeping(nodes)] :
          /\ h[0] = [kept |-> <<>>, ids |-> {}]
          /\ KeepUpTo(Keep(nodes), nodes) = h[Len(nodes)]
          /\ \A i \in 1..Len(nodes) :
               h[i] = IF Len(h[i - 1].kept) >= MaxTasks THEN h[i - 1]
                      ELSE Keep(nodes)[nodes[i].id][h[i - 1]]
    <3>1. Keep(nodes) \in Calls(nodes)
      BY KeepKeeps
    <3> QED BY <3>1, CapFold
  <2> DEFINE Good(i) == KeptWell(nodes, h[i]) /\ Gray(h[i]) = {}
             G == {i \in 0..Len(nodes) : Good(i)}
  <2>3. 0 \in G
    <3>3. h[0].kept = <<>> /\ h[0].ids = {} /\ h[0] \in Keeping(nodes)
      <4>1. 0 \in 0..Len(nodes)
        BY <2>1
      <4>2. h[0] \in Keeping(nodes)
        BY <2>2, <4>1
      <4>3. h[0] = [kept |-> <<>>, ids |-> {}]
        BY <2>2
      <4> HIDE DEF G
      <4> QED BY <4>2, <4>3
    <3>1. h[0].kept = <<>> /\ h[0].ids = {} /\ Range(h[0].kept) = {} /\ h[0] \in Keeping(nodes)
      <4>1. Range(<<>>) = {}
        BY DEF Range
      <4> QED BY <3>3, <4>1
    <3>2. Ordered(nodes, h[0].kept)
      BY <3>1 DEF Ordered
    <3> QED BY <2>1, <3>1, <3>2 DEF KeptWell, Gray
  <2>4. ASSUME NEW i \in 0..Len(nodes), i \in G, i < Len(nodes) PROVE i + 1 \in G
    <3>1. i + 1 \in 1..Len(nodes) /\ i + 1 \in 0..Len(nodes) /\ (i + 1) - 1 = i
      BY <2>1, <2>4
    <3>2. nodes[i + 1].id \in Ids(nodes) /\ h[i] \in Keeping(nodes)
      BY <2>1, <2>2, <3>1, IdsThere
    <3>3. CASE Len(h[i].kept) >= MaxTasks
      BY <2>2, <2>4, <3>1, <3>3
    <3>4. CASE ~ (Len(h[i].kept) >= MaxTasks)
      <4>1. h[i + 1] = Keep(nodes)[nodes[i + 1].id][h[i]]
        BY <2>2, <3>1, <3>4
      <4>2. Due(nodes, nodes[i + 1].id, h[i])
        BY <2>4 DEF Due
      <4>3. StillKept(nodes, nodes[i + 1].id, h[i], h[i + 1])
        BY <3>2, <4>1, <4>2, KeepKeeps
      <4> QED BY <2>4, <3>1, <4>3 DEF StillKept
    <3> QED BY <3>3, <3>4
  <2>5. KeptWell(nodes, KeepUpTo(Keep(nodes), nodes))
    <3>1. \A i \in 0..Len(nodes) : i \in G
      <4> HIDE DEF G
      <4> QED BY <2>1, <2>3, <2>4, UpTo
    <3>2. Len(nodes) \in 0..Len(nodes)
      BY <2>1
    <3> QED BY <2>2, <3>1, <3>2
  <2>6. PICK kept \in Seq(Ids(nodes)) :
          /\ kept = KeepUpTo(Keep(nodes), nodes).kept /\ Len(cut) <= Len(kept)
          /\ \A i \in 1..Len(cut) : cut[i] = ById(nodes)[kept[i]]
    BY <1>3, CapTyped
  <2> HIDE DEF cut
  <2>7. ASSUME NEW i \in DOMAIN cut, NEW d \in Range(cut[i].deps) PROVE d \in Ids(cut)
    <3>1. /\ DOMAIN cut = 1..Len(cut) /\ Len(cut) \in Nat /\ Len(kept) \in Nat
          /\ i \in 1..Len(kept) /\ kept[i] \in Ids(nodes)
      BY <1>1, <2>6
    <3>2. d \in Range(DepsOf(nodes, kept[i]))
      BY <2>6, <3>1 DEF DepsOf
    <3>3. PICK j \in 1..Len(kept) : j < i /\ kept[j] = d
      BY <2>5, <2>6, <3>1, <3>2 DEF KeptWell, Ordered
    <3>4. j \in 1..Len(cut) /\ kept[j] \in Ids(nodes)
      BY <2>6, <3>1, <3>3
    <3>5. cut[j].id = d
      <4>1. ById(nodes)[kept[j]].id = kept[j]
        BY <3>4, NodeOf
      <4> QED BY <2>6, <3>3, <3>4, <4>1
    <3> QED BY <1>1, <3>4, <3>5, IdsThere
  <2>8. ASSUME NEW i \in DOMAIN cut PROVE cut[i].deps \in Seq(Ids(cut))
    <3>1. cut[i].deps \in Seq(Ids(nodes))
      <4>1. DOMAIN cut = 1..Len(cut) /\ Len(cut) \in Nat /\ Len(kept) \in Nat /\ kept[i] \in Ids(nodes)
        BY <1>1, <2>6
      <4> QED BY <2>6, <4>1, NodeOf DEF DepsOf
    <3>2. \A k \in DOMAIN cut[i].deps : cut[i].deps[k] \in Ids(cut)
      BY <2>7 DEF Range
    <3> QED BY <3>1, <3>2
  <2> QED BY <1>1, <2>8 DEF Sound, cut
<1>4. Len(nodes) \in Nat /\ MaxTasks \in Nat
  BY PlanAssumption DEF Sound
<1> QED BY <1>2, <1>3, <1>4

(* A list of sound nodes                                                   *)
SoundNode(n, ids) == n.type \in TaskTypes /\ n.deps \in Seq(ids)

LEMMA SoundNodes ==
  ASSUME NEW nodes \in Proposals \cup Templates, nodes \in Seq(Range(nodes)),
         \A i \in DOMAIN nodes : SoundNode(nodes[i], Ids(nodes))
  PROVE  Sound(nodes)
<1>1. Range(nodes) \subseteq NodeSet
  BY DEF NodeSet
<1>2. nodes \in Seq(NodeSet)
  BY <1>1
<1> QED BY <1>2 DEF Sound, SoundNode, TypesOf

(* Every template is sound.                                                *)
LEMMA TemplatesSound == \A nodes \in Templates : Sound(nodes)
<1>1. {"price", "vendor", "contract", "spec", "analysis", "verification", "research", "analyze",
       "report", "notify"} \subseteq TaskTypes
  BY DEF TaskTypes
<1>2. Sound(ProcurementDag)
  <2> DEFINE nodes == ProcurementDag
  <2>1. DOMAIN nodes = 1..6 /\ nodes \in Proposals \cup Templates
    BY DEF ProcurementDag, Templates
  <2>2. /\ nodes[1] = Node("price-1", "price", <<>>)
        /\ nodes[2] = Node("vendor-1", "vendor", <<>>)
        /\ nodes[3] = Node("contract-1", "contract", <<>>)
        /\ nodes[4] = Node("spec-1", "spec", <<>>)
        /\ nodes[5] = Node("analysis-1", "analysis", <<"price-1", "vendor-1", "contract-1", "spec-1">>)
        /\ nodes[6] = Node("verification-1", "verification", <<"analysis-1">>)
    BY DEF ProcurementDag
  <2>3. /\ nodes[1].id = "price-1"
        /\ nodes[2].id = "vendor-1"
        /\ nodes[3].id = "contract-1"
        /\ nodes[4].id = "spec-1"
        /\ nodes[5].id = "analysis-1"
        /\ nodes[6].id = "verification-1"
    BY <2>2 DEF Node
  <2>6. nodes \in Seq({nodes[i] : i \in DOMAIN nodes})
    BY DEF ProcurementDag
  <2>7. nodes \in Seq(Range(nodes))
    BY <2>6 DEF Range
  <2> HIDE DEF nodes
  <2>4. {"price-1", "vendor-1", "contract-1", "spec-1", "analysis-1", "verification-1"} \subseteq Ids(nodes)
    BY <2>1, <2>3 DEF Ids
  <2>5. ASSUME NEW i \in 1..6 PROVE SoundNode(nodes[i], Ids(nodes))
    <3>1. <<>> \in Seq(Ids(nodes))
      BY <2>4
    <3>2. <<"price-1", "vendor-1", "contract-1", "spec-1">> \in Seq(Ids(nodes))
      BY <2>4
    <3>3. <<"analysis-1">> \in Seq(Ids(nodes))
      BY <2>4
    <3>4. \A j \in 1..6 : SoundNode(nodes[j], Ids(nodes))
      <4>1. SoundNode(nodes[1], Ids(nodes))
        BY <2>2, <3>1, <1>1 DEF SoundNode, Node
      <4>2. SoundNode(nodes[2], Ids(nodes))
        BY <2>2, <3>1, <1>1 DEF SoundNode, Node
      <4>3. SoundNode(nodes[3], Ids(nodes))
        BY <2>2, <3>1, <1>1 DEF SoundNode, Node
      <4>4. SoundNode(nodes[4], Ids(nodes))
        BY <2>2, <3>1, <1>1 DEF SoundNode, Node
      <4>5. SoundNode(nodes[5], Ids(nodes))
        BY <2>2, <3>2, <1>1 DEF SoundNode, Node
      <4>6. SoundNode(nodes[6], Ids(nodes))
        BY <2>2, <3>3, <1>1 DEF SoundNode, Node
      <4> QED BY <4>1, <4>2, <4>3, <4>4, <4>5, <4>6
    <3> QED BY <3>4
  <2> QED BY <2>1, <2>5, <2>7, SoundNodes DEF nodes
<1>3. Sound(<<Node("research-1", "research", <<>>),
                Node("analyze-1", "analyze", <<"research-1">>),
                Node("analyze-2", "analyze", <<"research-1">>),
                Node("report-1", "report", <<"analyze-1", "analyze-2">>)>>)
  <2> DEFINE nodes == <<Node("research-1", "research", <<>>),
                Node("analyze-1", "analyze", <<"research-1">>),
                Node("analyze-2", "analyze", <<"research-1">>),
                Node("report-1", "report", <<"analyze-1", "analyze-2">>)>>
  <2>1. DOMAIN nodes = 1..4 /\ nodes \in Proposals \cup Templates
    BY DEF Templates
  <2>2. /\ nodes[1] = Node("research-1", "research", <<>>)
        /\ nodes[2] = Node("analyze-1", "analyze", <<"research-1">>)
        /\ nodes[3] = Node("analyze-2", "analyze", <<"research-1">>)
        /\ nodes[4] = Node("report-1", "report", <<"analyze-1", "analyze-2">>)
    OBVIOUS
  <2>3. /\ nodes[1].id = "research-1"
        /\ nodes[2].id = "analyze-1"
        /\ nodes[3].id = "analyze-2"
        /\ nodes[4].id = "report-1"
    BY <2>2 DEF Node
  <2>6. nodes \in Seq({nodes[i] : i \in DOMAIN nodes})
    OBVIOUS
  <2>7. nodes \in Seq(Range(nodes))
    BY <2>6 DEF Range
  <2> HIDE DEF nodes
  <2>4. {"research-1", "analyze-1", "analyze-2", "report-1"} \subseteq Ids(nodes)
    BY <2>1, <2>3 DEF Ids
  <2>5. ASSUME NEW i \in 1..4 PROVE SoundNode(nodes[i], Ids(nodes))
    <3>1. <<>> \in Seq(Ids(nodes))
      BY <2>4
    <3>2. <<"research-1">> \in Seq(Ids(nodes))
      BY <2>4
    <3>3. <<"analyze-1", "analyze-2">> \in Seq(Ids(nodes))
      BY <2>4
    <3>4. \A j \in 1..4 : SoundNode(nodes[j], Ids(nodes))
      <4>1. SoundNode(nodes[1], Ids(nodes))
        BY <2>2, <3>1, <1>1 DEF SoundNode, Node
      <4>2. SoundNode(nodes[2], Ids(nodes))
        BY <2>2, <3>2, <1>1 DEF SoundNode, Node
      <4>3. SoundNode(nodes[3], Ids(nodes))
        BY <2>2, <3>2, <1>1 DEF SoundNode, Node
      <4>4. SoundNode(nodes[4], Ids(nodes))
        BY <2>2, <3>3, <1>1 DEF SoundNode, Node
      <4> QED BY <4>1, <4>2, <4>3, <4>4
    <3> QED BY <3>4
  <2> QED BY <2>1, <2>5, <2>7, SoundNodes DEF nodes
<1>4. Sound(<<Node("research-1", "research", <<>>),
                Node("report-1", "report", <<"research-1">>),
                Node("notify-1", "notify", <<"report-1">>)>>)
  <2> DEFINE nodes == <<Node("research-1", "research", <<>>),
                Node("report-1", "report", <<"research-1">>),
                Node("notify-1", "notify", <<"report-1">>)>>
  <2>1. DOMAIN nodes = 1..3 /\ nodes \in Proposals \cup Templates
    BY DEF Templates
  <2>2. /\ nodes[1] = Node("research-1", "research", <<>>)
        /\ nodes[2] = Node("report-1", "report", <<"research-1">>)
        /\ nodes[3] = Node("notify-1", "notify", <<"report-1">>)
    OBVIOUS
  <2>3. /\ nodes[1].id = "research-1"
        /\ nodes[2].id = "report-1"
        /\ nodes[3].id = "notify-1"
    BY <2>2 DEF Node
  <2>6. nodes \in Seq({nodes[i] : i \in DOMAIN nodes})
    OBVIOUS
  <2>7. nodes \in Seq(Range(nodes))
    BY <2>6 DEF Range
  <2> HIDE DEF nodes
  <2>4. {"research-1", "report-1", "notify-1"} \subseteq Ids(nodes)
    BY <2>1, <2>3 DEF Ids
  <2>5. ASSUME NEW i \in 1..3 PROVE SoundNode(nodes[i], Ids(nodes))
    <3>1. <<>> \in Seq(Ids(nodes))
      BY <2>4
    <3>2. <<"research-1">> \in Seq(Ids(nodes))
      BY <2>4
    <3>3. <<"report-1">> \in Seq(Ids(nodes))
      BY <2>4
    <3>4. \A j \in 1..3 : SoundNode(nodes[j], Ids(nodes))
      <4>1. SoundNode(nodes[1], Ids(nodes))
        BY <2>2, <3>1, <1>1 DEF SoundNode, Node
      <4>2. SoundNode(nodes[2], Ids(nodes))
        BY <2>2, <3>2, <1>1 DEF SoundNode, Node
      <4>3. SoundNode(nodes[3], Ids(nodes))
        BY <2>2, <3>3, <1>1 DEF SoundNode, Node
      <4> QED BY <4>1, <4>2, <4>3
    <3> QED BY <3>4
  <2> QED BY <2>1, <2>5, <2>7, SoundNodes DEF nodes
<1>5. Sound(<<Node("research-1", "research", <<>>),
                Node("analyze-1", "analyze", <<"research-1">>),
                Node("report-1", "report", <<"analyze-1">>)>>)
  <2> DEFINE nodes == <<Node("research-1", "research", <<>>),
                Node("analyze-1", "analyze", <<"research-1">>),
                Node("report-1", "report", <<"analyze-1">>)>>
  <2>1. DOMAIN nodes = 1..3 /\ nodes \in Proposals \cup Templates
    BY DEF Templates
  <2>2. /\ nodes[1] = Node("research-1", "research", <<>>)
        /\ nodes[2] = Node("analyze-1", "analyze", <<"research-1">>)
        /\ nodes[3] = Node("report-1", "report", <<"analyze-1">>)
    OBVIOUS
  <2>3. /\ nodes[1].id = "research-1"
        /\ nodes[2].id = "analyze-1"
        /\ nodes[3].id = "report-1"
    BY <2>2 DEF Node
  <2>6. nodes \in Seq({nodes[i] : i \in DOMAIN nodes})
    OBVIOUS
  <2>7. nodes \in Seq(Range(nodes))
    BY <2>6 DEF Range
  <2> HIDE DEF nodes
  <2>4. {"research-1", "analyze-1", "report-1"} \subseteq Ids(nodes)
    BY <2>1, <2>3 DEF Ids
  <2>5. ASSUME NEW i \in 1..3 PROVE SoundNode(nodes[i], Ids(nodes))
    <3>1. <<>> \in Seq(Ids(nodes))
      BY <2>4
    <3>2. <<"research-1">> \in Seq(Ids(nodes))
      BY <2>4
    <3>3. <<"analyze-1">> \in Seq(Ids(nodes))
      BY <2>4
    <3>4. \A j \in 1..3 : SoundNode(nodes[j], Ids(nodes))
      <4>1. SoundNode(nodes[1], Ids(nodes))
        BY <2>2, <3>1, <1>1 DEF SoundNode, Node
      <4>2. SoundNode(nodes[2], Ids(nodes))
        BY <2>2, <3>2, <1>1 DEF SoundNode, Node
      <4>3. SoundNode(nodes[3], Ids(nodes))
        BY <2>2, <3>3, <1>1 DEF SoundNode, Node
      <4> QED BY <4>1, <4>2, <4>3
    <3> QED BY <3>4
  <2> QED BY <2>1, <2>5, <2>7, SoundNodes DEF nodes
<1> QED BY <1>2, <1>3, <1>4, <1>5 DEF Templates

FoundSets(nodes) == SUBSET Found(nodes)
DepthCalls(nodes) == [Ids(nodes) -> [SUBSET Ids(nodes) -> SUBSET Found(nodes)]]

(* A path down from a task, counted in tasks; none for no task             *)
HasPath(nodes, id, n) ==
  n = 0 \/ \E path \in [1..n -> Ids(nodes)] :
             /\ path[1] = id
             /\ \A i \in 2..n : path[i] \in Children(nodes, path[i - 1])

(* The greater of two depths is one of them.                               *)
LEMMA HigherOf ==
  ASSUME NEW a \in Nat, NEW b \in Nat
  PROVE  Max({a, b}) \in {a, b}
<1>1. \E x \in {a, b} : \A y \in {a, b} : x >= y
  OBVIOUS
<1> QED BY <1>1 DEF Max

(* What a call for a child may end with is a depth and a visited set.      *)
LEMMA AfterTyped ==
  ASSUME NEW nodes, NEW depth \in DepthCalls(nodes), NEW founds \in SUBSET Found(nodes),
         NEW c \in Ids(nodes)
  PROVE  /\ AfterChild(depth, founds, c) \in SUBSET Found(nodes)
         /\ \A r \in AfterChild(depth, founds, c) :
              \/ \E f \in founds : r.depth = f.depth
              \/ \E f \in founds : \E below \in depth[c][f.visited] : r.depth = below.depth
<1> SUFFICES ASSUME NEW r \in AfterChild(depth, founds, c)
             PROVE  /\ r \in Found(nodes)
                    /\ \/ \E f \in founds : r.depth = f.depth
                       \/ \E f \in founds : \E below \in depth[c][f.visited] : r.depth = below.depth
  OBVIOUS
<1>1. PICK f \in founds : \E below \in depth[c][f.visited] :
        r = [below EXCEPT !.depth = Max({@, f.depth})]
  BY DEF AfterChild
<1>2. f \in Found(nodes) /\ f.visited \in SUBSET Ids(nodes) /\ f.depth \in Nat
  BY DEF Found
<1>3. PICK below \in depth[c][f.visited] : r = [below EXCEPT !.depth = Max({@, f.depth})]
  BY <1>1
<1>4. below \in Found(nodes) /\ below.depth \in Nat
  <2>1. depth[c][f.visited] \in SUBSET Found(nodes)
    BY <1>2 DEF DepthCalls
  <2> QED BY <2>1 DEF Found
<1>5. Max({below.depth, f.depth}) \in {below.depth, f.depth}
  BY <1>2, <1>4, HigherOf
<1>6. r \in Found(nodes) /\ r.depth = Max({below.depth, f.depth})
  BY <1>2, <1>3, <1>4, <1>5 DEF Found
<1> QED BY <1>3, <1>5, <1>6

(* The calls for the children come one after the other.                    *)
LEMMA DepthAllFold ==
  ASSUME NEW nodes, NEW depth \in DepthCalls(nodes), NEW founds \in FoundSets(nodes),
         NEW order \in Seq(Ids(nodes))
  PROVE  \E h \in [0..Len(order) -> FoundSets(nodes)] :
           /\ h[0] = founds /\ DepthAll(depth, founds, order) = h[Len(order)]
           /\ \A i \in 1..Len(order) : h[i] = AfterChild(depth, h[i - 1], order[i])
<1> DEFINE n == Len(order)
           B == FoundSets(nodes)
           Form(g) == [p \in SUBSET (1..n) |->
                         IF p = {} THEN founds ELSE AfterChild(depth, g[p \ {Max(p)}], order[Max(p)])]
           F == [i \in 1..n |-> [a \in B |-> AfterChild(depth, a, order[i])]]
<1>1. n \in Nat /\ DOMAIN order = 1..n /\ founds \in B
  OBVIOUS
<1>2. F \in Steppers(n, B)
  <2>1. \A i \in 1..n : order[i] \in Ids(nodes)
    BY <1>1
  <2> QED BY <2>1, AfterTyped DEF Steppers, FoundSets
<1>3. DepthAll(depth, founds, order) = (CHOOSE g : g = Form(g))[1..n]
  BY <1>1 DEF DepthAll, FoldLeft, MapThenFoldSet
<1>4. \E g : g = Form(g)
  <2>1. PICK g : Picks(g, n, B, founds, F)
    <3> HIDE DEF F, n, B
    <3> QED BY <1>1, <1>2, FoldThere
  <2>2. ASSUME NEW p \in SUBSET (1..n), p # {} PROVE Max(p) \in 1..n /\ g[p \ {Max(p)}] \in B
    <3>1. Max(p) \in p /\ p \ {Max(p)} \in SUBSET (1..n)
      BY <1>1, <2>2, HighestIn
    <3> HIDE DEF B, n
    <3> QED BY <2>1, <3>1 DEF Picks
  <2>3. \A p \in SUBSET (1..n) : g[p] = Form(g)[p]
    BY <2>1, <2>2 DEF Picks
  <2>4. g = [p \in SUBSET (1..n) |-> g[p]]
    <3> HIDE DEF B, n, F
    <3> QED BY <2>1 DEF Picks
  <2>5. g = Form(g)
    BY <2>3, <2>4
  <2> QED BY <2>5
<1>5. PICK c : c = (CHOOSE g : g = Form(g)) /\ c = Form(c)
  <2> HIDE DEF Form
  <2> QED BY <1>4
<1>6. Follows(c, n, B, founds, F)
  <2> SUFFICES ASSUME NEW p \in SUBSET (1..n)
               PROVE  /\ p = {} => c[p] = founds
                      /\ p # {} /\ c[p \ {Max(p)}] \in B => c[p] = F[Max(p)][c[p \ {Max(p)}]]
    BY DEF Follows
  <2>1. p # {} => Max(p) \in 1..n
    BY <1>1, HighestIn
  <2>2. c[p] = Form(c)[p]
    BY <1>5
  <2> QED BY <2>1, <2>2
<1>7. PICK h : Goes(h, n, B, founds, F) /\ c[1..n] = h[n]
  <2> HIDE DEF F, n, B
  <2> QED BY <1>1, <1>2, <1>6, FoldSteps
<1>8. ASSUME NEW i \in 1..n PROVE h[i] = AfterChild(depth, h[i - 1], order[i])
  <2>1. i - 1 \in 0..n
    BY <1>1
  <2>2. h[i - 1] \in B
    <3> HIDE DEF n, B, F
    <3> QED BY <1>7, <2>1 DEF Goes
  <2> QED BY <1>7, <2>2 DEF Goes
<1>9. DepthAll(depth, founds, order) = h[n]
  BY <1>3, <1>5, <1>7
<1> QED BY <1>7, <1>8, <1>9 DEF Goes


(* The children of a task, in any order                                    *)
LEMMA OrderTyped ==
  ASSUME NEW nodes, Sound(nodes), NEW id \in Ids(nodes),
         NEW order \in SetToSeqs(Children(nodes, id))
  PROVE  order \in Seq(Ids(nodes)) /\ \A i \in 1..Len(order) : order[i] \in Children(nodes, id)
<1>1. Children(nodes, id) \subseteq Ids(nodes)
  BY DEF Children
<1>2. IsFiniteSet(Children(nodes, id))
  BY <1>1, FewIds, FS_Subset
<1>3. Cardinality(Children(nodes, id)) \in Nat
  BY <1>2, FS_CardinalityType
<1>4. order \in [1..Cardinality(Children(nodes, id)) -> Children(nodes, id)]
  BY DEF SetToSeqs
<1>5. order \in Seq(Children(nodes, id))
  BY <1>3, <1>4
<1> QED BY <1>1, <1>5

(* A path that goes on from a child is one longer.                         *)
LEMMA LongerPath ==
  ASSUME NEW nodes, NEW id \in Ids(nodes), NEW n \in Nat,
         n = 0 \/ \E c \in Children(nodes, id) : HasPath(nodes, c, n)
  PROVE  HasPath(nodes, id, n + 1)
<1>1. CASE n = 0
  <2> DEFINE path == [i \in 1..1 |-> id]
  <2>1. path \in [1..n + 1 -> Ids(nodes)] /\ path[1] = id /\ 2..n + 1 = {}
    BY <1>1
  <2> HIDE DEF path
  <2> QED BY <2>1 DEF HasPath
<1>2. CASE n # 0
  <2>1. PICK c \in Children(nodes, id) : HasPath(nodes, c, n)
    BY <1>2
  <2>2. PICK tail \in [1..n -> Ids(nodes)] :
          tail[1] = c /\ \A i \in 2..n : tail[i] \in Children(nodes, tail[i - 1])
    BY <1>2, <2>1 DEF HasPath
  <2> DEFINE path == [i \in 1..n + 1 |-> IF i = 1 THEN id ELSE tail[i - 1]]
  <2>3. path \in [1..n + 1 -> Ids(nodes)] /\ path[1] = id
    BY <2>2
  <2>4. ASSUME NEW i \in 2..n + 1 PROVE path[i] \in Children(nodes, path[i - 1])
    <3>1. i \in 1..n + 1 /\ i - 1 \in 1..n + 1 /\ i # 1 /\ path[i] = tail[i - 1]
      OBVIOUS
    <3>2. CASE i = 2
      BY <2>1, <2>2, <3>1, <3>2
    <3>3. CASE i # 2
      <4>1. i - 1 \in 2..n /\ i - 1 # 1
        BY <3>1, <3>3
      <4>2. path[i - 1] = tail[(i - 1) - 1]
        BY <3>1, <4>1
      <4> QED BY <2>2, <3>1, <4>1, <4>2
    <3> QED BY <3>2, <3>3
  <2> HIDE DEF path
  <2> QED BY <2>3, <2>4 DEF HasPath
<1> QED BY <1>1, <1>2

(* A call of _compute_depth finds a path of as many tasks as it counts,    *)
(* when the calls for the children do.                                     *)
LEMMA DepthByFinds ==
  ASSUME NEW nodes, Sound(nodes), NEW deeper \in DepthCalls(nodes)
  PROVE  /\ DepthBy(nodes, deeper) \in DepthCalls(nodes)
         /\ (\A id \in Ids(nodes) : \A visited \in SUBSET Ids(nodes) :
               \A f \in deeper[id][visited] : HasPath(nodes, id, f.depth))
            => \A id \in Ids(nodes) : \A visited \in SUBSET Ids(nodes) :
                 \A f \in DepthBy(nodes, deeper)[id][visited] : HasPath(nodes, id, f.depth)
<1> DEFINE begin(id, visited) == {[depth |-> 0, visited |-> visited \cup {id}]}
           Found2(id, visited) ==
             UNION {DepthAll(deeper, begin(id, visited), order) :
                      order \in SetToSeqs(Children(nodes, id))}
           Finds == \A id \in Ids(nodes) : \A visited \in SUBSET Ids(nodes) :
                      \A f \in deeper[id][visited] : HasPath(nodes, id, f.depth)
<1>1. ASSUME NEW id \in Ids(nodes), NEW visited \in SUBSET Ids(nodes),
             NEW f \in Found2(id, visited)
      PROVE  /\ f \in Found(nodes)
             /\ Finds => f.depth = 0 \/ \E c \in Children(nodes, id) : HasPath(nodes, c, f.depth)
  <2>1. PICK order \in SetToSeqs(Children(nodes, id)) :
          f \in DepthAll(deeper, begin(id, visited), order)
    OBVIOUS
  <2>2. order \in Seq(Ids(nodes)) /\ Len(order) \in Nat
    BY OrderTyped
  <2>3. \A i \in 1..Len(order) : order[i] \in Children(nodes, id)
    BY OrderTyped
  <2> DEFINE first == begin(id, visited)
  <2>4. first \in FoundSets(nodes)
    BY DEF Found, FoundSets
  <2>5. PICK h \in [0..Len(order) -> SUBSET Found(nodes)] :
          /\ h[0] = first /\ DepthAll(deeper, first, order) = h[Len(order)]
          /\ \A i \in 1..Len(order) : h[i] = AfterChild(deeper, h[i - 1], order[i])
    <3> HIDE DEF first
    <3>1. PICK h \in [0..Len(order) -> FoundSets(nodes)] :
            /\ h[0] = first /\ DepthAll(deeper, first, order) = h[Len(order)]
            /\ \A i \in 1..Len(order) : h[i] = AfterChild(deeper, h[i - 1], order[i])
      BY <2>2, <2>4, DepthAllFold
    <3> QED BY <3>1 DEF FoundSets
  <2>6. Len(order) \in 0..Len(order) /\ 0 \in 0..Len(order)
    BY <2>2
  <2>7. f \in Found(nodes)
    BY <2>1, <2>5, <2>6
  <2>8. ASSUME Finds PROVE f.depth = 0 \/ \E c \in Children(nodes, id) : HasPath(nodes, c, f.depth)
    <3> DEFINE G == {i \in 0..Len(order) : \A r \in h[i] :
                       r.depth = 0 \/ \E c \in Children(nodes, id) : HasPath(nodes, c, r.depth)}
    <3>1. 0 \in G
      BY <2>5, <2>6
    <3>2. ASSUME NEW i \in 0..Len(order), i \in G, i < Len(order) PROVE i + 1 \in G
      <4>1. i + 1 \in 1..Len(order) /\ i + 1 \in 0..Len(order) /\ (i + 1) - 1 = i
        BY <2>2, <3>2
      <4>2. h[i + 1] = AfterChild(deeper, h[i], order[i + 1]) /\ h[i] \in SUBSET Found(nodes)
        BY <2>5, <4>1
      <4>3. order[i + 1] \in Children(nodes, id) /\ order[i + 1] \in Ids(nodes)
        BY <2>2, <2>3, <4>1
      <4>4. ASSUME NEW r \in h[i + 1]
            PROVE  r.depth = 0 \/ \E c \in Children(nodes, id) : HasPath(nodes, c, r.depth)
        <5>1. \/ \E g \in h[i] : r.depth = g.depth
              \/ \E g \in h[i] : \E below \in deeper[order[i + 1]][g.visited] : r.depth = below.depth
          BY <4>2, <4>3, <4>4, AfterTyped
        <5>2. \A g \in h[i] : g.visited \in SUBSET Ids(nodes)
          BY <4>2 DEF Found
        <5>3. CASE \E g \in h[i] : r.depth = g.depth
          BY <3>2, <5>3
        <5>4. CASE \E g \in h[i] : \E below \in deeper[order[i + 1]][g.visited] :
                     r.depth = below.depth
          <6>1. PICK g \in h[i] : \E below \in deeper[order[i + 1]][g.visited] :
                  r.depth = below.depth
            BY <5>4
          <6>2. HasPath(nodes, order[i + 1], r.depth)
            BY <2>8, <4>3, <5>2, <6>1
          <6> QED BY <4>3, <6>2
        <5> QED BY <5>1, <5>3, <5>4
      <4> QED BY <4>1, <4>4
    <3>3. \A i \in 0..Len(order) : i \in G
      <4> HIDE DEF G
      <4> QED BY <2>2, <3>1, <3>2, UpTo
    <3> QED BY <2>1, <2>5, <2>6, <3>3
  <2> QED BY <2>7, <2>8
<1>2. ASSUME NEW id \in Ids(nodes), NEW visited \in SUBSET Ids(nodes)
      PROVE  DepthBy(nodes, deeper)[id][visited] =
               IF id \in visited THEN {[depth |-> 0, visited |-> visited]}
               ELSE {[f EXCEPT !.depth = @ + 1] : f \in Found2(id, visited)}
  BY DEF DepthBy
<1> HIDE DEF Found2
<1>3. ASSUME NEW id \in Ids(nodes), NEW visited \in SUBSET Ids(nodes),
             NEW r \in DepthBy(nodes, deeper)[id][visited]
      PROVE  r \in Found(nodes) /\ (Finds => HasPath(nodes, id, r.depth))
  <2>1. CASE id \in visited
    <3>1. r = [depth |-> 0, visited |-> visited]
      BY <1>2, <1>3, <2>1
    <3> QED BY <3>1 DEF Found, HasPath
  <2>2. CASE id \notin visited
    <3>5. r \in {[f EXCEPT !.depth = @ + 1] : f \in Found2(id, visited)}
      BY <1>2, <1>3, <2>2, Zenon
    <3>1. PICK f \in Found2(id, visited) : r = [f EXCEPT !.depth = @ + 1]
      BY <3>5
    <3>2. f \in Found(nodes) /\ f.depth \in Nat
      BY <1>1 DEF Found
    <3>3. r \in Found(nodes) /\ r.depth = f.depth + 1
      BY <3>1, <3>2 DEF Found
    <3>4. Finds => HasPath(nodes, id, r.depth)
      <4> HIDE DEF Finds
      <4> QED BY <1>1, <3>2, <3>3, LongerPath
    <3> QED BY <3>3, <3>4
  <2> QED BY <2>1, <2>2
<1>4. DepthBy(nodes, deeper) \in DepthCalls(nodes)
  <2>1. \A id \in Ids(nodes) : \A visited \in SUBSET Ids(nodes) :
          DepthBy(nodes, deeper)[id][visited] \in SUBSET Found(nodes)
    BY <1>3
  <2>2. DepthBy(nodes, deeper) =
          [id \in Ids(nodes) |-> [visited \in SUBSET Ids(nodes) |->
             DepthBy(nodes, deeper)[id][visited]]]
    BY DEF DepthBy
  <2> QED BY <2>1, <2>2 DEF DepthCalls
<1> QED BY <1>3, <1>4

(* ComputeDepth is _compute_depth with calls nested up to the number of    *)
(* tasks: what it counts is there.                                         *)
LEMMA DepthsFound ==
  ASSUME NEW nodes, Sound(nodes)
  PROVE  \A id \in Ids(nodes) : \A d \in Depths(nodes, id) : d \in Nat /\ HasPath(nodes, id, d)
<1> DEFINE n == Len(nodes)
           A == DepthCalls(nodes)
           base == [id \in Ids(nodes) |-> [visited \in SUBSET Ids(nodes) |->
                      {[depth |-> 0, visited |-> visited]}]]
           Form(k) == [c \in 0..n |-> IF c = 0 THEN base ELSE DepthBy(nodes, k[c - 1])]
           F == [c \in 1..n |-> [x \in A |-> DepthBy(nodes, x)]]
           Finds(x) == \A id \in Ids(nodes) : \A visited \in SUBSET Ids(nodes) :
                         \A f \in x[id][visited] : HasPath(nodes, id, f.depth)
<1>1. n \in Nat
  BY DEF Sound
<1>2. base \in A /\ Finds(base)
  BY DEF DepthCalls, Found, HasPath
<1>3. F \in Steppers(n, A)
  BY DepthByFinds DEF Steppers
<1>4. PICK h : Goes(h, n, A, base, F)
  <2> HIDE DEF n, A, base, F
  <2> QED BY <1>1, <1>2, <1>3, Iterates
<1>5. h = Form(h)
  <2>1. h \in [0..n -> A] /\ h[0] = base /\ \A c \in 1..n : h[c] = F[c][h[c - 1]]
    <3> HIDE DEF n, A, base, F
    <3> QED BY <1>4 DEF Goes
  <2>2. \A c \in 0..n : c # 0 => c \in 1..n /\ c - 1 \in 0..n
    BY <1>1
  <2>3. \A c \in 0..n : h[c] = Form(h)[c]
    <3> HIDE DEF n, A, base
    <3> QED BY <2>1, <2>2
  <2>4. h = [c \in 0..n |-> h[c]]
    <3> HIDE DEF n, A
    <3> QED BY <2>1
  <2> HIDE DEF n, A, base
  <2> QED BY <2>1, <2>3, <2>4
<1>6. PICK k : k = (CHOOSE f : f = Form(f)) /\ k = Form(k)
  <2> HIDE DEF Form
  <2> QED BY <1>5
<1>7. ComputeDepth(nodes) = k[n]
  BY <1>6 DEF ComputeDepth
<1> DEFINE G == {c \in 0..n : k[c] \in A /\ Finds(k[c])}
<1>8. 0 \in G
  <2>1. 0 \in 0..n
    BY <1>1
  <2>2. k[0] = base
    <3> HIDE DEF base
    <3> QED BY <1>6, <2>1
  <2> HIDE DEF Finds, base, A
  <2> QED BY <1>2, <2>1, <2>2
<1>9. ASSUME NEW c \in 0..n, c \in G, c < n PROVE c + 1 \in G
  <2>1. c + 1 \in 0..n /\ c + 1 # 0 /\ (c + 1) - 1 = c
    BY <1>1, <1>9
  <2>2. k[c + 1] = DepthBy(nodes, k[c])
    <3> HIDE DEF base
    <3> QED BY <1>6, <2>1
  <2>3. k[c] \in A /\ Finds(k[c])
    BY <1>9
  <2>4. DepthBy(nodes, k[c]) \in A /\ Finds(DepthBy(nodes, k[c]))
    BY <2>3, DepthByFinds
  <2> HIDE DEF Finds, A
  <2> QED BY <2>1, <2>2, <2>4
<1>10. ComputeDepth(nodes) \in A /\ Finds(ComputeDepth(nodes))
  <2>1. \A c \in 0..n : c \in G
    <3> HIDE DEF G, n
    <3> QED BY <1>1, <1>8, <1>9, UpTo
  <2>2. n \in 0..n
    BY <1>1
  <2> HIDE DEF Finds, A
  <2> QED BY <1>7, <2>1, <2>2
<1>11. ASSUME NEW id \in Ids(nodes), NEW f \in ComputeDepth(nodes)[id][{}]
       PROVE  f.depth \in Nat /\ HasPath(nodes, id, f.depth)
  <2>1. {} \in SUBSET Ids(nodes)
    OBVIOUS
  <2>2. f \in Found(nodes)
    BY <1>10, <2>1 DEF DepthCalls
  <2> QED BY <1>10, <2>1, <2>2 DEF Found
<1> QED BY <1>11 DEF Depths

(* The longest path from a root that is found is as long as it looks.      *)
LEMMA FoundTooDeep ==
  ASSUME NEW nodes, Sound(nodes), NEW r \in RootsOf(nodes), NEW d \in Depths(nodes, r), d > MaxDepth
  PROVE  TooDeep(nodes)
<1>1. MaxDepth \in Nat /\ r \in Ids(nodes)
  BY PlanAssumption DEF RootsOf
<1>2. d \in Nat /\ d # 0 /\ HasPath(nodes, r, d)
  BY <1>1, DepthsFound
<1>3. PICK p \in [1..d -> Ids(nodes)] :
        p[1] = r /\ \A i \in 2..d : p[i] \in Children(nodes, p[i - 1])
  BY <1>2 DEF HasPath
<1> DEFINE path == [i \in 0..MaxDepth |-> p[i + 1]]
<1>4. \A i \in 0..MaxDepth : i + 1 \in 1..d
  BY <1>1, <1>2
<1>5. path \in [0..MaxDepth -> Ids(nodes)]
  BY <1>3, <1>4
<1>6. path[0] = r
  BY <1>1, <1>3
<1>7. ASSUME NEW i \in 1..MaxDepth PROVE path[i] \in Children(nodes, path[i - 1])
  <2>1. i \in 0..MaxDepth /\ i - 1 \in 0..MaxDepth /\ i + 1 \in 2..d /\ (i - 1) + 1 = (i + 1) - 1
    BY <1>1, <1>2
  <2> QED BY <1>3, <2>1
<1> HIDE DEF path
<1> QED BY <1>5, <1>6, <1>7 DEF TooDeep

-----------------------------------------------------------------------------
(* What the planner works with.                                            *)
PlanInv == PlanTypeOK /\ Sound(proposed) /\ plan = CapNodes(proposed)

LEMMA NothingPlanned == Sound(<<>>) /\ CapNodes(<<>>) = <<>>
<1>1. Sound(<<>>)
  BY DEF Sound, TypesOf
<1>2. MaxTasks \in Nat /\ Len(<<>>) = 0
  BY PlanAssumption
<1> QED BY <1>1, <1>2 DEF CapNodes

LEMMA ProposedSound ==
  \A nodes \in {n \in Proposals : ValidNodes(n)} \cup Templates : Sound(nodes)
<1> SUFFICES ASSUME NEW nodes \in Proposals, ValidNodes(nodes) PROVE Sound(nodes)
  BY TemplatesSound
<1>1. nodes \in Seq(Range(nodes)) /\ \A n \in Range(nodes) : n.deps \in Seq(Range(n.deps))
  BY PlanAssumption
<1>2. ASSUME NEW i \in DOMAIN nodes PROVE SoundNode(nodes[i], Ids(nodes))
  <2>1. nodes[i].deps \in Seq(Range(nodes[i].deps))
    BY <1>1 DEF Range
  <2>2. Range(nodes[i].deps) \subseteq Ids(nodes)
    BY DEF ValidNodes
  <2>3. nodes[i].deps \in Seq(Ids(nodes))
    BY <2>1, <2>2
  <2> QED BY <2>3 DEF SoundNode, ValidNodes, TypesOf
<1> QED BY <1>1, <1>2, SoundNodes

LEMMA PlanInitial == PlanInit => PlanInv
<1> SUFFICES ASSUME PlanInit PROVE PlanInv
  OBVIOUS
<1>1. DOMAIN policy = {} /\ Range(policy) = {}
  BY DEF PlanInit, Range
<1>2. Ids(plan) \subseteq Ids(proposed) /\ TypesOf(plan) \subseteq TaskTypes
  BY DEF PlanInit, Ids, TypesOf
<1>3. history \in [TaskTypes -> History]
  BY PlanAssumption DEF PlanInit
<1> QED BY <1>1, <1>2, <1>3, NothingPlanned DEF PlanInv, PlanTypeOK, PlanInit

(* The learning loop proposes 2 or 4 attempts, of types there are.         *)
LEMMA Suggested ==
  \A table : DOMAIN Suggestions(table) \subseteq TaskTypes /\ Range(Suggestions(table)) \subseteq {2, 4}
BY DEF Suggestions, Range

(* Each step keeps what the planner works with.                            *)
LEMMA PlanStep == PlanInv /\ [PlanNext]_planVars => PlanInv'
<1> SUFFICES ASSUME PlanInv, [PlanNext]_planVars PROVE PlanInv'
  OBVIOUS
<1>1. CASE Plan
  <2>1. Sound(proposed') /\ plan' = CapNodes(proposed')
    BY <1>1, ProposedSound DEF Plan
  <2>2. Ids(plan') \subseteq Ids(proposed') /\ TypesOf(plan') \subseteq TaskTypes
    BY <2>1, CapTyped
  <2>3. stage' = "planned" /\ history' = history /\ policy' = policy
    BY <1>1 DEF Plan
  <2> QED BY <2>1, <2>2, <2>3 DEF PlanInv, PlanTypeOK
<1>2. CASE Submit
  BY <1>2 DEF Submit, PlanInv, PlanTypeOK
<1>3. CASE Learn
  <2>1. Sound(proposed') /\ plan' = CapNodes(proposed') /\ Ids(plan') \subseteq Ids(proposed')
        /\ TypesOf(plan') \subseteq TaskTypes /\ stage' = "idle"
    BY <1>3, NothingPlanned DEF Learn, Ids, TypesOf
  <2>2. history' \in [TaskTypes -> History]
    <3>1. PICK outcome \in [TypesOf(plan) \cap Watched -> History] :
            history' = [t \in TaskTypes |-> IF t \in DOMAIN outcome THEN outcome[t] ELSE history[t]]
      BY <1>3 DEF Learn
    <3>2. history \in [TaskTypes -> History] /\ TypesOf(plan) \subseteq TaskTypes
      BY DEF PlanInv, PlanTypeOK
    <3> QED BY <3>1, <3>2
  <2>3. DOMAIN policy' \subseteq TaskTypes /\ Range(policy') \subseteq {2, 4}
    <3>1. policy' = policy \/ policy' = Suggestions(history')
      BY <1>3 DEF Learn
    <3> QED BY <3>1, Suggested DEF PlanInv, PlanTypeOK
  <2> QED BY <2>1, <2>2, <2>3 DEF PlanInv, PlanTypeOK
<1>4. CASE GiveUp
  <2>1. Sound(proposed') /\ plan' = CapNodes(proposed') /\ Ids(plan') \subseteq Ids(proposed')
        /\ TypesOf(plan') \subseteq TaskTypes /\ stage' = "idle"
    BY <1>4, NothingPlanned DEF GiveUp, Ids, TypesOf
  <2> QED BY <1>4, <2>1 DEF GiveUp, PlanInv, PlanTypeOK
<1>5. CASE UNCHANGED planVars
  BY <1>5 DEF planVars, PlanInv, PlanTypeOK
<1> QED BY <1>1, <1>2, <1>3, <1>4, <1>5 DEF PlanNext

LEMMA PlanInvariant == PlanSpec => []PlanInv
<1> QED BY PlanInitial, PlanStep, PTL DEF PlanSpec

(* No policy allows more than four attempts.                               *)
LEMMA FewAttempts ==
  ASSUME PlanTypeOK, MaxIterations >= 4
  PROVE  \A t \in TaskTypes : AttemptsOf(t) <= MaxIterations
<1> SUFFICES ASSUME NEW t \in TaskTypes PROVE AttemptsOf(t) <= MaxIterations
  OBVIOUS
<1>1. MaxIterations \in Nat
  BY PlanAssumption
<1>2. CASE t \in DOMAIN policy
  <2>1. policy[t] \in {2, 4}
    BY <1>2 DEF PlanTypeOK, Range
  <2> QED BY <1>1, <1>2, <2>1 DEF AttemptsOf
<1>3. CASE t \notin DOMAIN policy
  <2>1. DefaultMaxAttempts[t] \in {2, 3}
    BY DEF DefaultMaxAttempts
  <2> QED BY <1>1, <1>3, <2>1 DEF AttemptsOf
<1> QED BY <1>2, <1>3

(* planner.py:135, budgets.py:62: the plans of the planner are within the  *)
(* cap and need no task that was cut off, unless there is a cycle, and a   *)
(* plan is refused for its size or its depth only.  The attempts that the  *)
(* learning loop may come to are four, so this needs that many iterations  *)
(* (the default of HERMES_MAX_ITERATIONS is five).                         *)
THEOREM PlansAreRunnable == ASSUME MaxIterations >= 4 PROVE PlanSpec => []PlanIsRunnable
<1>1. ASSUME PlanInv, Acyclic(proposed)
      PROVE  /\ Sound(plan) /\ Len(plan) <= MaxTasks
             /\ \A i \in DOMAIN plan : Range(plan[i].deps) \subseteq Ids(plan)
  <2>1. Sound(plan) /\ Len(plan) <= MaxTasks
    BY <1>1, CapSound, CapTyped DEF PlanInv
  <2> QED BY <2>1 DEF Sound, Range
<1>2. PlanInit => PlanIsRunnable
  <2> SUFFICES ASSUME PlanInit, Acyclic(proposed) PROVE PlanIsRunnable
    BY DEF PlanIsRunnable
  <2>1. PlanInv /\ stage # "refused"
    BY PlanInitial DEF PlanInit
  <2> QED BY <1>1, <2>1 DEF PlanIsRunnable
<1>3. PlanInv /\ PlanInv' /\ PlanIsRunnable /\ [PlanNext]_planVars => PlanIsRunnable'
  <2> SUFFICES ASSUME PlanInv, PlanInv', PlanIsRunnable, [PlanNext]_planVars, Acyclic(proposed')
               PROVE  /\ Len(plan') <= MaxTasks
                      /\ \A i \in DOMAIN plan' : Range(plan'[i].deps) \subseteq Ids(plan')
                      /\ stage' = "refused" => Len(plan') > MaxAgents \/ TooDeep(plan')
    BY DEF PlanIsRunnable
  <2>1. /\ Sound(plan') /\ Len(plan') <= MaxTasks
        /\ \A i \in DOMAIN plan' : Range(plan'[i].deps) \subseteq Ids(plan')
    <3>1. Sound(plan') /\ Len(plan') <= MaxTasks
      BY CapSound, CapTyped DEF PlanInv
    <3> QED BY <3>1 DEF Sound, Range
  <2>2. ASSUME stage' = "refused" PROVE Len(plan') > MaxAgents \/ TooDeep(plan')
    <3>1. plan' = plan /\ proposed' = proposed
      BY <2>2 DEF PlanNext, Plan, Submit, Learn, GiveUp, planVars
    <3>2. CASE stage = "refused"
      BY <3>1, <3>2 DEF PlanIsRunnable
    <3>3. CASE stage # "refused"
      <4>1. Admitted(plan) => \E r \in RootsOf(plan) : \E d \in Depths(plan, r) : d > MaxDepth
        BY <2>2, <3>3 DEF PlanNext, Plan, Submit, Learn, GiveUp, planVars
      <4>2. CASE Admitted(plan)
        BY <2>1, <3>1, <4>1, <4>2, FoundTooDeep
      <4>3. CASE ~ Admitted(plan)
        <5>1. \A t \in TypesOf(plan) : AttemptsOf(t) <= MaxIterations
          BY FewAttempts DEF PlanInv, PlanTypeOK
        <5>2. ~ (Len(plan) <= MaxAgents)
          BY <2>1, <3>1, <4>3, <5>1 DEF Admitted
        <5>3. Len(plan) \in Nat /\ MaxAgents \in Nat
          BY <2>1, <3>1, PlanAssumption DEF Sound
        <5> QED BY <3>1, <5>2, <5>3
      <4> QED BY <4>2, <4>3
    <3> QED BY <3>2, <3>3
  <2> QED BY <2>1, <2>2
<1> QED BY <1>2, <1>3, PlanInvariant, PTL DEF PlanSpec

-----------------------------------------------------------------------------
(* Documents.                                                              *)

(* _handle_meta goes through the meta fields.                              *)
LEMMA MetaFold ==
  ASSUME NEW A, NEW meta \in Seq(A)
  PROVE  \E h \in [0..Len(meta) -> Seq(A)] :
           /\ h[0] = <<>> /\ HandleMeta(meta) = h[Len(meta)]
           /\ \A i \in 1..Len(meta) : h[i] = IF "" \in {meta[i].key, meta[i].value} \/ meta[i] \in Range(h[i - 1])
                                             THEN h[i - 1]
                                             ELSE Append(h[i - 1], meta[i])
<1> DEFINE n == Len(meta)
           B == Seq(A)
           Form(g) == [p \in SUBSET (1..n) |->
                         IF p = {}
                         THEN <<>>
                         ELSE IF "" \in {meta[Max(p)].key, meta[Max(p)].value} \/ meta[Max(p)] \in Range(g[p \ {Max(p)}])
                              THEN g[p \ {Max(p)}]
                              ELSE Append(g[p \ {Max(p)}], meta[Max(p)])]
           F == [i \in 1..n |-> [a \in B |-> IF "" \in {meta[i].key, meta[i].value} \/ meta[i] \in Range(a)
                                             THEN a
                                             ELSE Append(a, meta[i])]]
<1>1. n \in Nat /\ DOMAIN meta = 1..n /\ <<>> \in B
  OBVIOUS
<1>2. F \in Steppers(n, B)
  <2>1. \A i \in 1..n : \A a \in B : Append(a, meta[i]) \in B
    BY <1>1
  <2> HIDE DEF B, n
  <2> QED BY <2>1 DEF Steppers
<1>3. HandleMeta(meta) = (CHOOSE g : g = Form(g))[1..n]
  BY <1>1 DEF HandleMeta, FoldLeft, MapThenFoldSet
<1>4. \E g : g = Form(g)
  <2>1. PICK g : Picks(g, n, B, <<>>, F)
    <3> HIDE DEF F, n, B
    <3> QED BY <1>1, <1>2, FoldThere
  <2>2. ASSUME NEW p \in SUBSET (1..n), p # {} PROVE Max(p) \in 1..n /\ g[p \ {Max(p)}] \in B
    <3>1. Max(p) \in p /\ p \ {Max(p)} \in SUBSET (1..n)
      BY <1>1, <2>2, HighestIn
    <3> HIDE DEF B, n
    <3> QED BY <2>1, <3>1 DEF Picks
  <2>3. \A p \in SUBSET (1..n) : g[p] = Form(g)[p]
    BY <2>1, <2>2 DEF Picks
  <2>4. g = [p \in SUBSET (1..n) |-> g[p]]
    <3> HIDE DEF B, n, F
    <3> QED BY <2>1 DEF Picks
  <2>5. g = Form(g)
    BY <2>3, <2>4
  <2> QED BY <2>5
<1>5. PICK c : c = (CHOOSE g : g = Form(g)) /\ c = Form(c)
  <2> HIDE DEF Form
  <2> QED BY <1>4
<1>6. Follows(c, n, B, <<>>, F)
  <2> SUFFICES ASSUME NEW p \in SUBSET (1..n)
               PROVE  /\ p = {} => c[p] = <<>>
                      /\ p # {} /\ c[p \ {Max(p)}] \in B => c[p] = F[Max(p)][c[p \ {Max(p)}]]
    BY DEF Follows
  <2>1. p # {} => Max(p) \in 1..n
    BY <1>1, HighestIn
  <2>2. c[p] = Form(c)[p]
    BY <1>5
  <2> QED BY <2>1, <2>2
<1>7. PICK h : Goes(h, n, B, <<>>, F) /\ c[1..n] = h[n]
  <2> HIDE DEF F, n, B
  <2> QED BY <1>1, <1>2, <1>6, FoldSteps
<1>8. ASSUME NEW i \in 1..n PROVE h[i] = IF "" \in {meta[i].key, meta[i].value} \/ meta[i] \in Range(h[i - 1])
                                         THEN h[i - 1]
                                         ELSE Append(h[i - 1], meta[i])
  <2>1. i - 1 \in 0..n
    BY <1>1
  <2>2. h[i - 1] \in B
    <3> HIDE DEF n, B, F
    <3> QED BY <1>7, <2>1 DEF Goes
  <2> QED BY <1>7, <2>2 DEF Goes
<1>9. HandleMeta(meta) = h[n]
  BY <1>3, <1>5, <1>7
<1> QED BY <1>7, <1>8, <1>9 DEF Goes

Repeats(kept, b) ==
  \E i \in DOMAIN kept : kept[i].text = b.text /\ b.heading \in {"", kept[i].heading}

(* Blocks whose sizes are numbers                                          *)
Sized(A) == \A b \in A : Size(b) \in Nat

ChunkState(A) == [chunks : Seq(Seq(A)), current : Seq(A)]

NextChunk(acc, b) ==
  IF acc.current # <<>> /\ SizeOf(acc.current) + Size(b) > MaxWords
  THEN [chunks |-> Append(acc.chunks, acc.current), current |-> <<b>>]
  ELSE [acc EXCEPT !.current = Append(@, b)]

LEMMA NextChunkTyped ==
  ASSUME NEW A, NEW acc \in ChunkState(A), NEW b \in A
  PROVE  NextChunk(acc, b) \in ChunkState(A)
<1>1. /\ acc.chunks \in Seq(Seq(A)) /\ acc.current \in Seq(A)
      /\ acc = [chunks |-> acc.chunks, current |-> acc.current]
  BY DEF ChunkState
<1>2. Append(acc.chunks, acc.current) \in Seq(Seq(A)) /\ <<b>> \in Seq(A)
  BY <1>1
<1>3. Append(acc.current, b) \in Seq(A)
  BY <1>1
<1> DEFINE full == [chunks |-> Append(acc.chunks, acc.current), current |-> <<b>>]
           more == [acc EXCEPT !.current = Append(@, b)]
<1>4. full \in ChunkState(A)
  BY <1>2 DEF ChunkState
<1>5. more \in ChunkState(A)
  BY <1>1, <1>3 DEF ChunkState
<1>6. NextChunk(acc, b) = full \/ NextChunk(acc, b) = more
  BY DEF NextChunk
<1> QED BY <1>4, <1>5, <1>6

(* deduplicate goes through the blocks.                                    *)
LEMMA DedupFold ==
  ASSUME NEW A, NEW blocks \in Seq(A)
  PROVE  \E h \in [0..Len(blocks) -> Seq(A)] :
           /\ h[0] = <<>> /\ Deduplicate(blocks) = h[Len(blocks)]
           /\ \A i \in 1..Len(blocks) : h[i] = IF IsNoise(blocks[i]) \/ Repeats(h[i - 1], blocks[i])
                                               THEN h[i - 1]
                                               ELSE Append(h[i - 1], blocks[i])
<1> DEFINE n == Len(blocks)
           B == Seq(A)
           Form(g) == [p \in SUBSET (1..n) |->
                         IF p = {}
                         THEN <<>>
                         ELSE IF IsNoise(blocks[Max(p)]) \/ Repeats(g[p \ {Max(p)}], blocks[Max(p)])
                              THEN g[p \ {Max(p)}]
                              ELSE Append(g[p \ {Max(p)}], blocks[Max(p)])]
           F == [i \in 1..n |-> [a \in B |-> IF IsNoise(blocks[i]) \/ Repeats(a, blocks[i])
                                             THEN a
                                             ELSE Append(a, blocks[i])]]
<1>1. n \in Nat /\ DOMAIN blocks = 1..n /\ <<>> \in B
  OBVIOUS
<1>2. F \in Steppers(n, B)
  BY DEF Steppers
<1>3. Deduplicate(blocks) = (CHOOSE g : g = Form(g))[1..n]
  BY <1>1 DEF Deduplicate, Repeats, FoldLeft, MapThenFoldSet
<1>4. \E g : g = Form(g)
  <2>1. PICK g : Picks(g, n, B, <<>>, F)
    <3> HIDE DEF F, n, B
    <3> QED BY <1>1, <1>2, FoldThere
  <2>2. ASSUME NEW p \in SUBSET (1..n), p # {} PROVE Max(p) \in 1..n /\ g[p \ {Max(p)}] \in B
    <3>1. Max(p) \in p /\ p \ {Max(p)} \in SUBSET (1..n)
      BY <1>1, <2>2, HighestIn
    <3> HIDE DEF B, n
    <3> QED BY <2>1, <3>1 DEF Picks
  <2>3. \A p \in SUBSET (1..n) : g[p] = Form(g)[p]
    BY <2>1, <2>2 DEF Picks
  <2>4. g = [p \in SUBSET (1..n) |-> g[p]]
    <3> HIDE DEF B, n, F
    <3> QED BY <2>1 DEF Picks
  <2>5. g = Form(g)
    BY <2>3, <2>4
  <2> QED BY <2>5
<1>5. PICK c : c = (CHOOSE g : g = Form(g)) /\ c = Form(c)
  <2> HIDE DEF Form
  <2> QED BY <1>4
<1>6. Follows(c, n, B, <<>>, F)
  <2> SUFFICES ASSUME NEW p \in SUBSET (1..n)
               PROVE  /\ p = {} => c[p] = <<>>
                      /\ p # {} /\ c[p \ {Max(p)}] \in B => c[p] = F[Max(p)][c[p \ {Max(p)}]]
    BY DEF Follows
  <2>1. p # {} => Max(p) \in 1..n
    BY <1>1, HighestIn
  <2>2. c[p] = Form(c)[p]
    BY <1>5
  <2> QED BY <2>1, <2>2
<1>7. PICK h : Goes(h, n, B, <<>>, F) /\ c[1..n] = h[n]
  <2> HIDE DEF F, n, B
  <2> QED BY <1>1, <1>2, <1>6, FoldSteps
<1>8. ASSUME NEW i \in 1..n PROVE h[i] = IF IsNoise(blocks[i]) \/ Repeats(h[i - 1], blocks[i])
                                         THEN h[i - 1]
                                         ELSE Append(h[i - 1], blocks[i])
  <2>1. i - 1 \in 0..n
    BY <1>1
  <2>2. h[i - 1] \in B
    <3> HIDE DEF n, B, F
    <3> QED BY <1>7, <2>1 DEF Goes
  <2> QED BY <1>7, <2>2 DEF Goes
<1>9. Deduplicate(blocks) = h[n]
  BY <1>3, <1>5, <1>7
<1> QED BY <1>7, <1>8, <1>9 DEF Goes

(* The size of a chunk is that of its blocks.                              *)
LEMMA SizeFold ==
  ASSUME NEW A, Sized(A), NEW blocks \in Seq(A)
  PROVE  \E h \in [0..Len(blocks) -> Nat] :
           /\ h[0] = 0 /\ SizeOf(blocks) = h[Len(blocks)]
           /\ \A i \in 1..Len(blocks) : h[i] = h[i - 1] + Size(blocks[i])
<1> DEFINE n == Len(blocks)
           B == Nat
           Form(g) == [p \in SUBSET (1..n) |->
                         IF p = {} THEN 0 ELSE g[p \ {Max(p)}] + Size(blocks[Max(p)])]
           F == [i \in 1..n |-> [a \in B |-> a + Size(blocks[i])]]
<1>1. n \in Nat /\ DOMAIN blocks = 1..n /\ 0 \in B
  OBVIOUS
<1>2. F \in Steppers(n, B)
  <2>1. \A i \in 1..n : Size(blocks[i]) \in Nat
    BY <1>1 DEF Sized
  <2> QED BY <2>1 DEF Steppers
<1>3. SizeOf(blocks) = (CHOOSE g : g = Form(g))[1..n]
  BY <1>1 DEF SizeOf, FoldLeft, MapThenFoldSet
<1>4. \E g : g = Form(g)
  <2>1. PICK g : Picks(g, n, B, 0, F)
    <3> HIDE DEF F, n, B
    <3> QED BY <1>1, <1>2, FoldThere
  <2>2. ASSUME NEW p \in SUBSET (1..n), p # {} PROVE Max(p) \in 1..n /\ g[p \ {Max(p)}] \in B
    <3>1. Max(p) \in p /\ p \ {Max(p)} \in SUBSET (1..n)
      BY <1>1, <2>2, HighestIn
    <3> HIDE DEF B, n
    <3> QED BY <2>1, <3>1 DEF Picks
  <2>3. \A p \in SUBSET (1..n) : g[p] = Form(g)[p]
    BY <2>1, <2>2 DEF Picks
  <2>4. g = [p \in SUBSET (1..n) |-> g[p]]
    <3> HIDE DEF B, n, F
    <3> QED BY <2>1 DEF Picks
  <2>5. g = Form(g)
    BY <2>3, <2>4
  <2> QED BY <2>5
<1>5. PICK c : c = (CHOOSE g : g = Form(g)) /\ c = Form(c)
  <2> HIDE DEF Form
  <2> QED BY <1>4
<1>6. Follows(c, n, B, 0, F)
  <2> SUFFICES ASSUME NEW p \in SUBSET (1..n)
               PROVE  /\ p = {} => c[p] = 0
                      /\ p # {} /\ c[p \ {Max(p)}] \in B => c[p] = F[Max(p)][c[p \ {Max(p)}]]
    BY DEF Follows
  <2>1. p # {} => Max(p) \in 1..n
    BY <1>1, HighestIn
  <2>2. c[p] = Form(c)[p]
    BY <1>5
  <2> QED BY <2>1, <2>2
<1>7. PICK h : Goes(h, n, B, 0, F) /\ c[1..n] = h[n]
  <2> HIDE DEF F, n, B
  <2> QED BY <1>1, <1>2, <1>6, FoldSteps
<1>8. ASSUME NEW i \in 1..n PROVE h[i] = h[i - 1] + Size(blocks[i])
  <2>1. i - 1 \in 0..n
    BY <1>1
  <2>2. h[i - 1] \in B
    <3> HIDE DEF n, B, F
    <3> QED BY <1>7, <2>1 DEF Goes
  <2> QED BY <1>7, <2>2 DEF Goes
<1>9. SizeOf(blocks) = h[n]
  BY <1>3, <1>5, <1>7
<1> QED BY <1>7, <1>8, <1>9 DEF Goes

(* chunk_document goes through the blocks.                                 *)
LEMMA ChunkFold ==
  ASSUME NEW A, Sized(A), NEW blocks \in Seq(A)
  PROVE  \E h \in [0..Len(blocks) -> ChunkState(A)] :
           /\ h[0] = [chunks |-> <<>>, current |-> <<>>] /\ Chunked(blocks) = h[Len(blocks)]
           /\ \A i \in 1..Len(blocks) : h[i] = NextChunk(h[i - 1], blocks[i])
<1> DEFINE n == Len(blocks)
           B == ChunkState(A)
           Form(g) == [p \in SUBSET (1..n) |->
                         IF p = {}
                         THEN [chunks |-> <<>>, current |-> <<>>]
                         ELSE NextChunk(g[p \ {Max(p)}], blocks[Max(p)])]
           F == [i \in 1..n |-> [a \in B |-> NextChunk(a, blocks[i])]]
<1>1. n \in Nat /\ DOMAIN blocks = 1..n /\ [chunks |-> <<>>, current |-> <<>>] \in B
  BY DEF ChunkState
<1>2. F \in Steppers(n, B)
  <2>1. \A i \in 1..n : blocks[i] \in A
    BY <1>1
  <2>2. \A i \in 1..n : \A a \in ChunkState(A) : NextChunk(a, blocks[i]) \in ChunkState(A)
    BY <2>1, NextChunkTyped
  <2> QED BY <2>2 DEF Steppers
<1>3. Chunked(blocks) = (CHOOSE g : g = Form(g))[1..n]
  BY <1>1 DEF Chunked, NextChunk, FoldLeft, MapThenFoldSet
<1>4. \E g : g = Form(g)
  <2>1. PICK g : Picks(g, n, B, [chunks |-> <<>>, current |-> <<>>], F)
    <3> HIDE DEF F, n, B
    <3> QED BY <1>1, <1>2, FoldThere
  <2>2. ASSUME NEW p \in SUBSET (1..n), p # {} PROVE Max(p) \in 1..n /\ g[p \ {Max(p)}] \in B
    <3>1. Max(p) \in p /\ p \ {Max(p)} \in SUBSET (1..n)
      BY <1>1, <2>2, HighestIn
    <3> HIDE DEF B, n
    <3> QED BY <2>1, <3>1 DEF Picks
  <2>3. \A p \in SUBSET (1..n) : g[p] = Form(g)[p]
    BY <2>1, <2>2 DEF Picks
  <2>4. g = [p \in SUBSET (1..n) |-> g[p]]
    <3> HIDE DEF B, n, F
    <3> QED BY <2>1 DEF Picks
  <2>5. g = Form(g)
    BY <2>3, <2>4
  <2> QED BY <2>5
<1>5. PICK c : c = (CHOOSE g : g = Form(g)) /\ c = Form(c)
  <2> HIDE DEF Form
  <2> QED BY <1>4
<1>6. Follows(c, n, B, [chunks |-> <<>>, current |-> <<>>], F)
  <2> SUFFICES ASSUME NEW p \in SUBSET (1..n)
               PROVE  /\ p = {} => c[p] = [chunks |-> <<>>, current |-> <<>>]
                      /\ p # {} /\ c[p \ {Max(p)}] \in B => c[p] = F[Max(p)][c[p \ {Max(p)}]]
    BY DEF Follows
  <2>1. p # {} => Max(p) \in 1..n
    BY <1>1, HighestIn
  <2>2. c[p] = Form(c)[p]
    BY <1>5
  <2> QED BY <2>1, <2>2
<1>7. PICK h : Goes(h, n, B, [chunks |-> <<>>, current |-> <<>>], F) /\ c[1..n] = h[n]
  <2> HIDE DEF F, n, B
  <2> QED BY <1>1, <1>2, <1>6, FoldSteps
<1>8. ASSUME NEW i \in 1..n PROVE h[i] = NextChunk(h[i - 1], blocks[i])
  <2>1. i - 1 \in 0..n
    BY <1>1
  <2>2. h[i - 1] \in B
    <3> HIDE DEF n, B, F
    <3> QED BY <1>7, <2>1 DEF Goes
  <2> QED BY <1>7, <2>2 DEF Goes
<1>9. Chunked(blocks) = h[n]
  BY <1>3, <1>5, <1>7
<1> QED BY <1>7, <1>8, <1>9 DEF Goes

(* FlattenSeq joins the lists one after the other.                         *)
LEMMA FlattenFold ==
  ASSUME NEW A, NEW seqs \in Seq(Seq(A))
  PROVE  \E h \in [0..Len(seqs) -> Seq(A)] :
           /\ h[0] = <<>> /\ FlattenSeq(seqs) = h[Len(seqs)]
           /\ \A i \in 1..Len(seqs) : h[i] = h[i - 1] \o seqs[i]
<1> DEFINE n == Len(seqs)
           B == Seq(A)
           F == [i \in 1..n |-> [a \in B |-> a \o seqs[i]]]
           Form(f) == [i \in 1..n |-> IF i = 1 THEN seqs[i] ELSE f[i - 1] \o seqs[i]]
<1>1. n \in Nat /\ <<>> \in B /\ \A i \in 1..n : seqs[i] \in Seq(A)
  OBVIOUS
<1>2. \A i \in 1..n : \A a \in B : a \o seqs[i] \in B
  BY <1>1
<1>3. F \in Steppers(n, B)
  <2> HIDE DEF B, n
  <2> QED BY <1>2 DEF Steppers
<1>4. PICK h : Goes(h, n, B, <<>>, F)
  <2> HIDE DEF n, B, F
  <2> QED BY <1>1, <1>3, Iterates
<1>5. h \in [0..n -> B] /\ h[0] = <<>> /\ \A i \in 1..n : h[i] = F[i][h[i - 1]]
  <2> HIDE DEF n, B, F
  <2> QED BY <1>4 DEF Goes
<1>6. ASSUME NEW i \in 1..n PROVE i - 1 \in 0..n /\ h[i - 1] \in B /\ h[i] = h[i - 1] \o seqs[i]
  <2>1. i - 1 \in 0..n
    BY <1>1
  <2>2. h[i - 1] \in B
    <3> HIDE DEF B, n, F
    <3> QED BY <1>5, <2>1
  <2>3. h[i] = F[i][h[i - 1]] /\ F[i] = [a \in B |-> a \o seqs[i]]
    <3> HIDE DEF B, n
    <3> QED BY <1>5
  <2> HIDE DEF B, n, F
  <2> QED BY <2>1, <2>2, <2>3
<1> HIDE DEF F
<1>7. CASE n = 0
  <2>1. seqs = <<>> /\ FlattenSeq(seqs) = seqs
    BY <1>7 DEF FlattenSeq
  <2> QED BY <1>5, <1>6, <1>7, <2>1
<1>8. CASE n # 0
  <2> DEFINE f == [i \in 1..n |-> h[i]]
  <2>1. f = Form(f)
    <3>1. ASSUME NEW i \in 1..n PROVE f[i] = IF i = 1 THEN seqs[i] ELSE f[i - 1] \o seqs[i]
      <4>1. CASE i = 1
        <5>1. h[i - 1] = <<>>
          BY <1>5, <4>1
        <5>3. seqs[i] \in Seq(A) /\ h[i] = <<>> \o seqs[i]
          BY <1>1, <1>6, <5>1
        <5>2. h[i] = seqs[i]
          BY <5>3
        <5> QED BY <4>1, <5>2
      <4>2. CASE i # 1
        <5>1. i - 1 \in 1..n
          BY <1>1, <4>2
        <5> QED BY <1>6, <4>2, <5>1
      <4> QED BY <4>1, <4>2
    <3> QED BY <3>1, Zenon
  <2>2. PICK c : c = (CHOOSE g : g = Form(g)) /\ c = Form(c)
    <3> HIDE DEF Form
    <3> QED BY <2>1
  <2>3. FlattenSeq(seqs) = c[n]
    BY <1>8, <2>2 DEF FlattenSeq
  <2> DEFINE G == {i \in 0..n : i = 0 \/ c[i] = h[i]}
  <2>4. 0 \in G
    BY <1>1
  <2>5. ASSUME NEW i \in 0..n, i \in G, i < n PROVE i + 1 \in G
    <3>1. i + 1 \in 1..n /\ i + 1 \in 0..n /\ (i + 1) - 1 = i
      <4> HIDE DEF n, G, Form
      <4> QED BY <1>1, <2>5
    <3>2. c[i + 1] = IF i + 1 = 1 THEN seqs[i + 1] ELSE c[i] \o seqs[i + 1]
      <4>1. c[i + 1] = Form(c)[i + 1]
        BY <2>2
      <4> QED BY <3>1, <4>1
    <3>3. h[i + 1] = IF i + 1 = 1 THEN seqs[i + 1] ELSE h[i] \o seqs[i + 1]
      <4>1. CASE i = 0
        <5>1. h[(i + 1) - 1] = <<>>
          BY <1>5, <3>1, <4>1
        <5>3. seqs[i + 1] \in Seq(A) /\ h[i + 1] = <<>> \o seqs[i + 1]
          BY <1>1, <1>6, <3>1, <5>1
        <5>2. h[i + 1] = seqs[i + 1]
          BY <5>3
        <5> QED BY <4>1, <5>2
      <4>2. CASE i # 0
        <5>1. h[i + 1] = h[(i + 1) - 1] \o seqs[i + 1]
          BY <1>6, <3>1
        <5>2. i \in Int /\ i + 1 # 1
          BY <4>2
        <5> QED BY <3>1, <5>1, <5>2
      <4> QED BY <4>1, <4>2
    <3> QED BY <2>5, <3>1, <3>2, <3>3
  <2>6. \A i \in 0..n : i \in G
    <3> HIDE DEF G, n
    <3> QED BY <1>1, <2>4, <2>5, UpTo
  <2>7. c[n] = h[n]
    BY <1>1, <1>8, <2>6
  <2> QED BY <1>5, <1>6, <2>3, <2>7
<1> QED BY <1>7, <1>8

(* What two lists have one after the other                                 *)
LEMMA ConcatHas ==
  ASSUME NEW A, NEW s \in Seq(A), NEW t \in Seq(A)
  PROVE  s \o t \in Seq(A) /\ Range(s \o t) = Range(s) \cup Range(t)
<1>1. /\ s \o t \in Seq(A) /\ Len(s \o t) = Len(s) + Len(t)
      /\ Len(s) \in Nat /\ Len(t) \in Nat /\ DOMAIN s = 1..Len(s) /\ DOMAIN t = 1..Len(t)
      /\ DOMAIN (s \o t) = 1..(Len(s) + Len(t))
  OBVIOUS
<1>2. \A i \in 1..Len(s) : (s \o t)[i] = s[i] /\ i \in 1..(Len(s) + Len(t))
  BY <1>1
<1>3. \A i \in 1..Len(t) : (s \o t)[Len(s) + i] = t[i] /\ Len(s) + i \in 1..(Len(s) + Len(t))
  BY <1>1
<1>4. ASSUME NEW i \in 1..(Len(s) + Len(t))
      PROVE  i \in 1..Len(s) \/ \E j \in 1..Len(t) : i = Len(s) + j
  <2> DEFINE j == i - Len(s)
  <2>1. i > Len(s) => j \in 1..Len(t) /\ i = Len(s) + j
    BY <1>1
  <2>2. ~ (i > Len(s)) => i \in 1..Len(s)
    BY <1>1
  <2> HIDE DEF j
  <2> QED BY <2>1, <2>2
<1>5. Range(s) = {s[i] : i \in 1..Len(s)} /\ Range(t) = {t[i] : i \in 1..Len(t)}
  BY <1>1 DEF Range
<1>6. Range(s \o t) = {(s \o t)[i] : i \in 1..(Len(s) + Len(t))}
  BY <1>1 DEF Range
<1>7. ASSUME NEW x \in Range(s \o t) PROVE x \in Range(s) \cup Range(t)
  <2>1. PICK i \in 1..(Len(s) + Len(t)) : x = (s \o t)[i]
    BY <1>6
  <2>2. CASE i \in 1..Len(s)
    BY <1>2, <1>5, <2>1, <2>2
  <2>3. CASE \E j \in 1..Len(t) : i = Len(s) + j
    BY <1>3, <1>5, <2>1, <2>3
  <2> QED BY <1>4, <2>2, <2>3
<1>8. \A x \in Range(s) \cup Range(t) : x \in Range(s \o t)
  BY <1>2, <1>3, <1>5, <1>6
<1> QED BY <1>1, <1>7, <1>8

(* FlattenSeq has what the lists have.                                     *)
LEMMA FlattenHas ==
  ASSUME NEW A, NEW seqs \in Seq(Seq(A))
  PROVE  /\ FlattenSeq(seqs) \in Seq(A)
         /\ Range(FlattenSeq(seqs)) = UNION {Range(seqs[i]) : i \in 1..Len(seqs)}
<1>1. PICK h \in [0..Len(seqs) -> Seq(A)] :
        /\ h[0] = <<>> /\ FlattenSeq(seqs) = h[Len(seqs)]
        /\ \A i \in 1..Len(seqs) : h[i] = h[i - 1] \o seqs[i]
  BY FlattenFold
<1>2. Len(seqs) \in Nat /\ \A i \in 1..Len(seqs) : seqs[i] \in Seq(A)
  OBVIOUS
<1> DEFINE upto(k) == UNION {Range(seqs[i]) : i \in 1..k}
           G == {k \in 0..Len(seqs) : Range(h[k]) = upto(k)}
<1>3. 0 \in G
  <2>1. Range(<<>>) = {} /\ 1..0 = {} /\ 0 \in 0..Len(seqs)
    BY <1>2 DEF Range
  <2> QED BY <1>1, <2>1
<1>4. ASSUME NEW k \in 0..Len(seqs), k \in G, k < Len(seqs) PROVE k + 1 \in G
  <2>1. k + 1 \in 1..Len(seqs) /\ k + 1 \in 0..Len(seqs) /\ (k + 1) - 1 = k
    BY <1>2, <1>4
  <2>2. Range(h[k + 1]) = Range(h[k]) \cup Range(seqs[k + 1])
    <3>1. h[k] \in Seq(A) /\ seqs[k + 1] \in Seq(A) /\ h[k + 1] = h[k] \o seqs[k + 1]
      BY <1>1, <1>2, <2>1
    <3> QED BY <3>1, ConcatHas
  <2>3. \A i : i \in 1..(k + 1) <=> i \in 1..k \/ i = k + 1
    BY <2>1
  <2>4. upto(k + 1) = upto(k) \cup Range(seqs[k + 1])
    BY <2>3
  <2> HIDE DEF upto
  <2> QED BY <1>4, <2>1, <2>2, <2>4
<1>5. \A k \in 0..Len(seqs) : k \in G
  <2> HIDE DEF G
  <2> QED BY <1>2, <1>3, <1>4, UpTo
<1>6. Len(seqs) \in 0..Len(seqs)
  BY <1>2
<1> QED BY <1>1, <1>5, <1>6

(* A list more is a list more at the end.                                  *)
LEMMA FlattenAppend ==
  ASSUME NEW A, NEW seqs \in Seq(Seq(A)), NEW c \in Seq(A)
  PROVE  FlattenSeq(Append(seqs, c)) = FlattenSeq(seqs) \o c
<1> DEFINE more == Append(seqs, c)
           n == Len(seqs)
<1>1. /\ more \in Seq(Seq(A)) /\ Len(more) = n + 1 /\ n \in Nat
      /\ more[n + 1] = c /\ \A i \in 1..n : more[i] = seqs[i]
  OBVIOUS
<1>2. PICK h \in [0..n -> Seq(A)] :
        /\ h[0] = <<>> /\ FlattenSeq(seqs) = h[n]
        /\ \A i \in 1..n : h[i] = h[i - 1] \o seqs[i]
  BY FlattenFold
<1>3. PICK k \in [0..Len(more) -> Seq(A)] :
        /\ k[0] = <<>> /\ FlattenSeq(more) = k[Len(more)]
        /\ \A i \in 1..Len(more) : k[i] = k[i - 1] \o more[i]
  <2> HIDE DEF more
  <2> QED BY <1>1, FlattenFold
<1> HIDE DEF more, n
<1> DEFINE G == {i \in 0..n : k[i] = h[i]}
<1>4. 0 \in G
  BY <1>1, <1>2, <1>3
<1>5. ASSUME NEW i \in 0..n, i \in G, i < n PROVE i + 1 \in G
  <2>1. i + 1 \in 1..n /\ i + 1 \in 0..n /\ (i + 1) - 1 = i /\ i + 1 \in 1..Len(more)
    BY <1>1, <1>5
  <2> QED BY <1>1, <1>2, <1>3, <1>5, <2>1
<1>6. \A i \in 0..n : i \in G
  <2> HIDE DEF G
  <2> QED BY <1>1, <1>4, <1>5, UpTo
<1>7. k[n] = h[n]
  BY <1>1, <1>6
<1>8. k[n + 1] = k[n] \o more[n + 1]
  <2>1. n + 1 \in 1..Len(more) /\ (n + 1) - 1 = n
    BY <1>1
  <2> QED BY <1>3, <2>1
<1> QED BY <1>1, <1>2, <1>3, <1>7, <1>8 DEF more

SayTheSame(b, c) == b.heading = c.heading /\ b.text = c.text

LEMMA RepeatsMore ==
  ASSUME NEW A, NEW s \in Seq(A), NEW e \in A
  PROVE  /\ \A b : Repeats(s, b) => Repeats(Append(s, e), b)
         /\ Repeats(Append(s, e), e)
<1>1. /\ Append(s, e) \in Seq(A) /\ Len(Append(s, e)) = Len(s) + 1 /\ Len(s) \in Nat
      /\ DOMAIN Append(s, e) = 1..(Len(s) + 1) /\ DOMAIN s = 1..Len(s)
      /\ \A i \in 1..Len(s) : Append(s, e)[i] = s[i]
      /\ Append(s, e)[Len(s) + 1] = e
  OBVIOUS
<1>2. \A i \in 1..Len(s) : i \in 1..(Len(s) + 1)
  BY <1>1
<1>3. Len(s) + 1 \in 1..(Len(s) + 1)
  BY <1>1
<1> QED BY <1>1, <1>2, <1>3 DEF Repeats

(* deduplicate keeps a block for every block that says something, and no   *)
(* two that say the same (dedupe.py).                                      *)
LEMMA DedupKeeps ==
  ASSUME NEW A, NEW blocks \in Seq(A)
  PROVE  /\ Deduplicate(blocks) \in Seq(A)
         /\ \A i \in 1..Len(blocks) :
              IsNoise(blocks[i]) \/ Repeats(Deduplicate(blocks), blocks[i])
         /\ \A j, k \in 1..Len(Deduplicate(blocks)) : j < k =>
              ~ SayTheSame(Deduplicate(blocks)[j], Deduplicate(blocks)[k])
<1> DEFINE n == Len(blocks)
<1>1. PICK h \in [0..n -> Seq(A)] :
        /\ h[0] = <<>> /\ Deduplicate(blocks) = h[n]
        /\ \A i \in 1..n : h[i] = IF IsNoise(blocks[i]) \/ Repeats(h[i - 1], blocks[i])
                                  THEN h[i - 1] ELSE Append(h[i - 1], blocks[i])
  BY DedupFold
<1>2. n \in Nat /\ n \in 0..n /\ 0 \in 0..n /\ \A i \in 1..n : blocks[i] \in A
  OBVIOUS
<1> DEFINE covers(i) == \A k \in 1..i : IsNoise(blocks[k]) \/ Repeats(h[i], blocks[k])
           once(i) == \A j, k \in 1..Len(h[i]) : j < k => ~ SayTheSame(h[i][j], h[i][k])
           G == {i \in 0..n : covers(i) /\ once(i)}
<1> HIDE DEF n
<1>3. 0 \in G
  <2>1. Len(h[0]) = 0
    BY <1>1
  <2> QED BY <1>2, <2>1
<1>4. ASSUME NEW i \in 0..n, i \in G, i < n PROVE i + 1 \in G
  <2>1. i \in Nat /\ i + 1 \in 1..n /\ i + 1 \in 0..n /\ (i + 1) - 1 = i
    BY <1>2, <1>4
  <2> DEFINE b == blocks[i + 1]
  <2>2. h[i] \in Seq(A) /\ h[i + 1] \in Seq(A) /\ b \in A
    BY <1>1, <1>2, <2>1
  <2>3. h[i + 1] = IF IsNoise(b) \/ Repeats(h[i], b) THEN h[i] ELSE Append(h[i], b)
    BY <1>1, <2>1
  <2>4. \A k \in 1..(i + 1) : k \in 1..i \/ k = i + 1
    BY <2>1
  <2>5. covers(i) /\ once(i)
    BY <1>4
  <2>6. CASE IsNoise(b) \/ Repeats(h[i], b)
    <3>1. h[i + 1] = h[i]
      BY <2>3, <2>6
    <3>2. covers(i + 1)
      BY <2>4, <2>5, <2>6, <3>1
    <3>3. once(i + 1)
      BY <2>5, <3>1
    <3> QED BY <2>1, <3>2, <3>3
  <2>7. CASE ~ (IsNoise(b) \/ Repeats(h[i], b))
    <3> HIDE DEF b
    <3>1. h[i + 1] = Append(h[i], b)
      BY <2>3, <2>7
    <3>2. /\ \A x : Repeats(h[i], x) => Repeats(h[i + 1], x)
          /\ Repeats(h[i + 1], b)
      BY <2>2, <3>1, RepeatsMore
    <3>3. covers(i + 1)
      BY <2>4, <2>5, <3>2 DEF b
    <3>4. /\ Len(h[i]) \in Nat /\ Len(h[i + 1]) = Len(h[i]) + 1 /\ h[i + 1][Len(h[i]) + 1] = b
          /\ \A j \in 1..Len(h[i]) : h[i + 1][j] = h[i][j]
      BY <2>2, <3>1
    <3>5. \A j \in 1..Len(h[i]) : ~ SayTheSame(h[i][j], b)
      <4>1. DOMAIN h[i] = 1..Len(h[i])
        BY <2>2
      <4> QED BY <2>7, <4>1 DEF Repeats, SayTheSame
    <3>6. once(i + 1)
      <4> SUFFICES ASSUME NEW j \in 1..Len(h[i + 1]), NEW k \in 1..Len(h[i + 1]), j < k
                   PROVE  ~ SayTheSame(h[i + 1][j], h[i + 1][k])
        OBVIOUS
      <4>1. j \in 1..Len(h[i])
        BY <3>4
      <4>2. k \in 1..Len(h[i]) \/ k = Len(h[i]) + 1
        BY <3>4
      <4> QED BY <2>5, <3>4, <3>5, <4>1, <4>2
    <3> HIDE DEF covers, once
    <3> QED BY <2>1, <3>3, <3>6
  <2> QED BY <2>6, <2>7
<1>5. \A i \in 0..n : i \in G
  <2> HIDE DEF G
  <2> QED BY <1>2, <1>3, <1>4, UpTo
<1>6. n \in G
  <2> HIDE DEF G
  <2> QED BY <1>2, <1>5
<1>7. h[n] \in Seq(A)
  BY <1>1, <1>2
<1> QED BY <1>1, <1>6, <1>7 DEF n

(* One block more is its size more.                                        *)
LEMMA SizeAppend ==
  ASSUME NEW A, Sized(A), NEW c \in Seq(A), NEW b \in A
  PROVE  SizeOf(c) \in Nat /\ SizeOf(Append(c, b)) = SizeOf(c) + Size(b)
<1> DEFINE more == Append(c, b)
           n == Len(c)
<1>1. /\ more \in Seq(A) /\ Len(more) = n + 1 /\ n \in Nat
      /\ more[n + 1] = b /\ \A i \in 1..n : more[i] = c[i]
  OBVIOUS
<1>2. PICK h \in [0..n -> Nat] :
        /\ h[0] = 0 /\ SizeOf(c) = h[n]
        /\ \A i \in 1..n : h[i] = h[i - 1] + Size(c[i])
  BY SizeFold
<1>3. PICK k \in [0..Len(more) -> Nat] :
        /\ k[0] = 0 /\ SizeOf(more) = k[Len(more)]
        /\ \A i \in 1..Len(more) : k[i] = k[i - 1] + Size(more[i])
  <2> HIDE DEF more
  <2> QED BY <1>1, SizeFold
<1> HIDE DEF more, n
<1> DEFINE G == {i \in 0..n : k[i] = h[i]}
<1>4. 0 \in G
  BY <1>1, <1>2, <1>3
<1>5. ASSUME NEW i \in 0..n, i \in G, i < n PROVE i + 1 \in G
  <2>1. i + 1 \in 1..n /\ i + 1 \in 0..n /\ (i + 1) - 1 = i /\ i + 1 \in 1..Len(more)
    BY <1>1, <1>5
  <2> QED BY <1>1, <1>2, <1>3, <1>5, <2>1
<1>6. \A i \in 0..n : i \in G
  <2> HIDE DEF G
  <2> QED BY <1>1, <1>4, <1>5, UpTo
<1>7. k[n] = h[n] /\ n \in 0..n
  BY <1>1, <1>6
<1>8. k[n + 1] = k[n] + Size(more[n + 1])
  <2>1. n + 1 \in 1..Len(more) /\ (n + 1) - 1 = n
    BY <1>1
  <2> QED BY <1>3, <2>1
<1> QED BY <1>1, <1>2, <1>3, <1>7, <1>8 DEF more

(* A chunk of more than one block is not too long.                         *)
Fits(c) == Len(c) > 1 => SizeOf(c) <= MaxWords

(* The chunks hold the blocks in their order (semantic_chunker.py).        *)
LEMMA ChunksHold ==
  ASSUME NEW A, Sized(A), NEW blocks \in Seq(A)
  PROVE  /\ FlattenSeq(ChunkDocument(blocks)) = blocks
         /\ \A c \in Range(ChunkDocument(blocks)) : Fits(c)
<1> DEFINE n == Len(blocks)
<1>1. PICK h \in [0..n -> ChunkState(A)] :
        /\ h[0] = [chunks |-> <<>>, current |-> <<>>] /\ Chunked(blocks) = h[n]
        /\ \A i \in 1..n : h[i] = NextChunk(h[i - 1], blocks[i])
  BY ChunkFold
<1>2. n \in Nat /\ n \in 0..n /\ 0 \in 0..n /\ \A i \in 1..n : blocks[i] \in A
  OBVIOUS
<1> HIDE DEF n
<1> DEFINE whole(s) == FlattenSeq(s.chunks) \o s.current
           first(i) == [j \in 1..i |-> blocks[j]]
           fit(s) == Fits(s.current) /\ \A c \in Range(s.chunks) : Fits(c)
           G == {i \in 0..n : whole(h[i]) = first(i) /\ fit(h[i])}
<1>3. 0 \in G
  <2>1. h[0].chunks = <<>> /\ h[0].current = <<>>
    BY <1>1
  <2>2. FlattenSeq(<<>>) = <<>> /\ Range(<<>>) = {} /\ <<>> \o <<>> = <<>>
    BY DEF FlattenSeq, Range
  <2>3. first(0) = <<>>
    OBVIOUS
  <2>4. Fits(<<>>)
    BY DEF Fits
  <2> HIDE DEF first
  <2> QED BY <1>2, <2>1, <2>2, <2>3, <2>4
<1>4. ASSUME NEW i \in 0..n, i \in G, i < n PROVE i + 1 \in G
  <2>1. i \in Nat /\ i + 1 \in 1..n /\ i + 1 \in 0..n /\ (i + 1) - 1 = i
    BY <1>2, <1>4
  <2> DEFINE b == blocks[i + 1]
             s == h[i]
             t == h[i + 1]
             flat == FlattenSeq(s.chunks)
  <2>2. s \in ChunkState(A) /\ b \in A /\ t = NextChunk(s, b)
    BY <1>1, <1>2, <2>1
  <2>3. s.chunks \in Seq(Seq(A)) /\ s.current \in Seq(A)
    BY <2>2 DEF ChunkState
  <2>4. flat \in Seq(A)
    <3> HIDE DEF s
    <3> QED BY <2>3, FlattenHas
  <2>5. whole(s) = first(i) /\ fit(s)
    BY <1>4
  <2>6. first(i + 1) = Append(first(i), b)
    <3>1. first(i) \in Seq(A) /\ Len(first(i)) = i
      BY <1>2, <2>1
    <3> QED BY <2>1, <3>1
  <2>7. CASE s.current # <<>> /\ SizeOf(s.current) + Size(b) > MaxWords
    <3>1. t = [chunks |-> Append(s.chunks, s.current), current |-> <<b>>]
      <4> HIDE DEF s, t, b
      <4> QED BY <2>2, <2>7 DEF NextChunk
    <3>2. FlattenSeq(Append(s.chunks, s.current)) = flat \o s.current
      <4> HIDE DEF s
      <4> QED BY <2>3, FlattenAppend
    <3>3. whole(t) = (flat \o s.current) \o <<b>>
      <4> HIDE DEF s, t, b, flat
      <4> QED BY <3>1, <3>2
    <3>4. whole(t) = Append(whole(s), b)
      <4>1. flat \o s.current \in Seq(A)
        <5> HIDE DEF s, flat
        <5> QED BY <2>3, <2>4
      <4>2. (flat \o s.current) \o <<b>> = Append(flat \o s.current, b)
        <5> DEFINE u == flat \o s.current
        <5>1. u \in Seq(A)
          BY <4>1
        <5> HIDE DEF u
        <5>2. u \o <<b>> = Append(u, b)
          BY <2>2, <5>1
        <5> QED BY <5>2 DEF u
      <4> QED BY <3>3, <4>2
    <3>5. fit(t)
      <4>1. Range(Append(s.chunks, s.current)) = Range(s.chunks) \cup {s.current}
        <5> HIDE DEF s
        <5> QED BY <2>3, AppendHas
      <4>2. Fits(<<b>>)
        BY DEF Fits
      <4> HIDE DEF s, t, b, flat
      <4> QED BY <2>5, <3>1, <4>1, <4>2
    <3> HIDE DEF whole, first, fit, s, b
    <3> QED BY <2>1, <2>5, <2>6, <3>4, <3>5
  <2>8. CASE ~ (s.current # <<>> /\ SizeOf(s.current) + Size(b) > MaxWords)
    <3>1. t.chunks = s.chunks /\ t.current = Append(s.current, b)
      <4>1. t = [s EXCEPT !.current = Append(@, b)]
        <5> HIDE DEF s, t, b
        <5> QED BY <2>2, <2>8 DEF NextChunk
      <4> HIDE DEF s, t, b, flat
      <4> QED BY <2>2, <4>1 DEF ChunkState
    <3>4. whole(t) = Append(whole(s), b)
      <4> HIDE DEF s, t, b, flat
      <4>1. whole(t) = flat \o Append(s.current, b)
        BY <3>1 DEF flat
      <4>2. flat \o Append(s.current, b) = Append(flat \o s.current, b)
        BY <2>2, <2>3, <2>4
      <4> QED BY <4>1, <4>2 DEF flat
    <3>5. Fits(Append(s.current, b))
      <4> HIDE DEF s, b
      <4>1. CASE s.current = <<>>
        <5>1. Len(Append(s.current, b)) = 1
          BY <4>1
        <5> QED BY <5>1 DEF Fits
      <4>2. CASE s.current # <<>>
        <5>1. /\ SizeOf(s.current) \in Nat
              /\ SizeOf(Append(s.current, b)) = SizeOf(s.current) + Size(b)
          BY <2>2, <2>3, SizeAppend
        <5>2. Size(b) \in Nat
          BY <2>2 DEF Sized
        <5>3. MaxWords \in Nat
          BY DocumentsAssumption
        <5> QED BY <2>8, <4>2, <5>1, <5>2, <5>3 DEF Fits
      <4> QED BY <4>1, <4>2
    <3>6. fit(t)
      <4> HIDE DEF s, t, b, flat
      <4> QED BY <2>5, <3>1, <3>5
    <3> HIDE DEF whole, first, fit, s, b
    <3> QED BY <2>1, <2>5, <2>6, <3>4, <3>6
  <2> QED BY <2>7, <2>8
<1>5. \A i \in 0..n : i \in G
  <2> HIDE DEF G
  <2> QED BY <1>2, <1>3, <1>4, UpTo
<1>6. whole(h[n]) = first(n) /\ fit(h[n])
  BY <1>2, <1>5
<1>7. first(n) = blocks
  BY DEF n
<1>8. h[n].chunks \in Seq(Seq(A)) /\ h[n].current \in Seq(A)
  BY <1>1, <1>2 DEF ChunkState
<1>9. ChunkDocument(blocks) = Append(h[n].chunks, h[n].current)
  BY <1>1 DEF ChunkDocument
<1>10. FlattenSeq(Append(h[n].chunks, h[n].current)) = whole(h[n])
  BY <1>8, FlattenAppend
<1>11. Range(Append(h[n].chunks, h[n].current)) = Range(h[n].chunks) \cup {h[n].current}
  BY <1>8, AppendHas
<1> HIDE DEF whole, first
<1> QED BY <1>6, <1>7, <1>9, <1>10, <1>11

(* A list of blocks whose texts have a length                              *)
Said(l) == l \in Seq(Range(l)) /\ \A b \in Range(l) : b.text \in DOMAIN Words

LEMMA SaidConcat ==
  ASSUME NEW l, NEW m, Said(l), Said(m)
  PROVE  Said(l \o m) /\ Range(l \o m) = Range(l) \cup Range(m)
<1> DEFINE A == Range(l) \cup Range(m)
<1>1. l \in Seq(A) /\ m \in Seq(A)
  BY DEF Said
<1>2. l \o m \in Seq(A) /\ Range(l \o m) = A
  <2> HIDE DEF A
  <2> QED BY <1>1, ConcatHas DEF A
<1>3. \A b \in A : b.text \in DOMAIN Words
  BY DEF Said
<1> HIDE DEF A
<1> QED BY <1>2, <1>3 DEF Said, A

(* A list of blocks, one for each thing that is said                       *)
Each(s, of) == [i \in DOMAIN s |-> of[s[i]]]

LEMMA SaidEach ==
  ASSUME NEW A, NEW s \in Seq(A), NEW of, \A x \in A : of[x].text \in DOMAIN Words
  PROVE  Said(Each(s, of)) /\ Range(Each(s, of)) = {of[x] : x \in Range(s)}
<1> DEFINE l == Each(s, of)
<1>1. DOMAIN s = 1..Len(s) /\ Len(s) \in Nat /\ \A i \in DOMAIN s : s[i] \in A
  OBVIOUS
<1>2. l = [i \in 1..Len(s) |-> of[s[i]]]
  BY <1>1 DEF Each
<1>3. Range(l) = {of[x] : x \in Range(s)}
  BY <1>1, <1>2 DEF Range
<1>4. l \in Seq(Range(l))
  <2>1. l \in [1..Len(s) -> Range(l)]
    BY <1>1, <1>2 DEF Range
  <2> HIDE DEF l
  <2> QED BY <1>1, <2>1
<1>5. \A x \in Range(s) : x \in A
  BY <1>1 DEF Range
<1> HIDE DEF l
<1> QED BY <1>3, <1>4, <1>5 DEF Said, l

(* _dict_to_blocks and _meta_to_blocks (canonical_builder.py)              *)
LEMMA DictHas ==
  ASSUME NEW fields, AreFields(fields), NEW source
  PROVE  /\ Said(DictToBlocks(fields, source))
         /\ Range(DictToBlocks(fields, source)) =
              {Block(source, "field", f.key, f.value) :
                 f \in {g \in Range(fields) : g.value # "None"}}
<1> DEFINE A == Range(fields)
           told == {f \in A : f.value # "None"}
           leaves == Only(fields, told)
           of == [f \in A |-> Block(source, "field", f.key, f.value)]
<1>1. fields \in Seq(A) /\ \A f \in A : f.value \in DOMAIN Words
  BY DEF AreFields
<1>2. leaves \in Seq(A) /\ Range(leaves) = told
  <2>1. leaves \in Seq(A) /\ Range(leaves) = Range(fields) \cap told
    <3> HIDE DEF A, told
    <3> QED BY <1>1, OnlyKeeps
  <2> QED BY <2>1
<1>3. \A f \in A : of[f] = Block(source, "field", f.key, f.value) /\ of[f].text \in DOMAIN Words
  BY <1>1 DEF Block
<1>4. DOMAIN leaves = 1..Len(leaves) /\ \A i \in DOMAIN leaves : leaves[i] \in A
  <2> HIDE DEF A, leaves
  <2> QED BY <1>2
<1>5. DictToBlocks(fields, source) = Each(leaves, of)
  <2>1. DictToBlocks(fields, source) =
          [i \in DOMAIN leaves |-> Block(source, "field", leaves[i].key, leaves[i].value)]
    BY DEF DictToBlocks
  <2> HIDE DEF leaves, A, of
  <2> QED BY <1>3, <1>4, <2>1 DEF Each
<1>6. Said(Each(leaves, of)) /\ Range(Each(leaves, of)) = {of[f] : f \in told}
  <2> HIDE DEF A, leaves, of, told
  <2> QED BY <1>2, <1>3, SaidEach
<1>7. {of[f] : f \in told} = {Block(source, "field", f.key, f.value) : f \in told}
  <2> HIDE DEF of
  <2> QED BY <1>3
<1> QED BY <1>5, <1>6, <1>7

LEMMA MetaHas ==
  ASSUME NEW meta, AreFields(meta), NEW source
  PROVE  /\ Said(MetaToBlocks(meta, source))
         /\ Range(MetaToBlocks(meta, source)) =
              {Block(source, "field", f.key, f.value) : f \in Range(meta)}
<1> DEFINE A == Range(meta)
           of == [f \in A |-> Block(source, "field", f.key, f.value)]
<1>1. meta \in Seq(A) /\ \A f \in A : f.value \in DOMAIN Words
  BY DEF AreFields
<1>3. \A f \in A : of[f] = Block(source, "field", f.key, f.value) /\ of[f].text \in DOMAIN Words
  BY <1>1 DEF Block
<1>4. \A i \in DOMAIN meta : meta[i] \in A
  BY DEF Range
<1>5. MetaToBlocks(meta, source) = Each(meta, of)
  <2> HIDE DEF A, of
  <2> QED BY <1>3, <1>4 DEF Each, MetaToBlocks
<1>6. Said(Each(meta, of)) /\ Range(Each(meta, of)) = {of[f] : f \in A}
  <2> HIDE DEF of
  <2> QED BY <1>1, <1>3, SaidEach
<1>7. {of[f] : f \in A} = {Block(source, "field", f.key, f.value) : f \in A}
  <2> HIDE DEF of
  <2> QED BY <1>3
<1> QED BY <1>5, <1>6, <1>7

(* _handle_meta keeps what is not blank (semantic_html.py).                *)
LEMMA MetaKeeps ==
  ASSUME NEW meta, AreFields(meta)
  PROVE  /\ AreFields(HandleMeta(meta))
         /\ \A f \in Range(meta) : f.key # "" /\ f.value # "" => f \in Range(HandleMeta(meta))
<1> DEFINE A == Range(meta)
           n == Len(meta)
<1>1. /\ meta \in Seq(A) /\ n \in Nat /\ 0 \in 0..n /\ n \in 0..n /\ DOMAIN meta = 1..n
      /\ \A f \in A : f.value \in DOMAIN Words
  BY DEF AreFields
<1>2. PICK h \in [0..n -> Seq(A)] :
        /\ h[0] = <<>> /\ HandleMeta(meta) = h[n]
        /\ \A i \in 1..n : h[i] = IF "" \in {meta[i].key, meta[i].value} \/ meta[i] \in Range(h[i - 1])
                                  THEN h[i - 1] ELSE Append(h[i - 1], meta[i])
  <2> HIDE DEF A
  <2> QED BY <1>1, MetaFold
<1> DEFINE kept(i) == \A k \in 1..i : meta[k].key # "" /\ meta[k].value # "" => meta[k] \in Range(h[i])
           G == {i \in 0..n : kept(i)}
<1> HIDE DEF n
<1>3. 0 \in G
  <2>1. kept(0)
    <3>1. 1..0 = {}
      OBVIOUS
    <3> QED BY <3>1
  <2> HIDE DEF kept
  <2> QED BY <1>1, <2>1
<1>4. ASSUME NEW i \in 0..n, i \in G, i < n PROVE i + 1 \in G
  <2>1. i \in Nat /\ i + 1 \in 1..n /\ i + 1 \in 0..n /\ (i + 1) - 1 = i
    <3> HIDE DEF G
    <3> QED BY <1>1, <1>4
  <2> DEFINE f == meta[i + 1]
  <2>2. h[i] \in Seq(A) /\ f \in A
    <3>1. f \in A
      BY <1>1, <2>1 DEF Range
    <3> HIDE DEF A, f
    <3> QED BY <1>2, <3>1
  <2>3. h[i + 1] = IF "" \in {f.key, f.value} \/ f \in Range(h[i]) THEN h[i] ELSE Append(h[i], f)
    <3> HIDE DEF A
    <3> QED BY <1>2, <2>1
  <2>4. \A k \in 1..(i + 1) : k \in 1..i \/ k = i + 1
    BY <2>1
  <2>5. kept(i)
    BY <1>4
  <2>6. Range(Append(h[i], f)) = Range(h[i]) \cup {f}
    <3> HIDE DEF A, f
    <3> QED BY <2>2, AppendHas
  <2>7. Range(h[i]) \subseteq Range(h[i + 1])
        /\ (f.key # "" /\ f.value # "" => f \in Range(h[i + 1]))
    <3> HIDE DEF A, f
    <3> QED BY <2>3, <2>6
  <2>8. kept(i + 1)
    <3> HIDE DEF A
    <3> QED BY <2>4, <2>5, <2>7
  <2> HIDE DEF kept
  <2> QED BY <2>1, <2>8
<1>5. kept(n)
  <2>1. \A i \in 0..n : i \in G
    <3> HIDE DEF G
    <3> QED BY <1>1, <1>3, <1>4, UpTo
  <2> HIDE DEF kept
  <2> QED BY <1>1, <2>1
<1>6. \A f \in Range(meta) : f.key # "" /\ f.value # "" => f \in Range(h[n])
  BY <1>1, <1>5 DEF Range
<1>7. h[n] \in Seq(A)
  <2> HIDE DEF A
  <2> QED BY <1>1, <1>2
<1>8. h[n] \in Seq(Range(h[n])) /\ Range(h[n]) \subseteq A
  <2> HIDE DEF A
  <2> QED BY <1>7 DEF Range
<1> QED BY <1>1, <1>2, <1>6, <1>8 DEF AreFields

LEMMA SaidNothing == Said(<<>>)
BY DEF Said, Range

(* A list is a list of what it has.                                        *)
LEMMA OfItsRange ==
  ASSUME NEW A, NEW s \in Seq(A)
  PROVE  s \in Seq(Range(s)) /\ Range(s) \subseteq A
BY DEF Range

(* Texts under one heading                                                 *)
Titled(heading, texts) ==
  [i \in DOMAIN texts |-> Block("html_semantic", "text", heading, texts[i])]

LEMMA TitledSaid ==
  ASSUME NEW heading, NEW texts \in Seq(DOMAIN Words)
  PROVE  Said(Titled(heading, texts))
<1> DEFINE A == DOMAIN Words
           of == [t \in A |-> Block("html_semantic", "text", heading, t)]
<1>1. \A t \in A : of[t].text \in DOMAIN Words
  BY DEF Block
<1>2. \A i \in DOMAIN texts : texts[i] \in A
  OBVIOUS
<1>3. Titled(heading, texts) = Each(texts, of)
  BY <1>2 DEF Each, Titled
<1> HIDE DEF of
<1> QED BY <1>1, <1>3, SaidEach

(* HTMLSemanticStrategy finds every field of the page that is not blank.   *)
LEMMA HtmlHas ==
  ASSUME NEW s, s.html.title \in DOMAIN Words, s.html.headings \in Seq(DOMAIN Words),
         AreFields(s.html.meta), AreFields(s.html.jsonld)
  PROVE  /\ Said(HtmlSemantic(s))
         /\ s.kind = "html" =>
              \A f \in Range(s.html.meta) \cup Range(s.html.jsonld) :
                f.value \notin {"None", ""} /\ f.key # "" =>
                  \E b \in Range(HtmlSemantic(s)) : b.heading = f.key /\ b.text = f.value
<1> DEFINE meta == HandleMeta(s.html.meta)
           t == Titled("Title", NotBlank(<<s.html.title>>))
           m == MetaToBlocks(meta, "html_semantic")
           g == Titled("Heading", NotBlank(s.html.headings))
           j == DictToBlocks(s.html.jsonld, "html_semantic")
           l == t \o m \o g \o j
<1>1. CASE s.kind # "html"
  <2>1. HtmlSemantic(s) = <<>>
    BY <1>1 DEF HtmlSemantic
  <2> QED BY <1>1, <2>1, SaidNothing
<1>2. CASE s.kind = "html"
  <2>1. HtmlSemantic(s) = l
    BY <1>2 DEF HtmlSemantic, ParseSemanticHtml, Titled
  <2>2. Said(t)
    <3>1. <<s.html.title>> \in Seq(DOMAIN Words)
      OBVIOUS
    <3>2. NotBlank(<<s.html.title>>) \in Seq(DOMAIN Words)
      BY <3>1, OnlyKeeps DEF NotBlank
    <3> QED BY <3>2, TitledSaid
  <2>3. AreFields(meta)
        /\ \A f \in Range(s.html.meta) : f.key # "" /\ f.value # "" => f \in Range(meta)
    BY MetaKeeps
  <2>4. Said(m) /\ Range(m) = {Block("html_semantic", "field", f.key, f.value) : f \in Range(meta)}
    <3> HIDE DEF meta
    <3> QED BY <2>3, MetaHas
  <2>5. Said(g)
    <3>1. NotBlank(s.html.headings) \in Seq(DOMAIN Words)
      BY OnlyKeeps DEF NotBlank
    <3> QED BY <3>1, TitledSaid
  <2>6. Said(j) /\ Range(j) = {Block("html_semantic", "field", f.key, f.value) :
                                 f \in {x \in Range(s.html.jsonld) : x.value # "None"}}
    BY DictHas
  <2>7. Said(l) /\ Range(m) \subseteq Range(l) /\ Range(j) \subseteq Range(l)
    <3> HIDE DEF t, m, g, j
    <3>1. Said(t \o m) /\ Range(t \o m) = Range(t) \cup Range(m)
      BY <2>2, <2>4, SaidConcat
    <3>2. Said(t \o m \o g) /\ Range(t \o m \o g) = Range(t \o m) \cup Range(g)
      BY <2>5, <3>1, SaidConcat
    <3>3. Said(l) /\ Range(l) = Range(t \o m \o g) \cup Range(j)
      BY <2>6, <3>2, SaidConcat
    <3> HIDE DEF l
    <3> QED BY <3>1, <3>2, <3>3
  <2> HIDE DEF t, m, g, j, l, meta
  <2>8. ASSUME NEW f \in Range(s.html.meta) \cup Range(s.html.jsonld),
               f.value \notin {"None", ""}, f.key # ""
        PROVE  \E b \in Range(l) : b.heading = f.key /\ b.text = f.value
    <3> DEFINE b == Block("html_semantic", "field", f.key, f.value)
    <3>1. b.heading = f.key /\ b.text = f.value
      BY DEF Block
    <3>2. b \in Range(l)
      BY <2>3, <2>4, <2>6, <2>7, <2>8
    <3> QED BY <3>1, <3>2
  <2> QED BY <2>1, <2>7, <2>8
<1> QED BY <1>1, <1>2

(* What a source says: its fields, and its text                            *)
Says(s, heading, text) ==
  \/ \E f \in FieldsOf(s) : f.value \notin {"None", ""} /\ f.key # ""
                             /\ heading = f.key /\ text = f.value
  \/ s.text # "" /\ heading = "" /\ text = s.text

(* The canonical blocks say what the source says (canonical_builder.py).   *)
LEMMA CanonicalHas ==
  ASSUME NEW s \in Sources
  PROVE  /\ Said(BuildCanonical(s).blocks)
         /\ \A heading, text : Says(s, heading, text) =>
              \E b \in Range(BuildCanonical(s).blocks) : b.heading = heading /\ b.text = text
<1>1. /\ s.text \in DOMAIN Words /\ AreFields(s.metadata) /\ AreFields(s.payload.fields)
      /\ s.html.title \in DOMAIN Words /\ s.html.headings \in Seq(DOMAIN Words)
      /\ AreFields(s.html.meta) /\ AreFields(s.html.jsonld)
      /\ {"placeholder", "dump"} \subseteq DOMAIN Words
  BY DocumentsAssumption
<1> DEFINE found == <<Structured(s), Metadata(s), HtmlSemantic(s), Visible(s)>>
           all == FlattenSeq(found)
           merged == Only(all, {b \in Range(all) : b.text # ""})
           parts == Range(Structured(s)) \cup Range(Metadata(s)) \cup Range(HtmlSemantic(s))
                      \cup Range(Visible(s))
<1>2. /\ Said(Structured(s))
      /\ s.payload.present => \A f \in Range(s.payload.fields) : f.value # "None" =>
           Block("structured", "field", f.key, f.value) \in Range(Structured(s))
  <2>1. Said(<<>>)
    BY SaidNothing
  <2>2. /\ Said(DictToBlocks(s.payload.fields, "structured"))
        /\ Range(DictToBlocks(s.payload.fields, "structured")) =
             {Block("structured", "field", f.key, f.value) :
                f \in {g \in Range(s.payload.fields) : g.value # "None"}}
    BY <1>1, DictHas
  <2> QED BY <2>1, <2>2 DEF Structured
<1>3. /\ Said(Metadata(s))
      /\ \A f \in Range(s.metadata) : f.value # "None" =>
           Block("metadata", "field", f.key, f.value) \in Range(Metadata(s))
  <2>2. /\ Said(DictToBlocks(s.metadata, "metadata"))
        /\ Range(DictToBlocks(s.metadata, "metadata")) =
             {Block("metadata", "field", f.key, f.value) :
                f \in {g \in Range(s.metadata) : g.value # "None"}}
    BY <1>1, DictHas
  <2> QED BY <2>2 DEF Metadata
<1>4. /\ Said(HtmlSemantic(s))
      /\ s.kind = "html" =>
           \A f \in Range(s.html.meta) \cup Range(s.html.jsonld) :
             f.value \notin {"None", ""} /\ f.key # "" =>
               \E b \in Range(HtmlSemantic(s)) : b.heading = f.key /\ b.text = f.value
  BY <1>1, HtmlHas
<1>5. /\ Said(Visible(s))
      /\ s.text # "" => Block("visible", "text", "", s.text) \in Range(Visible(s))
  <2>1. CASE s.text = ""
    <3>1. Visible(s) = <<>>
      BY <2>1 DEF Visible
    <3> QED BY <2>1, <3>1, SaidNothing
  <2>2. CASE s.text # ""
    <3> DEFINE b == Block("visible", "text", "", s.text)
    <3>1. Visible(s) = <<b>> /\ b.text = s.text
      BY <2>2 DEF Visible, Block
    <3> HIDE DEF b
    <3>2. Range(<<b>>) = {b}
      BY DEF Range
    <3>3. <<b>> \in Seq({b})
      OBVIOUS
    <3> QED BY <1>1, <3>1, <3>2, <3>3 DEF Said, b
  <2> QED BY <2>1, <2>2
<1>6. all \in Seq(parts) /\ Range(all) = parts
  <2>1. /\ Structured(s) \in Seq(parts) /\ Metadata(s) \in Seq(parts)
        /\ HtmlSemantic(s) \in Seq(parts) /\ Visible(s) \in Seq(parts)
    <3>1. /\ Structured(s) \in Seq(Range(Structured(s))) /\ Metadata(s) \in Seq(Range(Metadata(s)))
          /\ HtmlSemantic(s) \in Seq(Range(HtmlSemantic(s))) /\ Visible(s) \in Seq(Range(Visible(s)))
      BY <1>2, <1>3, <1>4, <1>5 DEF Said
    <3> QED BY <3>1
  <2>2. Len(found) = 4 /\ found \in Seq(Seq(parts))
    <3> DEFINE B == Seq(parts)
    <3> HIDE DEF B, parts
    <3> QED BY <2>1 DEF B
  <2>3. FlattenSeq(found) \in Seq(parts)
        /\ Range(FlattenSeq(found)) = UNION {Range(found[i]) : i \in 1..4}
    <3> HIDE DEF found, parts
    <3> QED BY <2>2, FlattenHas
  <2>4. UNION {Range(found[i]) : i \in 1..4} = parts
    <3>1. \A i : i \in 1..4 <=> i = 1 \/ i = 2 \/ i = 3 \/ i = 4
      OBVIOUS
    <3>2. /\ found[1] = Structured(s) /\ found[2] = Metadata(s)
          /\ found[3] = HtmlSemantic(s) /\ found[4] = Visible(s)
      OBVIOUS
    <3> HIDE DEF found
    <3> QED BY <3>1, <3>2
  <2> QED BY <2>3, <2>4
<1>7. \A b \in parts : b.text \in DOMAIN Words
  BY <1>2, <1>3, <1>4, <1>5 DEF Said
<1>8. merged \in Seq(parts) /\ Range(merged) = {b \in parts : b.text # ""}
  <2>1. merged \in Seq(parts) /\ Range(merged) = Range(all) \cap {b \in Range(all) : b.text # ""}
    <3> HIDE DEF all, parts
    <3> QED BY <1>6, OnlyKeeps
  <2> HIDE DEF merged, all, parts
  <2> QED BY <1>6, <2>1
<1>9. BuildCanonical(s).blocks = IF merged # <<>> THEN merged ELSE <<Rescue(s)>>
  BY DEF BuildCanonical
<1>10. ASSUME NEW heading, NEW text, Says(s, heading, text)
       PROVE  \E b \in Range(merged) : b.heading = heading /\ b.text = text
  <2>1. text # "" /\ \E b \in parts : b.heading = heading /\ b.text = text
    <3>1. ASSUME NEW f \in FieldsOf(s), f.value \notin {"None", ""}, f.key # "",
                 heading = f.key, text = f.value
          PROVE  text # "" /\ \E b \in parts : b.heading = heading /\ b.text = text
      <4>1. \A source : /\ Block(source, "field", f.key, f.value).heading = f.key
                        /\ Block(source, "field", f.key, f.value).text = f.value
        BY DEF Block
      <4>2. CASE f \in Range(s.metadata)
        <5>1. Block("metadata", "field", f.key, f.value) \in parts
          BY <1>3, <3>1, <4>2
        <5> QED BY <3>1, <4>1, <5>1
      <4>3. CASE s.payload.present /\ f \in Range(s.payload.fields)
        <5>1. Block("structured", "field", f.key, f.value) \in parts
          BY <1>2, <3>1, <4>3
        <5> QED BY <3>1, <4>1, <5>1
      <4>4. CASE s.kind = "html" /\ f \in Range(s.html.meta) \cup Range(s.html.jsonld)
        <5>1. \E b \in Range(HtmlSemantic(s)) : b.heading = f.key /\ b.text = f.value
          BY <1>4, <3>1, <4>4
        <5> QED BY <3>1, <5>1
      <4> QED BY <3>1, <4>2, <4>3, <4>4 DEF FieldsOf
    <3>2. ASSUME s.text # "", heading = "", text = s.text
          PROVE  text # "" /\ \E b \in parts : b.heading = heading /\ b.text = text
      <4> DEFINE b == Block("visible", "text", "", s.text)
      <4>1. b.heading = "" /\ b.text = s.text
        BY DEF Block
      <4>2. b \in parts
        BY <1>5, <3>2
      <4> HIDE DEF b, parts
      <4> QED BY <3>2, <4>1, <4>2
    <3> HIDE DEF parts
    <3>3. CASE s.text # "" /\ heading = "" /\ text = s.text
      BY <3>2, <3>3
    <3>4. CASE \E f \in FieldsOf(s) : f.value \notin {"None", ""} /\ f.key # ""
                                       /\ heading = f.key /\ text = f.value
      <4>1. PICK f \in FieldsOf(s) : f.value \notin {"None", ""} /\ f.key # ""
                                      /\ heading = f.key /\ text = f.value
        BY <3>4
      <4> QED BY <3>1, <4>1
    <3> QED BY <1>10, <3>3, <3>4 DEF Says
  <2> HIDE DEF merged, parts
  <2> QED BY <1>8, <2>1
<1> HIDE DEF merged, parts, all, found
<1>11. CASE merged # <<>>
  <2>1. merged \in Seq(Range(merged)) /\ Range(merged) \subseteq parts
    BY <1>8, OfItsRange
  <2> QED BY <1>7, <1>9, <1>10, <1>11, <2>1 DEF Said
<1>12. CASE merged = <<>>
  <2>1. Range(merged) = {}
    BY <1>12 DEF Range
  <2>2. Rescue(s).text \in DOMAIN Words
    BY <1>1 DEF Rescue, Block
  <2> DEFINE r == Rescue(s)
  <2> HIDE DEF r
  <2>3. Range(<<r>>) = {r} /\ <<r>> \in Seq({r})
    BY DEF Range
  <2>4. Said(<<r>>)
    BY <2>2, <2>3 DEF Said, r
  <2> QED BY <1>9, <1>10, <1>12, <2>1, <2>4 DEF r
<1> QED BY <1>11, <1>12

-----------------------------------------------------------------------------
(* A document is what the pipeline made of its source.                     *)
DocInv == DocumentsTypeOK /\ (raw \in Sources => doc = Process(raw))

LEMMA DocInitial == DocumentsInit => DocInv
<1> SUFFICES ASSUME DocumentsInit PROVE DocInv
  OBVIOUS
<1>1. raw \notin Sources
  BY DocumentsAssumption DEF DocumentsInit, NoHtml
<1> QED BY <1>1 DEF DocInv, DocumentsInit, DocumentsTypeOK

LEMMA DocStep == DocInv /\ [DocumentsNext]_documentsVars => DocInv'
<1> SUFFICES ASSUME DocInv, [DocumentsNext]_documentsVars PROVE DocInv'
  OBVIOUS
<1>1. NoHtml \notin Sources
  BY DocumentsAssumption DEF NoHtml
<1>2. CASE Ingest
  <2>1. DOMAIN Process(raw') = DOMAIN NoDoc
    BY DEF Process, NoDoc
  <2> QED BY <1>2, <2>1 DEF Ingest, DocInv, DocumentsTypeOK
<1>3. CASE Handover
  BY <1>1, <1>3 DEF Handover, DocInv, DocumentsTypeOK
<1>4. ASSUME NEW k \in CaseIds, IndexCase(k) PROVE DocInv'
  BY <1>4 DEF IndexCase, DocInv, DocumentsTypeOK
<1>5. ASSUME NEW k \in CaseIds, Retrieve(k) PROVE DocInv'
  BY <1>5 DEF Retrieve, DocInv, DocumentsTypeOK
<1>6. CASE UNCHANGED documentsVars
  BY <1>6 DEF documentsVars, DocInv, DocumentsTypeOK
<1> QED BY <1>2, <1>3, <1>4, <1>5, <1>6 DEF DocumentsNext

LEMMA DocInvariant == DocumentsSpec => []DocInv
<1> QED BY DocInitial, DocStep, PTL DEF DocumentsSpec

(* rag/__init__.py:182, dedupe.py:3: whatever a source holds, its fields   *)
(* are indexed under their names and its text somewhere, nothing twice,    *)
(* and the chunks hold the indexed blocks in their order.                  *)
THEOREM IngestedIsKept == DocumentsSpec => []IngestKeepsContent
<1>1. DocInv => IngestKeepsContent
  <2> SUFFICES ASSUME raw \in Sources, doc = Process(raw) PROVE IngestKeepsContent
    BY DEF DocInv, IngestKeepsContent
  <2> DEFINE c == BuildCanonical(raw).blocks
             blocks == Deduplicate(c)
             A == Range(c)
  <2>1. doc.deduped = blocks /\ doc.chunks = ChunkDocument(blocks)
    BY DEF Process
  <2>2. c \in Seq(A) /\ \A b \in A : b.text \in DOMAIN Words
    BY CanonicalHas DEF Said
  <2>3. Sized(A)
    <3>1. \A t \in DOMAIN Words : Words[t] \in Nat
      BY DocumentsAssumption
    <3> HIDE DEF A
    <3>2. ASSUME NEW b \in A PROVE Size(b) \in Nat
      <4>1. Words[b.text] \in Nat
        BY <2>2, <3>1
      <4>2. Size(b) = Words[b.text] + 0 \/ Size(b) = Words[b.text] + 1
        BY DEF Size
      <4> QED BY <4>1, <4>2
    <3> QED BY <3>2 DEF Sized
  <2>4. /\ blocks \in Seq(A)
        /\ \A i \in 1..Len(c) : IsNoise(c[i]) \/ Repeats(blocks, c[i])
        /\ \A i, j \in 1..Len(blocks) : i < j => ~ SayTheSame(blocks[i], blocks[j])
    <3> HIDE DEF A, c
    <3> QED BY <2>2, DedupKeeps
  <2>5. FlattenSeq(doc.chunks) = blocks /\ \A k \in Range(doc.chunks) : Fits(k)
    <3> HIDE DEF A, blocks
    <3> QED BY <2>1, <2>3, <2>4, ChunksHold
  <2>6. \A b \in Range(c) : IsNoise(b) \/ Repeats(blocks, b)
    <3>1. DOMAIN c = 1..Len(c)
      BY <2>2
    <3> QED BY <2>4, <3>1 DEF Range
  <2>7. \A heading, text : Says(raw, heading, text) =>
          \E b \in Range(c) : b.heading = heading /\ b.text = text
    BY CanonicalHas
  <2>8. DOMAIN blocks = 1..Len(blocks)
    <3> HIDE DEF blocks, A
    <3> QED BY <2>4
  <2> HIDE DEF blocks, c, A
  <2>13. IndexedText(doc) = blocks
    BY <2>1 DEF IndexedText
  <2>9. ASSUME NEW f \in FieldsOf(raw), f.value \notin {"None", "", "()"}, f.key # ""
        PROVE  \E b \in Range(blocks) : b.heading = f.key /\ b.text = f.value
    <3>1. Says(raw, f.key, f.value)
      BY <2>9 DEF Says
    <3>2. PICK b \in Range(c) : b.heading = f.key /\ b.text = f.value
      BY <2>7, <3>1
    <3>3. ~ IsNoise(b)
      BY <2>9, <3>2 DEF IsNoise
    <3>4. Repeats(blocks, b)
      BY <2>6, <3>3
    <3>5. PICK i \in DOMAIN blocks : blocks[i].text = b.text /\ b.heading \in {"", blocks[i].heading}
      BY <3>4 DEF Repeats
    <3> QED BY <2>9, <3>2, <3>5 DEF Range
  <2>10. ASSUME raw.text \notin {"", "-", "()"}
         PROVE  \E b \in Range(blocks) : b.text = raw.text
    <3>1. Says(raw, "", raw.text)
      BY <2>10 DEF Says
    <3>2. PICK b \in Range(c) : b.heading = "" /\ b.text = raw.text
      BY <2>7, <3>1
    <3>3. ~ IsNoise(b)
      BY <2>10, <3>2 DEF IsNoise
    <3>4. Repeats(blocks, b)
      BY <2>6, <3>3
    <3>5. PICK i \in DOMAIN blocks : blocks[i].text = b.text
      BY <3>4 DEF Repeats
    <3> QED BY <3>2, <3>5 DEF Range
  <2>11. \A i, j \in DOMAIN blocks : i < j =>
           <<blocks[i].heading, blocks[i].text>> # <<blocks[j].heading, blocks[j].text>>
    BY <2>4, <2>8 DEF SayTheSame
  <2>12. \A k \in Range(doc.chunks) : Len(k) > 1 => SizeOf(k) <= MaxWords
    BY <2>5 DEF Fits
  <2> DEFINE kept(k) ==
               /\ \A f \in FieldsOf(raw) : f.value \notin {"None", "", "()"} /\ f.key # "" =>
                     \E b \in Range(k) : b.heading = f.key /\ b.text = f.value
               /\ raw.text \notin {"", "-", "()"} => \E b \in Range(k) : b.text = raw.text
               /\ \A i, j \in DOMAIN k : i < j =>
                     <<k[i].heading, k[i].text>> # <<k[j].heading, k[j].text>>
               /\ FlattenSeq(doc.chunks) = k
               /\ \A m \in Range(doc.chunks) : Len(m) > 1 => SizeOf(m) <= MaxWords
  <2>14. kept(blocks)
    BY <2>5, <2>9, <2>10, <2>11, <2>12
  <2>15. kept(IndexedText(doc))
    <3> HIDE DEF kept
    <3> QED BY <2>13, <2>14
  <2> QED BY <2>15 DEF IngestKeepsContent
<1> QED BY <1>1, DocInvariant, PTL
=============================================================================
