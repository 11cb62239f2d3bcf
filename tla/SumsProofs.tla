----------------------------- MODULE SumsProofs -----------------------------
(***************************************************************************)
(* Facts about finite tables: what one row changes in the sum of a column, *)
(* what the parts of a table add up to, and the last row in an order.      *)
(***************************************************************************)
EXTENDS Sums, FiniteSetTheorems, FunctionTheorems, WellFoundedInduction, TLAPS

(* A finite set has an element that a strict order puts before no other.   *)
LEMMA FiniteHasMaximal ==
  ASSUME NEW S, IsFiniteSet(S), S # {}, NEW R,
         \A x \in S : <<x, x>> \notin R,
         \A x, y, z \in S : <<x, y>> \in R /\ <<y, z>> \in R => <<x, z>> \in R
  PROVE  \E x \in S : \A y \in S : <<x, y>> \notin R
  <1> DEFINE above(x) == {y \in S : <<x, y>> \in R}
             T == {above(x) : x \in S}
  <1>1. T \subseteq FiniteSubsetsOf(S) /\ T # {}
    <2>1. FiniteSubsetsOf(S) = SUBSET S
      BY FS_FiniteSubsetsOfFinite
    <2>2. ASSUME NEW A \in T PROVE A \in SUBSET S
      OBVIOUS
    <2>3. PICK x \in S : TRUE
      OBVIOUS
    <2>4. above(x) \in T
      BY <2>3
    <2> HIDE DEF T
    <2> QED
      BY <2>1, <2>2, <2>4
  <1>2. IsWellFoundedOn(StrictSubsetOrdering(S), FiniteSubsetsOf(S))
    BY FS_StrictSubsetOrderingWellFounded
  <1>3. PICK A \in T : \A B \in T : ~ (<<B, A>> \in StrictSubsetOrdering(S))
    <2> HIDE DEF T
    <2> QED
      BY <1>1, <1>2, WFMin
  <1>4. PICK x \in S : A = above(x)
    OBVIOUS
  <1>5. ASSUME NEW y \in S, <<x, y>> \in R PROVE FALSE
    <2>1. above(y) \subseteq above(x) /\ y \in above(x) /\ y \notin above(y)
      BY <1>5
    <2>2. above(y) # above(x) /\ above(y) \in SUBSET S /\ above(x) \in SUBSET S
      BY <2>1
    <2>3. <<above(y), above(x)>> \in StrictSubsetOrdering(S)
      BY <2>1, <2>2 DEF StrictSubsetOrdering
    <2> QED
      BY <1>3, <1>4, <2>3
  <1> QED
    BY <1>5

(* The units of a column, told one by one. *)
LEMMA UnitsMember ==
  ASSUME NEW S, NEW f \in [S -> Nat], NEW u
  PROVE  u \in Units(f) <=> \E x \in S : \E i \in 1..f[x] : u = <<x, i>>
  BY DEF Units

(* A column of a finite table has finitely many units. *)
LEMMA UnitsFinite ==
  ASSUME NEW S, IsFiniteSet(S), NEW f \in [S -> Nat]
  PROVE  IsFiniteSet(Units(f))
  <1> DEFINE T == {{x} \X (1..f[x]) : x \in S}
             h == [x \in S |-> {x} \X (1..f[x])]
  <1>1. IsFiniteSet(T)
    <2>1. h \in [S -> T]
      OBVIOUS
    <2>2. \A t \in T : \E x \in S : h[x] = t
      OBVIOUS
    <2>3. h \in Surjection(S, T)
      <3> HIDE DEF h, T
      <3> QED
        BY <2>1, <2>2, Fun_IsSurj
    <2> HIDE DEF h, T
    <2> QED
      BY <2>3, FS_Surjection
  <1>2. \A t \in T : IsFiniteSet(t)
    <2> SUFFICES ASSUME NEW x \in S
                 PROVE  IsFiniteSet({x} \X (1..f[x]))
      OBVIOUS
    <2>1. IsFiniteSet({x})
      BY FS_Singleton
    <2>2. IsFiniteSet(1..f[x])
      <3>1. f[x] \in Int /\ 1 \in Int
        OBVIOUS
      <3> QED
        BY <3>1, FS_Interval
    <2> QED
      BY <2>1, <2>2, FS_Product
  <1>3. IsFiniteSet(UNION T)
    <2> HIDE DEF T
    <2> QED
      BY <1>1, <1>2, FS_UNION
  <1>4. Units(f) = UNION T
    BY DEF Units
  <1> QED
    BY <1>3, <1>4

(* The sum of a column of natural numbers is a natural number. *)
LEMMA SumType ==
  ASSUME NEW S, IsFiniteSet(S), NEW f \in [S -> Nat]
  PROVE  SumOf(f) \in Nat
  BY UnitsFinite, FS_CardinalityType DEF SumOf

(* The sum of an empty column is 0. *)
LEMMA SumEmpty ==
  ASSUME NEW f, DOMAIN f = {}
  PROVE  SumOf(f) = 0
  <1>1. Units(f) = {}
    BY DEF Units
  <1> QED
    BY <1>1, FS_EmptySet DEF SumOf

(* Two columns in which every row counts for the same have the same sum,   *)
(* whichever rows that count for nothing they list.                        *)
LEMMA SumSame ==
  ASSUME NEW S, NEW f \in [S -> Nat], NEW T, NEW g \in [T -> Nat],
         \A x \in S \cup T : PartOf(f, x) = PartOf(g, x)
  PROVE  SumOf(f) = SumOf(g)
  <1>1. \A u : u \in Units(f) => u \in Units(g)
    <2> SUFFICES ASSUME NEW x \in S, NEW i \in 1..f[x]
                 PROVE  <<x, i>> \in Units(g)
      BY UnitsMember
    <2>1. x \in T /\ g[x] = f[x]
      BY DEF PartOf
    <2> QED
      BY <2>1, UnitsMember
  <1>2. \A u : u \in Units(g) => u \in Units(f)
    <2> SUFFICES ASSUME NEW x \in T, NEW i \in 1..g[x]
                 PROVE  <<x, i>> \in Units(f)
      BY UnitsMember
    <2>1. x \in S /\ g[x] = f[x]
      BY DEF PartOf
    <2> QED
      BY <2>1, UnitsMember
  <1>3. Units(f) = Units(g)
    BY <1>1, <1>2
  <1> QED
    BY <1>3 DEF SumOf

(* The sum is that of the other rows, and what x counts for. *)
LEMMA SumSplit ==
  ASSUME NEW S, IsFiniteSet(S), NEW f \in [S -> Nat], NEW x
  PROVE  SumOf(f) = SumOf([y \in S \ {x} |-> f[y]]) + PartOf(f, x)
  <1> DEFINE rest == [y \in S \ {x} |-> f[y]]
             own == {x} \X (1..PartOf(f, x))
  <1>1. rest \in [S \ {x} -> Nat] /\ IsFiniteSet(S \ {x})
    BY FS_RemoveElement
  <1>2. IsFiniteSet(Units(rest))
    <2> HIDE DEF rest
    <2> QED
      BY <1>1, UnitsFinite
  <1>3. PartOf(f, x) \in Nat
    BY DEF PartOf
  <1>4. IsFiniteSet(own) /\ Cardinality(own) = PartOf(f, x)
    <2> DEFINE n == PartOf(f, x)
    <2> HIDE DEF n
    <2>1. IsFiniteSet({x}) /\ Cardinality({x}) = 1
      BY FS_Singleton
    <2>2. n \in Nat
      BY <1>3 DEF n
    <2>3. IsFiniteSet(1..n) /\ Cardinality(1..n) = n
      <3>1. 1 \in Int /\ n \in Int
        BY <2>2
      <3>2. /\ IsFiniteSet(1..n)
            /\ Cardinality(1..n) = IF 1 > n THEN 0 ELSE n - 1 + 1
        BY <3>1, FS_Interval
      <3> QED
        BY <2>2, <3>2
    <2>4. /\ IsFiniteSet({x} \X (1..n))
          /\ Cardinality({x} \X (1..n)) = n
      <3> DEFINE I == 1..n
                 X == {x}
      <3>1. IsFiniteSet(I) /\ Cardinality(I) = n /\ IsFiniteSet(X) /\ Cardinality(X) = 1
        BY <2>1, <2>3
      <3>2. IsFiniteSet(X \X I) /\ Cardinality(X \X I) = Cardinality(X) * Cardinality(I)
        <4> HIDE DEF X, I
        <4> QED
          BY <3>1, FS_Product
      <3> QED
        BY <2>2, <3>1, <3>2
    <2> QED
      BY <2>2, <2>4 DEF n
  <1>5. \A u : u \in Units(rest) <=>
                  \E y \in S \ {x} : \E i \in 1..f[y] : u = <<y, i>>
    <2>1. \A u : u \in Units(rest) <=>
                    \E y \in S \ {x} : \E i \in 1..rest[y] : u = <<y, i>>
      <3> HIDE DEF rest
      <3> QED
        BY <1>1, UnitsMember
    <2> QED
      BY <2>1
  <1>6. Units(f) = Units(rest) \cup own
    <2>1. ASSUME NEW u \in Units(f)
          PROVE  u \in Units(rest) \cup own
      BY <1>5, UnitsMember DEF PartOf
    <2>2. ASSUME NEW u \in Units(rest)
          PROVE  u \in Units(f)
      BY <1>5, UnitsMember
    <2>3. ASSUME NEW u \in own
          PROVE  u \in Units(f)
      <3>1. PICK i \in 1..PartOf(f, x) : u = <<x, i>>
        OBVIOUS
      <3>2. x \in S
        BY <3>1, x \notin S => 1..PartOf(f, x) = {} DEF PartOf
      <3>3. i \in 1..f[x]
        BY <3>1, <3>2 DEF PartOf
      <3> QED
        BY <3>1, <3>2, <3>3, UnitsMember
    <2> QED
      BY <2>1, <2>2, <2>3
  <1>7. Units(rest) \cap own = {}
    BY <1>5
  <1>8. Cardinality(Units(f)) =
            Cardinality(Units(rest)) + Cardinality(own) - Cardinality({})
    <2> HIDE DEF rest, own
    <2> QED
      BY <1>2, <1>4, <1>6, <1>7, FS_Union
  <1>9. Cardinality(Units(rest)) \in Nat
    BY <1>2, FS_CardinalityType
  <1> QED
    <2> HIDE DEF rest, own
    <2>1. Cardinality(Units(f)) = Cardinality(Units(rest)) + PartOf(f, x)
      BY <1>3, <1>4, <1>8, <1>9, FS_EmptySet
    <2> QED
      BY <2>1 DEF SumOf, rest

(* When two columns differ at x alone, so do their sums. *)
LEMMA SumChange ==
  ASSUME NEW S, IsFiniteSet(S), NEW f \in [S -> Nat],
         NEW T, IsFiniteSet(T), NEW g \in [T -> Nat], NEW x,
         \A y \in (S \cup T) \ {x} : PartOf(f, y) = PartOf(g, y)
  PROVE  SumOf(g) + PartOf(f, x) = SumOf(f) + PartOf(g, x)
  <1> DEFINE r == [y \in S \ {x} |-> f[y]]
             q == [y \in T \ {x} |-> g[y]]
  <1>1. r \in [S \ {x} -> Nat] /\ q \in [T \ {x} -> Nat]
    OBVIOUS
  <1>2. \A y \in (S \ {x}) \cup (T \ {x}) : PartOf(r, y) = PartOf(q, y)
    BY DEF PartOf
  <1>3. SumOf(r) \in Nat
    <2>1. IsFiniteSet(S \ {x})
      BY FS_RemoveElement
    <2> HIDE DEF r
    <2> QED
      BY <1>1, <2>1, SumType
  <1>4. SumOf(r) = SumOf(q)
    <2> HIDE DEF r, q
    <2> QED
      BY <1>1, <1>2, SumSame
  <1>5. SumOf(f) = SumOf(r) + PartOf(f, x)
    BY SumSplit
  <1>6. SumOf(g) = SumOf(q) + PartOf(g, x)
    BY SumSplit
  <1>7. PartOf(f, x) \in Nat /\ PartOf(g, x) \in Nat
    BY DEF PartOf
  <1> QED
    <2> HIDE DEF r, q
    <2> QED
      BY <1>3, <1>4, <1>5, <1>6, <1>7

(* Induction over the subsets of a finite set, for a family of them: it    *)
(* holds S as soon as it holds {} and grows by one member at a time.       *)
LEMMA FamilyReachesAll ==
  ASSUME NEW S, IsFiniteSet(S), NEW G, G \subseteq SUBSET S, {} \in G,
         \A T \in G : \A x \in S \ T : T \cup {x} \in G
  PROVE  S \in G
  <1> DEFINE R == {p \in (SUBSET S) \X (SUBSET S) : p[1] \subseteq p[2] /\ p[1] # p[2]}
  <1>1. IsFiniteSet(G)
    <2>1. IsFiniteSet(SUBSET S)
      BY FS_SUBSET
    <2> QED
      BY <2>1, FS_Subset
  <1>2. \A X, Y \in SUBSET S : <<X, Y>> \in R <=> X \subseteq Y /\ X # Y
    OBVIOUS
  <1>3. \A X \in G : <<X, X>> \notin R
    BY <1>2
  <1>4. \A X, Y, Z \in G : <<X, Y>> \in R /\ <<Y, Z>> \in R => <<X, Z>> \in R
    <2> SUFFICES ASSUME NEW X \in G, NEW Y \in G, NEW Z \in G,
                        X \subseteq Y, X # Y, Y \subseteq Z, Y # Z
                 PROVE  X \subseteq Z /\ X # Z
      BY <1>2
    <2> QED
      OBVIOUS
  <1>5. \E X \in G : \A Y \in G : <<X, Y>> \notin R
    <2> HIDE DEF R
    <2> QED
      BY <1>1, <1>3, <1>4, FiniteHasMaximal
  <1>6. PICK X \in G : \A Y \in G : <<X, Y>> \notin R
    BY <1>5
  <1>7. ASSUME NEW x \in S \ X
        PROVE  FALSE
    <2>1. X \cup {x} \in G
      OBVIOUS
    <2>2. <<X, X \cup {x}>> \in R
      <3>1. X \in SUBSET S /\ X \cup {x} \in SUBSET S
        OBVIOUS
      <3>2. X \subseteq X \cup {x} /\ X # X \cup {x}
        OBVIOUS
      <3> HIDE DEF R
      <3> QED
        BY <3>1, <3>2, <1>2
    <2> HIDE DEF R
    <2> QED
      BY <2>1, <2>2, <1>6
  <1>8. X = S
    BY <1>7
  <1> QED
    BY <1>8

(* The sum of some of the rows. *)
SumOver(f, T) == SumOf([y \in T |-> f[y]])

LEMMA SumOverType ==
  ASSUME NEW S, NEW f \in [S -> Nat], NEW T \in SUBSET S, IsFiniteSet(T)
  PROVE  SumOver(f, T) \in Nat
  <1> DEFINE d == [y \in T |-> f[y]]
  <1>1. d \in [T -> Nat]
    OBVIOUS
  <1> HIDE DEF d
  <1>2. SumOf(d) \in Nat
    BY <1>1, SumType
  <1> QED
    BY <1>2 DEF d, SumOver

LEMMA SumOverNone ==
  ASSUME NEW f
  PROVE  SumOver(f, {}) = 0
  <1> DEFINE d == [y \in {} |-> f[y]]
  <1>1. DOMAIN d = {}
    OBVIOUS
  <1> HIDE DEF d
  <1>2. SumOf(d) = 0
    BY <1>1, SumEmpty
  <1> QED
    BY <1>2 DEF d, SumOver

LEMMA SumOverAll ==
  ASSUME NEW S, NEW f \in [S -> Nat]
  PROVE  SumOver(f, S) = SumOf(f)
  <1>1. f = [y \in S |-> f[y]]
    OBVIOUS
  <1> QED
    BY <1>1 DEF SumOver

(* One more row. *)
LEMMA SumOverOneMore ==
  ASSUME NEW S, NEW f \in [S -> Nat], NEW T \in SUBSET S, IsFiniteSet(T), NEW x \in S \ T
  PROVE  SumOver(f, T \cup {x}) = SumOver(f, T) + f[x]
  <1> DEFINE U == T \cup {x}
             g == [y \in U |-> f[y]]
  <1>1. IsFiniteSet(U) /\ g \in [U -> Nat] /\ PartOf(g, x) = f[x]
    BY FS_AddElement DEF PartOf
  <1>2. SumOf(g) = SumOf([y \in U \ {x} |-> g[y]]) + PartOf(g, x)
    <2> HIDE DEF g, U
    <2> QED
      BY <1>1, SumSplit
  <1>3. [y \in U \ {x} |-> g[y]] = [y \in T |-> f[y]]
    <2>1. U \ {x} = T
      OBVIOUS
    <2> HIDE DEF U
    <2>2. \A y \in T : g[y] = f[y]
      BY <2>1
    <2> HIDE DEF g
    <2> QED
      BY <2>1, <2>2
  <1>4. SumOver(f, U) = SumOver(f, T) + f[x]
    BY <1>1, <1>2, <1>3 DEF SumOver
  <1> QED
    BY <1>4

(* Two columns side by side. *)
LEMMA SumPlus ==
  ASSUME NEW S, IsFiniteSet(S), NEW f \in [S -> Nat], NEW g \in [S -> Nat]
  PROVE  SumOf([x \in S |-> f[x] + g[x]]) = SumOf(f) + SumOf(g)
  <1> DEFINE h == [x \in S |-> f[x] + g[x]]
             G == {T \in SUBSET S : SumOver(h, T) = SumOver(f, T) + SumOver(g, T)}
  <1>0. h \in [S -> Nat] /\ \A x \in S : h[x] = f[x] + g[x] /\ f[x] \in Nat /\ g[x] \in Nat
    OBVIOUS
  <1> HIDE DEF h
  <1>1. {} \in G
    BY SumOverNone
  <1>2. ASSUME NEW T \in G, NEW x \in S \ T
        PROVE  T \cup {x} \in G
    <2>1. IsFiniteSet(T) /\ T \in SUBSET S
      BY FS_Subset
    <2>2. /\ SumOver(h, T \cup {x}) = SumOver(h, T) + h[x]
          /\ SumOver(f, T \cup {x}) = SumOver(f, T) + f[x]
          /\ SumOver(g, T \cup {x}) = SumOver(g, T) + g[x]
      BY <1>0, <2>1, SumOverOneMore
    <2>3. SumOver(f, T) \in Nat /\ SumOver(g, T) \in Nat
      BY <2>1, SumOverType
    <2>4. SumOver(h, T) = SumOver(f, T) + SumOver(g, T)
      OBVIOUS
    <2>5. SumOver(h, T \cup {x}) = SumOver(f, T \cup {x}) + SumOver(g, T \cup {x})
      BY <1>0, <2>2, <2>3, <2>4
    <2> QED
      BY <2>1, <2>5
  <1>3. S \in G
    <2>1. G \subseteq SUBSET S
      OBVIOUS
    <2> HIDE DEF G
    <2> QED
      BY <1>1, <1>2, <2>1, FamilyReachesAll
  <1>4. SumOver(h, S) = SumOver(f, S) + SumOver(g, S)
    BY <1>3
  <1>5. SumOf(h) = SumOf(f) + SumOf(g)
    BY <1>0, <1>4, SumOverAll
  <1> QED
    BY <1>5 DEF h

(* A set is counted part by part. *)
LEMMA CountByParts ==
  ASSUME NEW S, IsFiniteSet(S), NEW P, IsFiniteSet(P), NEW k \in [S -> P]
  PROVE  Cardinality(S) = SumOf([p \in P |-> Cardinality({x \in S : k[x] = p})])
  <1> DEFINE Part(p) == {x \in S : k[x] = p}
             c == [p \in P |-> Cardinality(Part(p))]
             G == {Q \in SUBSET P : Cardinality({x \in S : k[x] \in Q}) = SumOver(c, Q)}
  <1>1. \A p \in P : IsFiniteSet(Part(p)) /\ c[p] = Cardinality(Part(p)) /\ c[p] \in Nat
    <2> SUFFICES ASSUME NEW p \in P
                 PROVE  IsFiniteSet(Part(p)) /\ Cardinality(Part(p)) \in Nat
      OBVIOUS
    <2>1. Part(p) \subseteq S
      OBVIOUS
    <2> HIDE DEF Part
    <2> QED
      BY <2>1, FS_Subset, FS_CardinalityType
  <1>2. c \in [P -> Nat]
    <2>1. c = [p \in P |-> c[p]]
      OBVIOUS
    <2> HIDE DEF c, Part
    <2> QED
      BY <1>1, <2>1
  <1> HIDE DEF c
  <1>3. {} \in G
    <2>1. {x \in S : k[x] \in {}} = {}
      OBVIOUS
    <2> QED
      BY <2>1, SumOverNone, FS_EmptySet
  <1>4. ASSUME NEW Q \in G, NEW p \in P \ Q
        PROVE  Q \cup {p} \in G
    <2> DEFINE A == {x \in S : k[x] \in Q}
               B == {x \in S : k[x] \in Q \cup {p}}
               C == {x \in S : k[x] = p}
    <2>1. B = A \cup C /\ A \cap C = {}
      OBVIOUS
    <2>2. A \subseteq S /\ C \subseteq S
      OBVIOUS
    <2>3. c[p] = Cardinality(C) /\ c[p] \in Nat
      BY <1>1
    <2>4. Cardinality(A) = SumOver(c, Q)
      OBVIOUS
    <2>5. Q \in SUBSET P
      OBVIOUS
    <2>6. IsFiniteSet(Q)
      BY <2>5, FS_Subset
    <2> HIDE DEF A, B, C
    <2>7. IsFiniteSet(A) /\ IsFiniteSet(C)
      BY <2>2, FS_Subset
    <2>8. /\ Cardinality(A) \in Nat /\ Cardinality(C) \in Nat
          /\ Cardinality(A \cup C) = Cardinality(A) + Cardinality(C) - Cardinality(A \cap C)
      BY <2>7, FS_Union, FS_CardinalityType
    <2>9. Cardinality(B) = Cardinality(A) + c[p]
      BY <2>1, <2>3, <2>8, FS_EmptySet
    <2>10. SumOver(c, Q \cup {p}) = SumOver(c, Q) + c[p]
      <3> HIDE DEF G, Part
      <3> QED
        BY <1>2, <2>5, <2>6, SumOverOneMore
    <2>11. Cardinality(B) = SumOver(c, Q \cup {p})
      BY <2>4, <2>9, <2>10
    <2> QED
      BY <2>5, <2>11 DEF B
  <1>5. P \in G
    <2>1. G \subseteq SUBSET P
      OBVIOUS
    <2> HIDE DEF G
    <2> QED
      BY <1>3, <1>4, <2>1, FamilyReachesAll
  <1>6. S = {x \in S : k[x] \in P}
    OBVIOUS
  <1>7. Cardinality(S) = SumOver(c, P)
    BY <1>5, <1>6
  <1>8. Cardinality(S) = SumOf(c)
    BY <1>2, <1>7, SumOverAll
  <1> QED
    BY <1>8 DEF c

(* A column is summed part by part. *)
LEMMA SumByParts ==
  ASSUME NEW S, IsFiniteSet(S), NEW f \in [S -> Nat],
         NEW P, IsFiniteSet(P), NEW k \in [S -> P]
  PROVE  SumOf(f) = SumOf([p \in P |-> SumOver(f, {x \in S : k[x] = p})])
  <1> DEFINE U == Units(f)
             h == [u \in U |-> k[u[1]]]
             Part(p) == {x \in S : k[x] = p}
             c == [p \in P |-> Cardinality({u \in U : h[u] = p})]
             d == [p \in P |-> SumOver(f, Part(p))]
  <1>1. \A u : u \in U <=> \E x \in S : \E i \in 1..f[x] : u = <<x, i>>
    BY UnitsMember
  <1>2. h \in [U -> P]
    <2> HIDE DEF U
    <2> QED
      BY <1>1
  <1>3. Cardinality(U) = SumOf(c)
    <2>1. IsFiniteSet(U)
      BY UnitsFinite
    <2> HIDE DEF U, h
    <2> QED
      BY <1>2, <2>1, CountByParts
  <1>4. ASSUME NEW p \in P
        PROVE  c[p] = d[p]
    <2> DEFINE g == [x \in Part(p) |-> f[x]]
    <2>1. g \in [Part(p) -> Nat]
      OBVIOUS
    <2>2. \A x \in Part(p) : g[x] = f[x]
      OBVIOUS
    <2>3. \A u : u \in Units(g) <=> \E x \in Part(p) : \E i \in 1..g[x] : u = <<x, i>>
      <3> HIDE DEF g, Part
      <3> QED
        BY <2>1, UnitsMember
    <2>4. \A u \in U : h[u] = k[u[1]]
      OBVIOUS
    <2>5. {u \in U : h[u] = p} = Units(g)
      <3>1. \A u \in U : h[u] = p => u \in Units(g)
        <4> SUFFICES ASSUME NEW x \in S, NEW i \in 1..f[x], <<x, i>> \in U, h[<<x, i>>] = p
                     PROVE  <<x, i>> \in Units(g)
          <5> HIDE DEF U, h, g, Part
          <5> QED
            BY <1>1
        <4>1. k[x] = p
          BY <2>4
        <4>2. x \in Part(p)
          BY <4>1
        <4> HIDE DEF U, h, g, Part
        <4> QED
          BY <2>2, <2>3, <4>2
      <3>2. \A u \in Units(g) : u \in U /\ h[u] = p
        <4> SUFFICES ASSUME NEW x \in Part(p), NEW i \in 1..g[x]
                     PROVE  <<x, i>> \in U /\ h[<<x, i>>] = p
          <5> HIDE DEF U, h, g, Part
          <5> QED
            BY <2>3
        <4>1. x \in S /\ k[x] = p
          OBVIOUS
        <4>2. i \in 1..f[x]
          BY <2>2
        <4> HIDE DEF U, h, g, Part
        <4>3. <<x, i>> \in U
          BY <1>1, <4>1, <4>2
        <4> QED
          BY <2>4, <4>1, <4>3
      <3> HIDE DEF U, h, g
      <3> QED
        BY <3>1, <3>2
    <2>6. d[p] = SumOf(g)
      BY DEF SumOver
    <2>7. c[p] = Cardinality({u \in U : h[u] = p})
      OBVIOUS
    <2> HIDE DEF U, h, g, c, d
    <2> QED
      BY <2>5, <2>6, <2>7 DEF SumOf
  <1>5. c = d
    <2> HIDE DEF U, h, Part
    <2>1. c = [p \in P |-> c[p]] /\ d = [p \in P |-> d[p]]
      OBVIOUS
    <2> HIDE DEF c, d
    <2> QED
      BY <1>4, <2>1
  <1> HIDE DEF c
  <1> QED
    BY <1>3, <1>5 DEF SumOf

(* The same when the parts are given: sets that have no member in common. *)
Splits(F, P, R) ==
    /\ \A p, q \in P : p # q => F[p] \cap F[q] = {}
    /\ \A p \in P : F[p] \subseteq R
    /\ \A x \in R : \E p \in P : x \in F[p]

LEMMA PartsHaveKeys ==
  ASSUME NEW P, NEW F, NEW R,
         Splits(F, P, R)
  PROVE  \E k \in [R -> P] : \A p \in P : {x \in R : k[x] = p} = F[p]
  <1> DEFINE k == [x \in R |-> CHOOSE p \in P : x \in F[p]]
  <1>1. \A x \in R : k[x] \in P /\ x \in F[k[x]]
    <2> SUFFICES ASSUME NEW x \in R
                 PROVE  LET p == CHOOSE p \in P : x \in F[p] IN p \in P /\ x \in F[p]
      OBVIOUS
    <2>1. \E p \in P : x \in F[p]
      BY DEF Splits
    <2> QED
      BY <2>1
  <1>2. k \in [R -> P]
    <2>1. k = [x \in R |-> k[x]]
      OBVIOUS
    <2> HIDE DEF k
    <2> QED
      BY <1>1, <2>1
  <1> HIDE DEF k
  <1>3. ASSUME NEW p \in P
        PROVE  {x \in R : k[x] = p} = F[p]
    <2>1. \A x \in R : k[x] = p => x \in F[p]
      BY <1>1 DEF Splits
    <2>2. \A x \in F[p] : x \in R /\ k[x] = p
      BY <1>1 DEF Splits
    <2> QED
      BY <2>1, <2>2
  <1> QED
    BY <1>2, <1>3

LEMMA SumOfFamily ==
  ASSUME NEW S, NEW f \in [S -> Nat], NEW R \in SUBSET S, IsFiniteSet(R),
         NEW P, IsFiniteSet(P), NEW F,
         Splits(F, P, R)
  PROVE  SumOver(f, R) = SumOf([p \in P |-> SumOver(f, F[p])])
  <1>1. PICK k \in [R -> P] : \A p \in P : {x \in R : k[x] = p} = F[p]
    BY PartsHaveKeys
  <1> DEFINE g == [x \in R |-> f[x]]
  <1>2. g \in [R -> Nat]
    OBVIOUS
  <1>3. SumOver(f, R) = SumOf(g)
    BY DEF SumOver
  <1>4. SumOf(g) = SumOf([p \in P |-> SumOver(g, {x \in R : k[x] = p})])
    <2> HIDE DEF g
    <2> QED
      BY <1>2, SumByParts
  <1>5. \A p \in P : SumOver(g, {x \in R : k[x] = p}) = SumOver(f, F[p])
    <2> TAKE p \in P
    <2>1. {x \in R : k[x] = p} = F[p] /\ F[p] \subseteq R
      BY <1>1 DEF Splits
    <2>2. [x \in F[p] |-> g[x]] = [x \in F[p] |-> f[x]]
      BY <2>1
    <2> HIDE DEF g
    <2> QED
      BY <2>1, <2>2 DEF SumOver
  <1>6. [p \in P |-> SumOver(g, {x \in R : k[x] = p})] = [p \in P |-> SumOver(f, F[p])]
    <2> HIDE DEF g
    <2> QED
      BY <1>5
  <1> HIDE DEF g
  <1> QED
    BY <1>3, <1>4, <1>6

LEMMA CountOfFamily ==
  ASSUME NEW R, IsFiniteSet(R), NEW P, IsFiniteSet(P), NEW F,
         Splits(F, P, R)
  PROVE  Cardinality(R) = SumOf([p \in P |-> Cardinality(F[p])])
  <1>1. PICK k \in [R -> P] : \A p \in P : {x \in R : k[x] = p} = F[p]
    BY PartsHaveKeys
  <1>2. Cardinality(R) = SumOf([p \in P |-> Cardinality({x \in R : k[x] = p})])
    BY CountByParts
  <1>3. [p \in P |-> Cardinality({x \in R : k[x] = p})] = [p \in P |-> Cardinality(F[p])]
    BY <1>1
  <1> QED
    BY <1>2, <1>3

(* A column of differences adds up to the difference of the sums. *)
LEMMA TotalOfDifferences ==
  ASSUME NEW S, IsFiniteSet(S), NEW f \in [S -> Int],
         NEW a \in [S -> Nat], NEW b \in [S -> Nat],
         \A x \in S : f[x] = a[x] - b[x]
  PROVE  Total(f) = SumOf(a) - SumOf(b)
  <1> DEFINE up == [x \in S |-> IF f[x] > 0 THEN f[x] ELSE 0]
             down == [x \in S |-> IF f[x] < 0 THEN 0 - f[x] ELSE 0]
             left == [x \in S |-> up[x] + b[x]]
             right == [x \in S |-> down[x] + a[x]]
  <1>1. up \in [S -> Nat] /\ down \in [S -> Nat]
    OBVIOUS
  <1>2. \A x \in S : up[x] + b[x] = down[x] + a[x]
    OBVIOUS
  <1>3. left = right
    <2> HIDE DEF up, down
    <2> QED
      BY <1>2
  <1>4. Total(f) = SumOf(up) - SumOf(down)
    BY DEF Total
  <1> HIDE DEF up, down
  <1>5. SumOf(left) = SumOf(up) + SumOf(b) /\ SumOf(right) = SumOf(down) + SumOf(a)
    BY <1>1, SumPlus
  <1>6. /\ SumOf(up) \in Nat /\ SumOf(down) \in Nat
        /\ SumOf(a) \in Nat /\ SumOf(b) \in Nat
    BY <1>1, SumType
  <1> HIDE DEF left, right
  <1> QED
    BY <1>3, <1>4, <1>5, <1>6

LEMMA TotalOfNats ==
  ASSUME NEW S, IsFiniteSet(S), NEW f \in [S -> Nat]
  PROVE  Total(f) = SumOf(f)
  <1> DEFINE z == [x \in S |-> 0]
  <1>1. z \in [S -> Nat] /\ \A x \in S : f[x] = f[x] - z[x]
    OBVIOUS
  <1>2. SumOf(z) = 0
    <2>1. \A x \in S : z[x] = 0
      OBVIOUS
    <2> HIDE DEF z
    <2>2. \A u : u \notin Units(z)
      BY <1>1, <2>1, UnitsMember
    <2>3. Units(z) = {}
      BY <2>2
    <2> QED
      BY <2>3, FS_EmptySet DEF SumOf
  <1>3. f \in [S -> Int]
    OBVIOUS
  <1>4. Total(f) = SumOf(f) - SumOf(z)
    <2> HIDE DEF z
    <2> QED
      BY <1>1, <1>3, TotalOfDifferences
  <1>5. SumOf(f) \in Nat
    BY SumType
  <1> QED
    BY <1>2, <1>4, <1>5

=============================================================================
