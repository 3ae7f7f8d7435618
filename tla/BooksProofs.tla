------------------------------ MODULE BooksProofs ------------------------------
(***************************************************************************)
(* What holds of the money, for every value of the constants: the books    *)
(* themselves (Ledger), a mentorship session's money (Holds), the points   *)
(* guilds stake (Wars) and a contest's prize (Prizes).  All rest on sums,  *)
(* so the file has five parts:                                             *)
(*   1. sums over finite sets, and over a posting's legs;                  *)
(*   2. the ledger, for any number of concurrent calls and any postings:   *)
(*      one posting per idempotency key, totals that agree with the        *)
(*      entries and with zero, and `post` as the atomic step of Book;      *)
(*   3. a session's money, for any number of requests and sweeps,          *)
(*      interleaved in any way and stopped anywhere;                       *)
(*   4. the wars of guilds, one request after the other;                   *)
(*   5. a contest's prize, for any number of requests, interleaved in any  *)
(*      way and cut off anywhere.                                          *)
(***************************************************************************)
EXTENDS Holds, Ledger, Wars, Prizes, FiniteSetTheorems, TLAPS

-----------------------------------------------------------------------------
(* Part 1.  SumFunctionOnSet of the community modules, in the form the     *)
(* books need it.  The library has no theorem about folds; each induction  *)
(* below picks a smallest counterexample among the subsets of a finite     *)
(* set, which are well founded by inclusion.                               *)

(* The fold's own table of partial sums. *)
Picked(s)        == CHOOSE x \in s : TRUE
IsTable(t, f, S) == t = [s \in SUBSET S |-> IF s = {} THEN 0 ELSE f[Picked(s)] + t[s \ {Picked(s)}]]
Table(f, S)      == CHOOSE t : IsTable(t, f, S)

LEMMA SumIsInTable ==
  ASSUME NEW f, NEW S
  PROVE  SumFunctionOnSet(f, S) = Table(f, S)[S]
BY DEF SumFunctionOnSet, FoldFunctionOnSet, MapThenFoldSet, Table, IsTable, Picked

(* A set of subsets of a finite set has a smallest member. *)
LEMMA SmallestSubset ==
  ASSUME NEW S, IsFiniteSet(S), NEW T, T \subseteq SUBSET S, T # {}
  PROVE  \E x \in T : \A y \in T : ~(y \subseteq x /\ y # x)
<1>1. IsWellFoundedOn(StrictSubsetOrdering(S), SUBSET S)
  BY FS_StrictSubsetOrderingWellFounded, FS_FiniteSubsetsOfFinite
<1>2. \E x \in T : \A y \in T : <<y, x>> \notin StrictSubsetOrdering(S)
  BY <1>1, WFMin
<1> QED BY <1>2 DEF StrictSubsetOrdering
(* Two tables agree where both are defined. *)
LEMMA TablesAgree ==
  ASSUME NEW f, NEW S, IsFiniteSet(S), NEW R, NEW t, IsTable(t, f, S), NEW u, IsTable(u, f, R),
         NEW x \in SUBSET S, x \subseteq R
  PROVE  t[x] = u[x]
<1> DEFINE Differ == {y \in SUBSET S : y \subseteq R /\ t[y] # u[y]}
<1> SUFFICES ASSUME Differ # {} PROVE FALSE
  OBVIOUS
<1> PICK m \in Differ : \A y \in Differ : ~(y \subseteq m /\ y # m)
  <2> Differ \subseteq SUBSET S
    OBVIOUS
  <2> HIDE DEF Differ
  <2> QED BY SmallestSubset
<1>1. m # {}
  BY DEF IsTable
<1>2. Picked(m) \in m
  BY <1>1 DEF Picked
<1>3. t[m \ {Picked(m)}] = u[m \ {Picked(m)}]
  BY <1>2
<1>4. t[m] = f[Picked(m)] + t[m \ {Picked(m)}] /\ u[m] = f[Picked(m)] + u[m \ {Picked(m)}]
  BY <1>1 DEF IsTable
<1> QED BY <1>3, <1>4

LEMMA TableExists ==
  ASSUME NEW f, NEW S, IsFiniteSet(S)
  PROVE  IsTable(Table(f, S), f, S)
<1> SUFFICES \E t : IsTable(t, f, S)
  BY DEF Table
<1> DEFINE Without == {y \in SUBSET S : \A t : ~IsTable(t, f, y)}
<1> SUFFICES ASSUME Without # {} PROVE FALSE
  OBVIOUS
<1> PICK m \in Without : \A y \in Without : ~(y \subseteq m /\ y # m)
  <2> Without \subseteq SUBSET S
    OBVIOUS
  <2> HIDE DEF Without
  <2> QED BY SmallestSubset
<1> DEFINE Value(s) == Table(f, s)[s]
           h == [s \in SUBSET m |-> IF s = {} THEN 0 ELSE f[Picked(s)] + Value(s \ {Picked(s)})]
<1>1. ASSUME NEW s \in SUBSET m, s # m
      PROVE  IsTable(Table(f, s), f, s)
  BY <1>1 DEF Table
<1>2. \A s \in SUBSET S : IsFiniteSet(s)
  BY FS_Subset
<1>3. ASSUME NEW s \in SUBSET m, s # m
      PROVE  h[s] = Value(s)
  <2>1. CASE s = {}
    BY <1>1, <1>3, <2>1 DEF IsTable
  <2>2. CASE s # {}
    <3> DEFINE r == s \ {Picked(s)}
    <3>1. Picked(s) \in s
      BY <2>2 DEF Picked
    <3>2. Table(f, s)[s] = f[Picked(s)] + Table(f, s)[r]
      BY <1>1, <1>3, <2>2 DEF IsTable
    <3>3. IsTable(Table(f, s), f, s) /\ IsTable(Table(f, r), f, r) /\ r \in SUBSET s /\ r \subseteq r
      BY <1>1, <1>3, <3>1
    <3>4. Table(f, s)[r] = Table(f, r)[r]
      <4>1. IsFiniteSet(s)
        BY <1>2
      <4> HIDE DEF r
      <4> QED BY <3>3, <4>1, TablesAgree
    <3> QED BY <2>2, <3>2, <3>4
  <2> QED BY <2>1, <2>2
<1>4. ASSUME NEW s \in SUBSET m, s # {}
      PROVE  Value(s \ {Picked(s)}) = h[s \ {Picked(s)}]
  <2>1. Picked(s) \in s
    BY <1>4 DEF Picked
  <2>2. s \ {Picked(s)} \in SUBSET m /\ s \ {Picked(s)} # m
    BY <2>1
  <2> QED BY <1>3, <2>2
<1>5. h = [s \in SUBSET m |-> IF s = {} THEN 0 ELSE f[Picked(s)] + h[s \ {Picked(s)}]]
  BY <1>4
<1>6. IsTable(h, f, m)
  BY <1>5 DEF IsTable
<1> QED BY <1>6

-----------------------------------------------------------------------------
(* The laws of sums. *)

(* A sum is one term more than the sum without it: the one the fold picks. *)
LEMMA SumPicks ==
  ASSUME NEW f, NEW S, IsFiniteSet(S), S # {}
  PROVE  Picked(S) \in S /\ SumFunctionOnSet(f, S) = f[Picked(S)] + SumFunctionOnSet(f, S \ {Picked(S)})
<1> DEFINE r == S \ {Picked(S)}
<1>1. Picked(S) \in S
  BY DEF Picked
<1>2. IsFiniteSet(r) /\ r \in SUBSET S /\ r \subseteq r
  BY FS_Subset
<1>3. IsTable(Table(f, S), f, S) /\ IsTable(Table(f, r), f, r)
  <2> HIDE DEF r
  <2> QED BY <1>2, TableExists
<1>4. Table(f, S)[r] = Table(f, r)[r]
  <2>1. r \in SUBSET S /\ r \subseteq r
    OBVIOUS
  <2> HIDE DEF r
  <2>2. ASSUME NEW t, NEW u, IsTable(t, f, S), IsTable(u, f, r) PROVE t[r] = u[r]
    BY <2>1, <2>2, TablesAgree
  <2> QED BY <1>3, <2>2
<1>5. Table(f, S)[S] = f[Picked(S)] + Table(f, S)[r]
  BY <1>3 DEF IsTable
<1> QED BY <1>1, <1>4, <1>5, SumIsInTable

LEMMA SumOfNone ==
  ASSUME NEW f
  PROVE  SumFunctionOnSet(f, {}) = 0
<1>1. IsTable(Table(f, {}), f, {})
  BY TableExists, FS_EmptySet
<1> QED BY <1>1, SumIsInTable DEF IsTable

LEMMA SumIsInt ==
  ASSUME NEW f, NEW S, IsFiniteSet(S), \A x \in S : f[x] \in Int
  PROVE  SumFunctionOnSet(f, S) \in Int
<1> DEFINE Bad == {y \in SUBSET S : SumFunctionOnSet(f, y) \notin Int}
<1> SUFFICES ASSUME Bad # {} PROVE FALSE
  OBVIOUS
<1> PICK m \in Bad : \A y \in Bad : ~(y \subseteq m /\ y # m)
  <2> Bad \subseteq SUBSET S
    OBVIOUS
  <2> HIDE DEF Bad
  <2> QED BY SmallestSubset
<1>1. m # {}
  <2>1. SumFunctionOnSet(f, {}) \in Int
    BY SumOfNone
  <2> QED BY <2>1
<1>2. Picked(m) \in m /\ SumFunctionOnSet(f, m) = f[Picked(m)] + SumFunctionOnSet(f, m \ {Picked(m)})
  BY <1>1, SumPicks, FS_Subset
<1>3. SumFunctionOnSet(f, m \ {Picked(m)}) \in Int
  BY <1>2
<1> QED BY <1>2, <1>3

(* Any term may be the one. *)
LEMMA SumTakes ==
  ASSUME NEW f, NEW S, IsFiniteSet(S), \A y \in S : f[y] \in Int, NEW x \in S
  PROVE  SumFunctionOnSet(f, S) = f[x] + SumFunctionOnSet(f, S \ {x})
<1> DEFINE Bad == {y \in SUBSET S : \E z \in y : SumFunctionOnSet(f, y) # f[z] + SumFunctionOnSet(f, y \ {z})}
<1> SUFFICES ASSUME Bad # {} PROVE FALSE
  OBVIOUS
<1> PICK m \in Bad : \A y \in Bad : ~(y \subseteq m /\ y # m)
  <2> Bad \subseteq SUBSET S
    OBVIOUS
  <2> HIDE DEF Bad
  <2> QED BY SmallestSubset
<1> PICK z \in m : SumFunctionOnSet(f, m) # f[z] + SumFunctionOnSet(f, m \ {z})
  OBVIOUS
<1> DEFINE p == Picked(m)
           both == m \ {p, z}
<1>1. \A y \in SUBSET S : IsFiniteSet(y) /\ SumFunctionOnSet(f, y) \in Int
  BY SumIsInt, FS_Subset
<1>2. p \in m /\ SumFunctionOnSet(f, m) = f[p] + SumFunctionOnSet(f, m \ {p})
  BY <1>1, SumPicks
<1>3. p # z
  BY <1>2
<1>4. SumFunctionOnSet(f, m \ {p}) = f[z] + SumFunctionOnSet(f, both)
  <2>1. m \ {p} \notin Bad /\ m \ {p} \in SUBSET S /\ z \in m \ {p} /\ (m \ {p}) \ {z} = both
    BY <1>2, <1>3
  <2> QED BY <2>1
<1>5. SumFunctionOnSet(f, m \ {z}) = f[p] + SumFunctionOnSet(f, both)
  <2>1. m \ {z} \notin Bad /\ m \ {z} \in SUBSET S /\ p \in m \ {z} /\ (m \ {z}) \ {p} = both
    BY <1>2, <1>3
  <2> QED BY <2>1
<1>6. f[p] \in Int /\ f[z] \in Int /\ SumFunctionOnSet(f, both) \in Int
  BY <1>1, <1>2
<1> QED BY <1>2, <1>4, <1>5, <1>6

LEMMA SumAdds ==
  ASSUME NEW f, NEW S, IsFiniteSet(S), NEW x, x \notin S, \A y \in S \cup {x} : f[y] \in Int
  PROVE  SumFunctionOnSet(f, S \cup {x}) = SumFunctionOnSet(f, S) + f[x]
<1>1. IsFiniteSet(S \cup {x}) /\ (S \cup {x}) \ {x} = S
  BY FS_AddElement
<1>2. SumFunctionOnSet(f, S) \in Int
  BY SumIsInt
<1>3. SumFunctionOnSet(f, S \cup {x}) = f[x] + SumFunctionOnSet(f, S)
  BY <1>1, SumTakes
<1>4. f[x] \in Int
  OBVIOUS
<1> QED BY <1>2, <1>3, <1>4

(* Only the terms count. *)
LEMMA SumsAreEqual ==
  ASSUME NEW f, NEW g, NEW S, IsFiniteSet(S), \A x \in S : f[x] = g[x]
  PROVE  SumFunctionOnSet(f, S) = SumFunctionOnSet(g, S)
<1> DEFINE Bad == {y \in SUBSET S : SumFunctionOnSet(f, y) # SumFunctionOnSet(g, y)}
<1> SUFFICES ASSUME Bad # {} PROVE FALSE
  OBVIOUS
<1> PICK m \in Bad : \A y \in Bad : ~(y \subseteq m /\ y # m)
  <2> Bad \subseteq SUBSET S
    OBVIOUS
  <2> HIDE DEF Bad
  <2> QED BY SmallestSubset
<1>1. m # {}
  BY SumOfNone
<1>2. /\ Picked(m) \in m
      /\ SumFunctionOnSet(f, m) = f[Picked(m)] + SumFunctionOnSet(f, m \ {Picked(m)})
      /\ SumFunctionOnSet(g, m) = g[Picked(m)] + SumFunctionOnSet(g, m \ {Picked(m)})
  BY <1>1, SumPicks, FS_Subset
<1> QED BY <1>2

(* Terms are added one by one. *)
LEMMA SumsAdd ==
  ASSUME NEW f, NEW g, NEW h, NEW S, IsFiniteSet(S),
         \A x \in S : f[x] \in Int /\ g[x] \in Int /\ h[x] = f[x] + g[x]
  PROVE  SumFunctionOnSet(h, S) = SumFunctionOnSet(f, S) + SumFunctionOnSet(g, S)
<1> DEFINE Bad == {y \in SUBSET S : SumFunctionOnSet(h, y) # SumFunctionOnSet(f, y) + SumFunctionOnSet(g, y)}
<1> SUFFICES ASSUME Bad # {} PROVE FALSE
  OBVIOUS
<1> PICK m \in Bad : \A y \in Bad : ~(y \subseteq m /\ y # m)
  <2> Bad \subseteq SUBSET S
    OBVIOUS
  <2> HIDE DEF Bad
  <2> QED BY SmallestSubset
<1>1. m # {}
  <2>1. SumFunctionOnSet(h, {}) = 0 /\ SumFunctionOnSet(f, {}) = 0 /\ SumFunctionOnSet(g, {}) = 0
    BY SumOfNone
  <2>2. {} \notin Bad
    BY <2>1
  <2> QED BY <2>2
<1> DEFINE r == m \ {Picked(m)}
<1>2. /\ Picked(m) \in m
      /\ SumFunctionOnSet(f, m) = f[Picked(m)] + SumFunctionOnSet(f, r)
      /\ SumFunctionOnSet(g, m) = g[Picked(m)] + SumFunctionOnSet(g, r)
      /\ SumFunctionOnSet(h, m) = h[Picked(m)] + SumFunctionOnSet(h, r)
  BY <1>1, SumPicks, FS_Subset
<1>3. SumFunctionOnSet(h, r) = SumFunctionOnSet(f, r) + SumFunctionOnSet(g, r)
  BY <1>2
<1>4. SumFunctionOnSet(f, r) \in Int /\ SumFunctionOnSet(g, r) \in Int
  BY SumIsInt, FS_Subset
<1> QED BY <1>2, <1>3, <1>4

(* A sum in which one term, or no term, changes. *)
LEMMA SumChanges ==
  ASSUME NEW f, NEW g, NEW S, IsFiniteSet(S), \A y \in S : f[y] \in Int, \A y \in S : g[y] \in Int,
         NEW x \in S, \A y \in S \ {x} : g[y] = f[y]
  PROVE  SumFunctionOnSet(g, S) = SumFunctionOnSet(f, S) + g[x] - f[x]
<1> DEFINE r == S \ {x}
<1>1. SumFunctionOnSet(f, S) = f[x] + SumFunctionOnSet(f, r)
  BY SumTakes
<1>2. SumFunctionOnSet(g, S) = g[x] + SumFunctionOnSet(g, r)
  BY SumTakes
<1>3. SumFunctionOnSet(f, r) = SumFunctionOnSet(g, r)
  <2>1. IsFiniteSet(r) /\ \A y \in r : f[y] = g[y]
    BY FS_Subset
  <2> HIDE DEF r
  <2> QED BY <2>1, SumsAreEqual
<1>4. SumFunctionOnSet(f, r) \in Int
  <2>1. IsFiniteSet(r) /\ \A y \in r : f[y] \in Int
    BY FS_Subset
  <2> HIDE DEF r
  <2> QED BY <2>1, SumIsInt
<1>5. f[x] \in Int /\ g[x] \in Int
  OBVIOUS
<1> HIDE DEF r
<1> QED BY <1>1, <1>2, <1>3, <1>4, <1>5

(* A sum of zeros. *)
LEMMA SumOfZeros ==
  ASSUME NEW f, NEW S, IsFiniteSet(S), \A x \in S : f[x] = 0
  PROVE  SumFunctionOnSet(f, S) = 0
<1>1. \A x \in S : f[x] \in Int /\ f[x] \in Int /\ f[x] = f[x] + f[x]
  OBVIOUS
<1>2. SumFunctionOnSet(f, S) = SumFunctionOnSet(f, S) + SumFunctionOnSet(f, S)
  BY <1>1, SumsAdd
<1>3. SumFunctionOnSet(f, S) \in Int
  BY SumIsInt
<1>4. \A n \in Int : n = n + n => n = 0
  OBVIOUS
<1> QED BY <1>2, <1>3, <1>4

(* A sum over everything is the sum over a part and over the rest. *)
LEMMA SumSplits ==
  ASSUME NEW f, NEW S, IsFiniteSet(S), NEW R, IsFiniteSet(R), R \cap S = {},
         \A x \in R \cup S : f[x] \in Int
  PROVE  SumFunctionOnSet(f, R \cup S) = SumFunctionOnSet(f, R) + SumFunctionOnSet(f, S)
<1> DEFINE Bad == {y \in SUBSET S : SumFunctionOnSet(f, R \cup y) # SumFunctionOnSet(f, R) + SumFunctionOnSet(f, y)}
<1> SUFFICES ASSUME Bad # {} PROVE FALSE
  OBVIOUS
<1> PICK m \in Bad : \A y \in Bad : ~(y \subseteq m /\ y # m)
  <2> Bad \subseteq SUBSET S
    OBVIOUS
  <2> HIDE DEF Bad
  <2> QED BY SmallestSubset
<1>1. SumFunctionOnSet(f, R) \in Int
  BY SumIsInt
<1>2. m # {}
  <2>1. SumFunctionOnSet(f, {}) = 0 /\ R \cup {} = R
    BY SumOfNone
  <2>2. {} \notin Bad
    BY <1>1, <2>1
  <2> QED BY <2>2
<1> PICK x \in m : TRUE
  BY <1>2
<1> DEFINE r == m \ {x}
<1>3. IsFiniteSet(m) /\ IsFiniteSet(r) /\ IsFiniteSet(R \cup r)
  BY FS_Subset, FS_Union
<1>4. SumFunctionOnSet(f, m) = f[x] + SumFunctionOnSet(f, r)
  BY <1>3, SumTakes
<1>5. SumFunctionOnSet(f, R \cup m) = SumFunctionOnSet(f, R \cup r) + f[x]
  <2>1. R \cup m = (R \cup r) \cup {x} /\ x \notin R \cup r /\ \A y \in (R \cup r) \cup {x} : f[y] \in Int
    OBVIOUS
  <2> HIDE DEF r
  <2> QED BY <1>3, <2>1, SumAdds
<1>6. SumFunctionOnSet(f, R \cup r) = SumFunctionOnSet(f, R) + SumFunctionOnSet(f, r)
  OBVIOUS
<1>7. SumFunctionOnSet(f, r) \in Int /\ f[x] \in Int
  BY <1>3, SumIsInt
<1> QED BY <1>1, <1>4, <1>5, <1>6, <1>7

(* What bears a mark, and one of the marks of A. *)
Bearing(D, mark, a)  == {i \in D : mark[i] = a}
Marked(D, mark, A)   == {i \in D : mark[i] \in A}

(* Summing over a set of marks what bears each mark sums what bears one of  *)
(* them.                                                                    *)
LEMMA SumOfFibres ==
  ASSUME NEW f, NEW mark, NEW D, IsFiniteSet(D), \A i \in D : f[i] \in Int,
         NEW A, IsFiniteSet(A),
         NEW g, \A a \in A : g[a] = SumFunctionOnSet(f, Bearing(D, mark, a))
  PROVE  SumFunctionOnSet(g, A) = SumFunctionOnSet(f, Marked(D, mark, A))
<1> DEFINE Bears(y) == Marked(D, mark, y)
           Bad == {y \in SUBSET A : SumFunctionOnSet(g, y) # SumFunctionOnSet(f, Bears(y))}
<1> SUFFICES ASSUME Bad # {} PROVE FALSE
  OBVIOUS
<1> PICK m \in Bad : \A y \in Bad : ~(y \subseteq m /\ y # m)
  <2> Bad \subseteq SUBSET A
    OBVIOUS
  <2> HIDE DEF Bad
  <2> QED BY SmallestSubset
<1>1. \A y \in SUBSET D : IsFiniteSet(y) /\ SumFunctionOnSet(f, y) \in Int
  BY SumIsInt, FS_Subset
<1>2. \A a \in A : g[a] \in Int
  BY <1>1 DEF Marked, Bearing
<1>3. m # {}
  <2>1. SumFunctionOnSet(g, {}) = 0 /\ SumFunctionOnSet(f, {}) = 0 /\ Bears({}) = {}
    BY SumOfNone DEF Marked, Bearing
  <2>2. {} \notin Bad
    BY <2>1
  <2> QED BY <2>2
<1> PICK a \in m : TRUE
  BY <1>3
<1> DEFINE r == m \ {a}
           one == Bearing(D, mark, a)
<1>4. SumFunctionOnSet(g, m) = g[a] + SumFunctionOnSet(g, r)
  <2>1. IsFiniteSet(m) /\ \A y \in m : g[y] \in Int
    BY <1>2, FS_Subset
  <2> HIDE DEF Bad
  <2> QED BY <2>1, SumTakes
<1>5. SumFunctionOnSet(f, Bears(m)) = SumFunctionOnSet(f, one) + SumFunctionOnSet(f, Bears(r))
  <2>1. Bears(m) = one \cup Bears(r) /\ one \cap Bears(r) = {} /\ \A i \in one \cup Bears(r) : f[i] \in Int
    BY DEF Marked, Bearing
  <2>2. IsFiniteSet(one) /\ IsFiniteSet(Bears(r))
    BY <1>1 DEF Marked, Bearing
  <2> HIDE DEF one, Bears
  <2> QED BY <2>1, <2>2, SumSplits
<1>6. SumFunctionOnSet(g, r) = SumFunctionOnSet(f, Bears(r))
  OBVIOUS
<1>7. g[a] = SumFunctionOnSet(f, one) /\ m \in SUBSET A
  OBVIOUS
<1> HIDE DEF Bears, one, r
<1>8. SumFunctionOnSet(g, m) = SumFunctionOnSet(f, Bears(m))
  BY <1>4, <1>5, <1>6, <1>7
<1> QED BY <1>8 DEF Bears

(* Leaving terms out is counting them as zero. *)
LEMMA SumOfPart ==
  ASSUME NEW f, NEW S, IsFiniteSet(S), NEW P, P \subseteq S, \A x \in P : f[x] \in Int,
         NEW g, \A x \in P : g[x] = f[x], \A x \in S : x \notin P => g[x] = 0
  PROVE  SumFunctionOnSet(g, S) = SumFunctionOnSet(f, P)
<1> DEFINE rest == S \ P
<1>1. IsFiniteSet(P) /\ IsFiniteSet(rest)
  BY FS_Subset
<1>2. P \cap rest = {} /\ P \cup rest = S /\ \A x \in P \cup rest : g[x] \in Int
  OBVIOUS
<1>3. \A x \in rest : g[x] = 0
  OBVIOUS
<1> HIDE DEF rest
<1>5. SumFunctionOnSet(g, P \cup rest) = SumFunctionOnSet(g, P) + SumFunctionOnSet(g, rest)
  BY <1>1, <1>2, SumSplits
<1>6. SumFunctionOnSet(g, rest) = 0
  BY <1>1, <1>3, SumOfZeros
<1>7. SumFunctionOnSet(g, P) = SumFunctionOnSet(f, P)
  BY <1>1, SumsAreEqual
<1>8. SumFunctionOnSet(f, P) \in Int /\ S = P \cup rest
  BY <1>1, <1>2, SumIsInt
<1> QED BY <1>5, <1>6, <1>7, <1>8

LEMMA SumOfTwo ==
  ASSUME NEW f, NEW S, NEW x, NEW y, S = {x, y}, x # y, f[x] \in Int, f[y] \in Int
  PROVE  IsFiniteSet(S) /\ SumFunctionOnSet(f, S) = f[x] + f[y]
<1> DEFINE one == {} \cup {x}
<1>1. IsFiniteSet({}) /\ IsFiniteSet(one)
  BY FS_EmptySet, FS_AddElement
<1>2. SumFunctionOnSet(f, one) = SumFunctionOnSet(f, {}) + f[x]
  <2>1. x \notin {} /\ \A v \in {} \cup {x} : f[v] \in Int
    OBVIOUS
  <2> QED BY <1>1, <2>1, SumAdds
<1>3. S = one \cup {y} /\ y \notin one /\ \A v \in one \cup {y} : f[v] \in Int
  OBVIOUS
<1> HIDE DEF one
<1>4. IsFiniteSet(S) /\ SumFunctionOnSet(f, S) = SumFunctionOnSet(f, one) + f[y]
  BY <1>1, <1>3, SumAdds, FS_AddElement
<1> QED BY <1>2, <1>4, SumOfNone

LEMMA SumOfThree ==
  ASSUME NEW f, NEW S, NEW x, NEW y, NEW z, S = {x, y, z}, x # y, x # z, y # z,
         f[x] \in Int, f[y] \in Int, f[z] \in Int
  PROVE  IsFiniteSet(S) /\ SumFunctionOnSet(f, S) = f[x] + f[y] + f[z]
<1> DEFINE two == {x, y}
<1>1. IsFiniteSet(two) /\ SumFunctionOnSet(f, two) = f[x] + f[y]
  BY SumOfTwo
<1>2. S = two \cup {z} /\ z \notin two /\ \A v \in two \cup {z} : f[v] \in Int
  OBVIOUS
<1> HIDE DEF two
<1>3. IsFiniteSet(S) /\ SumFunctionOnSet(f, S) = SumFunctionOnSet(f, two) + f[z]
  BY <1>1, <1>2, SumAdds, FS_AddElement
<1> QED BY <1>1, <1>3

-----------------------------------------------------------------------------
(* What a posting of two or three legs does to an account. *)

At(leg, account) == IF leg.account = account THEN leg.amount ELSE 0

LEMMA NetOfTwo ==
  ASSUME NEW k, NEW l, k.amount \in Int, l.amount \in Int, NEW a
  PROVE  Net(<<k, l>>, a) = At(k, a) + At(l, a)
<1> DEFINE legs == <<k, l>>
           f == Amounts(legs)
           D == DOMAIN legs
           P == {i \in DOMAIN legs : legs[i].account = a}
           g == [i \in D |-> At(legs[i], a)]
<1>1. D = {1, 2} /\ f[1] = k.amount /\ f[2] = l.amount
  BY DEF Amounts
<1>2. P \subseteq D /\ (\A i \in P : f[i] \in Int /\ g[i] = f[i]) /\ \A i \in D : i \notin P => g[i] = 0
  BY <1>1 DEF At
<1>3. g[1] = At(k, a) /\ g[2] = At(l, a) /\ g[1] \in Int /\ g[2] \in Int
  BY <1>1 DEF At
<1>4. IsFiniteSet(D) /\ SumFunctionOnSet(g, D) = g[1] + g[2]
  <2>1. D = {1, 2} /\ 1 # 2 /\ g[1] \in Int /\ g[2] \in Int
    BY <1>1, <1>3
  <2> HIDE DEF g, D
  <2> QED BY <2>1, SumOfTwo
<1>5. SumFunctionOnSet(g, D) = SumFunctionOnSet(f, P)
  <2> HIDE DEF g, f, P, D
  <2> QED BY <1>2, <1>4, SumOfPart
<1> QED BY <1>3, <1>4, <1>5 DEF Net

LEMMA NetOfThree ==
  ASSUME NEW j, NEW k, NEW l, j.amount \in Int, k.amount \in Int, l.amount \in Int, NEW a
  PROVE  Net(<<j, k, l>>, a) = At(j, a) + At(k, a) + At(l, a)
<1> DEFINE legs == <<j, k, l>>
           f == Amounts(legs)
           D == DOMAIN legs
           P == {i \in DOMAIN legs : legs[i].account = a}
           g == [i \in D |-> At(legs[i], a)]
<1>1. D = {1, 2, 3} /\ f[1] = j.amount /\ f[2] = k.amount /\ f[3] = l.amount
  BY DEF Amounts
<1>2. P \subseteq D /\ (\A i \in P : f[i] \in Int /\ g[i] = f[i]) /\ \A i \in D : i \notin P => g[i] = 0
  BY <1>1 DEF At
<1>3. /\ g[1] = At(j, a) /\ g[2] = At(k, a) /\ g[3] = At(l, a)
      /\ g[1] \in Int /\ g[2] \in Int /\ g[3] \in Int
  BY <1>1 DEF At
<1>4. IsFiniteSet(D) /\ SumFunctionOnSet(g, D) = g[1] + g[2] + g[3]
  <2> HIDE DEF g, D
  <2> QED BY <1>1, <1>3, SumOfThree
<1>5. SumFunctionOnSet(g, D) = SumFunctionOnSet(f, P)
  <2> HIDE DEF g, f, P, D
  <2> QED BY <1>2, <1>4, SumOfPart
<1> QED BY <1>3, <1>4, <1>5 DEF Net


-----------------------------------------------------------------------------
(* Part 2.  The ledger.                                                    *)

(* Where a call is says how much of its posting it has written. *)
Progress ==
  \A c \in Call :
    /\ at[c] = "idle" <=> asked[c] = NoCall
    /\ at[c] \in {"idle", "check", "look", "insert"} => written[c] = 0
    /\ at[c] \in {"look", "insert", "legs", "commit"} => Sound(Legs(c))
    /\ at[c] = "legs" => written[c] < Len(Legs(c))
    /\ at[c] = "commit" => written[c] = Len(Legs(c))

(* A call is answered when it is over. *)
Answers == \A c \in Call : at[c] = "done" <=> answer[c] # "none"

(* Committed or not, two ledger_transactions rows never share a key: the   *)
(* UNIQUE index, with what its lock excludes.                              *)
OneRowPerKey ==
  \A c, d \in Call : c # d /\ HasRow(c) /\ HasRow(d) => ~SameKey(c, d)

LedgerInv == LedgerTypeOK /\ Progress /\ Answers /\ OneRowPerKey

-----------------------------------------------------------------------------
(* The legs of a call that has begun are legs. *)
LEMMA LegsType ==
  ASSUME LedgerTypeOK, Progress, NEW c \in Call, at[c] # "idle"
  PROVE  asked[c] \in Posting /\ Legs(c) \in Seq(Leg)
  BY LedgerAssumption DEF LedgerAssumption, LedgerTypeOK, Progress, Legs

(* The leg about to be written is one. *)
LEMMA NextLegType ==
  ASSUME LedgerTypeOK, Progress, NEW c \in Call, at[c] = "legs"
  PROVE  NextLeg(c) \in Leg
<1>1. Legs(c) \in Seq(Leg) /\ written[c] \in Nat /\ written[c] < Len(Legs(c))
  BY LegsType DEF LedgerTypeOK, Progress
<1>2. Legs(c)[written[c] + 1] \in Leg
  BY <1>1
<1> QED BY <1>2 DEF NextLeg

(* What a draft becomes when a leg is added to it. *)
LEMMA AfterLegType ==
  ASSUME LedgerTypeOK, NEW c \in Call, NEW leg \in Leg
  PROVE  /\ DOMAIN AfterLeg(c, leg) \subseteq Account
         /\ AfterLeg(c, leg) \in [DOMAIN AfterLeg(c, leg) -> Int]
<1>1. \A a \in Account : CurrentRow(c, a) \in Int
  BY DEF LedgerTypeOK, CurrentRow, Touched
<1>2. Touched(c) \subseteq Account /\ leg.account \in Account /\ leg.amount \in Int
  BY DEF LedgerTypeOK, Touched, Leg
<1> QED BY <1>1, <1>2 DEF AfterLeg

-----------------------------------------------------------------------------
(* Each statement preserves the invariant.                                 *)

LEMMA LedgerInitInv == LedgerInit => LedgerInv
<1> SUFFICES ASSUME LedgerInit PROVE LedgerInv
  OBVIOUS
<1>1. LedgerTypeOK
  BY DEF LedgerInit, LedgerTypeOK, Touched
<1>2. Progress /\ Answers
  BY DEF LedgerInit, Progress, Answers
<1>3. OneRowPerKey
  BY DEF LedgerInit, OneRowPerKey, HasRow, Recorded
<1> QED BY <1>1, <1>2, <1>3 DEF LedgerInv

(* A rollback takes its call out of everyone's way. *)
LEMMA RollbackInv ==
  ASSUME LedgerInv, NEW c \in Call, at[c] \notin {"idle", "done"},
         NEW result \in {"already", "failed"}, Rollback(c, result)
  PROVE  LedgerInv'
<1>1. LedgerTypeOK'
  <2>1. \A d \in Call : Touched(d)' \subseteq Account /\ draft'[d] \in [Touched(d)' -> Int]
    BY DEF LedgerInv, LedgerTypeOK, Rollback, Touched
  <2> QED BY <2>1 DEF LedgerInv, LedgerTypeOK, Rollback, Goto
<1>2. Progress'
  BY DEF LedgerInv, LedgerTypeOK, Progress, Rollback, Goto, Legs
<1>3. Answers'
  BY DEF LedgerInv, LedgerTypeOK, Answers, Rollback, Goto
<1>4. OneRowPerKey'
  BY DEF LedgerInv, LedgerTypeOK, OneRowPerKey, Rollback, Goto, HasRow, Recorded, SameKey
<1> QED BY <1>1, <1>2, <1>3, <1>4 DEF LedgerInv

(* Going on to the next statement with nothing written. *)
LEMMA GotoInv ==
  ASSUME LedgerInv, NEW c \in Call, at[c] \in {"check", "look"}, NEW label \in {"look", "insert"},
         Sound(Legs(c)), Goto(c, label), UNCHANGED <<asked, answer, written, draft, balance>>
  PROVE  LedgerInv'
<1>1. LedgerTypeOK'
  BY DEF LedgerInv, LedgerTypeOK, Goto, Touched
<1>2. Progress'
  BY DEF LedgerInv, LedgerTypeOK, Progress, Goto, Legs
<1>3. Answers'
  BY DEF LedgerInv, LedgerTypeOK, Answers, Goto
<1>4. OneRowPerKey'
  BY DEF LedgerInv, LedgerTypeOK, OneRowPerKey, Goto, HasRow, Recorded, SameKey
<1> QED BY <1>1, <1>2, <1>3, <1>4 DEF LedgerInv

LEMMA BeginInv ==
  ASSUME LedgerInv, NEW c \in Call, NEW p \in Posting, BeginPost(c, p)
  PROVE  LedgerInv'
<1>1. LedgerTypeOK'
  BY DEF LedgerInv, LedgerTypeOK, BeginPost, Goto, Touched
<1>2. Progress'
  BY LedgerAssumption DEF LedgerAssumption, LedgerInv, LedgerTypeOK, Progress, BeginPost, Goto, Legs
<1>3. Answers'
  BY DEF LedgerInv, LedgerTypeOK, Answers, BeginPost, Goto
<1>4. OneRowPerKey'
  BY DEF LedgerInv, LedgerTypeOK, Answers, OneRowPerKey, BeginPost, Goto, HasRow, Recorded, SameKey
<1> QED BY <1>1, <1>2, <1>3, <1>4 DEF LedgerInv

(* The row goes in only when no other transaction, committed or not, has    *)
(* one with the same key.                                                   *)
LEMMA InsertInv ==
  ASSUME LedgerInv, NEW c \in Call, Insert(c)
  PROVE  LedgerInv'
<1>1. CASE KeyTaken(c)
  BY <1>1, RollbackInv DEF Insert
<1>2. CASE ~KeyTaken(c)
  <2>1. Goto(c, "legs") /\ UNCHANGED <<asked, answer, written, draft, balance>>
    BY <1>2 DEF Insert
  <2>2. LedgerTypeOK'
    BY <2>1 DEF LedgerInv, LedgerTypeOK, Goto, Touched
  <2>3. Progress'
    <3>1. Len(Legs(c)) >= 2 /\ written[c] = 0
      BY DEF Insert, LedgerInv, Progress, Sound
    <3> QED BY <2>1, <3>1 DEF Insert, LedgerInv, LedgerTypeOK, Progress, Goto, Legs
  <2>4. Answers'
    BY <2>1 DEF Insert, LedgerInv, LedgerTypeOK, Answers, Goto
  <2>5. \A d \in Call \ {c} : HasRow(d) => ~SameKey(c, d) /\ ~SameKey(d, c)
    BY <1>2 DEF Insert, KeyTaken, KeyHeldBy, SameKey
  <2>6. OneRowPerKey'
    BY <2>1, <2>5 DEF Insert, LedgerInv, LedgerTypeOK, OneRowPerKey, Goto, HasRow, Recorded, SameKey
  <2> QED BY <2>2, <2>3, <2>4, <2>6 DEF LedgerInv
<1> QED BY <1>1, <1>2

LEMMA WriteLegInv ==
  ASSUME LedgerInv, NEW c \in Call, WriteLeg(c)
  PROVE  LedgerInv'
<1>1. NextLeg(c) \in Leg
  BY NextLegType DEF LedgerInv, WriteLeg
<1>2. Len(Legs(c)) \in Nat /\ written[c] \in Nat /\ written[c] < Len(Legs(c))
  BY LegsType DEF LedgerInv, LedgerTypeOK, Progress, WriteLeg
<1>3. at' \in [Call -> {"idle", "check", "look", "insert", "legs", "commit", "done"}]
      /\ \A d \in Call \ {c} : at'[d] = at[d]
  BY DEF LedgerInv, LedgerTypeOK, WriteLeg, Goto
<1>4. at'[c] = IF written[c] + 1 = Len(Legs(c)) THEN "commit" ELSE "legs"
  BY DEF LedgerInv, LedgerTypeOK, WriteLeg, Goto
<1>5. LedgerTypeOK'
  <2>1. draft'[c] = AfterLeg(c, NextLeg(c)) /\ \A d \in Call \ {c} : draft'[d] = draft[d]
    BY <1>1 DEF LedgerInv, LedgerTypeOK, WriteLeg
  <2>2. \A d \in Call : Touched(d)' \subseteq Account /\ draft'[d] \in [Touched(d)' -> Int]
    BY <1>1, <2>1, AfterLegType DEF LedgerInv, LedgerTypeOK, Touched
  <2>3. draft' = [d \in Call |-> draft'[d]]
    <3>1. draft' = [draft EXCEPT ![c] = AfterLeg(c, NextLeg(c))] /\ draft = [d \in Call |-> draft[d]]
      BY DEF LedgerInv, LedgerTypeOK, WriteLeg
    <3> QED BY <3>1
  <2>4. written' \in [Call -> Nat] /\ UNCHANGED <<asked, answer, balance>>
    BY <1>2 DEF LedgerInv, LedgerTypeOK, WriteLeg
  <2> QED BY <1>3, <2>2, <2>3, <2>4 DEF LedgerInv, LedgerTypeOK
<1>6. Progress'
  BY <1>2, <1>3, <1>4 DEF LedgerInv, LedgerTypeOK, Progress, WriteLeg, Legs
<1>7. Answers'
  BY <1>3, <1>4 DEF LedgerInv, Answers, WriteLeg
<1>8. OneRowPerKey'
  BY <1>3, <1>4 DEF LedgerInv, OneRowPerKey, WriteLeg, HasRow, Recorded, SameKey
<1> QED BY <1>5, <1>6, <1>7, <1>8 DEF LedgerInv

LEMMA CommitInv ==
  ASSUME LedgerInv, NEW c \in Call, Commit(c)
  PROVE  LedgerInv'
<1>1. LedgerTypeOK'
  <2>1. balance' \in [Account -> Int]
    BY DEF LedgerInv, LedgerTypeOK, Commit, CurrentRow, Touched
  <2>2. \A d \in Call : Touched(d)' \subseteq Account /\ draft'[d] \in [Touched(d)' -> Int]
    BY DEF LedgerInv, LedgerTypeOK, Commit, Touched
  <2> QED BY <2>1, <2>2 DEF LedgerInv, LedgerTypeOK, Commit, Goto
<1>2. Progress'
  BY DEF LedgerInv, LedgerTypeOK, Progress, Commit, Goto, Legs
<1>3. Answers'
  BY DEF LedgerInv, LedgerTypeOK, Answers, Commit, Goto
<1>4. OneRowPerKey'
  BY DEF LedgerInv, LedgerTypeOK, OneRowPerKey, Commit, Goto, HasRow, Recorded, SameKey
<1> QED BY <1>1, <1>2, <1>3, <1>4 DEF LedgerInv

LEMMA LedgerNextInv == LedgerInv /\ [LedgerNext]_ledgerVars => LedgerInv'
<1> SUFFICES ASSUME LedgerInv, [LedgerNext]_ledgerVars PROVE LedgerInv'
  OBVIOUS
<1>1. CASE \E c \in Call, p \in Posting : BeginPost(c, p)
  BY <1>1, BeginInv
<1>2. CASE \E c \in Call : Check(c) \/ Look(c)
  <2> PICK c \in Call : Check(c) \/ Look(c)
    BY <1>2
  <2>1. CASE Check(c)
    BY <2>1, GotoInv, RollbackInv DEF Check
  <2>2. CASE Look(c)
    BY <2>2, GotoInv, RollbackInv DEF Look, LedgerInv, Progress
  <2> QED BY <2>1, <2>2
<1>3. CASE \E c \in Call : Insert(c) \/ WriteLeg(c) \/ Commit(c)
  BY <1>3, InsertInv, WriteLegInv, CommitInv
<1>4. CASE \E c \in Call : Abort(c)
  BY <1>4, RollbackInv DEF Abort, InFlight
<1>5. CASE \E c \in Call : DetectDeadlock(c)
  <2> PICK c \in Call : DetectDeadlock(c)
    BY <1>5
  <2>1. at[c] \in {"insert", "legs"}
    BY DEF DetectDeadlock, Deadlocked, WaitsFor
  <2> QED BY <2>1, RollbackInv DEF DetectDeadlock
<1>6. CASE UNCHANGED ledgerVars
  BY <1>6 DEF ledgerVars, LedgerInv, LedgerTypeOK, Progress, Answers, OneRowPerKey,
              Touched, Legs, HasRow, Recorded, SameKey
<1> QED BY <1>1, <1>2, <1>3, <1>4, <1>5, <1>6 DEF LedgerNext, Statement, AllAnswered

THEOREM LedgerInvariance == LedgerSpec => []LedgerInv
BY LedgerInitInv, LedgerNextInv, PTL DEF LedgerSpec

(* Every variable of every call keeps its type, in particular the balance  *)
(* rows a transaction has locked are accounts with an integer in them.     *)
THEOREM LedgerTypeCorrect == LedgerSpec => []LedgerTypeOK
BY LedgerInvariance, PTL DEF LedgerInv

(* Two requests that carry one idempotency key are never both recorded,    *)
(* however many run at once (post_in_tx).                                  *)
THEOREM OneRecordPerKey == LedgerSpec => []OnePostingPerKey
<1>1. LedgerInv => OnePostingPerKey
  BY DEF LedgerInv, OneRowPerKey, OnePostingPerKey, HasRow
<1> QED BY <1>1, LedgerInvariance, PTL

-----------------------------------------------------------------------------
(* The running totals.  A transaction's draft of a row is the committed row *)
(* plus what it has written of its posting, because it keeps the row        *)
(* locked: no two transactions touch one row, so nothing it started from    *)
(* changes before it commits.                                               *)

Legged(c, a) == {i \in 1 .. written[c] : Legs(c)[i].account = a}

Drafting(c) == at[c] \in {"legs", "commit"}

Drafts ==
  /\ \A c \in Call : ~Drafting(c) => Touched(c) = {}
  /\ \A c \in Call : Drafting(c) =>
       /\ \A a \in Account : a \in Touched(c) <=> Legged(c, a) # {}
       /\ \A a \in Touched(c) :
            draft[c][a] = balance[a] + SumFunctionOnSet(Amounts(Legs(c)), Legged(c, a))

RowsAreLocked == \A c, d \in Call : c # d => Touched(c) \cap Touched(d) = {}

OnRecord == {c \in Call : Recorded(c)}

Books == Drafts /\ RowsAreLocked /\ IsFiniteSet(OnRecord) /\ BooksAgree

(* The amounts of a call that has begun, and its legs on one account. *)
LEMMA AmountsType ==
  ASSUME LedgerInv, NEW c \in Call, at[c] # "idle"
  PROVE  /\ IsFiniteSet(DOMAIN Legs(c)) /\ DOMAIN Legs(c) = 1 .. Len(Legs(c))
         /\ DOMAIN Amounts(Legs(c)) = DOMAIN Legs(c)
         /\ \A i \in DOMAIN Legs(c) : /\ Legs(c)[i].account \in Account
                                      /\ Amounts(Legs(c))[i] = Legs(c)[i].amount
                                      /\ Amounts(Legs(c))[i] \in Int
<1>1. Legs(c) \in Seq(Leg)
  BY LegsType DEF LedgerInv
<1>2. DOMAIN Legs(c) = 1 .. Len(Legs(c)) /\ Len(Legs(c)) \in Nat
  BY <1>1
<1>3. IsFiniteSet(DOMAIN Legs(c))
  BY <1>2, FS_Interval
<1>4. \A i \in DOMAIN Legs(c) : Legs(c)[i] \in Leg
  BY <1>1, <1>2
<1> QED BY <1>2, <1>3, <1>4 DEF Amounts, Leg

(* What a call has written so far it has written of its posting. *)
LEMMA LeggedType ==
  ASSUME LedgerInv, NEW c \in Call, Drafting(c), NEW a
  PROVE  /\ written[c] \in Nat /\ written[c] <= Len(Legs(c)) /\ Len(Legs(c)) \in Nat
         /\ Legged(c, a) \subseteq DOMAIN Legs(c) /\ IsFiniteSet(Legged(c, a))
         /\ SumFunctionOnSet(Amounts(Legs(c)), Legged(c, a)) \in Int
<1>1. at[c] # "idle"
  BY DEF Drafting
<1>2. written[c] \in Nat /\ written[c] <= Len(Legs(c)) /\ Len(Legs(c)) \in Nat
  BY <1>1, LegsType DEF LedgerInv, LedgerTypeOK, Progress, Drafting
<1>3. Legged(c, a) \subseteq DOMAIN Legs(c) /\ IsFiniteSet(Legged(c, a))
  <2>1. Legged(c, a) \subseteq DOMAIN Legs(c)
    BY <1>1, <1>2, AmountsType DEF Legged
  <2> QED BY <1>1, <2>1, AmountsType, FS_Subset
<1>4. \A i \in Legged(c, a) : Amounts(Legs(c))[i] \in Int
  BY <1>1, <1>3, AmountsType
<1> QED BY <1>2, <1>3, <1>4, SumIsInt

(* A commit adds to every account what the posting does to it. *)
LEMMA CommitAdds ==
  ASSUME LedgerInv, Drafts, NEW c \in Call, Commit(c), NEW a \in Account
  PROVE  balance'[a] = balance[a] + Net(Legs(c), a) /\ Net(Legs(c), a) \in Int
<1>1. Drafting(c) /\ written[c] = Len(Legs(c)) /\ at[c] # "idle"
  BY DEF Commit, Drafting, LedgerInv, Progress
<1>2. Legged(c, a) = {i \in DOMAIN Legs(c) : Legs(c)[i].account = a}
  BY <1>1, AmountsType DEF Legged
<1>3. Net(Legs(c), a) = SumFunctionOnSet(Amounts(Legs(c)), Legged(c, a))
  BY <1>2 DEF Net
<1>4. balance'[a] = CurrentRow(c, a) /\ balance[a] \in Int
  BY DEF Commit, LedgerInv, LedgerTypeOK
<1>5. CASE a \in Touched(c)
  BY <1>1, <1>3, <1>4, <1>5, LeggedType DEF Drafts, CurrentRow
<1>6. CASE a \notin Touched(c)
  <2>1. Legged(c, a) = {}
    BY <1>1, <1>6 DEF Drafts
  <2> QED BY <1>3, <1>4, <1>6, <2>1, SumOfNone DEF CurrentRow
<1> QED BY <1>1, <1>3, <1>5, <1>6, LeggedType

(* What a balanced posting does to the accounts of one currency comes to 0. *)
LEMMA SoundMovesNothing ==
  ASSUME LedgerInv, NEW c \in Call, at[c] # "idle", Sound(Legs(c)), NEW cur,
         NEW net, \A a \in {b \in Account : CurrencyOf(b) = cur} : net[a] = Net(Legs(c), a)
  PROVE  SumFunctionOnSet(net, {a \in Account : CurrencyOf(a) = cur}) = 0
<1> DEFINE legs == Legs(c)
           Mine == {a \in Account : CurrencyOf(a) = cur}
           mark == [i \in DOMAIN legs |-> legs[i].account]
           Bears == {i \in DOMAIN legs : CurrencyOf(legs[i].account) = cur}
<1>1. IsFiniteSet(Mine)
  BY LedgerAssumption, FS_Subset DEF LedgerAssumption
<1>2. IsFiniteSet(DOMAIN legs) /\ \A i \in DOMAIN legs : Amounts(legs)[i] \in Int
  BY AmountsType
<1>3. DOMAIN Amounts(legs) = DOMAIN legs
  BY AmountsType
<1>4. \A a \in Mine : net[a] = SumFunctionOnSet(Amounts(legs), Bearing(DOMAIN legs, mark, a))
  <2> SUFFICES ASSUME NEW a \in Mine
               PROVE  net[a] = SumFunctionOnSet(Amounts(legs), Bearing(DOMAIN legs, mark, a))
    OBVIOUS
  <2>1. Bearing(DOMAIN legs, mark, a) = {i \in DOMAIN legs : legs[i].account = a}
    BY DEF Bearing
  <2> QED BY <2>1 DEF Net
<1>5. Marked(DOMAIN legs, mark, Mine) = Bears
  BY AmountsType DEF Marked
<1>6. SumFunctionOnSet(net, Mine) = SumFunctionOnSet(Amounts(legs), Bears)
  <2> DEFINE f == Amounts(legs)
             D == DOMAIN legs
  <2>1. IsFiniteSet(D) /\ \A i \in D : f[i] \in Int
    BY <1>2
  <2>2. \A a \in Mine : net[a] = SumFunctionOnSet(f, Bearing(D, mark, a))
    BY <1>4
  <2> HIDE DEF Mine, mark, f, D
  <2>3. SumFunctionOnSet(net, Mine) = SumFunctionOnSet(f, Marked(D, mark, Mine))
    BY <1>1, <2>1, <2>2, SumOfFibres
  <2> QED BY <1>5, <2>3 DEF f, D
<1>7. SumFunctionOnSet(Amounts(legs), Bears) = 0
  <2>1. CASE Bears = {}
    BY <2>1, SumOfNone
  <2>2. CASE Bears # {}
    <3> PICK i \in DOMAIN legs : CurrencyOf(legs[i].account) = cur
      BY <2>2
    <3>1. legs[i] \in ToSet(legs)
      BY DEF ToSet
    <3>2. NetIn(legs, cur) = 0
      BY <3>1 DEF Sound, Balanced
    <3> QED BY <3>2 DEF NetIn
  <2> QED BY <2>1, <2>2
<1> QED BY <1>6, <1>7

(* A step that records nothing leaves the books as they are. *)
LEMMA SameBooks ==
  ASSUME IsFiniteSet(OnRecord), BooksAgree, UNCHANGED balance,
         \A c \in Call : Recorded(c)' <=> Recorded(c),
         \A c \in Call : Recorded(c) => asked'[c] = asked[c]
  PROVE  IsFiniteSet(OnRecord)' /\ BooksAgree'
<1>1. OnRecord' = OnRecord
  BY DEF OnRecord
<1>2. SnapshotsMatchEntries'
  <2> SUFFICES ASSUME NEW a \in Account
               PROVE  balance'[a] = SumFunction([c \in { d \in Call : Recorded(d) } |-> Net(Legs(c), a)])'
    BY DEF SnapshotsMatchEntries
  <2>1. { d \in Call : Recorded(d)' } = { d \in Call : Recorded(d) }
    OBVIOUS
  <2>2. \A c \in { d \in Call : Recorded(d) } : Net(Legs(c), a)' = Net(Legs(c), a)
    BY DEF Legs
  <2>3. [c \in { d \in Call : Recorded(d) } |-> Net(Legs(c), a)]'
          = [c \in { d \in Call : Recorded(d) } |-> Net(Legs(c), a)]
    BY <2>1, <2>2
  <2> QED BY <2>3 DEF BooksAgree, SnapshotsMatchEntries
<1>3. MoneyIsConserved'
  BY DEF BooksAgree, MoneyIsConserved
<1> QED BY <1>1, <1>2, <1>3 DEF BooksAgree

(* A call that writes no leg and holds no row now leaves the drafts alone. *)
LEMMA SameDrafts ==
  ASSUME LedgerInv, Drafts, RowsAreLocked, NEW c \in Call, UNCHANGED balance, Touched(c)' = {},
         Drafting(c)' => written'[c] = 0,
         \A d \in Call \ {c} : /\ at'[d] = at[d] /\ asked'[d] = asked[d]
                               /\ written'[d] = written[d] /\ draft'[d] = draft[d]
  PROVE  Drafts' /\ RowsAreLocked'
<1>1. \A d \in Call \ {c} : Touched(d)' = Touched(d)
  BY DEF Touched
<1>2. RowsAreLocked'
  BY <1>1 DEF RowsAreLocked
<1>3. \A d \in Call \ {c} : /\ Drafting(d)' <=> Drafting(d)
                            /\ Legs(d)' = Legs(d)
                            /\ \A a \in Account : Legged(d, a)' = Legged(d, a)
  BY DEF Drafting, Legs, Legged
<1>4. Drafting(c)' => \A a \in Account : Legged(c, a)' = {}
  BY DEF Legged
<1>5. ASSUME NEW d \in Call, ~Drafting(d)'
      PROVE  Touched(d)' = {}
  BY <1>1, <1>3, <1>5 DEF Drafts
<1>6. ASSUME NEW d \in Call, Drafting(d)', NEW a \in Account
      PROVE  a \in Touched(d)' <=> Legged(d, a)' # {}
  BY <1>1, <1>3, <1>4, <1>6 DEF Drafts
<1>7. ASSUME NEW d \in Call, Drafting(d)', NEW a \in Touched(d)'
      PROVE  draft'[d][a] = balance'[a] + SumFunctionOnSet(Amounts(Legs(d)), Legged(d, a))'
  <2>1. d # c /\ a \in Touched(d) /\ Drafting(d) /\ a \in Account
    BY <1>1, <1>3, <1>7 DEF LedgerInv, LedgerTypeOK
  <2>2. Amounts(Legs(d))' = Amounts(Legs(d)) /\ Legged(d, a)' = Legged(d, a)
    BY <1>3, <2>1
  <2> QED BY <2>1, <2>2 DEF Drafts
<1> QED BY <1>2, <1>5, <1>6, <1>7 DEF Drafts

LEMMA RollbackBooks ==
  ASSUME LedgerInv, Books, NEW c \in Call, at[c] # "done", NEW result \in {"already", "failed"},
         Rollback(c, result)
  PROVE  Books'
<1>1. at'[c] = "done" /\ answer' = [answer EXCEPT ![c] = result] /\ UNCHANGED <<asked, balance>>
  BY DEF Rollback, Goto, LedgerInv, LedgerTypeOK
<1>2. \A d \in Call : Recorded(d)' <=> Recorded(d)
  BY <1>1 DEF Recorded, LedgerInv, LedgerTypeOK, Answers
<1>3. IsFiniteSet(OnRecord)' /\ BooksAgree'
  BY <1>1, <1>2, SameBooks DEF Books
<1>4. Drafts' /\ RowsAreLocked'
  <2>1. /\ Touched(c)' = {} /\ ~Drafting(c)'
        /\ \A d \in Call \ {c} : /\ at'[d] = at[d] /\ asked'[d] = asked[d]
                                 /\ written'[d] = written[d] /\ draft'[d] = draft[d]
    BY <1>1 DEF Rollback, Goto, LedgerInv, LedgerTypeOK, Drafting, Touched
  <2> QED BY <1>1, <2>1, SameDrafts DEF Books
<1> QED BY <1>3, <1>4 DEF Books

(* Going on, or beginning, with nothing written and no row held. *)
LEMMA GotoBooks ==
  ASSUME LedgerInv, Books, NEW c \in Call, ~Drafting(c), at[c] # "done", Drafting(c)' => written[c] = 0,
         \A d \in Call \ {c} : at'[d] = at[d] /\ asked'[d] = asked[d],
         UNCHANGED <<answer, written, draft, balance>>
  PROVE  Books'
<1>1. ~Recorded(c) /\ \A d \in Call : Recorded(d)' <=> Recorded(d)
  BY DEF Recorded, LedgerInv, Answers
<1>2. IsFiniteSet(OnRecord)' /\ BooksAgree'
  BY <1>1, SameBooks DEF Books
<1>3. Touched(c)' = {}
  BY DEF Books, Drafts, Touched
<1>4. Drafts' /\ RowsAreLocked'
  BY <1>3, SameDrafts DEF Books
<1> QED BY <1>2, <1>4 DEF Books

(* A leg is added to the draft of its account, which nobody else holds. *)
LEMMA WriteLegBooks ==
  ASSUME LedgerInv, Books, NEW c \in Call, WriteLeg(c)
  PROVE  Books'
<1> DEFINE leg == NextLeg(c)
           i   == written[c] + 1
           f   == Amounts(Legs(c))
<1>1. /\ at[c] = "legs" /\ Drafting(c) /\ written[c] \in Nat /\ i <= Len(Legs(c)) /\ Len(Legs(c)) \in Nat
      /\ leg = Legs(c)[i] /\ i \in DOMAIN Legs(c) /\ leg.account \in Account
      /\ f[i] = leg.amount /\ leg.amount \in Int
  <2>1. at[c] = "legs" /\ at[c] # "idle" /\ Drafting(c) /\ written[c] < Len(Legs(c))
    BY DEF WriteLeg, Drafting, LedgerInv, Progress
  <2>2. written[c] \in Nat /\ Len(Legs(c)) \in Nat /\ i <= Len(Legs(c))
    BY <2>1, LeggedType
  <2>3. leg = Legs(c)[i] /\ i \in DOMAIN Legs(c)
    BY <2>1, <2>2, AmountsType DEF NextLeg
  <2> QED BY <2>1, <2>2, <2>3, AmountsType
<1>2. /\ UNCHANGED <<asked, answer, balance>> /\ written' = [written EXCEPT ![c] = i]
      /\ draft'[c] = AfterLeg(c, leg) /\ Drafting(c)' /\ written'[c] = i
      /\ \A d \in Call \ {c} : at'[d] = at[d] /\ draft'[d] = draft[d] /\ written'[d] = written[d]
  BY <1>1 DEF WriteLeg, Goto, LedgerInv, LedgerTypeOK, Drafting
<1>3. IsFiniteSet(OnRecord)' /\ BooksAgree'
  BY <1>2, SameBooks DEF Books, Recorded
<1>4. Touched(c)' = Touched(c) \cup {leg.account} /\ \A d \in Call \ {c} : Touched(d)' = Touched(d)
  BY <1>2 DEF Touched, AfterLeg
<1>5. RowsAreLocked'
  <2>1. \A d \in Call \ {c} : leg.account \notin Touched(d)
    BY DEF WriteLeg, RowHeldBy
  <2> QED BY <1>4, <2>1 DEF Books, RowsAreLocked
<1>6. \A d \in Call : Legs(d)' = Legs(d)
  BY <1>2 DEF Legs
<1>7. \A a \in Account : Legged(c, a)' = Legged(c, a) \cup IF a = leg.account THEN {i} ELSE {}
  <2>1. 1 .. i = (1 .. written[c]) \cup {i}
    BY <1>1
  <2> QED BY <1>1, <1>2, <1>6, <2>1 DEF Legged
<1>8. \A d \in Call \ {c} : \A a \in Account : Legged(d, a)' = Legged(d, a)
  BY <1>2, <1>6 DEF Legged
<1>9. ASSUME NEW a \in Touched(c)'
      PROVE  draft'[c][a] = balance[a] + SumFunctionOnSet(f, Legged(c, a)')
  <2>1. /\ a \in Account /\ draft'[c][a] = CurrentRow(c, a) + IF a = leg.account THEN leg.amount ELSE 0
        /\ balance[a] \in Int
    BY <1>1, <1>2, <1>4 DEF AfterLeg, LedgerInv, LedgerTypeOK
  <2>2. /\ CurrentRow(c, a) = balance[a] + SumFunctionOnSet(f, Legged(c, a))
        /\ SumFunctionOnSet(f, Legged(c, a)) \in Int
    <3>1. CASE a \in Touched(c)
      BY <1>1, <3>1, LeggedType DEF Books, Drafts, CurrentRow
    <3>2. CASE a \notin Touched(c)
      <4>1. Legged(c, a) = {}
        BY <1>1, <2>1, <3>2 DEF Books, Drafts
      <4> QED BY <2>1, <3>2, <4>1, SumOfNone DEF CurrentRow
    <3> QED BY <3>1, <3>2
  <2>3. CASE a # leg.account
    <3>1. Legged(c, a)' = Legged(c, a)
      BY <1>7, <2>1, <2>3
    <3> HIDE DEF f, leg
    <3> QED BY <2>1, <2>2, <2>3, <3>1
  <2>4. CASE a = leg.account
    <3>1. IsFiniteSet(Legged(c, a)) /\ Legged(c, a) \subseteq DOMAIN Legs(c)
      BY <1>1, LeggedType
    <3>2. i \notin Legged(c, a) /\ \A j \in Legged(c, a) \cup {i} : f[j] \in Int
      <4>1. i \notin 1 .. written[c]
        BY <1>1
      <4>2. \A j \in DOMAIN Legs(c) : f[j] \in Int
        BY <1>1, AmountsType
      <4> QED BY <1>1, <3>1, <4>1, <4>2 DEF Legged
    <3>3. SumFunctionOnSet(f, Legged(c, a) \cup {i}) = SumFunctionOnSet(f, Legged(c, a)) + f[i]
      <4> HIDE DEF f, i
      <4> QED BY <3>1, <3>2, SumAdds
    <3>4. Legged(c, a)' = Legged(c, a) \cup {i}
      BY <1>7, <2>1, <2>4
    <3> QED BY <1>1, <2>1, <2>2, <2>4, <3>3, <3>4
  <2> QED BY <2>3, <2>4
<1>10. Drafts'
  <2>1. ASSUME NEW d \in Call, ~Drafting(d)'
        PROVE  Touched(d)' = {}
    BY <1>2, <1>4, <2>1 DEF Books, Drafts, Drafting
  <2>2. ASSUME NEW d \in Call, Drafting(d)', NEW a \in Account
        PROVE  a \in Touched(d)' <=> Legged(d, a)' # {}
    <3>1. Drafting(d)
      BY <1>1, <1>2, <2>2 DEF Drafting
    <3> QED BY <1>4, <1>7, <1>8, <3>1 DEF Books, Drafts
  <2>3. ASSUME NEW d \in Call, Drafting(d)', NEW a \in Touched(d)'
        PROVE  draft'[d][a] = balance'[a] + SumFunctionOnSet(Amounts(Legs(d)), Legged(d, a))'
    <3>1. Amounts(Legs(d))' = Amounts(Legs(d))
      BY <1>6
    <3>2. CASE d = c
      BY <1>2, <1>9, <2>3, <3>1, <3>2
    <3>3. CASE d # c
      <4>1. a \in Touched(d) /\ Drafting(d) /\ a \in Account
        BY <1>2, <1>4, <2>3, <3>3 DEF Drafting, LedgerInv, LedgerTypeOK
      <4> QED BY <1>2, <1>8, <3>1, <3>3, <4>1 DEF Books, Drafts
    <3> QED BY <3>2, <3>3
  <2> QED BY <2>1, <2>2, <2>3 DEF Drafts
<1> QED BY <1>3, <1>5, <1>10 DEF Books

(* A posting on record does an integer to an account. *)
LEMMA RecordedNet ==
  ASSUME LedgerInv, NEW c \in OnRecord, NEW a
  PROVE  Net(Legs(c), a) \in Int
<1> DEFINE f == Amounts(Legs(c))
           mine == {i \in DOMAIN Legs(c) : Legs(c)[i].account = a}
<1>1. c \in Call /\ at[c] # "idle"
  BY DEF OnRecord, Recorded, LedgerInv, Answers
<1>2. IsFiniteSet(mine) /\ \A i \in mine : f[i] \in Int
  BY <1>1, AmountsType, FS_Subset
<1>3. SumFunctionOnSet(f, mine) \in Int
  <2> HIDE DEF f, mine
  <2> QED BY <1>2, SumIsInt
<1> QED BY <1>3 DEF Net

(* The totals take in the posting, and every currency still sums to zero. *)
LEMMA CommitBooks ==
  ASSUME LedgerInv, Books, NEW c \in Call, Commit(c)
  PROVE  Books'
<1>1. at[c] = "commit" /\ Drafting(c) /\ at[c] # "idle" /\ ~Recorded(c) /\ Sound(Legs(c))
  BY DEF Commit, Drafting, Recorded, LedgerInv, Answers
<1>2. /\ \A d \in Call : Legs(d)' = Legs(d) /\ written'[d] = written[d]
      /\ Recorded(c)' /\ ~Drafting(c)' /\ Touched(c)' = {}
      /\ \A d \in Call \ {c} : /\ Recorded(d)' <=> Recorded(d)
                               /\ draft'[d] = draft[d] /\ Touched(d)' = Touched(d)
                               /\ Drafting(d)' <=> Drafting(d)
  BY DEF Commit, Goto, LedgerInv, LedgerTypeOK, Legs, Recorded, Drafting, Touched
<1>3. OnRecord' = OnRecord \cup {c} /\ c \notin OnRecord
  BY <1>1, <1>2 DEF OnRecord
<1>4. IsFiniteSet(OnRecord')
  BY <1>3, FS_AddElement DEF Books
<1>5. SnapshotsMatchEntries'
  <2> SUFFICES ASSUME NEW a \in Account
               PROVE  balance'[a] = SumFunction([d \in OnRecord |-> Net(Legs(d), a)])'
    BY DEF SnapshotsMatchEntries, OnRecord
  <2> DEFINE g == [d \in OnRecord |-> Net(Legs(d), a)]
             h == [d \in OnRecord' |-> Net(Legs(d), a)']
  <2>1. balance[a] = SumFunctionOnSet(g, OnRecord)
    BY DEF Books, BooksAgree, SnapshotsMatchEntries, OnRecord, SumFunction, FoldFunction,
           SumFunctionOnSet
  <2>2. \A d \in OnRecord' : h[d] = Net(Legs(d), a)
    BY <1>2 DEF OnRecord
  <2>3. \A d \in OnRecord' : h[d] \in Int
    <3>1. \A d \in OnRecord : Net(Legs(d), a) \in Int
      BY RecordedNet
    <3>2. Net(Legs(c), a) \in Int
      BY CommitAdds DEF Books
    <3> QED BY <1>3, <2>2, <3>1, <3>2
  <2>4. SumFunctionOnSet(h, OnRecord) = SumFunctionOnSet(g, OnRecord)
    <3>1. \A d \in OnRecord : h[d] = g[d]
      BY <1>3, <2>2
    <3> HIDE DEF g, h
    <3> QED BY <3>1, SumsAreEqual DEF Books
  <2>5. SumFunctionOnSet(h, OnRecord \cup {c}) = SumFunctionOnSet(h, OnRecord) + h[c]
    <3>1. \A d \in OnRecord \cup {c} : h[d] \in Int
      BY <1>3, <2>3
    <3> HIDE DEF h
    <3> QED BY <1>3, <3>1, SumAdds DEF Books
  <2>6. balance'[a] = balance[a] + h[c]
    BY <1>3, <2>2, CommitAdds DEF Books
  <2>7. SumFunction(h) = SumFunctionOnSet(h, OnRecord')
    BY DEF SumFunction, FoldFunction, SumFunctionOnSet
  <2> QED BY <1>3, <2>1, <2>4, <2>5, <2>6, <2>7
<1>6. MoneyIsConserved'
  <2> SUFFICES ASSUME NEW cur \in {CurrencyOf(a) : a \in Account}
               PROVE  SumFunctionOnSet(balance', {a \in Account : CurrencyOf(a) = cur}) = 0
    BY DEF MoneyIsConserved
  <2> DEFINE Mine == {a \in Account : CurrencyOf(a) = cur}
             net  == [a \in Mine |-> Net(Legs(c), a)]
  <2>1. SumFunctionOnSet(net, Mine) = 0
    BY <1>1, SoundMovesNothing
  <2>2. SumFunctionOnSet(balance, Mine) = 0
    BY DEF Books, BooksAgree, MoneyIsConserved
  <2>3. IsFiniteSet(Mine)
    BY LedgerAssumption, FS_Subset DEF LedgerAssumption
  <2>4. \A a \in Mine : balance[a] \in Int /\ net[a] \in Int /\ balance'[a] = balance[a] + net[a]
    BY CommitAdds DEF Books, LedgerInv, LedgerTypeOK
  <2>5. SumFunctionOnSet(balance', Mine) = SumFunctionOnSet(balance, Mine) + SumFunctionOnSet(net, Mine)
    <3> HIDE DEF Mine, net
    <3> QED BY <2>3, <2>4, SumsAdd
  <2> QED BY <2>1, <2>2, <2>5
<1>7. RowsAreLocked'
  BY <1>2 DEF Books, RowsAreLocked
<1>8. Drafts'
  <2>1. ASSUME NEW d \in Call, ~Drafting(d)'
        PROVE  Touched(d)' = {}
    BY <1>2, <2>1 DEF Books, Drafts
  <2>2. \A d \in Call : \A a \in Account : Legged(d, a)' = Legged(d, a)
    BY <1>2 DEF Legged
  <2>3. ASSUME NEW d \in Call, Drafting(d)', NEW a \in Account
        PROVE  a \in Touched(d)' <=> Legged(d, a)' # {}
    BY <1>2, <2>2, <2>3 DEF Books, Drafts
  <2>4. ASSUME NEW d \in Call, Drafting(d)', NEW a \in Touched(d)'
        PROVE  draft'[d][a] = balance'[a] + SumFunctionOnSet(Amounts(Legs(d)), Legged(d, a))'
    <3>1. d # c /\ Drafting(d) /\ a \in Touched(d) /\ a \in Account
      BY <1>2, <2>4 DEF LedgerInv, LedgerTypeOK
    <3>2. a \notin Touched(c)
      BY <3>1 DEF Books, RowsAreLocked
    <3>3. balance'[a] = balance[a]
      BY <3>1, <3>2 DEF Commit, CurrentRow
    <3>4. Amounts(Legs(d))' = Amounts(Legs(d))
      BY <1>2
    <3> QED BY <1>2, <2>2, <3>1, <3>3, <3>4 DEF Books, Drafts
  <2> QED BY <2>1, <2>3, <2>4 DEF Drafts
<1> QED BY <1>4, <1>5, <1>6, <1>7, <1>8 DEF Books, BooksAgree

LEMMA NextBooks == LedgerInv /\ Books /\ [LedgerNext]_ledgerVars => Books'
<1> SUFFICES ASSUME LedgerInv, Books, [LedgerNext]_ledgerVars PROVE Books'
  OBVIOUS
<1>1. CASE \E c \in Call, p \in Posting : BeginPost(c, p)
  <2> PICK c \in Call, p \in Posting : BeginPost(c, p)
    BY <1>1
  <2>1. /\ at[c] = "idle" /\ at'[c] = "check" /\ UNCHANGED <<answer, written, draft, balance>>
        /\ \A d \in Call \ {c} : at'[d] = at[d] /\ asked'[d] = asked[d]
    BY DEF BeginPost, Goto, LedgerInv, LedgerTypeOK
  <2> QED BY <2>1, GotoBooks DEF Drafting
<1>2. ASSUME NEW c \in Call, at[c] \in {"check", "look", "insert"}, NEW label \in {"look", "insert", "legs"},
             Goto(c, label), UNCHANGED <<asked, answer, written, draft, balance>>
      PROVE  Books'
  BY <1>2, GotoBooks DEF Goto, Drafting, LedgerInv, LedgerTypeOK, Progress
<1>3. CASE \E c \in Call : Check(c)
  BY <1>2, <1>3, RollbackBooks DEF Check
<1>4. CASE \E c \in Call : Look(c)
  BY <1>2, <1>4, RollbackBooks DEF Look
<1>5. CASE \E c \in Call : Insert(c)
  BY <1>2, <1>5, RollbackBooks DEF Insert
<1>6. CASE \E c \in Call : WriteLeg(c) \/ Commit(c)
  BY <1>6, WriteLegBooks, CommitBooks
<1>7. CASE \E c \in Call : Abort(c)
  BY <1>7, RollbackBooks DEF Abort, InFlight
<1>8. CASE \E c \in Call : DetectDeadlock(c)
  <2> PICK c \in Call : DetectDeadlock(c)
    BY <1>8
  <2>1. at[c] \in {"insert", "legs"}
    BY DEF DetectDeadlock, Deadlocked, WaitsFor
  <2> QED BY <2>1, RollbackBooks DEF DetectDeadlock
<1>9. CASE UNCHANGED ledgerVars
  <2>1. IsFiniteSet(OnRecord)' /\ BooksAgree'
    BY <1>9, SameBooks DEF ledgerVars, Books, Recorded
  <2>2. RowsAreLocked'
    BY <1>9 DEF ledgerVars, Books, RowsAreLocked, Touched
  <2>3. \A c \in Call : /\ Touched(c)' = Touched(c) /\ Drafting(c)' = Drafting(c)
                        /\ Amounts(Legs(c))' = Amounts(Legs(c))
                        /\ \A a \in Account : Legged(c, a)' = Legged(c, a)
    BY <1>9 DEF ledgerVars, Touched, Drafting, Legs, Legged
  <2>4. Drafts'
    BY <1>9, <2>3 DEF ledgerVars, Books, Drafts, LedgerInv, LedgerTypeOK
  <2> QED BY <2>1, <2>2, <2>4 DEF Books
<1> QED BY <1>1, <1>3, <1>4, <1>5, <1>6, <1>7, <1>8, <1>9 DEF LedgerNext, Statement, AllAnswered

LEMMA InitBooks == LedgerInit => Books
<1> SUFFICES ASSUME LedgerInit PROVE Books
  OBVIOUS
<1>1. OnRecord = {} /\ \A c \in Call : Touched(c) = {} /\ ~Drafting(c)
  BY DEF LedgerInit, OnRecord, Recorded, Touched, Drafting
<1>2. SnapshotsMatchEntries
  <2> SUFFICES ASSUME NEW a \in Account
               PROVE  balance[a] = SumFunction([c \in OnRecord |-> Net(Legs(c), a)])
    BY DEF SnapshotsMatchEntries, OnRecord
  <2> DEFINE g == [c \in OnRecord |-> Net(Legs(c), a)]
  <2>1. SumFunction(g) = SumFunctionOnSet(g, {})
    BY <1>1 DEF SumFunction, FoldFunction, SumFunctionOnSet
  <2> QED BY <2>1, SumOfNone DEF LedgerInit
<1>3. MoneyIsConserved
  <2> SUFFICES ASSUME NEW cur \in {CurrencyOf(a) : a \in Account}
               PROVE  SumFunctionOnSet(balance, {a \in Account : CurrencyOf(a) = cur}) = 0
    BY DEF MoneyIsConserved
  <2> DEFINE Mine == {a \in Account : CurrencyOf(a) = cur}
  <2>1. IsFiniteSet(Mine) /\ \A a \in Mine : balance[a] = 0
    BY LedgerAssumption, FS_Subset DEF LedgerAssumption, LedgerInit
  <2> HIDE DEF Mine
  <2>2. SumFunctionOnSet(balance, Mine) = 0
    BY <2>1, SumOfZeros
  <2> QED BY <2>2 DEF Mine
<1>4. IsFiniteSet(OnRecord)
  BY <1>1, FS_EmptySet
<1> QED BY <1>1, <1>2, <1>3, <1>4 DEF Books, Drafts, RowsAreLocked, BooksAgree

(* Whatever interleaves, fails or deadlocks, every committed running total  *)
(* is the sum of the entries under it, and the accounts of one currency sum *)
(* to zero (post_in_tx, the triggers of migrations 0153 and 0171).          *)
THEOREM TotalsAgree == LedgerSpec => []BooksAgree
<1>1. LedgerInv /\ Books /\ [LedgerNext]_ledgerVars => (LedgerInv /\ Books)'
  BY LedgerNextInv, NextBooks
<1> QED BY <1>1, LedgerInitInv, InitBooks, PTL DEF LedgerSpec, Books

-----------------------------------------------------------------------------
(* The statements of `post` implement the one step of Book.                *)

(* What is on record depends on nothing but the calls recorded. *)
LEMMA SameEntries ==
  ASSUME \A c \in Call : Recorded(c)' <=> Recorded(c),
         \A c \in Call : Recorded(c) => asked'[c] = asked[c]
  PROVE  EntriesOnRecord' = EntriesOnRecord
  BY DEF EntriesOnRecord, Entry, Legs

LEMMA RollbackImplements ==
  ASSUME LedgerInv, NEW c \in Call, at[c] \notin {"idle", "done"},
         NEW result \in {"already", "failed"}, Rollback(c, result),
         result = "already" => \E d \in Call : Recorded(d) /\ SameKey(c, d)
  PROVE  AtomicBook!Next
<1>1. AtomicBook!Open(c)
  BY DEF AtomicBook!Open, LedgerInv, LedgerTypeOK, Progress, Answers
<1>2. answer' = [answer EXCEPT ![c] = result] /\ UNCHANGED asked
  BY DEF Rollback
<1>3. EntriesOnRecord' = EntriesOnRecord
  BY <1>1, <1>2, SameEntries DEF AtomicBook!Open, Recorded, LedgerInv, LedgerTypeOK
<1>4. CASE result = "already"
  <2> PICK d \in Call : Recorded(d) /\ SameKey(c, d)
    BY <1>4
  <2>1. Entry(d) \in EntriesOnRecord /\ Entry(d).key = asked[c].key /\ asked[c].key # NoKey
    BY DEF EntriesOnRecord, Entry, SameKey
  <2>2. AtomicBook!Replay(c)
    BY <1>1, <1>2, <1>3, <1>4, <2>1 DEF AtomicBook!Replay
  <2> QED BY <2>2 DEF AtomicBook!Next
<1>5. CASE result = "failed"
  <2>1. AtomicBook!Fail(c)
    BY <1>1, <1>2, <1>3, <1>5 DEF AtomicBook!Fail
  <2> QED BY <2>1 DEF AtomicBook!Next
<1> QED BY <1>4, <1>5

LEMMA BeginImplements ==
  ASSUME LedgerInv, NEW c \in Call, NEW p \in Posting, BeginPost(c, p)
  PROVE  AtomicBook!Next
<1>1. asked[c] = NoCall /\ asked' = [asked EXCEPT ![c] = p] /\ UNCHANGED answer
  BY DEF BeginPost, LedgerInv, Progress
<1>2. ~Recorded(c)
  BY DEF BeginPost, LedgerInv, Answers, Recorded
<1>3. EntriesOnRecord' = EntriesOnRecord
  BY <1>1, <1>2, SameEntries DEF Recorded, LedgerInv, LedgerTypeOK
<1>4. AtomicBook!Ask(c, p)
  BY <1>1, <1>3 DEF AtomicBook!Ask
<1> QED BY <1>4 DEF AtomicBook!Next

(* The row of the committing call keeps every other call with its key off. *)
LEMMA CommitImplements ==
  ASSUME LedgerInv, NEW c \in Call, Commit(c)
  PROVE  AtomicBook!Next
<1>1. AtomicBook!Open(c)
  BY DEF AtomicBook!Open, Commit, LedgerInv, LedgerTypeOK, Progress, Answers
<1>2. Sound(Kept(asked[c].legs))
  BY DEF Commit, Legs
<1>3. asked[c].key # NoKey => \A e \in EntriesOnRecord : e.key # asked[c].key
  <2> SUFFICES ASSUME asked[c].key # NoKey, NEW d \in Call, Recorded(d),
                      Entry(d).key = asked[c].key
               PROVE  FALSE
    BY DEF EntriesOnRecord
  <2>1. d # c
    BY <1>1 DEF AtomicBook!Open, Recorded
  <2>2. HasRow(c) /\ HasRow(d) /\ SameKey(c, d)
    BY DEF Commit, HasRow, SameKey, Entry
  <2> QED BY <2>1, <2>2 DEF LedgerInv, OneRowPerKey
<1>4. answer' = [answer EXCEPT ![c] = "recorded"] /\ UNCHANGED asked
  BY DEF Commit
<1>5. \A d \in Call : Recorded(d)' <=> d = c \/ Recorded(d)
  BY <1>4 DEF Recorded, LedgerInv, LedgerTypeOK
<1>6. \A d \in Call : Entry(d)' = Entry(d)
  BY <1>4 DEF Entry, Legs
<1>7. Entry(c) = AtomicBook!Entry(c)
  BY DEF Entry, AtomicBook!Entry, Legs, Kept, AtomicBook!Kept
<1>8. EntriesOnRecord' = EntriesOnRecord \cup {AtomicBook!Entry(c)}
  BY <1>5, <1>6, <1>7, SMTT(30) DEF EntriesOnRecord
(* Book reads the same operators of Movements through its instance. *)
<1>9. AtomicBook!Sound(AtomicBook!Kept(asked[c].legs))
  BY <1>2 DEF Sound, Kept, Balanced, NetIn, CurrencyOf, Amounts,
              AtomicBook!Sound, AtomicBook!Kept, AtomicBook!Balanced, AtomicBook!NetIn,
              AtomicBook!CurrencyOf, AtomicBook!Amounts,
              ToSet, SumFunctionOnSet, FoldFunctionOnSet, MapThenFoldSet,
              AtomicBook!ToSet, AtomicBook!SumFunctionOnSet, AtomicBook!FoldFunctionOnSet,
              AtomicBook!MapThenFoldSet
<1>10. AtomicBook!Record(c)
  BY <1>1, <1>3, <1>4, <1>8, <1>9 DEF AtomicBook!Record
<1> QED BY <1>10 DEF AtomicBook!Next

LEMMA NextImplements ==
  LedgerInv /\ [LedgerNext]_ledgerVars => [AtomicBook!Next]_(AtomicBook!bookVars)
<1> SUFFICES ASSUME LedgerInv, [LedgerNext]_ledgerVars
             PROVE  AtomicBook!Next \/ UNCHANGED <<asked, EntriesOnRecord, answer>>
  BY DEF AtomicBook!bookVars
<1>a. ASSUME UNCHANGED <<asked, answer>>
      PROVE  UNCHANGED <<asked, EntriesOnRecord, answer>>
  BY <1>a, SameEntries DEF Recorded
<1>1. CASE \E c \in Call, p \in Posting : BeginPost(c, p)
  BY <1>1, BeginImplements
<1>2. CASE \E c \in Call : Check(c) \/ Look(c) \/ Insert(c)
  <2> PICK c \in Call : Check(c) \/ Look(c) \/ Insert(c)
    BY <1>2
  <2>1. CASE Check(c)
    BY <2>1, <1>a, RollbackImplements DEF Check
  <2>2. CASE Look(c)
    BY <2>2, <1>a, RollbackImplements DEF Look
  <2>3. CASE Insert(c)
    BY <2>3, <1>a, RollbackImplements DEF Insert
  <2> QED BY <2>1, <2>2, <2>3
<1>3. CASE \E c \in Call : WriteLeg(c)
  BY <1>3, <1>a DEF WriteLeg
<1>4. CASE \E c \in Call : Commit(c)
  BY <1>4, CommitImplements
<1>5. CASE \E c \in Call : Abort(c)
  BY <1>5, RollbackImplements DEF Abort, InFlight
<1>6. CASE \E c \in Call : DetectDeadlock(c)
  <2> PICK c \in Call : DetectDeadlock(c)
    BY <1>6
  <2>1. at[c] \in {"insert", "legs"}
    BY DEF DetectDeadlock, Deadlocked, WaitsFor
  <2> QED BY <2>1, RollbackImplements DEF DetectDeadlock
<1>7. CASE UNCHANGED ledgerVars
  BY <1>7, <1>a DEF ledgerVars
<1> QED BY <1>1, <1>2, <1>3, <1>4, <1>5, <1>6, <1>7 DEF LedgerNext, Statement, AllAnswered

(* Whoever calls `post` may reason as though it were one step that writes a *)
(* whole balanced posting under a new key, or nothing.                      *)
THEOREM Implementation == LedgerSpec => BookSpec
<1>1. LedgerInit => AtomicBook!Init
  BY DEF LedgerInit, AtomicBook!Init, EntriesOnRecord, Recorded
<1> QED BY <1>1, NextImplements, LedgerInvariance, PTL DEF LedgerSpec, BookSpec, AtomicBook!Spec

-----------------------------------------------------------------------------
(* Part 3.  A session's money.  Each property looks at rows and books;     *)
(* what makes it inductive is what a worker's next statement says about    *)
(* what it has already done.                                               *)

Resolving == {"resolve"}
Refunding == {"refund_find", "refund_provider", "mark_refunded", "post_refund"}
Closing   == {"close_dispute", "close_hold"}

(* The movement an ending stands for. *)
Movement(how) == IF how = "refunded" THEN "refund" ELSE "dispute_resolved"

(* A worker about to stamp has posted; one that settles has chosen. *)
WorkerInv ==
  \A w \in Worker :
    /\ pc[w] = "stamp_release" => "release" \in book
    /\ pc[w] \in {"stamp_freeze", "insert"} => "dispute" \in book
    /\ pc[w] \in {"contest"} \cup Resolving \cup Refunding \cup Closing => dispute # "none"
    /\ pc[w] \in Resolving => ending[w] \in {"released", "withdrawn"}
    /\ pc[w] \in Refunding => ending[w] = "refunded"
    /\ pc[w] \in Closing => ending[w] \in Closed /\ Movement(ending[w]) \in book
    /\ pc[w] = "mark_refunded" => returned
    /\ pc[w] = "post_refund" => returned \/ byHand

(* A dispute, on the row or on its own, is about money that was frozen. *)
FrozenInv == hold.disputed \/ dispute # "none" => "dispute" \in book

Inv == /\ TypeOK /\ WorkerInv /\ FrozenInv
       /\ RowsAreBacked /\ EndedWasFrozen /\ RefundedAtProviderFirst

USE DEF Steps, Closed, Kinds, Resolving, Refunding, Closing, Movement, rowVars, Step

-----------------------------------------------------------------------------
LEMMA InitInv == Init => Inv
<1> SUFFICES ASSUME Init PROVE Inv
  OBVIOUS
<1>1. TypeOK
  <2>1. hold \in [exists : BOOLEAN, released : BOOLEAN, disputed : BOOLEAN]
    BY DEF Init
  <2>2. stops \in 0 .. MaxStops
    BY MaxStopsIsNat DEF Init
  <2>3. pc \in [Worker -> Steps] /\ ending \in [Worker -> Closed \cup {None}]
    BY DEF Init
  <2> QED BY <2>1, <2>2, <2>3 DEF Init, TypeOK
<1>2. WorkerInv
  BY DEF Init, WorkerInv
<1>3. FrozenInv /\ RowsAreBacked /\ EndedWasFrozen /\ RefundedAtProviderFirst
  BY DEF Init, FrozenInv, RowsAreBacked, EndedWasFrozen, RefundedAtProviderFirst
<1> QED BY <1>1, <1>2, <1>3 DEF Inv

(* A decision moves one worker on; it must leave it where its past allows. *)
LEMMA DecideInv ==
  ASSUME Inv, overlapped' \in BOOLEAN, NEW w \in Worker, NEW from \in Steps, NEW to \in Steps, Decide(w, from, to),
         to \notin {"stamp_release", "stamp_freeze", "resolve", "mark_refunded", "post_refund", "contest"},
         to \notin Refunding \cup Closing,
         to = "insert" => "dispute" \in book
  PROVE  Inv'
<1>1. TypeOK'
  BY DEF Inv, TypeOK, Decide
<1>2. WorkerInv'
  BY DEF Inv, TypeOK, WorkerInv, Decide
<1>3. FrozenInv' /\ RowsAreBacked' /\ EndedWasFrozen' /\ RefundedAtProviderFirst'
  BY DEF Inv, FrozenInv, RowsAreBacked, EndedWasFrozen, RefundedAtProviderFirst, Decide
<1> QED BY <1>1, <1>2, <1>3 DEF Inv

(* The movements, each posted before the row that speaks of it. *)
LEMMA PostInv ==
  ASSUME Inv, overlapped' \in BOOLEAN, NEW w \in Worker, NEW from \in Steps, NEW kind \in Kinds, NEW to \in Steps,
         Post(w, from, kind, to),
         \/ kind = "capture" /\ to \in {"hold", "complete"}
         \/ kind = "release" /\ to = "stamp_release"
         \/ kind = "dispute" /\ to = "stamp_freeze"
         \/ kind = "dispute_resolved" /\ from = "resolve" /\ to = "close_dispute"
         \/ kind = "refund" /\ from = "post_refund" /\ to = "close_dispute"
  PROVE  Inv'
<1>1. TypeOK'
  BY DEF Inv, TypeOK, Post
<1>2. WorkerInv'
  BY DEF Inv, TypeOK, WorkerInv, Post
<1>3. FrozenInv' /\ RowsAreBacked'
  BY DEF Inv, FrozenInv, RowsAreBacked, Post
<1>4. EndedWasFrozen'
  BY DEF Inv, WorkerInv, FrozenInv, EndedWasFrozen, Post
<1>5. RefundedAtProviderFirst'
  BY DEF Inv, WorkerInv, RefundedAtProviderFirst, Post
<1> QED BY <1>1, <1>2, <1>3, <1>4, <1>5 DEF Inv

(* The updates of the hold, each after its movement. *)
LEMMA StampInv ==
  ASSUME Inv, overlapped' \in BOOLEAN, NEW w \in Worker,
         CreateHold(w) \/ StampRelease(w) \/ StampFreeze(w) \/ CloseHold(w)
  PROVE  Inv'
<1> USE DEF CreateHold, StampRelease, StampFreeze, CloseHold, Stamp
<1>1. TypeOK'
  <2>1. hold' \in [exists : BOOLEAN, released : BOOLEAN, disputed : BOOLEAN]
    BY DEF Inv, TypeOK
  <2>2. pc' \in [Worker -> Steps]
    BY DEF Inv, TypeOK
  <2> QED BY <2>1, <2>2 DEF Inv, TypeOK
<1>2. WorkerInv'
  BY DEF Inv, TypeOK, WorkerInv
<1>3. FrozenInv'
  BY DEF Inv, TypeOK, WorkerInv, FrozenInv
<1>4. RowsAreBacked'
  BY DEF Inv, TypeOK, WorkerInv, RowsAreBacked
<1>5. EndedWasFrozen' /\ RefundedAtProviderFirst'
  BY DEF Inv, EndedWasFrozen, RefundedAtProviderFirst
<1> QED BY <1>1, <1>2, <1>3, <1>4, <1>5 DEF Inv

(* The updates of the dispute, the last of them after its movement. *)
LEMMA SetDisputeInv ==
  ASSUME Inv, overlapped' \in BOOLEAN, NEW w \in Worker, InsertDispute(w) \/ WriteContest(w) \/ CloseDispute(w)
  PROVE  Inv'
<1> USE DEF InsertDispute, WriteContest, CloseDispute, SetDispute
<1>1. TypeOK'
  <2>1. dispute' \in {"none", "open", "contested"} \cup Closed
    BY DEF Inv, TypeOK, WorkerInv
  <2>2. pc' \in [Worker -> Steps]
    BY DEF Inv, TypeOK
  <2> QED BY <2>1, <2>2 DEF Inv, TypeOK
<1>2. WorkerInv'
  BY DEF Inv, TypeOK, WorkerInv
<1>3. FrozenInv'
  BY DEF Inv, WorkerInv, FrozenInv
<1>4. RowsAreBacked'
  BY DEF Inv, TypeOK, WorkerInv, RowsAreBacked
<1>5. EndedWasFrozen' /\ RefundedAtProviderFirst'
  BY DEF Inv, EndedWasFrozen, RefundedAtProviderFirst
<1> QED BY <1>1, <1>2, <1>3, <1>4, <1>5 DEF Inv

(* An answer given to a dispute that exists. *)
LEMMA AnswerInv ==
  ASSUME Inv, overlapped' \in BOOLEAN, NEW w \in Worker,
         \/ Concede(w) \/ Contest(w) \/ WithdrawDispute(w)
         \/ DecideForPayer(w) \/ DecideForRecipient(w)
  PROVE  Inv'
<1> USE DEF Concede, Contest, WithdrawDispute, DecideForPayer, DecideForRecipient, Answer
<1>1. TypeOK'
  <2>1. pc' \in [Worker -> Steps]
    BY DEF Inv, TypeOK
  <2>2. ending' \in [Worker -> Closed \cup {None}]
    BY DEF Inv, TypeOK
  <2>3. UNCHANGED <<session, confirmed, hold, dispute, charge, book, due, returned, byHand, stops>>
    BY DEF rowVars
  <2> QED BY <2>1, <2>2, <2>3 DEF Inv, TypeOK
<1>2. WorkerInv'
  BY DEF Inv, TypeOK, WorkerInv
<1>3. FrozenInv' /\ RowsAreBacked' /\ EndedWasFrozen' /\ RefundedAtProviderFirst'
  BY DEF Inv, FrozenInv, RowsAreBacked, EndedWasFrozen, RefundedAtProviderFirst
<1> QED BY <1>1, <1>2, <1>3 DEF Inv

(* The refund at the provider, up to the movement. *)
LEMMA ProviderInv ==
  ASSUME Inv, overlapped' \in BOOLEAN, NEW w \in Worker, FindCharge(w) \/ RefundAtProvider(w) \/ MarkRefunded(w)
  PROVE  Inv'
<1> USE DEF FindCharge, RefundAtProvider, MarkRefunded
<1>1. TypeOK'
  <2>1. pc' \in [Worker -> Steps]
    BY DEF Inv, TypeOK
  <2>2. {returned', byHand'} \subseteq BOOLEAN
    BY DEF Inv, TypeOK
  <2> QED BY <2>1, <2>2 DEF Inv, TypeOK
<1>2. WorkerInv'
  <2>1. CASE FindCharge(w)
    BY <2>1 DEF Inv, TypeOK, WorkerInv
  <2>2. CASE RefundAtProvider(w)
    BY <2>2 DEF Inv, TypeOK, WorkerInv
  <2>3. CASE MarkRefunded(w)
    BY <2>3 DEF Inv, TypeOK, WorkerInv
  <2> QED BY <2>1, <2>2, <2>3
<1>3. FrozenInv' /\ RowsAreBacked' /\ EndedWasFrozen' /\ RefundedAtProviderFirst'
  BY DEF Inv, TypeOK, FrozenInv, RowsAreBacked, EndedWasFrozen, RefundedAtProviderFirst
<1> QED BY <1>1, <1>2, <1>3 DEF Inv

(* Everything that touches neither a movement nor a row a property reads. *)
LEMMA AsideInv ==
  ASSUME Inv, overlapped' \in BOOLEAN,
         \/ WindowCloses
         \/ \E w \in Worker : Confirm(w) \/ CaptureFails(w) \/ SetCompleted(w) \/ Stop(w)
  PROVE  Inv'
<1> USE DEF WindowCloses, Confirm, CaptureFails, SetCompleted, Stop
<1>1. TypeOK'
  <2>1. pc' \in [Worker -> Steps]
    BY DEF Inv, TypeOK
  <2>2. stops' \in 0 .. MaxStops
    BY MaxStopsIsNat DEF Inv, TypeOK
  <2>3. /\ session' \in {"paid", "completed"} /\ {confirmed', due', returned', byHand'} \subseteq BOOLEAN
        /\ UNCHANGED <<book, hold, dispute, charge, ending>>
    BY DEF Inv, TypeOK
  <2> QED BY <2>1, <2>2, <2>3 DEF Inv, TypeOK
<1>2. WorkerInv'
  BY DEF Inv, TypeOK, WorkerInv
<1>3. FrozenInv' /\ RowsAreBacked' /\ EndedWasFrozen' /\ RefundedAtProviderFirst'
  BY DEF Inv, FrozenInv, RowsAreBacked, EndedWasFrozen, RefundedAtProviderFirst
<1> QED BY <1>1, <1>2, <1>3 DEF Inv

LEMMA NextInv == Inv /\ [Next]_vars => Inv'
<1> SUFFICES ASSUME Inv, [Next]_vars PROVE Inv'
  OBVIOUS
<1>1. CASE UNCHANGED vars
  BY <1>1 DEF vars, Inv, TypeOK, WorkerInv, FrozenInv, RowsAreBacked, EndedWasFrozen, RefundedAtProviderFirst
<1>2. CASE Next
  <2>1. overlapped' \in BOOLEAN
    BY <1>2 DEF Next, Begin, Continue, Sweep, CutOff, Watch, Inv, TypeOK
  <2>2. ASSUME NEW w \in Worker,
               \/ Complete(w) \/ SweepPicks(w) \/ FindHold(w)
               \/ Raise(w) \/ Freeze(w) \/ ProviderCannot(w)
        PROVE  Inv'
    <3>1. CASE Complete(w) \/ SweepPicks(w) \/ FindHold(w)
      BY <2>1, <3>1, DecideInv DEF Complete, SweepPicks, FindHold, AfterFinding
    <3>2. CASE Raise(w) \/ ProviderCannot(w)
      BY <2>1, <3>2, DecideInv DEF Raise, ProviderCannot
    <3>3. CASE Freeze(w)
      BY <2>1, <3>3, DecideInv DEF Freeze, Inv, FrozenInv
    <3> QED BY <2>2, <3>1, <3>2, <3>3
  <2>3. ASSUME NEW w \in Worker,
               Capture(w) \/ PostRelease(w) \/ PostFreeze(w) \/ Resolve(w) \/ PostRefund(w)
        PROVE  Inv'
    BY <2>1, <2>3, PostInv DEF Capture, PostRelease, PostFreeze, Resolve, PostRefund
  <2> QED BY <1>2, <2>1, <2>2, <2>3, StampInv, SetDisputeInv, AnswerInv, ProviderInv, AsideInv
          DEF Next, Begin, Continue, Sweep, CutOff
<1> QED BY <1>1, <1>2

THEOREM Invariance == Spec => []Inv
BY InitInv, NextInv, PTL DEF Spec

(* Every variable keeps its type, whatever order statements run in. *)
THEOREM TypeCorrect == Spec => []TypeOK
BY Invariance, PTL DEF Inv

(* A hold is never stamped finished before its money has moved, and a      *)
(* dispute closed for one side has that side's movement in the books, even *)
(* when two answers race (release_now, settle).                            *)
THEOREM RowsFollowBooks == Spec => []RowsAreBacked
BY Invariance, PTL DEF Inv

(* No ending takes from `disputed` what a dispute did not put there        *)
(* (raise: freeze first).                                                  *)
THEOREM OnlyFrozenIsEnded == Spec => []EndedWasFrozen
BY Invariance, PTL DEF Inv

(* The books never say refunded while nobody has been told to refund       *)
(* (settle: at the provider first).                                        *)
THEOREM ProviderComesFirst == Spec => []RefundedAtProviderFirst
BY Invariance, PTL DEF Inv

(* Late answers and stopped settlements never reopen a settled dispute.    *)
THEOREM ClosedIsFinal == Spec => ClosedStaysClosed
<1>1. Inv /\ [Next]_vars => (dispute \in Closed => dispute' \in Closed)
  <2> SUFFICES ASSUME Inv, Next, dispute \in Closed PROVE dispute' \in Closed
    BY DEF vars
  <2>1. ASSUME NEW w \in Worker, InsertDispute(w) \/ WriteContest(w) \/ CloseDispute(w)
        PROVE  dispute' \in Closed
    BY <2>1 DEF InsertDispute, WriteContest, CloseDispute, SetDispute, Inv, WorkerInv
  <2>2. CASE WindowCloses
    BY <2>2 DEF WindowCloses
  <2>3. ASSUME NEW w \in Worker, Begin(w) \/ Sweep(w) \/ CutOff(w)
        PROVE  dispute' \in Closed
    BY <2>3 DEF Begin, Sweep, CutOff, SweepPicks, Stop, Complete, Confirm, Raise, Concede, Contest,
                WithdrawDispute, DecideForPayer, DecideForRecipient, Answer, Decide
  <2>4. ASSUME NEW w \in Worker, Continue(w)
        PROVE  dispute' \in Closed
    BY <2>1, <2>4 DEF Continue, Capture, CreateHold, CaptureFails, SetCompleted, FindHold,
                      PostRelease, StampRelease, Freeze, PostFreeze, StampFreeze, Resolve,
                      FindCharge, RefundAtProvider, ProviderCannot, MarkRefunded, PostRefund,
                      CloseHold, Decide, Post, Stamp
  <2> QED BY <2>2, <2>3, <2>4 DEF Next
<1> QED BY <1>1, Invariance, PTL DEF Spec, ClosedStaysClosed

-----------------------------------------------------------------------------
(* What the movements posted come to.                                      *)

(* What one movement takes from the mentor's account in `state`. *)
Taken(kind, state) ==
  CASE kind = "capture"          -> IF state = "pending" THEN -Share ELSE 0
    [] kind = "release"          -> IF state = "pending" THEN Share ELSE IF state = "available" THEN -Share ELSE 0
    [] kind = "dispute"          -> IF state = "pending" THEN Share ELSE IF state = "disputed" THEN -Share ELSE 0
    [] kind = "dispute_resolved" -> IF state = "disputed" THEN Share ELSE IF state = "available" THEN -Share ELSE 0
    [] kind = "refund"           -> IF state = "disputed" THEN Share ELSE 0

States == {"pending", "disputed", "available"}

(* The accounts the movements name are different accounts. *)
LEMMA AccountsDiffer ==
  ASSUME NEW s \in States, NEW t \in States
  PROVE  /\ Owed("mentor", s, "EUR") = Owed("mentor", t, "EUR") <=> s = t
         /\ Owed("mentor", s, "EUR") # Psp("stripe", "EUR")
         /\ Owed("mentor", s, "EUR") # Revenue("EUR")
BY DEF Owed, Psp, Revenue, States

LEMMA NetOfTransfer ==
  ASSUME NEW kind, NEW from \in States, NEW to \in States, NEW state \in States, from # to
  PROVE  Net(Transfer(kind, "s", "mentor", from, to, Share, "EUR").legs, Owed("mentor", state, "EUR"))
           = IF state = from THEN Share ELSE IF state = to THEN -Share ELSE 0
<1> DEFINE d == Debit(Owed("mentor", from, "EUR"), Share)
           c == Credit(Owed("mentor", to, "EUR"), Share)
           a == Owed("mentor", state, "EUR")
<1>1. Transfer(kind, "s", "mentor", from, to, Share, "EUR").legs = <<d, c>>
  BY DEF Transfer
<1>2. d.amount = Share /\ c.amount = -Share /\ Share \in Int
  BY SharesAreAmounts DEF Debit, Credit
<1>3. At(d, a) = (IF state = from THEN Share ELSE 0) /\ At(c, a) = IF state = to THEN -Share ELSE 0
  BY <1>2, AccountsDiffer DEF At, Debit, Credit
<1>4. Net(<<d, c>>, a) = At(d, a) + At(c, a)
  BY <1>2, NetOfTwo
<1> QED BY <1>1, <1>2, <1>3, <1>4

LEMMA NetOfWritten ==
  ASSUME NEW kind \in Kinds, NEW state \in States
  PROVE  Net(Written(kind).legs, Owed("mentor", state, "EUR")) = Taken(kind, state)
<1> DEFINE a == Owed("mentor", state, "EUR")
<1>0. Share \in Int /\ Fee \in Int
  BY SharesAreAmounts
<1>1. CASE kind = "capture"
  <2> DEFINE d == Debit(Psp("stripe", "EUR"), Share + Fee)
             c == Credit(Owed("mentor", "pending", "EUR"), Share + Fee - Fee)
             e == Credit(Revenue("EUR"), Fee)
  <2>1. Written(kind).legs = <<d, c, e>>
    <3>1. Written(kind) = CaptureForRecipient("s", "stripe", "mentor", Share + Fee, Fee, "EUR")
      BY <1>1 DEF Written
    <3>2. CaptureForRecipient("s", "stripe", "mentor", Share + Fee, Fee, "EUR").legs = <<d, c, e>>
      BY <1>0 DEF CaptureForRecipient, Debit, Credit
    <3> QED BY <3>1, <3>2
  <2>2. d.amount = Share + Fee /\ c.amount = -Share /\ e.amount = -Fee
    BY <1>0 DEF Debit, Credit
  <2>3. At(d, a) = 0 /\ At(c, a) = (IF state = "pending" THEN -Share ELSE 0) /\ At(e, a) = 0
    BY <2>2, AccountsDiffer DEF At, Debit, Credit, States
  <2>4. Net(<<d, c, e>>, a) = At(d, a) + At(c, a) + At(e, a)
    BY <1>0, <2>2, NetOfThree
  <2> QED BY <1>0, <1>1, <2>1, <2>3, <2>4 DEF Taken
<1>2. CASE kind = "release"
  BY <1>2, NetOfTransfer DEF Written, Release, Taken, States
<1>3. CASE kind = "dispute"
  BY <1>3, NetOfTransfer DEF Written, HoldDispute, Taken, States
<1>4. CASE kind = "dispute_resolved"
  BY <1>4, NetOfTransfer DEF Written, ResolveForRecipient, Taken, States
<1>5. CASE kind = "refund"
  <2> DEFINE d == Debit(Owed("mentor", "disputed", "EUR"), Share)
             c == Debit(Revenue("EUR"), 0)
             e == Credit(Psp("stripe", "EUR"), Share + 0)
  <2>1. Written(kind).legs = <<d, c, e>>
    BY <1>5 DEF Written, RefundFromDispute, RefundFrom
  <2>2. d.amount = Share /\ c.amount = 0 /\ e.amount = -Share
    BY <1>0 DEF Debit, Credit
  <2>3. At(d, a) = (IF state = "disputed" THEN Share ELSE 0) /\ At(c, a) = 0 /\ At(e, a) = 0
    BY <2>2, AccountsDiffer DEF At, Debit, Credit, States
  <2>4. Net(<<d, c, e>>, a) = At(d, a) + At(c, a) + At(e, a)
    BY <1>0, <2>2, NetOfThree
  <2> QED BY <1>0, <1>5, <2>1, <2>3, <2>4 DEF Taken
<1> QED BY <1>1, <1>2, <1>3, <1>4, <1>5

(* What a movement adds to an account, if it is posted. *)
Given(kind, state) == IF kind \in book THEN -Taken(kind, state) ELSE 0

LEMMA MentorIs ==
  ASSUME book \subseteq Kinds, NEW state \in States
  PROVE  Mentor(state) = Given("capture", state) + Given("release", state) + Given("dispute", state)
                           + Given("dispute_resolved", state) + Given("refund", state)
<1> DEFINE f == [kind \in book |-> Net(Written(kind).legs, Owed("mentor", state, "EUR"))]
           g == [kind \in Kinds |-> -Given(kind, state)]
           Opening == {"capture", "release", "dispute"}
           Ending  == {"dispute_resolved", "refund"}
<1>1. \A kind \in Kinds : Taken(kind, state) \in Int
  BY SharesAreAmounts DEF Taken
<1>2. \A kind \in Kinds : g[kind] \in Int /\ g[kind] = -Given(kind, state) /\ Given(kind, state) \in Int
  BY <1>1 DEF Given
<1>3. /\ \A kind \in book : f[kind] \in Int /\ g[kind] = f[kind]
      /\ \A kind \in Kinds : kind \notin book => g[kind] = 0
  <2>1. \A kind \in book : kind \in Kinds /\ f[kind] = Taken(kind, state)
    BY NetOfWritten
  <2>2. \A kind \in book : g[kind] = -(-Taken(kind, state))
    BY DEF Given
  <2>3. \A kind \in Kinds : kind \notin book => g[kind] = 0
    <3>1. \A kind \in Kinds : kind \notin book => Given(kind, state) = 0
      BY DEF Given
    <3> QED BY <1>2, <3>1
  <2> HIDE DEF f, g
  <2> QED BY <1>1, <2>1, <2>2, <2>3
<1>4. IsFiniteSet(Opening) /\ SumFunctionOnSet(g, Opening) = g["capture"] + g["release"] + g["dispute"]
  <2>1. {g["capture"], g["release"], g["dispute"]} \subseteq Int
    BY <1>2
  <2> HIDE DEF g
  <2> QED BY <2>1, SumOfThree
<1>5. IsFiniteSet(Ending) /\ SumFunctionOnSet(g, Ending) = g["dispute_resolved"] + g["refund"]
  <2>1. {g["dispute_resolved"], g["refund"]} \subseteq Int
    BY <1>2
  <2> HIDE DEF g
  <2> QED BY <2>1, SumOfTwo
<1>6. Kinds = Opening \cup Ending /\ Opening \cap Ending = {}
  OBVIOUS
<1>7. \A kind \in Opening \cup Ending : g[kind] \in Int
  BY <1>2, <1>6
<1>8. IsFiniteSet(Kinds) /\ SumFunctionOnSet(g, Kinds) = SumFunctionOnSet(g, Opening) + SumFunctionOnSet(g, Ending)
  <2> HIDE DEF g, Opening, Ending, Kinds
  <2> QED BY <1>4, <1>5, <1>6, <1>7, SumSplits, FS_Union
<1>9. SumFunctionOnSet(g, Kinds) = SumFunctionOnSet(f, book)
  <2> HIDE DEF f, g, Kinds
  <2> QED BY <1>3, <1>8, SumOfPart
<1>10. Mentor(state) = -SumFunctionOnSet(f, book)
  BY DEF Mentor, Owing, SumFunction, FoldFunction, SumFunctionOnSet
<1>11. /\ Given("capture", state) \in Int /\ g["capture"] = -Given("capture", state)
       /\ Given("release", state) \in Int /\ g["release"] = -Given("release", state)
       /\ Given("dispute", state) \in Int /\ g["dispute"] = -Given("dispute", state)
       /\ Given("dispute_resolved", state) \in Int /\ g["dispute_resolved"] = -Given("dispute_resolved", state)
       /\ Given("refund", state) \in Int /\ g["refund"] = -Given("refund", state)
  BY <1>2
<1> HIDE DEF f, g, Opening, Ending
<1> QED BY <1>4, <1>5, <1>8, <1>9, <1>10, <1>11

-----------------------------------------------------------------------------
(* One operation after the other.  While nothing overlapped and nobody was  *)
(* cut off, the rows say what has been posted, but for the one movement     *)
(* that a worker under way has posted and not yet stamped.                  *)

Opened == dispute \in {"open", "contested"}

RowSays ==
  IF ~hold.exists THEN {}
  ELSE IF dispute # "none"
       THEN {"capture", "dispute"} \cup IF dispute \in Closed THEN {Movement(dispute)} ELSE {}
       ELSE {"capture"} \cup IF hold.released THEN {"release"} ELSE {}

RowIsSound ==
  /\ ~hold.exists => ~hold.released /\ ~hold.disputed /\ dispute = "none"
  /\ dispute = "none" => ~hold.disputed
  /\ Opened => ~hold.released /\ hold.disputed
  /\ dispute \in Closed => hold.released /\ ~hold.disputed

Settled == book = RowSays /\ RowIsSound

Turn(w) ==
  /\ pc[w] \in {"idle", "capture", "complete", "find", "contest", "post_release", "freeze", "post_freeze"}
               \cup Resolving \cup Refunding => Settled
  /\ pc[w] \in {"contest"} \cup Resolving \cup Refunding => Opened
  /\ pc[w] \in {"post_release", "freeze", "post_freeze"} => Releasable
  /\ pc[w] = "hold" => book = {"capture"} /\ ~hold.exists /\ RowIsSound
  /\ pc[w] = "stamp_release" => book = {"capture", "release"} /\ Releasable /\ dispute = "none"
  /\ pc[w] = "stamp_freeze" => book = {"capture", "dispute"} /\ Releasable /\ dispute = "none"
  /\ pc[w] = "insert" =>
       /\ book = {"capture", "dispute"} /\ hold.exists /\ ~hold.released /\ hold.disputed
       /\ dispute = "none"
  /\ pc[w] = "close_dispute" =>
       book = {"capture", "dispute", Movement(ending[w])} /\ hold.exists /\ Opened /\ RowIsSound
  /\ pc[w] = "close_hold" =>
       book = {"capture", "dispute", Movement(ending[w])} /\ hold.exists /\ dispute = ending[w]

Alone(w) == \A v \in Worker \ {w} : pc[v] = "idle"

InTurn ==
  ~overlapped => /\ Idle => Settled
                 /\ \A w \in Worker : pc[w] # "idle" => Alone(w) /\ Turn(w)

(* A worker whose step overlaps nothing has the session to itself. *)
LEMMA OneMoves ==
  ASSUME Inv, InTurn, NEW w \in Worker, ~overlapped', Watch,
         \A v \in Worker \ {w} : pc'[v] = pc[v], pc[w] = "idle" => pc'[w] # "idle"
  PROVE  ~overlapped /\ stops' = stops /\ Alone(w) /\ Alone(w)' /\ Turn(w)
<1>1. ~overlapped /\ stops' = stops /\ \A v, u \in Worker : v # u => pc'[v] = "idle" \/ pc'[u] = "idle"
  BY DEF Watch, Inv, TypeOK
<1>2. CASE pc[w] = "idle"
  <2>1. Alone(w) /\ Alone(w)'
    BY <1>1, <1>2 DEF Alone
  <2>2. Idle
    BY <1>2, <2>1 DEF Idle, Alone
  <2> QED BY <1>1, <1>2, <2>1, <2>2 DEF InTurn, Turn
<1>3. CASE pc[w] # "idle"
  BY <1>1, <1>3 DEF InTurn, Alone
<1> QED BY <1>2, <1>3

(* After the step it still has, or has left everything settled. *)
LEMMA StillInTurn ==
  ASSUME NEW w \in Worker, Alone(w)', Turn(w)'
  PROVE  InTurn'
<1>1. ASSUME Idle' PROVE Settled'
  BY <1>1 DEF Idle, Turn
<1>2. ASSUME NEW v \in Worker, pc'[v] # "idle" PROVE Alone(v)' /\ Turn(v)'
  BY <1>2 DEF Alone
<1> QED BY <1>1, <1>2 DEF InTurn

LEMMA BeginTurn ==
  ASSUME Inv, InTurn, ~overlapped', NEW w \in Worker, Begin(w) \/ Sweep(w)
  PROVE  InTurn'
<1> USE DEF Begin, Sweep, SweepPicks, Complete, Confirm, Raise, Concede, Contest, WithdrawDispute,
            DecideForPayer, DecideForRecipient, Answer, Decide
<1>1. /\ pc[w] = "idle" /\ pc'[w] # "idle" /\ Watch
      /\ \A v \in Worker \ {w} : pc'[v] = pc[v]
      /\ UNCHANGED <<book, hold, dispute>>
  BY DEF Inv, TypeOK
<1>2. Alone(w)' /\ Turn(w)
  BY <1>1, OneMoves
<1>3. Settled'
  BY <1>1, <1>2 DEF Turn, Settled, RowSays, RowIsSound, Opened
<1>4. /\ pc'[w] \in {"capture", "find", "freeze", "contest"} \cup Resolving \cup Refunding
      /\ pc'[w] = "freeze" => Releasable
      /\ pc'[w] \in {"contest"} \cup Resolving \cup Refunding => Opened
  BY DEF Inv, TypeOK, Opened
<1>5. Releasable' = Releasable /\ Opened' = Opened
  BY <1>1 DEF Releasable, Opened
<1>6. Turn(w)'
  BY <1>3, <1>4, <1>5, SMTT(30) DEF Turn
<1> QED BY <1>2, <1>6, StillInTurn

LEMMA ContinueTurn ==
  ASSUME Inv, InTurn, ~overlapped', NEW w \in Worker, Continue(w)
  PROVE  InTurn'
<1> USE DEF Decide, Post, Stamp, SetDispute
<1>1. Watch /\ pc[w] # "idle" /\ \A v \in Worker \ {w} : pc'[v] = pc[v]
  BY DEF Continue, Inv, TypeOK, Capture, CreateHold, CaptureFails, SetCompleted,
         FindHold, PostRelease, StampRelease, Freeze, PostFreeze, StampFreeze, InsertDispute,
         WriteContest, Resolve, FindCharge, RefundAtProvider, ProviderCannot, MarkRefunded,
         PostRefund, CloseDispute, CloseHold
<1>2. stops' = stops /\ Alone(w)' /\ Turn(w)
  BY <1>1, OneMoves
<1> SUFFICES Turn(w)'
  BY <1>2, StillInTurn
<1>3. stops \in Nat
  BY MaxStopsIsNat DEF Inv, TypeOK
<1> USE DEF Settled, RowSays, RowIsSound, Opened, Releasable, Turn
<1>4. CASE Capture(w)
  BY <1>2, <1>4 DEF Capture, Inv, TypeOK
<1>5. CASE CreateHold(w)
  BY <1>2, <1>5 DEF CreateHold, Inv, TypeOK
<1>6. CASE CaptureFails(w)
  BY <1>2, <1>3, <1>6 DEF CaptureFails
<1>7. CASE SetCompleted(w)
  BY <1>2, <1>7 DEF SetCompleted, Inv, TypeOK
<1>8. CASE FindHold(w)
  BY <1>2, <1>8 DEF FindHold, AfterFinding, rowVars, Inv, TypeOK
<1>9. CASE PostRelease(w)
  BY <1>2, <1>9 DEF PostRelease, Inv, TypeOK
<1>10. CASE StampRelease(w)
  BY <1>2, <1>10 DEF StampRelease, Inv, TypeOK
<1>11. CASE Freeze(w)
  BY <1>2, <1>11 DEF Freeze, Inv, TypeOK
<1>12. CASE PostFreeze(w)
  BY <1>2, <1>12 DEF PostFreeze, Inv, TypeOK
<1>13. CASE StampFreeze(w)
  BY <1>2, <1>13 DEF StampFreeze, Inv, TypeOK
<1>14. CASE InsertDispute(w)
  BY <1>2, <1>14 DEF InsertDispute, Inv, TypeOK
<1>15. CASE WriteContest(w)
  BY <1>2, <1>15 DEF WriteContest, Inv, TypeOK
<1>16. CASE Resolve(w)
  BY <1>2, <1>16 DEF Resolve, Inv, TypeOK, WorkerInv
<1>17. CASE FindCharge(w) \/ RefundAtProvider(w) \/ ProviderCannot(w) \/ MarkRefunded(w)
  BY <1>2, <1>17 DEF FindCharge, RefundAtProvider, ProviderCannot, MarkRefunded, Inv, TypeOK
<1>18. CASE PostRefund(w)
  BY <1>2, <1>18 DEF PostRefund, Inv, TypeOK, WorkerInv
<1>19. CASE CloseDispute(w)
  BY <1>2, <1>19 DEF CloseDispute, Inv, TypeOK, WorkerInv
<1>20. CASE CloseHold(w)
  BY <1>2, <1>20 DEF CloseHold, Inv, TypeOK, WorkerInv
<1> QED BY <1>4, <1>5, <1>6, <1>7, <1>8, <1>9, <1>10, <1>11, <1>12, <1>13, <1>14, <1>15, <1>16,
           <1>17, <1>18, <1>19, <1>20 DEF Continue

LEMMA NextInTurn == Inv /\ InTurn /\ [Next]_vars => InTurn'
<1> SUFFICES ASSUME Inv, InTurn, [Next]_vars PROVE InTurn'
  OBVIOUS
<1>1. CASE overlapped'
  BY <1>1 DEF InTurn
<1>2. CASE UNCHANGED vars
  BY <1>2 DEF vars, InTurn, Idle, Alone, Turn, Settled, RowSays, RowIsSound, Opened, Releasable
<1>3. CASE WindowCloses /\ UNCHANGED overlapped
  BY <1>3 DEF WindowCloses, InTurn, Idle, Alone, Turn, Settled, RowSays, RowIsSound, Opened, Releasable
<1>4. CASE ~overlapped' /\ \E w \in Worker : CutOff(w)
  <2> PICK w \in Worker : CutOff(w)
    BY <1>4
  <2>1. stops \in Nat /\ stops' = stops + 1
    BY MaxStopsIsNat DEF CutOff, Stop, Inv, TypeOK
  <2>2. stops' # stops
    BY <2>1
  <2>3. overlapped'
    BY <2>2 DEF CutOff, Watch
  <2> QED BY <1>4, <2>3
<1> QED BY <1>1, <1>2, <1>3, <1>4, BeginTurn, ContinueTurn DEF Next

LEMMA InitInTurn == Init => InTurn
BY DEF Init, InTurn, Idle, Settled, RowSays, RowIsSound, Opened

(* Where the share is, for each book a session has between operations. *)
PlaceFacts ==
  /\ book = {} => Place = "nowhere"
  /\ book = {"capture"} => Place = "pending"
  /\ book = {"capture", "release"} => Place = "available"
  /\ book = {"capture", "dispute"} => Place = "disputed"
  /\ book = {"capture", "dispute", "dispute_resolved"} => Place = "available"
  /\ book = {"capture", "dispute", "refund"} => Place = "returned"

(* What the movements leave in each of the mentor's accounts. *)
LEMMA MentorHas ==
  ASSUME book \subseteq Kinds
  PROVE  /\ book = {} => Mentor("pending") = 0 /\ Mentor("disputed") = 0 /\ Mentor("available") = 0
         /\ book = {"capture"} =>
              Mentor("pending") = Share /\ Mentor("disputed") = 0 /\ Mentor("available") = 0
         /\ book = {"capture", "release"} =>
              Mentor("pending") = 0 /\ Mentor("disputed") = 0 /\ Mentor("available") = Share
         /\ book = {"capture", "dispute"} =>
              Mentor("pending") = 0 /\ Mentor("disputed") = Share /\ Mentor("available") = 0
         /\ book = {"capture", "dispute", "dispute_resolved"} =>
              Mentor("pending") = 0 /\ Mentor("disputed") = 0 /\ Mentor("available") = Share
         /\ book = {"capture", "dispute", "refund"} =>
              Mentor("pending") = 0 /\ Mentor("disputed") = 0 /\ Mentor("available") = 0
<1>0. Share \in Int
  BY SharesAreAmounts
<1>1. Mentor("pending") = (IF "capture" \in book THEN Share ELSE 0)
                            - (IF "release" \in book THEN Share ELSE 0)
                            - (IF "dispute" \in book THEN Share ELSE 0)
  BY <1>0, MentorIs DEF States, Given, Taken
<1>2. Mentor("disputed") = (IF "dispute" \in book THEN Share ELSE 0)
                             - (IF "dispute_resolved" \in book THEN Share ELSE 0)
                             - (IF "refund" \in book THEN Share ELSE 0)
  BY <1>0, MentorIs DEF States, Given, Taken
<1>3. Mentor("available") = (IF "release" \in book THEN Share ELSE 0)
                              + (IF "dispute_resolved" \in book THEN Share ELSE 0)
  BY <1>0, MentorIs DEF States, Given, Taken
<1> QED BY <1>0, <1>1, <1>2, <1>3

LEMMA PlaceIs == PlaceFacts
<1> DEFINE amounts == << Mentor("pending"), Mentor("disputed"), Mentor("available") >>
<1>0. Share \in Int /\ Share # 0
  BY SharesAreAmounts
<1>1. ASSUME book = {"capture"} PROVE Place = "pending"
  <2>1. amounts = <<Share, 0, 0>>
    BY <1>1, MentorHas
  <2> QED BY <1>0, <1>1, <2>1 DEF Place, InOnePlace
<1>2. ASSUME book = {"capture", "dispute"} PROVE Place = "disputed"
  <2>1. amounts = <<0, Share, 0>>
    BY <1>2, MentorHas
  <2> QED BY <1>0, <1>2, <2>1 DEF Place, InOnePlace
<1>3. ASSUME book \in {{"capture", "release"}, {"capture", "dispute", "dispute_resolved"}}
      PROVE  Place = "available"
  <2>1. amounts = <<0, 0, Share>>
    BY <1>3, MentorHas
  <2> QED BY <1>0, <1>3, <2>1 DEF Place, InOnePlace
<1>4. ASSUME book = {"capture", "dispute", "refund"} PROVE Place = "returned"
  <2>1. amounts = <<0, 0, 0>>
    BY <1>4, MentorHas
  <2> QED BY <1>4, <2>1 DEF Place
<1>5. book = {} => Place = "nowhere"
  BY DEF Place
<1> QED BY <1>1, <1>2, <1>3, <1>4, <1>5 DEF PlaceFacts

THEOREM TurnInvariance == Spec => [](Inv /\ InTurn)
BY InitInv, NextInv, InitInTurn, NextInTurn, PTL DEF Spec

(* Between operations that did not overlap, the row says where the money    *)
(* is: held, it is pending; disputed, it is frozen; finished, in neither.   *)
THEOREM RowsTellTheMoney == Spec => []RowMatchesBooks
<1>1. Inv /\ InTurn => RowMatchesBooks
  <2> SUFFICES ASSUME Inv, InTurn, ~overlapped, Idle
               PROVE  /\ hold.exists <=> "capture" \in book
                      /\ hold.exists =>
                           /\ Mentor("pending")  = IF hold.released \/ hold.disputed THEN 0 ELSE Share
                           /\ Mentor("disputed") = IF hold.disputed THEN Share ELSE 0
    BY DEF RowMatchesBooks
  <2>1. book = RowSays /\ RowIsSound
    BY DEF InTurn, Settled
  <2>2. book \subseteq Kinds /\ dispute \in {"none", "open", "contested"} \cup Closed
    BY DEF Inv, TypeOK
  <2>3. hold.exists <=> "capture" \in book
    BY <2>1 DEF RowSays
  <2>4. ASSUME hold.exists
        PROVE  \/ book = {"capture"} /\ ~hold.released /\ ~hold.disputed
               \/ book = {"capture", "release"} /\ hold.released /\ ~hold.disputed
               \/ book = {"capture", "dispute"} /\ hold.disputed
               \/ /\ book \in {{"capture", "dispute", "dispute_resolved"}, {"capture", "dispute", "refund"}}
                  /\ hold.released /\ ~hold.disputed
    BY <2>1, <2>2, <2>4 DEF RowSays, RowIsSound, Opened
  <2> QED BY <2>2, <2>3, <2>4, MentorHas
<1> QED BY <1>1, TurnInvariance, PTL

(* The share moves only as Custody says: into the window, out of it once,   *)
(* and out of a dispute to one side.                                        *)
LEMMA StepKeepsCustody ==
  Inv /\ InTurn /\ [Next]_vars => [~overlapped' => OnePlace!Next \/ UNCHANGED Place]_vars
<1> SUFFICES ASSUME Inv, InTurn, Next, ~overlapped' PROVE OnePlace!Next \/ UNCHANGED Place
  BY DEF vars
<1>a. ASSUME UNCHANGED book PROVE UNCHANGED Place
  BY <1>a DEF Place, Mentor, Owing
<1>b. PlaceFacts /\ PlaceFacts'
  BY PlaceIs, PTL
<1>1. ASSUME NEW w \in Worker, Watch,
             Capture(w) \/ PostRelease(w) \/ PostFreeze(w) \/ Resolve(w) \/ PostRefund(w)
      PROVE  OnePlace!Next \/ UNCHANGED Place
  <2> USE DEF Capture, PostRelease, PostFreeze, Resolve, PostRefund, Post
  <2>1. pc[w] # "idle" /\ \A v \in Worker \ {w} : pc'[v] = pc[v]
    BY <1>1 DEF Inv, TypeOK
  <2>2. Turn(w)
    BY <1>1, <2>1, OneMoves
  <2>3. Settled /\ pc[w] \in {"capture", "post_release", "post_freeze", "resolve", "post_refund"}
    BY <1>1, <2>2 DEF Turn
  <2>4. \/ book' = book
        \/ book = {} /\ book' = {"capture"}
        \/ book = {"capture"} /\ book' \in {{"capture", "release"}, {"capture", "dispute"}}
        \/ book = {"capture", "dispute"}
             /\ book' \in {{"capture", "dispute", "dispute_resolved"}, {"capture", "dispute", "refund"}}
    BY <1>1, <2>2, <2>3 DEF Turn, Settled, RowSays, RowIsSound, Opened, Releasable, Inv, TypeOK
  <2> QED BY <1>a, <1>b, <2>4 DEF PlaceFacts, OnePlace!Next, OnePlace!Move, OnePlace!Captured,
             OnePlace!Released, OnePlace!Frozen, OnePlace!Kept, OnePlace!Refunded
<1>2. ASSUME ~ \E w \in Worker : /\ Watch
                                 /\ Capture(w) \/ PostRelease(w) \/ PostFreeze(w) \/ Resolve(w) \/ PostRefund(w)
      PROVE  UNCHANGED book
  BY <1>2 DEF Next, WindowCloses, Begin, Continue, Sweep, CutOff, SweepPicks, Stop, Complete, Confirm,
              Raise, Concede, Contest, WithdrawDispute, DecideForPayer, DecideForRecipient, Answer,
              Decide, CreateHold, CaptureFails, SetCompleted, FindHold, StampRelease, Freeze,
              StampFreeze, InsertDispute, WriteContest, FindCharge, RefundAtProvider, ProviderCannot,
              MarkRefunded, CloseDispute, CloseHold, Stamp, SetDispute
<1> QED BY <1>1, <1>2, <1>a

(* A session's share implements the custody of one share: operations that   *)
(* do not overlap move it only as release.rs and disputes.rs promise.       *)
THEOREM CustodyIsKept == Spec => CustodySpec
<1>1. Init => OnePlace!Init
  BY PlaceIs DEF Init, OnePlace!Init, PlaceFacts
<1> QED BY <1>1, StepKeepsCustody, TurnInvariance, PTL DEF Spec, CustodySpec

-----------------------------------------------------------------------------
(* Part 4.  The points guilds stake in their wars.                         *)

(* What a request has read is still so when it writes, unless another has  *)
(* the same war in hand, or proposes one between the same guilds.          *)
ProposesStill(w) ==
  /\ found[w] \in WarRow /\ found[w].status = "proposed"
  /\ found[w].challenger # found[w].defender
  /\ Pair(w) \notin rushed =>
       /\ \A i \in Fought \ contested : ~Active(i, found[w].challenger, found[w].defender)
       /\ \A x \in Officer : doing[x] = "propose" /\ Pair(x) = Pair(w) => x = w

AnswersStill(w) ==
  /\ found[w].war \in Fought
  /\ doing[w] = "conclude" => found[w].winner \in Parties(found[w].war)
  /\ found[w].war \notin contested =>
       /\ war[found[w].war].status = IF doing[w] = "conclude" THEN "accepted" ELSE "proposed"
       /\ \A x \in Officer : doing[x] \in Deciding /\ found[x].war = found[w].war => x = w

StillSo(w) ==
  /\ doing[w] = "propose" => ProposesStill(w)
  /\ doing[w] \in Deciding => AnswersStill(w)

WarsInv ==
  /\ WarsTypeOK /\ OnePerPair /\ PaidOnce /\ NothingVanishes
  /\ earned \in Int
  /\ paid \in [War -> Int] /\ \A i \in War \ Fought : paid[i] = 0
  /\ found = [w \in Officer |-> found[w]]
  /\ \A w \in Officer : StillSo(w)

Pot(i) == IF i \in InStatus("accepted") THEN 2 * war[i].stake ELSE 0

-----------------------------------------------------------------------------
(* The two sums, over all guilds and over all wars. *)
WarSums ==
  /\ AllPoints = SumFunctionOnSet(gp, Side) /\ AllPoints \in Int
  /\ Pots = SumFunctionOnSet([j \in War |-> Pot(j)], War) /\ Pots \in Int
  /\ \A j \in War : Pot(j) \in Nat

LEMMA SumsOfWars == WarsTypeOK => WarSums
<1> SUFFICES ASSUME WarsTypeOK PROVE WarSums
  OBVIOUS
<1>1. AllPoints = SumFunctionOnSet(gp, Side)
  BY DEF AllPoints, SumFunction, WarsTypeOK
<1>2. AllPoints \in Int
  <2>1. IsFiniteSet(Side) /\ \A g \in Side : gp[g] \in Int
    BY WarsAssumption DEF WarsTypeOK
  <2> QED BY <1>1, <2>1, SumIsInt
<1> DEFINE pots == [j \in War |-> Pot(j)]
<1>3. Pots = SumFunctionOnSet(pots, War)
  BY DEF Pots, SumFunction, Pot
<1>4. \A j \in War : Pot(j) \in Nat
  BY DEF Pot, InStatus, Fought, WarsTypeOK, WarRow
<1>5. Pots \in Int
  <2>1. IsFiniteSet(War) /\ \A j \in War : pots[j] \in Int
    BY <1>4, WarsAssumption
  <2> HIDE DEF pots
  <2> QED BY <1>3, <2>1, SumIsInt
<1> QED BY <1>1, <1>2, <1>3, <1>4, <1>5 DEF WarSums

(* The guilds' points when one guild's change, the pots when one war's does. *)
LEMMA PointsChange ==
  ASSUME NEW f \in [Side -> Int], NEW g \in [Side -> Int], NEW x \in Side,
         \A y \in Side \ {x} : g[y] = f[y]
  PROVE  /\ SumFunctionOnSet(g, Side) = SumFunctionOnSet(f, Side) + g[x] - f[x]
         /\ SumFunctionOnSet(f, Side) \in Int /\ SumFunctionOnSet(g, Side) \in Int
<1>1. IsFiniteSet(Side) /\ (\A y \in Side : f[y] \in Int) /\ (\A y \in Side : g[y] \in Int)
  BY WarsAssumption
<1> QED BY <1>1, SumChanges, SumIsInt

LEMMA PotsChange ==
  ASSUME WarsTypeOK, WarsTypeOK', NEW i \in War, \A j \in War \ {i} : war'[j] = war[j]
  PROVE  Pots' = Pots + Pot(i)' - Pot(i)
<1> DEFINE before == [j \in War |-> Pot(j)]
           after  == [j \in War |-> Pot(j)']
<1>1. Pots = SumFunctionOnSet(before, War) /\ (\A j \in War : Pot(j) \in Nat)
  BY SumsOfWars DEF WarSums
<1>2. Pots' = SumFunctionOnSet(after, War) /\ (\A j \in War : Pot(j)' \in Nat)
  <2>1. WarsTypeOK' => WarSums'
    BY SumsOfWars, PTL
  <2> QED BY <2>1 DEF WarSums
<1>3. \A j \in War \ {i} : Pot(j)' = Pot(j)
  BY DEF Pot, InStatus, Fought
<1>4. /\ IsFiniteSet(War) /\ (\A j \in War : before[j] \in Int) /\ (\A j \in War : after[j] \in Int)
      /\ \A j \in War \ {i} : after[j] = before[j]
  BY <1>1, <1>2, <1>3, WarsAssumption
<1>5. before[i] = Pot(i) /\ after[i] = Pot(i)'
  OBVIOUS
<1> HIDE DEF before, after
<1>6. SumFunctionOnSet(after, War) = SumFunctionOnSet(before, War) + after[i] - before[i]
  BY <1>4, SumChanges
<1> QED BY <1>1, <1>2, <1>5, <1>6

LEMMA PotsStay ==
  ASSUME war' = war
  PROVE  Pots' = Pots
BY DEF Pots, InStatus, Fought

-----------------------------------------------------------------------------
LEMMA StakesArePositive ==
  ASSUME WarsTypeOK, NEW c \in Side, NEW d \in Side
  PROVE  Stakes(c, d) \subseteq Nat \ {0}
<1>1. Smaller(gp[c], gp[d]) \in Nat
  BY DEF Smaller, WarsTypeOK
<1>2. ASSUME NEW p \in Nat PROVE LeastStake(p) \in Nat /\ LeastStake(p) >= 1
  <2>1. (p * Percents.low) \div 100 \in Nat
    <3>1. p * Percents.low \in Nat
      BY WarsAssumption
    <3>2. \A n \in Nat : n \div 100 \in Nat
      OBVIOUS
    <3> QED BY <3>1, <3>2
  <2>2. \A n \in Nat : Larger(n, 1) \in Nat /\ Larger(n, 1) >= 1
    BY DEF Larger
  <2> QED BY <2>1, <2>2 DEF LeastStake
<1>3. \A a, b : a \in Nat /\ a >= 1 => a .. b \subseteq Nat \ {0}
  OBVIOUS
<1> QED BY <1>1, <1>2, <1>3 DEF Stakes

(* What a request remembers, as the wars and the memories of all change.   *)
LEMMA FoundFunction ==
  ASSUME WarsInv, NEW w \in Officer, NEW to, NEW value,
         doing' = [doing EXCEPT ![w] = to], found' = [found EXCEPT ![w] = value]
  PROVE  /\ doing'[w] = to /\ found'[w] = value
         /\ \A x \in Officer \ {w} : doing'[x] = doing[x] /\ found'[x] = found[x]
         /\ found' = [x \in Officer |-> found'[x]]
BY DEF WarsInv, WarsTypeOK

(* A request that reads for an answer is alone with the war, or contests it. *)
LEMMA ReadsToAnswer ==
  ASSUME WarsInv, NEW w \in Officer, NEW to \in Deciding, NEW i \in Fought, NEW g,
         doing[w] = "idle", Contend(i), UNCHANGED war,
         to = "conclude" => g \in Parties(i),
         war[i].status = IF to = "conclude" THEN "accepted" ELSE "proposed",
         doing' = [doing EXCEPT ![w] = to], found' = [found EXCEPT ![w] = [war |-> i, winner |-> g]]
  PROVE  \A x \in Officer : StillSo(x)'
<1>1. /\ doing'[w] = to /\ found'[w] = [war |-> i, winner |-> g]
      /\ \A x \in Officer \ {w} : doing'[x] = doing[x] /\ found'[x] = found[x]
  BY FoundFunction
<1>2. /\ contested \subseteq contested' /\ rushed' = rushed /\ Fought' = Fought /\ war' = war
      /\ \A j \in War : Parties(j)' = Parties(j)
      /\ \A x \in Officer : doing[x] \in Deciding /\ found[x].war = i => i \in contested'
  BY DEF Contend, InHand, Fought, Parties
<1>3. to # "propose" /\ doing[w] \notin Deciding /\ doing[w] # "propose"
  BY DEF Deciding
<1> SUFFICES ASSUME NEW x \in Officer PROVE StillSo(x)'
  OBVIOUS
<1>4. CASE x = w
  <2>1. AnswersStill(w)'
    <3>1. found'[w].war = i /\ found'[w].winner = g
      BY <1>1
    <3>2. i \notin contested' => \A y \in Officer : doing'[y] \in Deciding /\ found'[y].war = i => y = w
      BY <1>1, <1>2
    <3> QED BY <1>1, <1>2, <3>1, <3>2 DEF AnswersStill, Parties
  <2> QED BY <1>1, <1>3, <1>4, <2>1 DEF StillSo
<1>5. CASE x # w
  <2>0. doing'[x] = doing[x] /\ found'[x] = found[x] /\ StillSo(x)
    BY <1>1, <1>5 DEF WarsInv
  <2>1. ASSUME doing[x] = "propose" PROVE ProposesStill(x)'
    <3>1. ProposesStill(x)
      BY <2>0, <2>1 DEF StillSo
    <3>2. Pair(x)' = Pair(x)
      BY <2>0 DEF Pair
    <3>3. \A y \in Officer : doing'[y] = "propose" => doing[y] = "propose" /\ Pair(y)' = Pair(y)
      BY <1>1, <1>3 DEF Pair
    <3>4. \A j \in Fought' \ contested' : Active(j, found[x].challenger, found[x].defender)' =>
             j \in Fought \ contested /\ Active(j, found[x].challenger, found[x].defender)
      BY <1>2, <2>0 DEF Active, Parties
    <3> QED BY <1>2, <2>0, <3>1, <3>2, <3>3, <3>4 DEF ProposesStill
  <2>2. ASSUME doing[x] \in Deciding PROVE AnswersStill(x)'
    <3>1. AnswersStill(x)
      BY <2>0, <2>2 DEF StillSo
    <3>2. found[x].war \notin contested' => found[x].war # i /\ found[x].war \notin contested
      BY <1>2, <2>2
    <3>3. \A y \in Officer \ {w} : doing'[y] = doing[y] /\ found'[y] = found[y]
      BY <1>1
    <3>4. found'[w].war = i
      BY <1>1
    <3>5. war' = war
      BY <1>2
    <3>6. ASSUME found[x].war \notin contested'
          PROVE  /\ war'[found[x].war].status = IF doing[x] = "conclude" THEN "accepted" ELSE "proposed"
                 /\ \A y \in Officer : doing'[y] \in Deciding /\ found'[y].war = found[x].war => y = x
      BY <1>2, <2>0, <3>1, <3>2, <3>3, <3>4, <3>6 DEF AnswersStill
    <3> QED BY <1>2, <2>0, <3>1, <3>5, <3>6 DEF AnswersStill, Parties
  <2> QED BY <2>0, <2>1, <2>2 DEF StillSo
<1> QED BY <1>4, <1>5

(* A request that reads for a proposal is alone with the pair, or rushes.  *)
LEMMA ReadsToPropose ==
  ASSUME WarsInv, NEW w \in Officer, NEW row \in WarRow,
         row.status = "proposed", row.challenger # row.defender,
         \A i \in Fought : ~Active(i, row.challenger, row.defender),
         doing[w] = "idle", Rush({row.challenger, row.defender}), UNCHANGED war,
         doing' = [doing EXCEPT ![w] = "propose"], found' = [found EXCEPT ![w] = row]
  PROVE  \A x \in Officer : StillSo(x)'
<1> DEFINE pair == {row.challenger, row.defender}
<1>1. /\ doing'[w] = "propose" /\ found'[w] = row
      /\ \A x \in Officer \ {w} : doing'[x] = doing[x] /\ found'[x] = found[x]
  BY FoundFunction
<1>2. /\ rushed \subseteq rushed' /\ contested' = contested /\ Fought' = Fought
      /\ \A j \in War : Parties(j)' = Parties(j)
      /\ \A x \in Officer : doing[x] = "propose" /\ Pair(x) = pair => pair \in rushed'
  BY DEF Rush, Fought, Parties
<1>3. doing[w] \notin Deciding /\ doing[w] # "propose" /\ "propose" \notin Deciding
  BY DEF Deciding
<1>4. Pair(w)' = pair /\ \A y \in Officer \ {w} : Pair(y)' = Pair(y)
  BY <1>1 DEF Pair
<1>5. \A j, c, d : Active(j, c, d)' <=> Active(j, c, d)
  BY DEF Active, Parties
<1> HIDE DEF pair
<1> SUFFICES ASSUME NEW x \in Officer PROVE StillSo(x)'
  OBVIOUS
<1>6. CASE x = w
  <2>1. pair \notin rushed' => \A y \in Officer : doing'[y] = "propose" /\ Pair(y)' = pair => y = w
    BY <1>1, <1>2, <1>4
  <2>2. \A i \in Fought' : ~Active(i, row.challenger, row.defender)'
    BY <1>2 DEF Active, Parties
  <2>3. ProposesStill(w)'
    BY <1>1, <1>4, <2>1, <2>2 DEF ProposesStill, Active, Parties
  <2> QED BY <1>1, <1>3, <1>6, <2>3 DEF StillSo
<1>7. CASE x # w
  <2>0. doing'[x] = doing[x] /\ found'[x] = found[x] /\ StillSo(x)
    BY <1>1, <1>7 DEF WarsInv
  <2>1. ASSUME doing[x] = "propose" PROVE ProposesStill(x)'
    <3>1. ProposesStill(x)
      BY <2>0, <2>1 DEF StillSo
    <3>2. Pair(x) \notin rushed' => Pair(x) # pair /\ Pair(x) \notin rushed
      BY <1>2, <2>1
    <3>3. Pair(x)' = Pair(x)
      BY <1>4, <1>7
    <3>4. Pair(x) # pair => \A y \in Officer : doing'[y] = "propose" /\ Pair(y)' = Pair(x) => y # w /\ doing[y] = "propose" /\ Pair(y) = Pair(x)
      BY <1>1, <1>4
    <3>5. \A j \in Fought' : Active(j, found[x].challenger, found[x].defender)' =>
             j \in Fought /\ Active(j, found[x].challenger, found[x].defender)
      BY <1>2, <2>0 DEF Active, Parties
    <3> QED BY <1>2, <2>0, <3>1, <3>2, <3>3, <3>4, <3>5 DEF ProposesStill
  <2>2. ASSUME doing[x] \in Deciding PROVE AnswersStill(x)'
    <3>1. AnswersStill(x)
      BY <2>0, <2>2 DEF StillSo
    <3>2. \A y \in Officer : doing'[y] \in Deciding => y # w /\ doing[y] \in Deciding /\ found'[y] = found[y]
      BY <1>1, <1>3
    <3> QED BY <1>2, <2>0, <3>1, <3>2 DEF AnswersStill, Parties
  <2> QED BY <2>0, <2>1, <2>2 DEF StillSo
<1> QED BY <1>6, <1>7

(* Reading changes no row and no points. *)
LEMMA WarReadsInv ==
  ASSUME WarsInv, NEW w \in Officer, Propose(w) \/ Respond(w) \/ ConcludeWar(w)
  PROVE  WarsInv'
<1>1. PICK to, value :
        /\ Finds(w, to, value) /\ to \in {"propose"} \cup Deciding
        /\ contested \subseteq contested' /\ contested' \subseteq Fought
        /\ rushed \subseteq rushed' /\ rushed' \subseteq SUBSET Side
        /\ \A x \in Officer : StillSo(x)'
  <2>1. CASE Propose(w)
    <3>1. PICK c \in Side, d \in Side :
            /\ c # d /\ (\A i \in Fought : ~Active(i, c, d)) /\ Rush({c, d})
            /\ \E stake \in Stakes(c, d) :
                 Finds(w, "propose", [status |-> "proposed", challenger |-> c, defender |-> d,
                                      stake |-> stake, winner |-> Nothing])
      BY <2>1 DEF Propose
    <3> PICK stake \in Stakes(c, d) :
            Finds(w, "propose", [status |-> "proposed", challenger |-> c, defender |-> d,
                                    stake |-> stake, winner |-> Nothing])
      BY <3>1
    <3> DEFINE row == [status |-> "proposed", challenger |-> c, defender |-> d,
                       stake |-> stake, winner |-> Nothing]
    <3>2. row \in WarRow
      BY StakesArePositive DEF WarRow, Statuses, WarsInv
    <3>3. row.status = "proposed" /\ row.challenger = c /\ row.defender = d
      OBVIOUS
    <3>4. Finds(w, "propose", row)
      OBVIOUS
    <3> HIDE DEF row
    <3>5. /\ doing[w] = "idle" /\ war' = war
          /\ doing' = [doing EXCEPT ![w] = "propose"] /\ found' = [found EXCEPT ![w] = row]
      BY <3>4 DEF Finds, Goes
    <3>6. \A x \in Officer : StillSo(x)'
      BY <3>1, <3>2, <3>3, <3>5, ReadsToPropose
    <3>7. contested' = contested /\ rushed \subseteq rushed' /\ rushed' \subseteq SUBSET Side
      BY <3>1 DEF Rush, WarsInv, WarsTypeOK
    <3> QED BY <3>4, <3>6, <3>7 DEF WarsInv, WarsTypeOK
  <2>2. ASSUME NEW i \in Fought, NEW to \in Deciding, NEW g, Contend(i),
               Finds(w, to, [war |-> i, winner |-> g]),
               to = "conclude" => g \in Parties(i),
               war[i].status = IF to = "conclude" THEN "accepted" ELSE "proposed"
        PROVE  /\ contested \subseteq contested' /\ contested' \subseteq Fought
               /\ rushed \subseteq rushed' /\ rushed' \subseteq SUBSET Side
               /\ \A x \in Officer : StillSo(x)'
    <3>1. /\ doing[w] = "idle" /\ war' = war
          /\ doing' = [doing EXCEPT ![w] = to] /\ found' = [found EXCEPT ![w] = [war |-> i, winner |-> g]]
      BY <2>2 DEF Finds, Goes
    <3>2. \A x \in Officer : StillSo(x)'
      BY <2>2, <3>1, ReadsToAnswer
    <3> QED BY <2>2, <3>2 DEF Contend, WarsInv, WarsTypeOK
  <2>3. CASE Respond(w)
    <3>1. PICK i \in Fought, reply \in {"accept", "reject"} :
            /\ Answerable(i) /\ Contend(i)
            /\ Finds(w, IF i \in lapsed THEN "reject" ELSE reply, [war |-> i, winner |-> Nothing])
      BY <2>3 DEF Respond
    <3>2. PICK to \in {"accept", "reject"} : Finds(w, to, [war |-> i, winner |-> Nothing])
      BY <3>1
    <3>3. war[i].status = "proposed" /\ to \in Deciding /\ to # "conclude"
      BY <3>1 DEF Answerable, Deciding
    <3> QED BY <2>2, <3>1, <3>2, <3>3
  <2>4. CASE ConcludeWar(w)
    <3>1. PICK i \in InStatus("accepted") :
            \E g \in Parties(i) : Contend(i) /\ Finds(w, "conclude", [war |-> i, winner |-> g])
      BY <2>4 DEF ConcludeWar
    <3>2. PICK g \in Parties(i) : Contend(i) /\ Finds(w, "conclude", [war |-> i, winner |-> g])
      BY <3>1
    <3>3. i \in Fought /\ war[i].status = "accepted" /\ "conclude" \in Deciding
      BY DEF InStatus, Deciding
    <3> QED BY <2>2, <3>2, <3>3
  <2> QED BY <2>1, <2>3, <2>4
<1>2. /\ UNCHANGED <<gp, earned, bonuses, disbanded, war, lapsed, paid>>
      /\ doing' = [doing EXCEPT ![w] = to] /\ found' = [found EXCEPT ![w] = value]
  BY <1>1 DEF Finds, Goes, points
<1>3. Fought' = Fought /\ \A i \in War : Parties(i)' = Parties(i)
  BY <1>2 DEF Fought, Parties
<1>4. WarsTypeOK'
  BY <1>1, <1>2, <1>3 DEF WarsInv, WarsTypeOK, Deciding
<1>5. NothingVanishes'
  BY <1>1, <1>2, PotsStay DEF WarsInv, NothingVanishes, AllPoints
<1>6. PaidOnce'
  BY <1>1, <1>2, <1>3 DEF WarsInv, PaidOnce
<1>7. OnePerPair'
  <2>1. UnderWay' = UnderWay /\ UnderWay \subseteq War
    BY <1>2, <1>3 DEF UnderWay, InStatus, Fought
  <2> QED BY <1>1, <1>3, <2>1 DEF WarsInv, OnePerPair
<1>8. found' = [x \in Officer |-> found'[x]]
  BY <1>2, FoundFunction
<1>9. \A i \in War \ Fought' : paid'[i] = 0
  BY <1>2, <1>3 DEF WarsInv
<1> QED BY <1>1, <1>2, <1>4, <1>5, <1>6, <1>7, <1>8, <1>9 DEF WarsInv

(* A request is over. *)
LEMMA WroteIsIdle ==
  ASSUME WarsInv, NEW w \in Officer, NEW from, Writes(w, from)
  PROVE  /\ doing[w] = from /\ doing' \in [Officer -> {"idle", "propose", "accept", "reject", "conclude"}]
         /\ UNCHANGED <<earned, bonuses, disbanded, lapsed, contested, rushed>>
         /\ doing'[w] = "idle" /\ \A x \in Officer \ {w} : doing'[x] = doing[x] /\ found'[x] = found[x]
         /\ found' = [x \in Officer |-> found'[x]]
<1>1. /\ doing' = [doing EXCEPT ![w] = "idle"] /\ doing[w] = from
      /\ found' = [found EXCEPT ![w] = Nothing] /\ UNCHANGED <<earned, bonuses, disbanded, lapsed, contested, rushed>>
  BY DEF Writes, Goes, clashes
<1> QED BY <1>1, FoundFunction DEF WarsInv, WarsTypeOK

(* What the others remember, after a request wrote to war i: their war is   *)
(* another or contested, and no war but i starts or ends being under way.   *)
LEMMA OthersStillSo ==
  ASSUME WarsInv, NEW w \in Officer, NEW from, Writes(w, from), NEW i \in War,
         \A j \in War \ {i} : war'[j] = war[j], Fought \subseteq Fought', Fought' \subseteq Fought \cup {i},
         i \in Fought => Parties(i)' = Parties(i),
         \A x \in Officer \ {w} : doing[x] \in Deciding => found[x].war # i \/ i \in contested,
         \A x \in Officer \ {w} :
           doing[x] = "propose" /\ Pair(x) \notin rushed /\ i \in Fought' \ contested =>
             ~Active(i, found[x].challenger, found[x].defender)'
  PROVE  \A x \in Officer : StillSo(x)'
<1> SUFFICES ASSUME NEW x \in Officer PROVE StillSo(x)'
  OBVIOUS
<1>1. /\ doing'[w] = "idle" /\ \A y \in Officer \ {w} : doing'[y] = doing[y] /\ found'[y] = found[y]
      /\ contested' = contested /\ rushed' = rushed
  BY WroteIsIdle
<1>2. \A j \in Fought : Parties(j)' = Parties(j)
  BY DEF Parties, Fought
<1>3. CASE x = w
  BY <1>1, <1>3 DEF StillSo, Deciding
<1>4. CASE x # w
  <2>0. doing'[x] = doing[x] /\ found'[x] = found[x] /\ StillSo(x)
    BY <1>1, <1>4 DEF WarsInv
  <2>1. ASSUME doing[x] = "propose" PROVE ProposesStill(x)'
    <3>1. ProposesStill(x) /\ Pair(x)' = Pair(x)
      BY <2>0, <2>1 DEF StillSo, Pair
    <3>2. \A y \in Officer : doing'[y] = "propose" => doing[y] = "propose" /\ Pair(y)' = Pair(y)
      BY <1>1 DEF Pair
    <3>3. ASSUME Pair(x) \notin rushed, NEW j \in Fought' \ contested
          PROVE  ~Active(j, found[x].challenger, found[x].defender)'
      <4>1. CASE j = i
        BY <1>4, <2>0, <2>1, <3>3, <4>1
      <4>2. CASE j # i
        <5>1. j \in Fought \ contested /\ war'[j] = war[j] /\ Parties(j)' = Parties(j)
          BY <1>2, <3>3, <4>2 DEF Fought
        <5>2. ~Active(j, found[x].challenger, found[x].defender)
          BY <3>1, <3>3, <5>1 DEF ProposesStill
        <5> QED BY <2>0, <5>1, <5>2 DEF Active
      <4> QED BY <4>1, <4>2
    <3> QED BY <1>1, <2>0, <3>1, <3>2, <3>3 DEF ProposesStill
  <2>2. ASSUME doing[x] \in Deciding PROVE AnswersStill(x)'
    <3>1. AnswersStill(x) /\ (found[x].war # i \/ i \in contested)
      BY <1>4, <2>0, <2>2 DEF StillSo
    <3> PICK k : k = found[x].war
      OBVIOUS
    <3>2. k \in Fought /\ k \in War /\ Parties(k)' = Parties(k)
      BY <1>2, <3>1 DEF AnswersStill, Fought
    <3>3. k \notin contested => war'[k] = war[k]
      BY <3>1, <3>2
    <3>4. \A y \in Officer : doing'[y] \in Deciding => doing[y] \in Deciding /\ found'[y] = found[y]
      BY <1>1 DEF Deciding
    <3> QED BY <1>1, <2>0, <3>1, <3>2, <3>3, <3>4 DEF AnswersStill, Parties
  <2> QED BY <2>0, <2>1, <2>2 DEF StillSo
<1> QED BY <1>3, <1>4

(* The one guild debited has no less than nothing, and what it loses is at *)
(* most the stake.                                                         *)
LEMMA DebitsAtMost ==
  ASSUME NEW f \in [Side -> Nat], NEW g \in Side, NEW stake \in Nat
  PROVE  /\ Debited(f, g, stake) \in [Side -> Nat]
         /\ SumFunctionOnSet(Debited(f, g, stake), Side) >= SumFunctionOnSet(f, Side) - stake
         /\ SumFunctionOnSet(f, Side) \in Int /\ SumFunctionOnSet(Debited(f, g, stake), Side) \in Int
<1> DEFINE h == Debited(f, g, stake)
<1>1. h \in [Side -> Nat] /\ (\A y \in Side \ {g} : h[y] = f[y]) /\ h[g] >= f[g] - stake
  BY DEF Debited
<1>2. h \in [Side -> Int] /\ f \in [Side -> Int] /\ h[g] \in Int /\ f[g] \in Int
  BY <1>1
<1> HIDE DEF h
<1>3. /\ SumFunctionOnSet(h, Side) = SumFunctionOnSet(f, Side) + h[g] - f[g]
      /\ SumFunctionOnSet(f, Side) \in Int /\ SumFunctionOnSet(h, Side) \in Int
  BY <1>1, <1>2, PointsChange
<1>4. SumFunctionOnSet(h, Side) >= SumFunctionOnSet(f, Side) - stake
  BY <1>1, <1>2, <1>3
<1> QED BY <1>1, <1>3, <1>4 DEF h

LEMMA ProposedInv ==
  ASSUME WarsInv, NEW w \in Officer, RecordProposal(w)
  PROVE  WarsInv'
<1> PICK i \in War \ Fought : Writes(w, "propose") /\ war' = [war EXCEPT ![i] = found[w]] /\ UNCHANGED <<gp, paid>>
  BY DEF RecordProposal
<1> DEFINE row == found[w]
<1>0. doing[w] = "propose" /\ ProposesStill(w) /\ WarsTypeOK
  BY WroteIsIdle DEF StillSo, WarsInv
<1>1. /\ row \in WarRow /\ row.status = "proposed" /\ row.challenger # row.defender
      /\ row # Nothing /\ Pair(w) = {row.challenger, row.defender}
      /\ Pair(w) \notin rushed => \A j \in Fought \ contested : ~Active(j, row.challenger, row.defender)
  BY <1>0, WarsAssumption DEF ProposesStill, Pair
<1> HIDE DEF row
<1>2. war'[i] = row /\ \A j \in War \ {i} : war'[j] = war[j]
  BY <1>0 DEF WarsTypeOK, row
<1>3. Fought' = Fought \cup {i} /\ i \notin Fought
  BY <1>1, <1>2 DEF Fought
<1>4. WarsTypeOK'
  <2>1. war' \in [War -> WarRow \cup {Nothing}]
    BY <1>0, <1>1 DEF WarsTypeOK, row
  <2>2. \A j \in Fought' : war'[j].challenger # war'[j].defender
    BY <1>0, <1>1, <1>2, <1>3 DEF WarsTypeOK, Fought
  <2>3. lapsed' \subseteq Fought' /\ contested' \subseteq Fought' /\ rushed' \subseteq SUBSET Side
    BY <1>0, <1>3, WroteIsIdle DEF WarsTypeOK
  <2>4. gp' \in [Side -> Nat] /\ disbanded' \subseteq Side
    BY <1>0, WroteIsIdle DEF WarsTypeOK
  <2> QED BY <2>1, <2>2, <2>3, <2>4, WroteIsIdle DEF WarsTypeOK
<1>5. OnePerPair'
  <2>1. \A j \in Fought : Parties(j)' = Parties(j) /\ war'[j].status = war[j].status /\ j # i
    BY <1>2, <1>3 DEF Parties, Fought
  <2>2. Parties(i)' = Pair(w)
    BY <1>1, <1>2 DEF Parties
  <2>3. Pair(w) \notin rushed => \A j \in UnderWay \ contested : Parties(j) # Pair(w)
    BY <1>1 DEF UnderWay, InStatus, Active
  <2>4. UnderWay' \subseteq UnderWay \cup {i} /\ UnderWay \subseteq Fought
    BY <1>3, <2>1 DEF UnderWay, InStatus
  <2>5. contested' = contested /\ rushed' = rushed /\ OnePerPair
    BY WroteIsIdle DEF WarsInv
  <2>6. ASSUME NEW j \in UnderWay' \ contested', NEW k \in UnderWay' \ contested',
               Parties(j)' = Parties(k)', Parties(j)' \notin rushed'
        PROVE  j = k
    BY <2>1, <2>2, <2>3, <2>4, <2>5, <2>6 DEF OnePerPair
  <2> QED BY <2>6 DEF OnePerPair
<1>6. PaidOnce' /\ (\A j \in War \ Fought' : paid'[j] = 0) /\ paid' \in [War -> Int]
  BY <1>1, <1>2, <1>3, WroteIsIdle DEF WarsInv, PaidOnce, Fought
<1>7. NothingVanishes'
  <2>1. Pot(i) = 0 /\ Pot(i)' = 0
    BY <1>1, <1>2, <1>3 DEF Pot, InStatus
  <2>2. Pots' = Pots + Pot(i)' - Pot(i) /\ Pots \in Int
    BY <1>0, <1>2, <1>4, PotsChange, SumsOfWars DEF WarSums
  <2>3. AllPoints' = AllPoints /\ earned' = earned /\ contested' = contested
    BY WroteIsIdle DEF AllPoints
  <2>4. NothingVanishes
    BY DEF WarsInv
  <2> QED BY <2>1, <2>2, <2>3, <2>4 DEF NothingVanishes
<1>8. \A x \in Officer : StillSo(x)'
  <2>1. \A x \in Officer : doing[x] \in Deciding => found[x].war # i
    BY <1>3 DEF WarsInv, StillSo, AnswersStill
  <2>2. ASSUME NEW x \in Officer \ {w}, doing[x] = "propose", Pair(x) \notin rushed
        PROVE  ~Active(i, found[x].challenger, found[x].defender)'
    <3>1. Pair(x) # Pair(w)
      BY <1>0, <2>2 DEF WarsInv, StillSo, ProposesStill
    <3>2. Parties(i)' = Pair(w) /\ found'[x] = found[x]
      BY <1>1, <1>2, WroteIsIdle DEF Parties
    <3> QED BY <3>1, <3>2 DEF Active, Pair
  <2> QED BY <1>2, <1>3, <2>1, <2>2, OthersStillSo
<1>9. earned' \in Int /\ found' = [x \in Officer |-> found'[x]]
  BY WroteIsIdle DEF WarsInv
<1> QED BY <1>4, <1>5, <1>6, <1>7, <1>8, <1>9 DEF WarsInv

(* An answer, or a victory: one row changes, and stays the same war. *)
RowChanged(i, row) ==
  /\ WarsTypeOK' /\ OnePerPair' /\ Fought' = Fought /\ \A x \in Officer : StillSo(x)'
  /\ war'[i] = row /\ \A j \in War \ {i} : war'[j] = war[j]
  /\ Pots' = Pots + Pot(i)' - Pot(i) /\ Pots \in Int /\ Pots' \in Int
  /\ contested' = contested /\ earned' = earned /\ earned \in Int
  /\ found' = [x \in Officer |-> found'[x]]

LEMMA RowChanges ==
  ASSUME WarsInv, NEW w \in Officer, NEW from \in Deciding, Writes(w, from), NEW i \in Fought,
         found[w].war = i, NEW row \in WarRow, war' = [war EXCEPT ![i] = row],
         row.challenger = war[i].challenger, row.defender = war[i].defender,
         i \notin contested /\ row.status \in {"proposed", "accepted"} =>
           war[i].status \in {"proposed", "accepted"},
         gp' \in [Side -> Nat]
  PROVE  RowChanged(i, row)
<1>0. WarsTypeOK /\ OnePerPair /\ UNCHANGED <<earned, disbanded, lapsed, contested, rushed>> /\ doing[w] = from
      /\ doing' \in [Officer -> {"idle", "propose", "accept", "reject", "conclude"}]
  BY WroteIsIdle DEF WarsInv
<1>1. i \in War /\ war'[i] = row /\ \A j \in War \ {i} : war'[j] = war[j]
  BY <1>0 DEF WarsTypeOK, Fought
<1>2. Fought' = Fought
  BY <1>1, WarsAssumption DEF Fought
<1>3. \A j \in Fought : Parties(j)' = Parties(j)
  BY <1>1 DEF Parties, Fought
<1>4. WarsTypeOK'
  <2>1. war' \in [War -> WarRow \cup {Nothing}]
    BY <1>0 DEF WarsTypeOK
  <2>2. \A j \in Fought' : war'[j].challenger # war'[j].defender
    BY <1>0, <1>1, <1>2 DEF WarsTypeOK, Fought
  <2> QED BY <1>0, <1>2, <2>1, <2>2 DEF WarsTypeOK
<1>5. UnderWay' \ contested \subseteq UnderWay /\ UnderWay \subseteq Fought
  BY <1>1, <1>2 DEF UnderWay, InStatus, Fought
<1>6. OnePerPair'
  BY <1>0, <1>3, <1>5 DEF OnePerPair
<1>7. Pots' = Pots + Pot(i)' - Pot(i)
  BY <1>0, <1>1, <1>4, PotsChange
<1>8. Pots' \in Int
  <2>1. WarsTypeOK' => WarSums'
    BY SumsOfWars, PTL
  <2> QED BY <1>4, <2>1 DEF WarSums
<1>9. \A x \in Officer : StillSo(x)'
  <2>1. ASSUME NEW x \in Officer \ {w}, doing[x] \in Deciding, found[x].war = i
        PROVE  i \in contested
    BY <1>0, <2>1 DEF WarsInv, StillSo, AnswersStill
  <2>2. ASSUME NEW x \in Officer \ {w}, doing[x] = "propose", Pair(x) \notin rushed, i \notin contested
        PROVE  ~Active(i, found[x].challenger, found[x].defender)'
    <3>1. ~Active(i, found[x].challenger, found[x].defender)
      BY <2>2 DEF WarsInv, StillSo, ProposesStill
    <3>2. Parties(i)' = Parties(i) /\ found'[x] = found[x]
          /\ (war'[i].status \in {"proposed", "accepted"} => war[i].status \in {"proposed", "accepted"})
      BY <1>1, <1>3, <2>2, WroteIsIdle
    <3> QED BY <3>1, <3>2 DEF Active
  <2> QED BY <1>1, <1>2, <1>3, <2>1, <2>2, OthersStillSo
<1>10. earned \in Int /\ found' = [x \in Officer |-> found'[x]]
  BY WroteIsIdle DEF WarsInv
<1>11. Pots \in Int
  BY <1>0, SumsOfWars DEF WarSums
<1> QED BY <1>0, <1>1, <1>2, <1>4, <1>6, <1>7, <1>8, <1>9, <1>10, <1>11 DEF RowChanged

LEMMA AcceptedInv ==
  ASSUME WarsInv, NEW w \in Officer, Accept(w)
  PROVE  WarsInv'
<1> PICK i : i = found[w].war
  OBVIOUS
<1> DEFINE stake == war[i].stake
           once  == Debited(gp, war[i].challenger, stake)
           row   == [war[i] EXCEPT !.status = "accepted"]
<1>1. /\ Writes(w, "accept") /\ paid' = paid /\ gp' = Debited(once, war[i].defender, stake)
      /\ war' = [war EXCEPT ![i].status = "accepted"]
  BY DEF Accept
<1>2. WarsTypeOK /\ AnswersStill(w) /\ doing[w] = "accept" /\ "accept" \in Deciding
  BY <1>1, WroteIsIdle DEF StillSo, WarsInv, Deciding
<1>3. i \in Fought /\ i \in War /\ (i \notin contested => war[i].status = "proposed")
  BY <1>2 DEF AnswersStill, Fought
<1>4. war[i] \in WarRow /\ stake \in Nat /\ war[i].challenger \in Side /\ war[i].defender \in Side
  BY <1>2, <1>3 DEF WarsTypeOK, WarRow, Fought
<1>5. row \in WarRow /\ row.status = "accepted" /\ row.stake = stake
      /\ row.challenger = war[i].challenger /\ row.defender = war[i].defender
  BY <1>4 DEF WarRow, Statuses
<1>6. war' = [war EXCEPT ![i] = row]
  BY <1>1
<1>7. gp \in [Side -> Nat] /\ AllPoints = SumFunctionOnSet(gp, Side)
  BY <1>2, SumsOfWars DEF WarSums, WarsTypeOK
<1> HIDE DEF stake, row
<1>8. /\ once \in [Side -> Nat]
      /\ SumFunctionOnSet(once, Side) >= AllPoints - stake
      /\ AllPoints \in Int /\ SumFunctionOnSet(once, Side) \in Int
  BY <1>4, <1>7, DebitsAtMost
<1> HIDE DEF once
<1>9. /\ gp' \in [Side -> Nat]
      /\ SumFunctionOnSet(gp', Side) >= SumFunctionOnSet(once, Side) - stake
      /\ SumFunctionOnSet(gp', Side) \in Int
  BY <1>1, <1>4, <1>8, DebitsAtMost
<1>10. AllPoints' = SumFunctionOnSet(gp', Side)
  BY <1>9 DEF AllPoints, SumFunction
<1>12. RowChanged(i, row)
  BY <1>1, <1>2, <1>3, <1>5, <1>6, <1>9, RowChanges
<1>13. i \notin contested => Pot(i) = 0 /\ Pot(i)' = 2 * stake
  BY <1>3, <1>5, <1>12 DEF Pot, InStatus, RowChanged
<1>14. NothingVanishes'
  <2>1. NothingVanishes
    BY DEF WarsInv
  <2> QED BY <1>4, <1>8, <1>9, <1>10, <1>12, <1>13, <2>1 DEF NothingVanishes, RowChanged
<1>15. PaidOnce' /\ (\A j \in War \ Fought' : paid'[j] = 0) /\ paid' \in [War -> Int]
  BY <1>1, <1>3, <1>5, <1>12 DEF WarsInv, PaidOnce, Fought, RowChanged
<1> QED BY <1>12, <1>14, <1>15 DEF WarsInv, RowChanged

LEMMA RejectedInv ==
  ASSUME WarsInv, NEW w \in Officer, Reject(w)
  PROVE  WarsInv'
<1> PICK i : i = found[w].war
  OBVIOUS
<1> DEFINE row == [war[i] EXCEPT !.status = "rejected"]
<1>1. Writes(w, "reject") /\ UNCHANGED <<paid, gp>> /\ war' = [war EXCEPT ![i].status = "rejected"]
  BY DEF Reject
<1>2. WarsTypeOK /\ AnswersStill(w) /\ doing[w] = "reject" /\ "reject" \in Deciding
  BY <1>1, WroteIsIdle DEF StillSo, WarsInv, Deciding
<1>3. i \in Fought /\ i \in War /\ (i \notin contested => war[i].status = "proposed")
  BY <1>2 DEF AnswersStill, Fought
<1>4. war[i] \in WarRow
  BY <1>2, <1>3 DEF WarsTypeOK, Fought
<1>5. row \in WarRow /\ row.status = "rejected"
      /\ row.challenger = war[i].challenger /\ row.defender = war[i].defender
  BY <1>4 DEF WarRow, Statuses
<1>6. war' = [war EXCEPT ![i] = row]
  BY <1>1
<1>7. gp' \in [Side -> Nat] /\ AllPoints' = AllPoints /\ AllPoints \in Int
  BY <1>1, <1>2, SumsOfWars DEF WarSums, WarsTypeOK, AllPoints
<1> HIDE DEF row
<1>9. RowChanged(i, row)
  BY <1>1, <1>2, <1>3, <1>5, <1>6, <1>7, RowChanges
<1>10. i \notin contested => Pot(i) = 0 /\ Pot(i)' = 0
  BY <1>3, <1>5, <1>9 DEF Pot, InStatus, RowChanged
<1>11. NothingVanishes'
  <2>1. NothingVanishes
    BY DEF WarsInv
  <2> QED BY <1>7, <1>9, <1>10, <2>1 DEF NothingVanishes, RowChanged
<1>12. PaidOnce' /\ (\A j \in War \ Fought' : paid'[j] = 0) /\ paid' \in [War -> Int]
  BY <1>1, <1>3, <1>5, <1>9 DEF WarsInv, PaidOnce, Fought, RowChanged
<1> QED BY <1>9, <1>11, <1>12 DEF WarsInv, RowChanged

LEMMA WonInv ==
  ASSUME WarsInv, NEW w \in Officer, RecordVictory(w)
  PROVE  WarsInv'
<1> PICK i, g : i = found[w].war /\ g = found[w].winner
  OBVIOUS
<1> DEFINE pot == 2 * war[i].stake
           row == [war[i] EXCEPT !.status = "concluded", !.winner = g]
<1>1. /\ Writes(w, "conclude") /\ gp' = [gp EXCEPT ![g] = @ + pot]
      /\ paid' = [paid EXCEPT ![i] = @ + pot]
      /\ war' = [war EXCEPT ![i].status = "concluded", ![i].winner = g]
  BY DEF RecordVictory
<1>2. WarsTypeOK /\ AnswersStill(w) /\ doing[w] = "conclude" /\ "conclude" \in Deciding
  BY <1>1, WroteIsIdle DEF StillSo, WarsInv, Deciding
<1>3. i \in Fought /\ i \in War /\ g \in Parties(i) /\ (i \notin contested => war[i].status = "accepted")
  BY <1>2 DEF AnswersStill, Fought
<1>4. war[i] \in WarRow /\ pot \in Nat /\ g \in Side
  BY <1>2, <1>3 DEF WarsTypeOK, WarRow, Fought, Parties
<1>5. row \in WarRow /\ row.status = "concluded" /\ 2 * row.stake = pot
      /\ row.challenger = war[i].challenger /\ row.defender = war[i].defender
  BY <1>4 DEF WarRow, Statuses
<1>6. war' = [war EXCEPT ![i] = row]
  BY <1>1, <1>2, <1>3 DEF WarsTypeOK
<1>7. gp \in [Side -> Nat] /\ AllPoints = SumFunctionOnSet(gp, Side)
  BY <1>2, SumsOfWars DEF WarSums, WarsTypeOK
<1>8. paid \in [War -> Int] /\ (i \notin contested => paid[i] = 0)
  BY <1>3 DEF PaidOnce, WarsInv
<1>9. i \notin contested => Pot(i) = pot
  BY <1>3 DEF Pot, InStatus
<1> HIDE DEF row, pot
<1>11. gp' \in [Side -> Nat] /\ (\A y \in Side \ {g} : gp'[y] = gp[y]) /\ gp'[g] = gp[g] + pot
  BY <1>1, <1>4, <1>7
<1>12. SumFunctionOnSet(gp', Side) = SumFunctionOnSet(gp, Side) + gp'[g] - gp[g]
       /\ SumFunctionOnSet(gp, Side) \in Int
  <2>1. gp \in [Side -> Int] /\ gp' \in [Side -> Int]
    BY <1>7, <1>11
  <2> QED BY <1>4, <1>11, <2>1, PointsChange
<1>13. AllPoints' = AllPoints + pot /\ AllPoints \in Int
  <2>1. AllPoints' = SumFunctionOnSet(gp', Side)
    BY <1>11 DEF AllPoints, SumFunction
  <2>2. gp[g] \in Int
    BY <1>4, <1>7
  <2> QED BY <1>4, <1>7, <1>11, <1>12, <2>1, <2>2
<1>14. RowChanged(i, row)
  BY <1>1, <1>2, <1>3, <1>5, <1>6, <1>11, RowChanges
<1>15. Pot(i)' = 0
  BY <1>5, <1>14 DEF Pot, InStatus, RowChanged
<1>16. NothingVanishes'
  <2>1. NothingVanishes
    BY DEF WarsInv
  <2> QED BY <1>4, <1>9, <1>13, <1>14, <1>15, <2>1 DEF NothingVanishes, RowChanged
<1>17. paid' \in [War -> Int] /\ (i \notin contested => paid'[i] = pot) /\ \A j \in War \ {i} : paid'[j] = paid[j]
  <2>1. paid' \in [War -> Int] /\ paid'[i] = paid[i] + pot /\ \A j \in War \ {i} : paid'[j] = paid[j]
    BY <1>1, <1>3, <1>4, <1>8
  <2> QED BY <1>4, <1>8, <2>1
<1>18. PaidOnce' /\ \A j \in War \ Fought' : paid'[j] = 0
  BY <1>3, <1>5, <1>14, <1>17 DEF WarsInv, PaidOnce, Fought, RowChanged
<1> QED BY <1>14, <1>16, <1>17, <1>18 DEF WarsInv, RowChanged

(* What no request does: guilds earn points or are disbanded, proposals    *)
(* lapse; and a request is cut off.                                        *)
LEMMA RestOfWarsInv ==
  ASSUME WarsInv, Earn \/ Disband \/ Lapse \/ UNCHANGED warVars
  PROVE  WarsInv'
<1> USE DEF WarsInv
<1>1. /\ UNCHANGED <<war, paid, doing, found, contested, rushed>>
      /\ disbanded' \subseteq Side /\ lapsed' \subseteq Fought
  BY DEF Earn, Disband, Lapse, warVars, points, clashes, WarsTypeOK, InStatus
<1>2. /\ gp' \in [Side -> Nat] /\ earned' \in Int
      /\ AllPoints' - AllPoints = earned' - earned /\ AllPoints \in Int /\ AllPoints' \in Int
  <2>1. gp \in [Side -> Nat] /\ AllPoints = SumFunctionOnSet(gp, Side) /\ AllPoints \in Int
    BY SumsOfWars DEF WarSums, WarsTypeOK
  <2>2. CASE UNCHANGED <<gp, earned>>
    BY <2>1, <2>2 DEF AllPoints
  <2>3. CASE Earn
    <3>1. PICK g \in Side : gp' = [gp EXCEPT ![g] = @ + Bonus] /\ earned' = earned + Bonus
      BY <2>3 DEF Earn
    <3>2. /\ gp' \in [Side -> Nat] /\ (\A y \in Side \ {g} : gp'[y] = gp[y])
          /\ gp'[g] = gp[g] + Bonus /\ gp[g] \in Nat /\ Bonus \in Nat
      BY <2>1, <3>1, WarsAssumption
    <3>3. gp \in [Side -> Int] /\ gp' \in [Side -> Int]
      BY <2>1, <3>2
    <3>4. SumFunctionOnSet(gp', Side) = SumFunctionOnSet(gp, Side) + gp'[g] - gp[g]
      BY <3>2, <3>3, PointsChange
    <3>5. AllPoints' = SumFunctionOnSet(gp', Side)
      BY <3>2 DEF AllPoints, SumFunction
    <3>6. earned \in Int
      OBVIOUS
    <3> HIDE DEF WarsInv
    <3> QED BY <2>1, <3>1, <3>2, <3>4, <3>5, <3>6
  <2> QED BY <2>2, <2>3 DEF Disband, Lapse, warVars, points
<1>3. WarsTypeOK'
  BY <1>1, <1>2 DEF WarsTypeOK, Fought
<1>4. OnePerPair' /\ PaidOnce'
  BY <1>1 DEF OnePerPair, PaidOnce, UnderWay, InStatus, Fought, Parties
<1>5. NothingVanishes'
  <2>1. Pots' = Pots /\ Pots \in Int
    BY <1>1, PotsStay, SumsOfWars DEF WarSums
  <2>2. NothingVanishes /\ earned \in Int
    OBVIOUS
  <2> HIDE DEF WarsInv
  <2>3. ASSUME contested = {} PROVE AllPoints' + Pots' >= earned'
    <3>1. AllPoints + Pots >= earned
      BY <2>2, <2>3 DEF NothingVanishes
    <3>2. /\ AllPoints' - AllPoints = earned' - earned
          /\ AllPoints \in Int /\ AllPoints' \in Int /\ earned \in Int /\ earned' \in Int
          /\ Pots \in Int /\ Pots' = Pots
      BY <1>2, <2>1, <2>2
    <3>3. \A a, b, e, f, p \in Int : b - a = f - e /\ a + p >= e => b + p >= f
      OBVIOUS
    <3> QED BY <3>1, <3>2, <3>3
  <2> QED BY <1>1, <2>3 DEF NothingVanishes
<1>6. ASSUME NEW w \in Officer PROVE StillSo(w)'
  <2> HIDE DEF WarsInv
  <2>1. ProposesStill(w) => ProposesStill(w)'
    BY <1>1 DEF ProposesStill, Pair, Fought, Active, Parties
  <2>2. AnswersStill(w) => AnswersStill(w)'
    BY <1>1 DEF AnswersStill, Fought, Parties
  <2> QED BY <1>1, <2>1, <2>2 DEF StillSo, WarsInv
<1>7. paid' \in [War -> Int] /\ (\A i \in War \ Fought' : paid'[i] = 0) /\ found' = [w \in Officer |-> found'[w]]
  BY <1>1 DEF Fought
<1> HIDE DEF WarsInv
<1> QED BY <1>2, <1>3, <1>4, <1>5, <1>6, <1>7 DEF WarsInv

LEMMA CutOffInv ==
  ASSUME WarsInv, NEW w \in Officer, WarCutOff(w)
  PROVE  WarsInv'
<1>1. Writes(w, doing[w]) /\ UNCHANGED <<gp, war, paid>>
  BY DEF WarCutOff
<1>2. WarsTypeOK'
  BY <1>1, WroteIsIdle DEF WarsInv, WarsTypeOK, Fought
<1>3. OnePerPair' /\ PaidOnce' /\ NothingVanishes'
  BY <1>1, PotsStay, WroteIsIdle
     DEF WarsInv, OnePerPair, PaidOnce, NothingVanishes, AllPoints, UnderWay, InStatus, Fought, Parties
<1>4. \A x \in Officer : StillSo(x)'
  <2> SUFFICES ASSUME NEW x \in Officer PROVE StillSo(x)'
    OBVIOUS
  <2>1. /\ doing'[w] = "idle" /\ \A y \in Officer \ {w} : doing'[y] = doing[y] /\ found'[y] = found[y]
        /\ UNCHANGED <<war, contested, rushed>> /\ StillSo(x)
    BY <1>1, WroteIsIdle DEF WarsInv
  <2>2. \A y \in Officer : doing'[y] # "idle" => y # w /\ doing'[y] = doing[y] /\ found'[y] = found[y]
    BY <2>1
  <2>3. ASSUME doing'[x] = "propose" PROVE ProposesStill(x)'
    <3>1. ProposesStill(x) /\ found'[x] = found[x]
      BY <2>1, <2>2, <2>3 DEF StillSo
    <3>2. \A y \in Officer : doing'[y] = "propose" => doing[y] = "propose" /\ found'[y] = found[y]
      BY <2>2
    <3> QED BY <2>1, <3>1, <3>2 DEF ProposesStill, Pair, Fought, Active, Parties
  <2>4. ASSUME doing'[x] \in Deciding PROVE AnswersStill(x)'
    <3>1. \A y \in Officer : doing'[y] \in Deciding => doing[y] \in Deciding /\ doing'[y] = doing[y] /\ found'[y] = found[y]
      BY <2>2 DEF Deciding
    <3>2. AnswersStill(x) /\ found'[x] = found[x] /\ doing'[x] = doing[x]
      BY <2>1, <2>4, <3>1 DEF StillSo
    <3> QED BY <2>1, <3>1, <3>2 DEF AnswersStill, Fought, Parties
  <2> QED BY <2>3, <2>4 DEF StillSo
<1>5. /\ earned' \in Int /\ found' = [x \in Officer |-> found'[x]]
      /\ paid' \in [War -> Int] /\ \A j \in War \ Fought' : paid'[j] = 0
  BY <1>1, WroteIsIdle DEF WarsInv, Fought
<1> QED BY <1>2, <1>3, <1>4, <1>5 DEF WarsInv

LEMMA WarsInitInv == WarsInit => WarsInv
<1> SUFFICES ASSUME WarsInit PROVE WarsInv
  OBVIOUS
<1> USE DEF WarsInit
<1>1. WarsTypeOK /\ Fought = {}
  BY WarsAssumption DEF WarsTypeOK, Fought
<1>2. Pots = 0
  <2> DEFINE pots == [j \in War |-> Pot(j)]
  <2>1. IsFiniteSet(War) /\ (\A j \in War : pots[j] = 0)
    BY <1>1, WarsAssumption DEF Pot, InStatus
  <2>2. Pots = SumFunctionOnSet(pots, War)
    BY <1>1, SumsOfWars DEF WarSums
  <2> HIDE DEF pots
  <2> QED BY <2>1, <2>2, SumOfZeros
<1>3. AllPoints \in Int
  BY <1>1, SumsOfWars DEF WarSums
<1>4. NothingVanishes /\ earned \in Int
  BY <1>2, <1>3 DEF NothingVanishes
<1>5. OnePerPair /\ PaidOnce
  BY <1>1 DEF OnePerPair, PaidOnce, UnderWay, InStatus
<1>6. \A w \in Officer : StillSo(w)
  BY DEF StillSo, Deciding
<1> QED BY <1>1, <1>4, <1>5, <1>6 DEF WarsInv

LEMMA WarsNextInv == WarsInv /\ [WarsNext]_warVars => WarsInv'
<1> SUFFICES ASSUME WarsInv, [WarsNext]_warVars PROVE WarsInv'
  OBVIOUS
<1>1. ASSUME NEW w \in Officer,
             \/ Propose(w) \/ RecordProposal(w) \/ Respond(w) \/ Accept(w) \/ Reject(w)
             \/ ConcludeWar(w) \/ RecordVictory(w) \/ WarCutOff(w)
      PROVE  WarsInv'
  BY <1>1, WarReadsInv, ProposedInv, AcceptedInv, RejectedInv, WonInv, CutOffInv
<1> QED BY <1>1, RestOfWarsInv DEF WarsNext

(* guild.rs: for any number of requests at the same time, guilds and wars, *)
(* and whatever guilds may stake or earn: no points are lost until two     *)
(* answers to one war overlap; a war whose answers do not overlap pays its *)
(* two stakes once, whatever happens to the others; and two guilds fight   *)
(* one such war at a time, unless two proposals of theirs overlapped.      *)
THEOREM WarsPayFairly == WarsSpec => []WarsAreFair
<1>1. WarsInv => WarsAreFair
  BY DEF WarsInv, WarsAreFair
<1> QED BY <1>1, WarsInitInv, WarsNextInv, PTL DEF WarsSpec

-----------------------------------------------------------------------------
(* Part 5.  A contest's prize.  The book is looked at as a set of postings *)
(* that only grows: each is one the code writes, under a key of its own;   *)
(* what it says of the money follows from sums over it.                    *)

(* What a posting does to an account. *)
Moves(p, account) == Net(p.legs, account)

LEMMA MoveMoves ==
  ASSUME NEW key, NEW from, NEW to, NEW amount \in Nat, NEW a
  PROVE  /\ a = from /\ a # to => Moves(Move(key, from, to, amount), a) = amount
         /\ a = to /\ a # from => Moves(Move(key, from, to, amount), a) = -amount
         /\ a # from /\ a # to => Moves(Move(key, from, to, amount), a) = 0
         /\ Moves(Move(key, from, to, amount), a) \in Int
<1> DEFINE d == Debit(from, amount)
           c == Credit(to, amount)
<1>1. Move(key, from, to, amount).legs = <<d, c>>
  BY DEF Move
<1>2. d.amount = amount /\ c.amount = -amount /\ d.account = from /\ c.account = to
  BY DEF Debit, Credit
<1>3. At(d, a) = (IF from = a THEN amount ELSE 0) /\ At(c, a) = IF to = a THEN -amount ELSE 0
  BY <1>2 DEF At
<1>4. Net(<<d, c>>, a) = At(d, a) + At(c, a)
  BY <1>2, NetOfTwo
<1>5. Moves(Move(key, from, to, amount), a) = Net(<<d, c>>, a)
  BY <1>1 DEF Moves
<1> HIDE DEF d, c
<1> QED BY <1>3, <1>4, <1>5

LEMMA PercentOf ==
  ASSUME NEW amount \in Nat
  PROVE  /\ Percent(amount, 50) \in Nat /\ Percent(amount, 30) \in Nat /\ Percent(amount, 20) \in Nat
         /\ Percent(amount, 50) <= amount
         /\ Percent(amount, 50) + Percent(amount, 30) <= amount
         /\ Percent(amount, 30) + Percent(amount, 20) <= amount
<1>1. ASSUME NEW part \in {50, 30, 20}
      PROVE  /\ Percent(amount, part) \in Nat
             /\ 100 * Percent(amount, part) <= amount * part + 50
  <2>1. CASE part = 50
    BY <2>1 DEF Percent
  <2>2. CASE part = 30
    BY <2>2 DEF Percent
  <2>3. CASE part = 20
    BY <2>3 DEF Percent
  <2> QED BY <2>1, <2>2, <2>3
<1>2. amount < 2 => Percent(amount, 50) = 0 /\ Percent(amount, 30) = 0 /\ Percent(amount, 20) = 0
  <2>1. CASE amount = 0
    BY <2>1 DEF Percent
  <2>2. CASE amount = 1
    BY <2>2 DEF Percent
  <2> QED BY <2>1, <2>2
<1> QED BY <1>1, <1>2

Part(shares, i) == IF i \in DOMAIN shares THEN shares[i] ELSE 0

LEMMA TotalOfThree ==
  ASSUME NEW n \in 0 .. 3, NEW f \in [1 .. n -> Int]
  PROVE  Total(f) = Part(f, 1) + Part(f, 2) + Part(f, 3)
<1> DEFINE D == 1 .. n
<1>0. Total(f) = SumFunctionOnSet(f, D) /\ DOMAIN f = D
  BY DEF Total, SumFunction
<1>1. CASE n = 0
  <2>1. D = {} /\ Part(f, 1) = 0 /\ Part(f, 2) = 0 /\ Part(f, 3) = 0
    BY <1>0, <1>1 DEF Part
  <2> QED BY <1>0, <2>1, SumOfNone
<1>2. CASE n = 1
  <2>1. D = {} \cup {1} /\ Part(f, 1) = f[1] /\ Part(f, 2) = 0 /\ Part(f, 3) = 0 /\ f[1] \in Int
    BY <1>0, <1>2 DEF Part
  <2>2. SumFunctionOnSet(f, {} \cup {1}) = SumFunctionOnSet(f, {}) + f[1]
    BY <2>1, SumAdds, FS_EmptySet
  <2>3. SumFunctionOnSet(f, {}) = 0
    BY SumOfNone
  <2> HIDE DEF D
  <2> QED BY <1>0, <2>1, <2>2, <2>3
<1>3. CASE n = 2
  <2>1. D = {1, 2} /\ 1 # 2 /\ Part(f, 1) = f[1] /\ Part(f, 2) = f[2] /\ Part(f, 3) = 0 /\ f[1] \in Int /\ f[2] \in Int
    BY <1>0, <1>3 DEF Part
  <2>2. SumFunctionOnSet(f, D) = f[1] + f[2]
    <3> HIDE DEF D
    <3> QED BY <2>1, SumOfTwo
  <2> QED BY <1>0, <2>1, <2>2
<1>4. CASE n = 3
  <2>1. /\ D = {1, 2, 3} /\ 1 # 2 /\ 1 # 3 /\ 2 # 3 /\ Part(f, 1) = f[1] /\ Part(f, 2) = f[2] /\ Part(f, 3) = f[3]
        /\ f[1] \in Int /\ f[2] \in Int /\ f[3] \in Int
    BY <1>0, <1>4 DEF Part
  <2>2. SumFunctionOnSet(f, D) = f[1] + f[2] + f[3]
    <3> DEFINE two == {1, 2}
    <3>1. 1 # 2 /\ two = {1, 2} /\ f[1] \in Int /\ f[2] \in Int
      BY <2>1
    <3>2. D = two \cup {3} /\ 3 \notin two /\ \A y \in two \cup {3} : f[y] \in Int
      BY <2>1
    <3> HIDE DEF D, two
    <3>3. IsFiniteSet(two) /\ SumFunctionOnSet(f, two) = f[1] + f[2]
      BY <3>1, SumOfTwo
    <3>4. SumFunctionOnSet(f, D) = SumFunctionOnSet(f, two) + f[3]
      BY <3>2, <3>3, SumAdds
    <3> QED BY <3>3, <3>4
  <2> QED BY <1>0, <2>1, <2>2
<1> QED BY <1>1, <1>2, <1>3, <1>4

LEMMA RoundedIs ==
  ASSUME NEW amount \in Nat, NEW n \in Nat
  PROVE  LET r == Rounded(amount, n) IN
         /\ Least(n, 3) \in 0 .. 3 /\ r \in [1 .. Least(n, 3) -> Nat] /\ Len(r) = Least(n, 3)
         /\ Part(r, 1) = (IF n = 0 THEN 0 ELSE Percent(amount, 50))
         /\ Part(r, 2) = (IF n < 2 THEN 0 ELSE Percent(amount, 30))
         /\ Part(r, 3) = (IF n < 3 THEN 0 ELSE Percent(amount, 20))
<1> DEFINE r == Rounded(amount, n)
           m == Least(n, 3)
<1>1. m \in 0 .. 3 /\ Len(Split) = 3
  BY DEF Least, Split
<1>2. r = [i \in 1 .. m |-> Percent(amount, Split[i])]
  BY <1>1 DEF Rounded
<1>3. Split[1] = 50 /\ Split[2] = 30 /\ Split[3] = 20
  BY DEF Split
<1>4. \A i \in 1 .. 3 : Percent(amount, Split[i]) \in Nat
  <2>1. \A i \in 1 .. 3 : Split[i] \in {50, 30, 20}
    BY <1>3
  <2>2. Percent(amount, 50) \in Nat /\ Percent(amount, 30) \in Nat /\ Percent(amount, 20) \in Nat
    BY PercentOf
  <2> QED BY <2>1, <2>2
<1>5. r \in [1 .. m -> Nat]
  BY <1>1, <1>2, <1>4
<1>6. Len(r) = m
  BY <1>1, <1>5
<1>7. /\ 1 \in 1 .. m <=> n # 0
      /\ 2 \in 1 .. m <=> ~(n < 2)
      /\ 3 \in 1 .. m <=> ~(n < 3)
  BY DEF Least
<1>8. \A i \in 1 .. m : r[i] = Percent(amount, Split[i])
  BY <1>2
<1> HIDE DEF r, m
<1>9. Part(r, 1) = (IF n = 0 THEN 0 ELSE Percent(amount, 50))
  BY <1>3, <1>5, <1>7, <1>8 DEF Part
<1>10. Part(r, 2) = (IF n < 2 THEN 0 ELSE Percent(amount, 30))
  BY <1>3, <1>5, <1>7, <1>8 DEF Part
<1>11. Part(r, 3) = (IF n < 3 THEN 0 ELSE Percent(amount, 20))
  BY <1>3, <1>5, <1>7, <1>8 DEF Part
<1> QED BY <1>1, <1>5, <1>6, <1>9, <1>10, <1>11 DEF r, m

LEMMA SharesAre ==
  ASSUME NEW amount \in Nat, NEW n \in Nat
  PROVE  LET sh == Shares(amount, n) IN
         /\ sh \in [1 .. Least(n, 3) -> Nat] /\ Least(n, 3) \in 0 .. 3
         /\ Unclaimed(amount, n) \in Nat
         /\ Part(sh, 1) + Part(sh, 2) + Part(sh, 3) + Unclaimed(amount, n) = amount
<1> DEFINE r == Rounded(amount, n)
           m == Least(n, 3)
           sh == Shares(amount, n)
<1>1. /\ m \in 0 .. 3 /\ r \in [1 .. m -> Nat] /\ Len(r) = m
      /\ Part(r, 1) = (IF n = 0 THEN 0 ELSE Percent(amount, 50))
      /\ Part(r, 2) = (IF n < 2 THEN 0 ELSE Percent(amount, 30))
      /\ Part(r, 3) = (IF n < 3 THEN 0 ELSE Percent(amount, 20))
  BY RoundedIs
<1>2. /\ Percent(amount, 50) \in Nat /\ Percent(amount, 30) \in Nat /\ Percent(amount, 20) \in Nat
      /\ Percent(amount, 50) <= amount
      /\ Percent(amount, 50) + Percent(amount, 30) <= amount
      /\ Percent(amount, 30) + Percent(amount, 20) <= amount
  BY PercentOf
<1>3. Total(r) = Part(r, 1) + Part(r, 2) + Part(r, 3)
  <2>1. r \in [1 .. m -> Int]
    BY <1>1
  <2> HIDE DEF r, m
  <2> QED BY <1>1, <2>1, TotalOfThree
<1>4. sh = IF m = 3 THEN [r EXCEPT ![1] = @ + amount - Total(r)] ELSE r
  BY <1>1 DEF Shares, Split
<1>5. Unclaimed(amount, n) = amount - Total(sh)
  BY DEF Unclaimed
<1>6. sh \in [1 .. m -> Nat] => Total(sh) = Part(sh, 1) + Part(sh, 2) + Part(sh, 3)
  <2> HAVE sh \in [1 .. m -> Nat]
  <2>1. sh \in [1 .. m -> Int]
    OBVIOUS
  <2> HIDE DEF sh, m
  <2> QED BY <1>1, <2>1, TotalOfThree
<1>7. m = 3 <=> ~(n < 3)
  BY DEF Least
<1> HIDE DEF r, m, sh
<1>8. CASE m = 3
  <2>1. sh = [r EXCEPT ![1] = r[1] + amount - Total(r)]
    BY <1>4, <1>8
  <2>2. /\ r[1] = Percent(amount, 50) /\ r[2] = Percent(amount, 30) /\ r[3] = Percent(amount, 20)
    BY <1>1, <1>7, <1>8 DEF Part
  <2>3. r[1] + amount - Total(r) = amount - Percent(amount, 30) - Percent(amount, 20)
    BY <1>1, <1>2, <1>3, <1>7, <1>8, <2>2
  <2>4. r[1] + amount - Total(r) \in Nat
    BY <1>2, <2>3
  <2>5. sh \in [1 .. m -> Nat]
    BY <1>1, <2>1, <2>4
  <2>6. sh[1] = r[1] + amount - Total(r) /\ sh[2] = r[2] /\ sh[3] = r[3]
    BY <1>1, <1>8, <2>1
  <2>7. Part(sh, 1) = sh[1] /\ Part(sh, 2) = sh[2] /\ Part(sh, 3) = sh[3]
    BY <1>8, <2>5 DEF Part
  <2>8. Total(sh) = amount
    BY <1>2, <1>6, <2>2, <2>3, <2>5, <2>6, <2>7
  <2> QED BY <1>1, <1>5, <1>6, <2>5, <2>8 DEF m, sh
<1>9. CASE m # 3
  <2>1. sh = r
    BY <1>4, <1>9
  <2>2. Total(r) \in Nat /\ Total(r) <= amount
    BY <1>1, <1>2, <1>3, <1>7, <1>9
  <2> QED BY <1>1, <1>3, <1>5, <2>1, <2>2 DEF m, sh
<1> QED BY <1>8, <1>9

-----------------------------------------------------------------------------
(* What a set of postings credits an account with. *)

LEMMA CreditedTo ==
  ASSUME NEW a, NEW S, IsFiniteSet(S), NEW R, S \subseteq R, \A p \in S : Moves(p, a) \in Int
  PROVE  /\ Credited(a, S) = -SumFunctionOnSet([p \in R |-> Moves(p, a)], S)
         /\ Credited(a, S) \in Int
<1> DEFINE f == [p \in S |-> Moves(p, a)]
           g == [p \in R |-> Moves(p, a)]
<1>1. Credited(a, S) = -SumFunctionOnSet(f, S)
  BY DEF Credited, Moves
<1>2. \A p \in S : f[p] = g[p] /\ f[p] \in Int
  OBVIOUS
<1> HIDE DEF f, g
<1>3. SumFunctionOnSet(f, S) = SumFunctionOnSet(g, S)
  BY <1>2, SumsAreEqual
<1>4. SumFunctionOnSet(f, S) \in Int
  BY <1>2, SumIsInt
<1> QED BY <1>1, <1>3, <1>4 DEF g

LEMMA CreditedSplits ==
  ASSUME NEW a, NEW S, IsFiniteSet(S), NEW R, IsFiniteSet(R), R \cap S = {},
         \A p \in R \cup S : Moves(p, a) \in Int
  PROVE  Credited(a, R \cup S) = Credited(a, R) + Credited(a, S)
<1> DEFINE T == R \cup S
           g == [p \in T |-> Moves(p, a)]
<1>1. IsFiniteSet(T) /\ R \subseteq T /\ S \subseteq T /\ \A p \in T : Moves(p, a) \in Int
  BY FS_Union
<1>2. \A p \in R \cup S : g[p] \in Int
  OBVIOUS
<1>3. SumFunctionOnSet(g, R \cup S) = SumFunctionOnSet(g, R) + SumFunctionOnSet(g, S)
  <2> HIDE DEF g, T
  <2> QED BY <1>2, SumSplits
<1>4. /\ Credited(a, T) = -SumFunctionOnSet(g, T)
      /\ Credited(a, R) = -SumFunctionOnSet(g, R) /\ Credited(a, R) \in Int
      /\ Credited(a, S) = -SumFunctionOnSet(g, S) /\ Credited(a, S) \in Int
  <2>1. Credited(a, T) = -SumFunctionOnSet(g, T)
    BY <1>1, CreditedTo
  <2>2. Credited(a, R) = -SumFunctionOnSet(g, R) /\ Credited(a, R) \in Int
    <3>1. \A p \in R : Moves(p, a) \in Int
      OBVIOUS
    <3> HIDE DEF T
    <3> QED BY <1>1, <3>1, CreditedTo
  <2>3. Credited(a, S) = -SumFunctionOnSet(g, S) /\ Credited(a, S) \in Int
    <3>1. \A p \in S : Moves(p, a) \in Int
      OBVIOUS
    <3> HIDE DEF T
    <3> QED BY <1>1, <3>1, CreditedTo
  <2> QED BY <2>1, <2>2, <2>3
<1>5. SumFunctionOnSet(g, R) \in Int /\ SumFunctionOnSet(g, S) \in Int
  <2>1. (\A p \in R : g[p] \in Int) /\ (\A p \in S : g[p] \in Int)
    OBVIOUS
  <2> HIDE DEF g
  <2> QED BY <2>1, SumIsInt
<1> HIDE DEF g
<1> QED BY <1>3, <1>4, <1>5 DEF T

LEMMA CreditedNothing ==
  ASSUME NEW a, NEW S, IsFiniteSet(S), \A p \in S : Moves(p, a) = 0
  PROVE  Credited(a, S) = 0
<1> DEFINE f == [p \in S |-> Moves(p, a)]
<1>1. \A p \in S : f[p] = 0
  OBVIOUS
<1>2. Credited(a, S) = -SumFunctionOnSet(f, S)
  BY DEF Credited, Moves
<1> HIDE DEF f
<1>3. SumFunctionOnSet(f, S) = 0
  BY <1>1, SumOfZeros
<1>4. SumFunctionOnSet(f, S) \in Int
  BY <1>3
<1>5. Credited(a, S) \in Int /\ Credited(a, S) + SumFunctionOnSet(f, S) = 0
  BY <1>2, <1>4
<1> QED BY <1>3, <1>5

LEMMA CreditedByOne ==
  ASSUME NEW a, NEW p, Moves(p, a) \in Int
  PROVE  IsFiniteSet({p}) /\ Credited(a, {p}) = -Moves(p, a)
<1> DEFINE f == [q \in {p} |-> Moves(q, a)]
<1>1. f[p] = Moves(p, a) /\ f[p] \in Int
  OBVIOUS
<1>2. Credited(a, {p}) = -SumFunctionOnSet(f, {p})
  BY DEF Credited, Moves
<1> HIDE DEF f
<1>3. IsFiniteSet({}) /\ {} \cup {p} = {p}
  BY FS_EmptySet
<1>4. SumFunctionOnSet(f, {} \cup {p}) = SumFunctionOnSet(f, {}) + f[p]
  <2>1. p \notin {} /\ \A y \in {} \cup {p} : f[y] \in Int
    BY <1>1
  <2> QED BY <1>3, <2>1, SumAdds
<1>5. SumFunctionOnSet(f, {}) = 0
  BY SumOfNone
<1>6. IsFiniteSet({p})
  BY FS_Singleton
<1> QED BY <1>1, <1>2, <1>3, <1>4, <1>5, <1>6

(* The accounts of a contest are four different ones. *)
LEMMA ApartAccounts ==
  ASSUME NEW u
  PROVE  /\ Held # World /\ Held # Pending(u) /\ World # Pending(u)
         /\ Psp("stripe", "EUR") # Held /\ Psp("stripe", "EUR") # Pending(u)
BY DEF Held, World, Pending, Owed, Psp

LEMMA PendingApart ==
  ASSUME NEW u, NEW v, Pending(u) = Pending(v)
  PROVE  u = v
BY DEF Pending, Owed

(* What each posting does to the escrow account and to what is owed.       *)
LEMMA EachMoves ==
  ASSUME NEW u, NEW amount \in Nat
  PROVE  /\ Moves(Deposit(amount), Held) = -amount
         /\ Moves(Deposit(amount), Pending(u)) = 0
         /\ \A r : /\ Moves(Return(r, amount), Held) = amount
                   /\ Moves(Return(r, amount), Pending(u)) = 0
         /\ \A i, v : /\ Moves(Award(i, v, amount), Held) = amount
                      /\ Moves(Award(i, v, amount), Pending(u)) = (IF v = u THEN -amount ELSE 0)
         /\ \A v : /\ Moves(Seizure(v, amount), Held) = -amount
                   /\ Moves(Seizure(v, amount), Pending(u)) = (IF v = u THEN amount ELSE 0)
<1>1. /\ Moves(Deposit(amount), Held) = -amount
      /\ Moves(Deposit(amount), Pending(u)) = 0
  BY MoveMoves, ApartAccounts DEF Deposit
<1>2. ASSUME NEW r
      PROVE  /\ Moves(Return(r, amount), Held) = amount
             /\ Moves(Return(r, amount), Pending(u)) = 0
  BY MoveMoves, ApartAccounts DEF Return
<1>3. ASSUME NEW i, NEW v
      PROVE  /\ Moves(Award(i, v, amount), Held) = amount
             /\ Moves(Award(i, v, amount), Pending(u)) = (IF v = u THEN -amount ELSE 0)
  <2>1. Moves(Award(i, v, amount), Held) = amount
    BY MoveMoves, ApartAccounts DEF Award
  <2>2. v = u => Moves(Award(i, v, amount), Pending(u)) = -amount
    BY MoveMoves, ApartAccounts DEF Award
  <2>3. v # u => Moves(Award(i, v, amount), Pending(u)) = 0
    BY MoveMoves, ApartAccounts, PendingApart DEF Award
  <2> QED BY <2>1, <2>2, <2>3
<1>4. ASSUME NEW v
      PROVE  /\ Moves(Seizure(v, amount), Held) = -amount
             /\ Moves(Seizure(v, amount), Pending(u)) = (IF v = u THEN amount ELSE 0)
  <2>1. Moves(Seizure(v, amount), Held) = -amount
    BY MoveMoves, ApartAccounts DEF Seizure
  <2>2. v = u => Moves(Seizure(v, amount), Pending(u)) = amount
    BY MoveMoves, ApartAccounts DEF Seizure
  <2>3. v # u => Moves(Seizure(v, amount), Pending(u)) = 0
    BY MoveMoves, ApartAccounts, PendingApart DEF Seizure
  <2> QED BY <2>1, <2>2, <2>3
<1> QED BY <1>1, <1>2, <1>3, <1>4, Zenon

LEMMA SumNotPositive ==
  ASSUME NEW f, NEW S, IsFiniteSet(S), \A x \in S : f[x] \in Int /\ f[x] <= 0
  PROVE  SumFunctionOnSet(f, S) \in Int /\ SumFunctionOnSet(f, S) <= 0
<1>0. ASSUME NEW y \in SUBSET S
      PROVE  IsFiniteSet(y) /\ SumFunctionOnSet(f, y) \in Int
  BY FS_Subset, SumIsInt
<1> DEFINE Bad == {y \in SUBSET S : ~(SumFunctionOnSet(f, y) <= 0)}
<1> SUFFICES ASSUME Bad # {} PROVE FALSE
  BY <1>0
<1> PICK m \in Bad : \A y \in Bad : ~(y \subseteq m /\ y # m)
  <2> Bad \subseteq SUBSET S
    OBVIOUS
  <2> HIDE DEF Bad
  <2> QED BY SmallestSubset
<1>1. IsFiniteSet(m) /\ m \in SUBSET S /\ ~(SumFunctionOnSet(f, m) <= 0)
  BY <1>0
<1>2. m # {}
  <2>1. 0 <= 0
    OBVIOUS
  <2> QED BY <1>1, <2>1, SumOfNone
<1>3. PICK x \in m : TRUE
  BY <1>2
<1>4. SumFunctionOnSet(f, m) = f[x] + SumFunctionOnSet(f, m \ {x})
  <2>1. \A y \in m : f[y] \in Int
    BY <1>1
  <2> HIDE DEF Bad
  <2> QED BY <1>1, <2>1, SumTakes
<1>5. m \ {x} \in SUBSET S /\ m \ {x} \notin Bad
  BY <1>3, <1>1
<1>6. SumFunctionOnSet(f, m \ {x}) \in Int /\ SumFunctionOnSet(f, m \ {x}) <= 0
  BY <1>0, <1>5
<1>7. f[x] \in Int /\ f[x] <= 0 /\ SumFunctionOnSet(f, m) \in Int
  BY <1>0, <1>1, <1>3
<1> HIDE DEF Bad
<1> QED BY <1>1, <1>4, <1>6, <1>7

LEMMA CreditedIsNat ==
  ASSUME NEW a, NEW S, IsFiniteSet(S), \A p \in S : Moves(p, a) \in Int /\ Moves(p, a) <= 0
  PROVE  Credited(a, S) \in Nat
<1> DEFINE f == [p \in S |-> Net(p.legs, a)]
<1>1. \A p \in S : f[p] \in Int /\ f[p] <= 0
  BY DEF Moves
<1>2. Credited(a, S) = -SumFunctionOnSet(f, S)
  BY DEF Credited
<1> HIDE DEF f
<1>3. SumFunctionOnSet(f, S) \in Int /\ SumFunctionOnSet(f, S) <= 0
  BY <1>1, SumNotPositive
<1> QED BY <1>2, <1>3

-----------------------------------------------------------------------------
(* The book of a contest, as a set of postings. *)

KeyOf(p) == p.key
Kind(p)  == p.key[1]
Why(p)   == p.key[2]

LEMMA KindsOf ==
  ASSUME NEW amount, NEW r, NEW i, NEW u
  PROVE  /\ KeyOf(Deposit(amount)) = <<"prize_escrow">> /\ Kind(Deposit(amount)) = "prize_escrow"
         /\ KeyOf(Return(r, amount)) = <<"prize_refund", r>>
         /\ Kind(Return(r, amount)) = "prize_refund" /\ Why(Return(r, amount)) = r
         /\ KeyOf(Award(i, u, amount)) = <<"prize_award", i>>
         /\ Kind(Award(i, u, amount)) = "prize_award" /\ Why(Award(i, u, amount)) = i
         /\ KeyOf(Seizure(u, amount)) = <<"prize_confiscated", u>>
         /\ Kind(Seizure(u, amount)) = "prize_confiscated" /\ Why(Seizure(u, amount)) = u
BY DEF Deposit, Return, Award, Seizure, Move, KeyOf, Kind, Why

LEMMA SameKeySameKind ==
  ASSUME NEW p, NEW q, KeyOf(p) = KeyOf(q)
  PROVE  Kind(p) = Kind(q) /\ Why(p) = Why(q)
BY DEF KeyOf, Kind, Why

(* What the book pays a podium: the shares of the places taken, and what   *)
(* goes back for the others.                                               *)
AwardsOf(amount, podium) ==
  {Award(i, podium[i], Shares(amount, Len(podium))[i]) :
     i \in {j \in DOMAIN Shares(amount, Len(podium)) : Shares(amount, Len(podium))[j] # 0}}
LeftoverOf(amount, podium) ==
  IF Unclaimed(amount, Len(podium)) > 0
  THEN {Return("unclaimed_place", Unclaimed(amount, Len(podium)))} ELSE {}
PayOf(amount, podium) == AwardsOf(amount, podium) \cup LeftoverOf(amount, podium)

IsAward(p)  == \E i, u : \E share \in Nat : p = Award(i, u, share)
IsReturn(p) == \E r : \E amount \in Nat : p = Return(r, amount)

(* The winner of the i-th place. *)
One(amount, podium, i) ==
  LET shares == Shares(amount, Len(podium))
  IN  IF i \in DOMAIN shares /\ shares[i] # 0 THEN {Award(i, podium[i], shares[i])} ELSE {}

LEMMA OneIs ==
  ASSUME NEW amount \in Nat, NEW podium, Len(podium) \in Nat, NEW i \in 1 .. 3
  PROVE  LET s == One(amount, podium, i) IN
         /\ IsFiniteSet(s)
         /\ \A p \in s : /\ IsAward(p) /\ KeyOf(p) = <<"prize_award", i>> /\ Kind(p) = "prize_award" /\ Why(p) = i
                         /\ \A a : Moves(p, a) \in Int
         /\ Credited(Held, s) = -Part(Shares(amount, Len(podium)), i)
         /\ Part(Shares(amount, Len(podium)), i) \in Nat
<1> DEFINE s == One(amount, podium, i)
           shares == Shares(amount, Len(podium))
<1>0. shares \in [1 .. Least(Len(podium), 3) -> Nat]
  BY SharesAre
<1>1. CASE i \in DOMAIN shares /\ shares[i] # 0
  <2>1. s = {Award(i, podium[i], shares[i])} /\ shares[i] \in Nat /\ Part(shares, i) = shares[i]
    BY <1>0, <1>1 DEF One, Part
  <2> DEFINE p == Award(i, podium[i], shares[i])
  <2>2. IsAward(p) /\ \A a : Moves(p, a) \in Int
    BY <2>1, MoveMoves DEF IsAward, Award
  <2>3. Moves(p, Held) = shares[i]
    BY <2>1, EachMoves
  <2>4. IsFiniteSet({p}) /\ Credited(Held, {p}) = -Moves(p, Held)
    <3> HIDE DEF p
    <3> QED BY <2>2, CreditedByOne
  <2>5. KeyOf(p) = <<"prize_award", i>> /\ Kind(p) = "prize_award" /\ Why(p) = i
    BY KindsOf
  <2> HIDE DEF p
  <2> QED BY <2>1, <2>2, <2>3, <2>4, <2>5 DEF p
<1>2. CASE ~(i \in DOMAIN shares /\ shares[i] # 0)
  <2>1. s = {} /\ Part(shares, i) = 0
    BY <1>0, <1>2 DEF One, Part
  <2>2. IsFiniteSet({}) /\ Credited(Held, {}) = 0
    BY CreditedNothing, FS_EmptySet
  <2> QED BY <2>1, <2>2
<1> QED BY <1>1, <1>2

PaysPodium(p) == \/ IsAward(p) /\ Kind(p) = "prize_award"
                 \/ IsReturn(p) /\ Kind(p) = "prize_refund" /\ Why(p) = "unclaimed_place"

LEMMA PayIs ==
  ASSUME NEW amount \in Nat, NEW podium, Len(podium) \in Nat
  PROVE  LET ps == PayOf(amount, podium) IN
         /\ IsFiniteSet(ps)
         /\ Credited(Held, ps) = -amount
         /\ \A p \in ps : /\ PaysPodium(p)
                          /\ \A a : Moves(p, a) \in Int
         /\ \A p, q \in ps : KeyOf(p) = KeyOf(q) => p = q
<1> DEFINE n == Len(podium)
           shares == Shares(amount, n)
           rest == Unclaimed(amount, n)
           o1 == One(amount, podium, 1)
           o2 == One(amount, podium, 2)
           o3 == One(amount, podium, 3)
           lo == LeftoverOf(amount, podium)
           good(s, i) == /\ IsFiniteSet(s)
                         /\ \A p \in s : /\ IsAward(p) /\ KeyOf(p) = <<"prize_award", i>> /\ Kind(p) = "prize_award" /\ Why(p) = i
                                         /\ \A a : Moves(p, a) \in Int
                         /\ Credited(Held, s) = -Part(shares, i)
                         /\ Part(shares, i) \in Nat
<1>1. /\ shares \in [1 .. Least(n, 3) -> Nat] /\ Least(n, 3) \in 0 .. 3
      /\ rest \in Nat
      /\ Part(shares, 1) + Part(shares, 2) + Part(shares, 3) + rest = amount
  BY SharesAre
<1>2. good(o1, 1) /\ good(o2, 2) /\ good(o3, 3)
  <2>1. 1 \in 1 .. 3 /\ 2 \in 1 .. 3 /\ 3 \in 1 .. 3
    OBVIOUS
  <2>2. good(o1, 1)
    BY <2>1, OneIs
  <2>3. good(o2, 2)
    BY <2>1, OneIs
  <2>4. good(o3, 3)
    BY <2>1, OneIs
  <2> QED BY <2>2, <2>3, <2>4
<1>3. AwardsOf(amount, podium) = (o1 \cup o2) \cup o3
  <2>1. DOMAIN shares \subseteq {1, 2, 3}
    BY <1>1
  <2>2. ASSUME NEW p \in AwardsOf(amount, podium) PROVE p \in (o1 \cup o2) \cup o3
    <3> PICK i \in DOMAIN shares : shares[i] # 0 /\ p = Award(i, podium[i], shares[i])
      BY DEF AwardsOf
    <3>1. p \in One(amount, podium, i)
      BY DEF One
    <3>2. i = 1 \/ i = 2 \/ i = 3
      BY <2>1
    <3> QED BY <3>1, <3>2
  <2>3. ASSUME NEW i, NEW p \in One(amount, podium, i) PROVE p \in AwardsOf(amount, podium)
    BY DEF One, AwardsOf
  <2> QED BY <2>2, <2>3
<1>4. /\ IsFiniteSet(lo)
      /\ \A p \in lo : /\ IsReturn(p) /\ KeyOf(p) = <<"prize_refund", "unclaimed_place">>
                       /\ Kind(p) = "prize_refund" /\ Why(p) = "unclaimed_place"
                       /\ \A a : Moves(p, a) \in Int
      /\ Credited(Held, lo) = -rest
      /\ \A p, q \in lo : p = q
  <2>1. CASE rest > 0
    <3> DEFINE p == Return("unclaimed_place", rest)
    <3>1. lo = {p}
      BY <2>1 DEF LeftoverOf
    <3>2. IsReturn(p) /\ \A a : Moves(p, a) \in Int
      BY <1>1, MoveMoves DEF IsReturn, Return
    <3>3. Moves(p, Held) = rest
      BY <1>1, EachMoves
    <3>4. IsFiniteSet({p}) /\ Credited(Held, {p}) = -Moves(p, Held)
      <4> HIDE DEF p
      <4> QED BY <3>2, CreditedByOne
    <3>5. KeyOf(p) = <<"prize_refund", "unclaimed_place">> /\ Kind(p) = "prize_refund" /\ Why(p) = "unclaimed_place"
      BY KindsOf
    <3> HIDE DEF p, lo
    <3> QED BY <3>1, <3>2, <3>3, <3>4, <3>5
  <2>2. CASE ~(rest > 0)
    <3>1. lo = {} /\ rest = 0
      BY <1>1, <2>2 DEF LeftoverOf
    <3>2. IsFiniteSet({}) /\ Credited(Held, {}) = 0
      BY CreditedNothing, FS_EmptySet
    <3> QED BY <3>1, <3>2
  <2> QED BY <2>1, <2>2
<1> DEFINE a1 == o1 \cup o2
           a2 == a1 \cup o3
<1>5. PayOf(amount, podium) = a2 \cup lo
  BY <1>3 DEF PayOf
<1> HIDE DEF o1, o2, o3, lo, shares, rest
<1>6. /\ \A p \in o1, q \in o2 : p # q
      /\ \A p \in a1, q \in o3 : p # q
      /\ \A p \in a2, q \in lo : p # q
  <2>1. /\ \A v \in o1 : Kind(v) = "prize_award" /\ Why(v) = 1
        /\ \A v \in o2 : Kind(v) = "prize_award" /\ Why(v) = 2
        /\ \A v \in o3 : Kind(v) = "prize_award" /\ Why(v) = 3
    BY <1>2
  <2>2. \A v \in lo : Kind(v) = "prize_refund"
    BY <1>4
  <2> QED BY <2>1, <2>2
<1>7. Credited(Held, a1) = Credited(Held, o1) + Credited(Held, o2) /\ IsFiniteSet(a1)
  <2>1. o1 \cap o2 = {} /\ \A p \in o1 \cup o2 : Moves(p, Held) \in Int
    BY <1>2, <1>6
  <2>2. Credited(Held, a1) = Credited(Held, o1) + Credited(Held, o2)
    BY <1>2, <2>1, CreditedSplits
  <2>3. IsFiniteSet(a1)
    BY <1>2, FS_Union
  <2> QED BY <2>2, <2>3
<1>8. Credited(Held, a2) = Credited(Held, a1) + Credited(Held, o3) /\ IsFiniteSet(a2)
  <2>1. a1 \cap o3 = {} /\ \A p \in a1 \cup o3 : Moves(p, Held) \in Int
    BY <1>2, <1>6
  <2> HIDE DEF a1
  <2>2. Credited(Held, a2) = Credited(Held, a1) + Credited(Held, o3)
    BY <1>2, <1>7, <2>1, CreditedSplits
  <2>3. IsFiniteSet(a2)
    BY <1>2, <1>7, FS_Union
  <2> QED BY <2>2, <2>3
<1>9. Credited(Held, a2 \cup lo) = Credited(Held, a2) + Credited(Held, lo) /\ IsFiniteSet(a2 \cup lo)
  <2>1. a2 \cap lo = {} /\ \A p \in a2 \cup lo : Moves(p, Held) \in Int
    BY <1>2, <1>4, <1>6
  <2> HIDE DEF a2
  <2>2. Credited(Held, a2 \cup lo) = Credited(Held, a2) + Credited(Held, lo)
    BY <1>4, <1>8, <2>1, CreditedSplits
  <2>3. IsFiniteSet(a2 \cup lo)
    BY <1>4, <1>8, FS_Union
  <2> QED BY <2>2, <2>3
<1>10. Credited(Held, a2 \cup lo) = -amount
  <2>1. /\ Part(shares, 1) \in Nat /\ Part(shares, 2) \in Nat /\ Part(shares, 3) \in Nat /\ rest \in Nat
        /\ Part(shares, 1) + Part(shares, 2) + Part(shares, 3) + rest = amount
    BY <1>1, <1>2
  <2>2. Credited(Held, a2 \cup lo) = (((-Part(shares, 1)) + (-Part(shares, 2))) + (-Part(shares, 3))) + (-rest)
    <3> HIDE DEF a1, a2, good
    <3>1. /\ Credited(Held, o1) = -Part(shares, 1)
          /\ Credited(Held, o2) = -Part(shares, 2)
          /\ Credited(Held, o3) = -Part(shares, 3)
          /\ Credited(Held, lo) = -rest
      BY <1>2, <1>4 DEF good
    <3> QED BY <1>7, <1>8, <1>9, <3>1
  <2>3. PICK x, p1, p2, p3, p4 :
          /\ x = Credited(Held, a2 \cup lo)
          /\ p1 = Part(shares, 1) /\ p2 = Part(shares, 2) /\ p3 = Part(shares, 3) /\ p4 = rest
    OBVIOUS
  <2>4. /\ p1 \in Nat /\ p2 \in Nat /\ p3 \in Nat /\ p4 \in Nat
        /\ p1 + p2 + p3 + p4 = amount
    BY <2>1, <2>3
  <2>5. x = (((-p1) + (-p2)) + (-p3)) + (-p4)
    BY <2>2, <2>3
  <2>6. x = -(p1 + p2 + p3 + p4)
    BY <2>4, <2>5
  <2>7. x = -amount
    BY <2>4, <2>6
  <2> QED BY <2>3, <2>7
<1>11. \A p \in a2 \cup lo : /\ PaysPodium(p)
                             /\ \A a : Moves(p, a) \in Int
  <2>1. \A p \in o1 : IsAward(p) /\ Kind(p) = "prize_award" /\ \A a : Moves(p, a) \in Int
    BY <1>2
  <2>2. \A p \in o2 : IsAward(p) /\ Kind(p) = "prize_award" /\ \A a : Moves(p, a) \in Int
    BY <1>2
  <2>3. \A p \in o3 : IsAward(p) /\ Kind(p) = "prize_award" /\ \A a : Moves(p, a) \in Int
    BY <1>2
  <2>4. \A p \in lo : /\ IsReturn(p) /\ Kind(p) = "prize_refund" /\ Why(p) = "unclaimed_place"
                      /\ \A a : Moves(p, a) \in Int
    BY <1>4
  <2> QED BY <2>1, <2>2, <2>3, <2>4 DEF PaysPodium
<1>12. ASSUME NEW p \in a2 \cup lo, NEW q \in a2 \cup lo, KeyOf(p) = KeyOf(q) PROVE p = q
  <2>1. Kind(p) = Kind(q) /\ Why(p) = Why(q)
    BY <1>12, SameKeySameKind
  <2>2. /\ \A v \in o1 : Kind(v) = "prize_award" /\ Why(v) = 1
        /\ \A v \in o2 : Kind(v) = "prize_award" /\ Why(v) = 2
        /\ \A v \in o3 : Kind(v) = "prize_award" /\ Why(v) = 3
        /\ \A v \in lo : Kind(v) = "prize_refund"
    BY <1>2, <1>4
  <2>3. /\ \A v, x \in o1 : v = x
        /\ \A v, x \in o2 : v = x
        /\ \A v, x \in o3 : v = x
        /\ \A v, x \in lo : v = x
    BY <1>4 DEF o1, o2, o3, One
  <2> QED BY <1>12, <2>1, <2>2, <2>3
<1> HIDE DEF a2
<1> QED BY <1>5, <1>9, <1>10, <1>11, <1>12

(* Two podiums of one size are paid under the same keys. *)
LEMMA PayKeys ==
  ASSUME NEW amount, NEW podium, NEW other, Len(podium) = Len(other), NEW p \in PayOf(amount, podium)
  PROVE  \E q \in PayOf(amount, other) : KeyOf(q) = KeyOf(p)
<1> DEFINE shares == Shares(amount, Len(other))
<1>1. CASE p \in AwardsOf(amount, podium)
  <2> PICK i \in DOMAIN shares : shares[i] # 0 /\ p = Award(i, podium[i], shares[i])
    BY <1>1 DEF AwardsOf
  <2> DEFINE q == Award(i, other[i], shares[i])
  <2>1. q \in AwardsOf(amount, other)
    BY DEF AwardsOf
  <2>2. KeyOf(q) = KeyOf(p)
    BY KindsOf
  <2> QED BY <2>1, <2>2 DEF PayOf
<1>2. CASE p \in LeftoverOf(amount, podium)
  BY <1>2 DEF LeftoverOf, PayOf
<1> QED BY <1>1, <1>2 DEF PayOf

(* The postings of one kind in the book j, what it awarded to u, and what  *)
(* it paid for the conclusion.                                             *)
KindIn(j, kind)  == {p \in j : Kind(p) = kind}
AwardedIn(j, u)  == Credited(Pending(u), KindIn(j, "prize_award"))
PaidIn(j)        == KindIn(j, "prize_award") \cup {p \in KindIn(j, "prize_refund") : Why(p) = "unclaimed_place"}

(* Requests followed each other, or wrote podiums of one size only.        *)
Single(cr, pods) == ~cr \/ Cardinality(pods) <= 1

(* What is taken from u, or about to be: all that u was awarded, unless    *)
(* some of it came later.                                                  *)
Owes(j, cr, pods, u, amount) ==
  /\ amount \in Nat \ {0} /\ amount <= AwardedIn(j, u)
  /\ Single(cr, pods) => amount = AwardedIn(j, u)

IsSeizure(p, j, cond, cr, pods) ==
  \E u \in cond : \E amount \in Nat : p = Seizure(u, amount) /\ Owes(j, cr, pods, u, amount)

Sanctioned(p, j, pz, cond, cr, pods) ==
  p = Deposit(pz) \/ IsAward(p) \/ IsReturn(p) \/ IsSeizure(p, j, cond, cr, pods)

PaysOnce(j, pz, pods) ==
  PaidIn(j) = {} \/ \E podium : Len(podium) \in pods /\ PaidIn(j) = PayOf(pz, podium)

(* The book of a contest whose escrow says es.                             *)
GoodBooks(j, es, pz, cond, cr, pods) ==
  /\ IsFiniteSet(j) /\ IsFiniteSet(pods) /\ pods \subseteq Nat
  /\ \A p \in j : Sanctioned(p, j, pz, cond, cr, pods)
  /\ \A p, q \in j : KeyOf(p) = KeyOf(q) => p = q
  /\ es = "none" => j = {} /\ pz = 0
  /\ es # "none" => pz \in Sums /\ Deposit(pz) \in j
  /\ Single(cr, pods) => PaysOnce(j, pz, pods)

LEMMA AwardMoves ==
  ASSUME NEW p, IsAward(p), NEW u
  PROVE  Moves(p, Pending(u)) \in Int /\ Moves(p, Pending(u)) <= 0
<1>1. PICK i, v : \E share \in Nat : p = Award(i, v, share)
  BY DEF IsAward
<1>2. PICK share \in Nat : p = Award(i, v, share)
  BY <1>1
<1>3. Moves(p, Pending(u)) = IF v = u THEN -share ELSE 0
  BY <1>2, EachMoves
<1> QED BY <1>3

(* Awards only add to what was awarded. *)
LEMMA AwardedGrows ==
  ASSUME NEW j, IsFiniteSet(j), NEW k, IsFiniteSet(k), j \subseteq k,
         \A p \in k : Kind(p) = "prize_award" => IsAward(p), NEW u
  PROVE  AwardedIn(j, u) \in Nat /\ AwardedIn(k, u) \in Nat /\ AwardedIn(j, u) <= AwardedIn(k, u)
<1> DEFINE old == KindIn(j, "prize_award")
           all == KindIn(k, "prize_award")
           new == all \ old
           a == Pending(u)
<1>1. old \subseteq all /\ all \subseteq k /\ new \subseteq k /\ old \cap new = {} /\ all = old \cup new
  BY DEF KindIn
<1>2. IsFiniteSet(old) /\ IsFiniteSet(all) /\ IsFiniteSet(new)
  BY <1>1, FS_Subset
<1>3. \A p \in all : Moves(p, a) \in Int /\ Moves(p, a) <= 0
  BY AwardMoves DEF KindIn
<1>4. AwardedIn(j, u) = Credited(a, old) /\ AwardedIn(k, u) = Credited(a, all)
  BY DEF AwardedIn
<1> HIDE DEF old, all, new, a
<1>5. /\ \A p \in old : Moves(p, a) \in Int /\ Moves(p, a) <= 0
      /\ \A p \in new : Moves(p, a) \in Int /\ Moves(p, a) <= 0
  BY <1>1, <1>3
<1>6. Credited(a, old) \in Nat /\ Credited(a, new) \in Nat /\ Credited(a, all) \in Nat
  BY <1>2, <1>3, <1>5, CreditedIsNat
<1>7. Credited(a, all) = Credited(a, old) + Credited(a, new)
  <2>1. \A p \in old \cup new : Moves(p, a) \in Int
    BY <1>5
  <2>2. Credited(a, old \cup new) = Credited(a, old) + Credited(a, new)
    BY <1>1, <1>2, <2>1, CreditedSplits
  <2> QED BY <1>1, <2>2
<1> QED BY <1>4, <1>6, <1>7

(* What a sanctioned posting is shows in its kind. *)
LEMMA ByKind ==
  ASSUME NEW p, NEW j, NEW pz, NEW cond, NEW cr, NEW pods, Sanctioned(p, j, pz, cond, cr, pods)
  PROVE  /\ Kind(p) \in {"prize_escrow", "prize_award", "prize_refund", "prize_confiscated"}
         /\ Kind(p) = "prize_escrow" => p = Deposit(pz)
         /\ Kind(p) = "prize_award" => IsAward(p)
         /\ Kind(p) = "prize_refund" => IsReturn(p)
         /\ Kind(p) = "prize_confiscated" => IsSeizure(p, j, cond, cr, pods)
<1>1. p = Deposit(pz) => Kind(p) = "prize_escrow"
  BY KindsOf
<1>2. IsAward(p) => Kind(p) = "prize_award"
  BY KindsOf DEF IsAward
<1>3. IsReturn(p) => Kind(p) = "prize_refund"
  BY KindsOf DEF IsReturn
<1>4. IsSeizure(p, j, cond, cr, pods) => Kind(p) = "prize_confiscated"
  BY KindsOf DEF IsSeizure
<1> QED BY <1>1, <1>2, <1>3, <1>4 DEF Sanctioned

(* Later books: more condemned, more podiums. *)
LEMMA SingleBefore ==
  ASSUME NEW cr, NEW pods, NEW crr, NEW podss, IsFiniteSet(podss), pods \subseteq podss, cr => crr,
         Single(crr, podss)
  PROVE  Single(cr, pods)
<1>1. IsFiniteSet(pods) /\ Cardinality(pods) <= Cardinality(podss) /\ Cardinality(pods) \in Nat /\ Cardinality(podss) \in Nat
  BY FS_Subset, FS_CardinalityType
<1> QED BY <1>1 DEF Single

LEMMA OwesLater ==
  ASSUME NEW j, NEW cr, NEW pods, NEW crr, NEW podss, IsFiniteSet(podss), pods \subseteq podss, cr => crr,
         NEW u, NEW amount, Owes(j, cr, pods, u, amount)
  PROVE  Owes(j, crr, podss, u, amount)
BY SingleBefore DEF Owes

LEMMA BooksLater ==
  ASSUME NEW j, NEW es, NEW pz, NEW cond, NEW cr, NEW pods, GoodBooks(j, es, pz, cond, cr, pods),
         NEW ess, es = "none" <=> ess = "none", NEW condd, cond \subseteq condd,
         NEW crr, cr => crr, NEW podss, IsFiniteSet(podss), pods \subseteq podss, podss \subseteq Nat
  PROVE  GoodBooks(j, ess, pz, condd, crr, podss)
<1>1. \A p \in j : Sanctioned(p, j, pz, condd, crr, podss)
  <2>1. \A u, amount : Owes(j, cr, pods, u, amount) => Owes(j, crr, podss, u, amount)
    BY OwesLater
  <2>2. \A p : IsSeizure(p, j, cond, cr, pods) => IsSeizure(p, j, condd, crr, podss)
    BY <2>1 DEF IsSeizure
  <2> QED BY <2>2 DEF GoodBooks, Sanctioned
<1>2. Single(crr, podss) => PaysOnce(j, pz, podss)
  <2> HAVE Single(crr, podss)
  <2>1. Single(cr, pods)
    BY SingleBefore
  <2> QED BY <2>1 DEF GoodBooks, PaysOnce
<1> QED BY <1>1, <1>2 DEF GoodBooks

(* The sponsor's money is the first thing in the book. *)
LEMMA BooksOpened ==
  ASSUME NEW cond, NEW cr, NEW pods, IsFiniteSet(pods), pods \subseteq Nat, NEW amount \in Sums
  PROVE  GoodBooks({Deposit(amount)}, "funded", amount, cond, cr, pods)
<1> DEFINE j == {Deposit(amount)}
<1>1. IsFiniteSet(j)
  BY FS_Singleton
<1>2. PaidIn(j) = {}
  BY KindsOf DEF PaidIn, KindIn
<1> QED BY <1>1, <1>2 DEF GoodBooks, Sanctioned, PaysOnce

(* A posting that pays no podium. *)
LEMMA BooksAdd ==
  ASSUME NEW j, NEW es, es # "none", NEW pz, NEW cond, NEW cr, NEW pods, GoodBooks(j, es, pz, cond, cr, pods),
         NEW p, \A q \in j : KeyOf(q) # KeyOf(p),
         \/ Kind(p) = "prize_refund" /\ Why(p) # "unclaimed_place" /\ IsReturn(p)
         \/ Kind(p) = "prize_confiscated" /\ IsSeizure(p, j, cond, cr, pods)
  PROVE  /\ GoodBooks(j \cup {p}, es, pz, cond, cr, pods)
         /\ PaidIn(j \cup {p}) = PaidIn(j)
         /\ \A u : AwardedIn(j \cup {p}, u) = AwardedIn(j, u)
<1> DEFINE k == j \cup {p}
<1>1. IsFiniteSet(k)
  BY FS_AddElement DEF GoodBooks
<1>2. KindIn(k, "prize_award") = KindIn(j, "prize_award")
  BY DEF KindIn
<1>3. PaidIn(k) = PaidIn(j)
  BY <1>2 DEF PaidIn, KindIn
<1>4. \A u : AwardedIn(k, u) = AwardedIn(j, u)
  BY <1>2 DEF AwardedIn
<1>5. \A q, u, amount : /\ Owes(j, cr, pods, u, amount) <=> Owes(k, cr, pods, u, amount)
                        /\ IsSeizure(q, j, cond, cr, pods) => IsSeizure(q, k, cond, cr, pods)
  BY <1>4 DEF Owes, IsSeizure
<1>6. \A q \in k : Sanctioned(q, k, pz, cond, cr, pods)
  <2>1. \A q \in j : Sanctioned(q, k, pz, cond, cr, pods)
    BY <1>5 DEF GoodBooks, Sanctioned
  <2>2. Sanctioned(p, k, pz, cond, cr, pods)
    BY <1>5 DEF Sanctioned
  <2> QED BY <2>1, <2>2
<1>7. \A x, y \in k : KeyOf(x) = KeyOf(y) => x = y
  BY DEF GoodBooks
<1>8. Single(cr, pods) => PaysOnce(k, pz, pods)
  BY <1>3 DEF GoodBooks, PaysOnce
<1> HIDE DEF k
<1>9. IsFiniteSet(pods) /\ pods \subseteq Nat /\ pz \in Sums /\ Deposit(pz) \in k
  BY DEF GoodBooks, k
<1>10. GoodBooks(k, es, pz, cond, cr, pods)
  BY <1>1, <1>6, <1>7, <1>8, <1>9 DEF GoodBooks
<1> QED BY <1>3, <1>4, <1>10 DEF k

LEMMA OnlyOne ==
  ASSUME NEW S, IsFiniteSet(S), Cardinality(S) <= 1, NEW x \in S, NEW y \in S
  PROVE  x = y
<1> SUFFICES ASSUME x # y PROVE FALSE
  OBVIOUS
<1>1. IsFiniteSet({x}) /\ Cardinality({x}) = 1
  BY FS_Singleton
<1>2. IsFiniteSet({x} \cup {y}) /\ Cardinality({x} \cup {y}) = 2
  <2>1. y \notin {x}
    OBVIOUS
  <2> QED BY <1>1, <2>1, FS_AddElement
<1>3. Cardinality({x} \cup {y}) <= Cardinality(S)
  <2>1. {x} \cup {y} \subseteq S
    OBVIOUS
  <2> QED BY <2>1, FS_Subset
<1>4. Cardinality(S) \in Nat
  BY FS_CardinalityType
<1> QED BY <1>2, <1>3, <1>4

LEMMA SumsArePositive ==
  ASSUME NEW amount \in Sums
  PROVE  amount \in Nat /\ amount > 0
BY PrizesAssumption DEF PrizesAssumption

(* What of ps the book j does not hold yet. *)
Fresh(ps, j) == {p \in ps : \A q \in j : KeyOf(q) # KeyOf(p)}

(* Nobody owes more than before in the book k, which pays the podium whole *)
(* if j paid none.                                                         *)
PaidAfter(k, j, pz, cr, pods, podium) ==
  /\ \A u, amount : Owes(j, cr, pods, u, amount) => Owes(k, cr, pods, u, amount)
  /\ PaidIn(j) = {} => PaidIn(k) = PayOf(pz, podium) /\ PaidIn(k) # {} /\ k = j \cup PayOf(pz, podium)

(* A podium is paid: what the book holds under its keys already it does    *)
(* not write again.                                                        *)
LEMMA BooksPay ==
  ASSUME NEW j, NEW es, es # "none", NEW pz, NEW cond, NEW cr, NEW pods, GoodBooks(j, es, pz, cond, cr, pods),
         NEW podium, Len(podium) \in pods,
         Single(cr, pods) => PaidIn(j) = {} \/ Cardinality(pods) <= 1,
         NEW k, k = j \cup Fresh(PayOf(pz, podium), j)
  PROVE  /\ GoodBooks(k, es, pz, cond, cr, pods)
         /\ PaidAfter(k, j, pz, cr, pods, podium)
<1> DEFINE ps == PayOf(pz, podium)
           new == {p \in ps : \A q \in j : KeyOf(q) # KeyOf(p)}
<1>0. pz \in Nat /\ pz > 0 /\ Len(podium) \in Nat /\ pz \in Sums
  BY SumsArePositive DEF GoodBooks
<1>1. /\ IsFiniteSet(ps) /\ Credited(Held, ps) = -pz
      /\ \A p \in ps : PaysPodium(p)
      /\ \A p, q \in ps : KeyOf(p) = KeyOf(q) => p = q
  BY <1>0, PayIs
<1>2. IsFiniteSet(j) /\ IsFiniteSet(k) /\ k = j \cup new
  <2>1. IsFiniteSet(new)
    BY <1>1, FS_Subset
  <2>2. IsFiniteSet(j)
    BY DEF GoodBooks
  <2> QED BY <2>1, <2>2, FS_Union DEF Fresh
<1>3. ps # {}
  <2>1. Credited(Held, {}) = 0
    BY CreditedNothing, FS_EmptySet
  <2>2. -pz # 0
    BY <1>0
  <2>3. Credited(Held, ps) # 0
    BY <1>1, <2>2
  <2> HIDE DEF ps
  <2> QED BY <2>1, <2>3
<1> HIDE DEF ps
<1>4. PaidIn(ps) = ps
  BY <1>1 DEF PaidIn, KindIn, PaysPodium
<1>5. PaidIn(j) = {} => new = ps
  <2> SUFFICES ASSUME PaidIn(j) = {}, NEW p \in ps, NEW q \in j, KeyOf(q) = KeyOf(p) PROVE FALSE
    OBVIOUS
  <2>1. Kind(q) = Kind(p) /\ Why(q) = Why(p)
    BY SameKeySameKind
  <2>2. PaysPodium(p)
    BY <1>1
  <2>3. q \in PaidIn(j)
    BY <2>1, <2>2 DEF PaidIn, KindIn, PaysPodium
  <2> QED BY <2>3
<1>6. Single(cr, pods) => PaidIn(j) = {} \/ new = {}
  <2> SUFFICES ASSUME Single(cr, pods), PaidIn(j) # {} PROVE new = {}
    OBVIOUS
  <2>1. PICK other : Len(other) \in pods /\ PaidIn(j) = PayOf(pz, other)
    BY DEF GoodBooks, PaysOnce
  <2>2. Len(other) = Len(podium)
    BY <2>1, OnlyOne DEF GoodBooks
  <2>3. \A p \in ps : \E q \in PayOf(pz, other) : KeyOf(q) = KeyOf(p)
    BY <2>2, PayKeys DEF ps
  <2>4. PaidIn(j) \subseteq j
    BY DEF PaidIn, KindIn
  <2> QED BY <2>1, <2>3, <2>4
<1>7. \A p \in k : Kind(p) = "prize_award" => IsAward(p)
  <2>1. \A p \in j : Kind(p) = "prize_award" => IsAward(p)
    BY ByKind DEF GoodBooks
  <2>2. \A p \in new : Kind(p) = "prize_award" => IsAward(p)
    BY <1>1 DEF PaysPodium
  <2> QED BY <1>2, <2>1, <2>2
<1> HIDE DEF new
<1>8. ASSUME NEW u, NEW amount, Owes(j, cr, pods, u, amount) PROVE Owes(k, cr, pods, u, amount)
  <2>1. AwardedIn(j, u) \in Nat /\ AwardedIn(k, u) \in Nat /\ AwardedIn(j, u) <= AwardedIn(k, u)
    BY <1>2, <1>7, AwardedGrows
  <2>2. PaidIn(j) # {}
    <3> SUFFICES ASSUME PaidIn(j) = {} PROVE FALSE
      OBVIOUS
    <3>1. KindIn(j, "prize_award") = {}
      BY DEF PaidIn
    <3>2. AwardedIn(j, u) = 0
      BY <3>1, CreditedNothing, FS_EmptySet DEF AwardedIn
    <3> QED BY <1>8, <3>2 DEF Owes
  <2>3. Single(cr, pods) => k = j
    BY <1>2, <1>6, <2>2
  <2>4. /\ amount \in Nat \ {0} /\ amount <= AwardedIn(j, u)
        /\ Single(cr, pods) => amount = AwardedIn(j, u)
    BY <1>8 DEF Owes
  <2>5. amount <= AwardedIn(k, u)
    BY <2>1, <2>4
  <2>6. Single(cr, pods) => amount = AwardedIn(k, u)
    BY <2>3, <2>4
  <2> QED BY <2>4, <2>5, <2>6 DEF Owes
<1>9. \A p \in k : Sanctioned(p, k, pz, cond, cr, pods)
  <2>1. ASSUME NEW p \in j PROVE Sanctioned(p, k, pz, cond, cr, pods)
    BY <1>8 DEF GoodBooks, Sanctioned, IsSeizure
  <2>2. ASSUME NEW p \in new PROVE Sanctioned(p, k, pz, cond, cr, pods)
    BY <1>1 DEF Sanctioned, PaysPodium, new
  <2> QED BY <1>2, <2>1, <2>2
<1>10. \A p, q \in k : KeyOf(p) = KeyOf(q) => p = q
  <2>1. \A p, q \in j : KeyOf(p) = KeyOf(q) => p = q
    BY DEF GoodBooks
  <2>2. new \subseteq ps /\ \A p \in new, q \in j : KeyOf(q) # KeyOf(p)
    BY DEF new
  <2> QED BY <1>1, <1>2, <2>1, <2>2
<1>11. PaidIn(j) = {} => PaidIn(k) = ps /\ k = j \cup ps
  <2> SUFFICES ASSUME PaidIn(j) = {} PROVE PaidIn(k) = ps /\ k = j \cup ps
    OBVIOUS
  <2>1. k = j \cup ps
    BY <1>2, <1>5
  <2>2. PaidIn(j \cup ps) = PaidIn(j) \cup PaidIn(ps)
    BY DEF PaidIn, KindIn
  <2> QED BY <1>4, <2>1, <2>2
<1>12. Single(cr, pods) => PaysOnce(k, pz, pods)
  <2> SUFFICES ASSUME Single(cr, pods) PROVE PaysOnce(k, pz, pods)
    OBVIOUS
  <2>1. CASE PaidIn(j) = {}
    BY <1>11, <2>1 DEF PaysOnce, ps
  <2>2. CASE new = {}
    <3>1. k = j
      BY <1>2, <2>2
    <3> QED BY <3>1 DEF GoodBooks
  <2> QED BY <1>6, <2>1, <2>2
<1>13. /\ IsFiniteSet(pods) /\ pods \subseteq Nat /\ Deposit(pz) \in k
  BY <1>2 DEF GoodBooks
<1>14. GoodBooks(k, es, pz, cond, cr, pods)
  BY <1>0, <1>2, <1>9, <1>10, <1>12, <1>13 DEF GoodBooks
<1> QED BY <1>3, <1>8, <1>11, <1>14 DEF PaidAfter, ps

LEMMA BooksMoveInts ==
  ASSUME NEW j, NEW es, NEW pz, NEW cond, NEW cr, NEW pods, GoodBooks(j, es, pz, cond, cr, pods),
         NEW p \in j, NEW a
  PROVE  Moves(p, a) \in Int
<1>1. pz \in Nat
  BY SumsArePositive DEF GoodBooks
<1>2. CASE p = Deposit(pz)
  BY <1>1, <1>2, MoveMoves DEF Deposit
<1>3. CASE IsAward(p)
  BY <1>3, MoveMoves DEF IsAward, Award
<1>4. CASE IsReturn(p)
  BY <1>4, MoveMoves DEF IsReturn, Return
<1>5. CASE IsSeizure(p, j, cond, cr, pods)
  BY <1>5, MoveMoves DEF IsSeizure, Seizure
<1> QED BY <1>2, <1>3, <1>4, <1>5 DEF GoodBooks, Sanctioned

(* A seizure, and whose it is. *)
LEMMA SeizureIs ==
  ASSUME NEW j, NEW es, NEW pz, NEW cond, NEW cr, NEW pods, GoodBooks(j, es, pz, cond, cr, pods),
         NEW p \in KindIn(j, "prize_confiscated")
  PROVE  \E u \in cond, amount \in Nat :
           /\ p = Seizure(u, amount) /\ Why(p) = u /\ Owes(j, cr, pods, u, amount)
           /\ Moves(p, Held) = -amount /\ Moves(p, Pending(u)) = amount
           /\ \A v : v # u => Moves(p, Pending(v)) = 0
<1>1. IsSeizure(p, j, cond, cr, pods)
  BY ByKind DEF GoodBooks, KindIn
<1>2. PICK u \in cond : \E amount \in Nat : p = Seizure(u, amount) /\ Owes(j, cr, pods, u, amount)
  BY <1>1 DEF IsSeizure
<1>3. PICK amount \in Nat : p = Seizure(u, amount) /\ Owes(j, cr, pods, u, amount)
  BY <1>2
<1>4. Why(p) = u
  BY <1>3, KindsOf
<1>5. Moves(p, Held) = -amount /\ Moves(p, Pending(u)) = amount
  BY <1>3, EachMoves
<1>6. \A v : v # u => Moves(p, Pending(v)) = 0
  BY <1>3, EachMoves
<1> QED BY <1>3, <1>4, <1>5, <1>6

(* What u is owed is what was awarded less what was taken back. *)
LEMMA ClaimOfEntrant ==
  ASSUME NEW j, NEW es, NEW pz, NEW cond, NEW cr, NEW pods, GoodBooks(j, es, pz, cond, cr, pods), NEW u
  PROVE  /\ AwardedIn(j, u) \in Nat
         /\ (\A p \in KindIn(j, "prize_confiscated") : Why(p) # u) => Credited(Pending(u), j) = AwardedIn(j, u)
         /\ \A p \in KindIn(j, "prize_confiscated") :
              Why(p) = u => Credited(Pending(u), j) = AwardedIn(j, u) - Moves(p, Pending(u))
<1> DEFINE a == Pending(u)
           won == KindIn(j, "prize_award")
           rest == j \ won
           back == {p \in KindIn(j, "prize_confiscated") : Why(p) = u}
           other == rest \ back
<1>1. won \cap rest = {} /\ j = won \cup rest /\ back \cap other = {} /\ rest = back \cup other
  BY DEF KindIn
<1>2. IsFiniteSet(j) /\ IsFiniteSet(won) /\ IsFiniteSet(rest) /\ IsFiniteSet(back) /\ IsFiniteSet(other)
  <2>1. IsFiniteSet(j)
    BY DEF GoodBooks
  <2>2. won \subseteq j /\ rest \subseteq j /\ back \subseteq j /\ other \subseteq j
    BY DEF KindIn
  <2> HIDE DEF won, rest, back, other
  <2> QED BY <2>1, <2>2, FS_Subset
<1>3. \A p \in j : Moves(p, a) \in Int
  BY BooksMoveInts
<1>4. AwardedIn(j, u) \in Nat
  <2>1. \A p \in j : Kind(p) = "prize_award" => IsAward(p)
    BY ByKind DEF GoodBooks
  <2> QED BY <1>2, <2>1, AwardedGrows
<1>5. \A p \in other : Moves(p, a) = 0
  <2> SUFFICES ASSUME NEW p \in other PROVE Moves(p, a) = 0
    OBVIOUS
  <2>1. p \in j /\ Sanctioned(p, j, pz, cond, cr, pods) /\ pz \in Nat
    BY SumsArePositive DEF GoodBooks
  <2>2. /\ Kind(p) \in {"prize_escrow", "prize_refund", "prize_confiscated"}
        /\ Kind(p) = "prize_escrow" => p = Deposit(pz)
        /\ Kind(p) = "prize_refund" => IsReturn(p)
    BY <2>1, ByKind DEF KindIn
  <2>3. CASE Kind(p) = "prize_escrow"
    BY <2>1, <2>2, <2>3, EachMoves
  <2>4. CASE Kind(p) = "prize_refund"
    BY <2>2, <2>4, EachMoves DEF IsReturn
  <2>5. CASE Kind(p) = "prize_confiscated"
    <3>1. p \in KindIn(j, "prize_confiscated") /\ Why(p) # u
      BY <2>5, <2>1 DEF KindIn
    <3> QED BY <3>1, SeizureIs
  <2> QED BY <2>2, <2>3, <2>4, <2>5
<1>6. AwardedIn(j, u) = Credited(a, won)
  BY DEF AwardedIn
<1> HIDE DEF a, won, rest, back, other
<1>7. Credited(a, j) = Credited(a, won) + Credited(a, back)
  <2>1. \A p \in won \cup rest : Moves(p, a) \in Int
    BY <1>1, <1>3
  <2>2. Credited(a, won \cup rest) = Credited(a, won) + Credited(a, rest)
    BY <1>1, <1>2, <2>1, CreditedSplits
  <2>3. \A p \in back \cup other : Moves(p, a) \in Int
    BY <1>1, <1>3
  <2>4. Credited(a, back \cup other) = Credited(a, back) + Credited(a, other)
    BY <1>1, <1>2, <2>3, CreditedSplits
  <2>5. Credited(a, other) = 0
    BY <1>2, <1>5, CreditedNothing
  <2>6. Credited(a, back) \in Int
    <3>1. \A p \in back : Moves(p, a) \in Int
      BY <1>1, <1>3
    <3> QED BY <1>2, <3>1, CreditedTo DEF Moves
  <2> QED BY <1>1, <2>2, <2>4, <2>5, <2>6
<1>8. (\A p \in KindIn(j, "prize_confiscated") : Why(p) # u) => Credited(a, j) = AwardedIn(j, u)
  <2> HAVE \A p \in KindIn(j, "prize_confiscated") : Why(p) # u
  <2>1. back = {}
    BY DEF back
  <2>2. Credited(a, {}) = 0
    BY CreditedNothing, FS_EmptySet
  <2> QED BY <1>4, <1>6, <1>7, <2>1, <2>2
<1>9. ASSUME NEW p \in KindIn(j, "prize_confiscated"), Why(p) = u
      PROVE  Credited(a, j) = AwardedIn(j, u) - Moves(p, a)
  <2>1. \A q \in back : q = p
    <3> SUFFICES ASSUME NEW q \in back PROVE q = p
      OBVIOUS
    <3>1. q \in j /\ p \in j /\ q \in KindIn(j, "prize_confiscated") /\ Why(q) = u
      BY DEF back, KindIn
    <3>2. KeyOf(q) = <<"prize_confiscated", u>> /\ KeyOf(p) = <<"prize_confiscated", u>>
      BY <1>9, <3>1, SeizureIs, KindsOf
    <3> QED BY <3>1, <3>2 DEF GoodBooks
  <2>2. back = {p}
    BY <1>9, <2>1 DEF back
  <2>3. p \in j /\ Moves(p, a) \in Int
    BY <1>3 DEF KindIn
  <2>4. Credited(a, {p}) = -Moves(p, a)
    BY <2>3, CreditedByOne
  <2> QED BY <1>4, <1>6, <1>7, <2>2, <2>3, <2>4
<1> QED BY <1>4, <1>8, <1>9 DEF a

(* Nobody owes a prize, and what was taken back is what they had.          *)
LEMMA ClaimsAreSound ==
  ASSUME NEW j, NEW es, NEW pz, NEW cond, NEW cr, NEW pods, GoodBooks(j, es, pz, cond, cr, pods)
  PROVE  /\ \A u : Credited(Pending(u), j) >= 0
         /\ Single(cr, pods) =>
              \A p \in KindIn(j, "prize_confiscated") :
                \E u \in cond : /\ Why(p) = u
                                /\ Credited(Pending(u), j) = 0
                                /\ Credited(Held, {p}) = AwardedIn(j, u)
<1>1. ASSUME NEW p \in KindIn(j, "prize_confiscated")
      PROVE  \E u \in cond : /\ Why(p) = u
                             /\ Moves(p, Pending(u)) <= AwardedIn(j, u)
                             /\ Moves(p, Pending(u)) \in Nat
                             /\ Moves(p, Held) = -Moves(p, Pending(u))
                             /\ Single(cr, pods) => Moves(p, Pending(u)) = AwardedIn(j, u)
  <2>1. PICK u \in cond, amount \in Nat :
           /\ p = Seizure(u, amount) /\ Why(p) = u /\ Owes(j, cr, pods, u, amount)
           /\ Moves(p, Held) = -amount /\ Moves(p, Pending(u)) = amount
    BY <1>1, SeizureIs
  <2> QED BY <2>1 DEF Owes
<1>2. ASSUME NEW u PROVE Credited(Pending(u), j) >= 0
  <2>1. AwardedIn(j, u) \in Nat
    BY ClaimOfEntrant
  <2>2. CASE \A p \in KindIn(j, "prize_confiscated") : Why(p) # u
    BY <2>1, <2>2, ClaimOfEntrant
  <2>3. CASE \E p \in KindIn(j, "prize_confiscated") : Why(p) = u
    <3> PICK p \in KindIn(j, "prize_confiscated") : Why(p) = u
      BY <2>3
    <3>1. Moves(p, Pending(u)) <= AwardedIn(j, u) /\ Moves(p, Pending(u)) \in Nat
      BY <1>1
    <3>2. Credited(Pending(u), j) = AwardedIn(j, u) - Moves(p, Pending(u))
      BY ClaimOfEntrant
    <3> QED BY <2>1, <3>1, <3>2
  <2> QED BY <2>2, <2>3
<1>3. ASSUME Single(cr, pods), NEW p \in KindIn(j, "prize_confiscated")
      PROVE  \E u \in cond : /\ Why(p) = u
                             /\ Credited(Pending(u), j) = 0
                             /\ Credited(Held, {p}) = AwardedIn(j, u)
  <2>1. PICK u \in cond : /\ Why(p) = u
                          /\ Moves(p, Pending(u)) \in Nat
                          /\ Moves(p, Held) = -Moves(p, Pending(u))
                          /\ Moves(p, Pending(u)) = AwardedIn(j, u)
    BY <1>1, <1>3
  <2>2. Credited(Pending(u), j) = AwardedIn(j, u) - Moves(p, Pending(u)) /\ AwardedIn(j, u) \in Nat
    BY <1>3, <2>1, ClaimOfEntrant
  <2>3. Moves(p, Held) \in Int
    BY <2>1
  <2>4. Credited(Held, {p}) = -Moves(p, Held)
    BY <2>3, CreditedByOne
  <2>5. Credited(Held, {p}) = AwardedIn(j, u)
    BY <2>1, <2>2, <2>4
  <2>6. Credited(Pending(u), j) = 0
    BY <2>1, <2>2
  <2> QED BY <2>1, <2>5, <2>6
<1> QED BY <1>2, <1>3

LEMMA PaidExactly ==
  ASSUME NEW j, NEW es, NEW pz, NEW cond, NEW cr, NEW pods, GoodBooks(j, es, pz, cond, cr, pods),
         Single(cr, pods), PaidIn(j) # {}
  PROVE  Credited(Held, PaidIn(j)) = -pz
<1>1. PICK podium : Len(podium) \in pods /\ PaidIn(j) = PayOf(pz, podium)
  BY DEF GoodBooks, PaysOnce
<1>2. es # "none"
  BY DEF GoodBooks, PaidIn, KindIn
<1>3. pz \in Nat /\ Len(podium) \in Nat
  BY <1>1, <1>2, SumsArePositive DEF GoodBooks
<1> QED BY <1>1, <1>3, PayIs

LEMMA HeldWhenFunded ==
  ASSUME NEW pz \in Sums
  PROVE  /\ Credited(Held, {Deposit(pz)}) = pz
         /\ Credited(Held, KindIn({Deposit(pz)}, "prize_confiscated")) = 0
<1>1. pz \in Nat
  BY SumsArePositive
<1>2. Moves(Deposit(pz), Held) = -pz
  BY <1>1, EachMoves
<1>3. Moves(Deposit(pz), Held) \in Int
  BY <1>1, <1>2
<1>4. Credited(Held, {Deposit(pz)}) = -Moves(Deposit(pz), Held)
  BY <1>3, CreditedByOne
<1>5. KindIn({Deposit(pz)}, "prize_confiscated") = {}
  BY KindsOf DEF KindIn
<1>6. Credited(Held, {}) = 0
  BY CreditedNothing, FS_EmptySet
<1> QED BY <1>1, <1>2, <1>4, <1>5, <1>6

LEMMA HeldWhenReturned ==
  ASSUME NEW pz \in Sums, NEW r
  PROVE  /\ Credited(Held, {Deposit(pz), Return(r, pz)}) = 0
         /\ Credited(Held, KindIn({Deposit(pz), Return(r, pz)}, "prize_confiscated")) = 0
<1> DEFINE d == {Deposit(pz)}
           b == {Return(r, pz)}
<1>1. pz \in Nat
  BY SumsArePositive
<1>2. /\ Moves(Deposit(pz), Held) = -pz /\ Moves(Deposit(pz), Held) \in Int
      /\ Moves(Return(r, pz), Held) = pz /\ Moves(Return(r, pz), Held) \in Int
  BY <1>1, EachMoves
<1>3. IsFiniteSet(d) /\ Credited(Held, d) = -Moves(Deposit(pz), Held)
  BY <1>2, CreditedByOne
<1>4. IsFiniteSet(b) /\ Credited(Held, b) = -Moves(Return(r, pz), Held)
  BY <1>2, CreditedByOne
<1>5. d \cap b = {}
  <2>1. Deposit(pz) # Return(r, pz)
    BY KindsOf
  <2> QED BY <2>1
<1>6. \A p \in d \cup b : Moves(p, Held) \in Int
  BY <1>2
<1>7. {Deposit(pz), Return(r, pz)} = d \cup b
  OBVIOUS
<1>8. KindIn({Deposit(pz), Return(r, pz)}, "prize_confiscated") = {}
  BY KindsOf DEF KindIn
<1>9. Credited(Held, {}) = 0
  BY CreditedNothing, FS_EmptySet
<1> HIDE DEF d, b
<1>10. Credited(Held, d \cup b) = Credited(Held, d) + Credited(Held, b)
  BY <1>3, <1>4, <1>5, <1>6, CreditedSplits
<1> QED BY <1>1, <1>2, <1>3, <1>4, <1>7, <1>8, <1>9, <1>10

LEMMA HeldWhenPaid ==
  ASSUME NEW j, NEW es, NEW pz, NEW cond, NEW cr, NEW pods, GoodBooks(j, es, pz, cond, cr, pods),
         Single(cr, pods), PaidIn(j) # {}, KindIn(j, "prize_refund") \subseteq PaidIn(j)
  PROVE  Credited(Held, j) = Credited(Held, KindIn(j, "prize_confiscated"))
<1> DEFINE d == {Deposit(pz)}
           p == PaidIn(j)
           c == KindIn(j, "prize_confiscated")
           r == p \cup c
<1>1. Credited(Held, p) = -pz
  BY PaidExactly
<1>2. pz \in Sums /\ pz \in Nat /\ Deposit(pz) \in j
  <2>1. es # "none"
    BY DEF GoodBooks, PaidIn, KindIn
  <2> QED BY <2>1, SumsArePositive DEF GoodBooks
<1>3. j = d \cup r
  <2>1. \A q \in j : /\ Kind(q) \in {"prize_escrow", "prize_award", "prize_refund", "prize_confiscated"}
                     /\ Kind(q) = "prize_escrow" => q = Deposit(pz)
    BY ByKind DEF GoodBooks
  <2>2. \A q \in j : Kind(q) = "prize_refund" => q \in PaidIn(j)
    BY DEF KindIn
  <2>3. \A q \in j : Kind(q) = "prize_award" => q \in PaidIn(j)
    BY DEF PaidIn, KindIn
  <2>4. \A q \in j : Kind(q) = "prize_confiscated" => q \in c
    BY DEF KindIn
  <2>5. PaidIn(j) \subseteq j /\ c \subseteq j
    BY DEF PaidIn, KindIn
  <2> HIDE DEF c
  <2> QED BY <1>2, <2>1, <2>2, <2>3, <2>4, <2>5
<1>4. d \cap r = {} /\ p \cap c = {}
  BY KindsOf DEF PaidIn, KindIn
<1>5. IsFiniteSet(d) /\ IsFiniteSet(p) /\ IsFiniteSet(c) /\ IsFiniteSet(r)
  <2>1. IsFiniteSet(j) /\ d \subseteq j /\ p \subseteq j /\ c \subseteq j /\ r \subseteq j
    BY <1>2 DEF GoodBooks, PaidIn, KindIn
  <2> HIDE DEF d, p, c, r
  <2> QED BY <2>1, FS_Subset
<1>6. Credited(Held, d) = pz
  BY <1>2, HeldWhenFunded
<1>7. \A q \in j : Moves(q, Held) \in Int
  BY BooksMoveInts
<1> HIDE DEF d, p, c
<1>8. Credited(Held, r) = Credited(Held, p) + Credited(Held, c)
  <2>1. \A q \in p \cup c : Moves(q, Held) \in Int
    BY <1>3, <1>7
  <2> QED BY <1>4, <1>5, <2>1, CreditedSplits
<1> HIDE DEF r
<1>9. Credited(Held, d \cup r) = Credited(Held, d) + Credited(Held, r)
  <2>1. \A q \in d \cup r : Moves(q, Held) \in Int
    BY <1>3, <1>7
  <2> QED BY <1>4, <1>5, <2>1, CreditedSplits
<1>10. Credited(Held, c) \in Int
  <2>1. \A q \in c : Moves(q, Held) \in Int
    BY <1>3, <1>7 DEF r
  <2> QED BY <1>5, <2>1, CreditedTo DEF Moves
<1> QED BY <1>1, <1>2, <1>3, <1>6, <1>8, <1>9, <1>10 DEF c

-----------------------------------------------------------------------------
(* The invariant.                                                          *)

PrizeBooks ==
  /\ GoodBooks(journal, escrow, prize, condemned, crossed, podiums)
  /\ escrow = "refunded" => status \notin Open

(* What a request in the middle of its work remembers is still so: what it *)
(* read was only ever added to.                                            *)
Knows(step, m) ==
  /\ step = "fund"    => m \in Sums
  /\ step = "submit"  => m \in Entrant
  /\ step = "rescore" => \A u \in Entrant : u \in DOMAIN m => m[u] \in 0 .. MaxScore
  /\ step \in {"podium", "pay", "refund"} => escrow # "none"
  /\ step \in {"award", "podium"} => Cardinality(Placed(rank)) \in podiums
  /\ step = "pay"     => Len(m) \in podiums
  /\ step = "refund"  => m \in Reasons
  /\ step = "find"    => m \in condemned
  /\ step = "seize"   => m.of \in condemned /\ Owes(journal, crossed, podiums, m.of, m.amount)

Remembered ==
  /\ memo = [w \in Handler |-> memo[w]]
  /\ \A w \in Handler : Knows(stage[w], memo[w])

(* While requests follow each other, the escrow's state says what is in    *)
(* the book.                                                               *)
Sequential ==
  ~crossed =>
    /\ \A w, x \in Handler : stage[w] # "idle" /\ stage[x] # "idle" => w = x
    /\ \A w \in Handler : /\ stage[w] = "fund" => escrow = "none"
                          /\ stage[w] \in {"podium", "pay", "refund"} => escrow = "funded"
    /\ escrow = "funded"   => journal = {Deposit(prize)}
    /\ escrow = "refunded" => \E r \in Reasons : journal = {Deposit(prize), Return(r, prize)}
    /\ escrow = "awarded"  => PaidIn(journal) # {} /\ KindIn(journal, "prize_refund") \subseteq PaidIn(journal)

PrizeInv == PrizesTypeOK /\ PrizeBooks /\ Remembered /\ Sequential

-----------------------------------------------------------------------------
(* The invariant implies the properties. *)

LEMMA TheBook ==
  /\ \A kind : Of(kind) = KindIn(journal, kind)
  /\ Paid = PaidIn(journal)
  /\ \A u : Awarded(u) = AwardedIn(journal, u)
  /\ \A a : Claim(a) = Credited(a, journal)
  /\ OnePodium <=> Single(crossed, podiums)
<1>1. \A kind : Of(kind) = KindIn(journal, kind)
  BY DEF Of, KindIn, Kind
<1>2. Paid = PaidIn(journal)
  BY <1>1 DEF Paid, PaidIn, Why
<1> QED BY <1>1, <1>2 DEF Awarded, AwardedIn, Claim, OnePodium, Single

LEMMA InvSeizures == PrizeInv => SeizuresAreSound
<1> SUFFICES ASSUME PrizeInv PROVE SeizuresAreSound
  OBVIOUS
<1>1. GoodBooks(journal, escrow, prize, condemned, crossed, podiums)
  BY DEF PrizeInv, PrizeBooks
<1>2. NobodyOwesAPrize
  BY <1>1, ClaimsAreSound, TheBook DEF NobodyOwesAPrize
<1>3. SeizedForCause
  <2> SUFFICES ASSUME Single(crossed, podiums), NEW p \in KindIn(journal, "prize_confiscated")
               PROVE  \E u \in condemned : /\ p.key[2] = u
                                           /\ Claim(Pending(u)) = 0
                                           /\ Credited(Held, {p}) = Awarded(u)
    BY TheBook DEF SeizedForCause
  <2>1. \E u \in condemned : /\ Why(p) = u
                             /\ Credited(Pending(u), journal) = 0
                             /\ Credited(Held, {p}) = AwardedIn(journal, u)
    BY <1>1, ClaimsAreSound
  <2> QED BY <2>1, TheBook DEF Why
<1> QED BY <1>2, <1>3 DEF SeizuresAreSound, PrizeInv

LEMMA InvPaid == PrizeInv => PaidOutExactly
<1> SUFFICES ASSUME PrizeInv, Single(crossed, podiums), PaidIn(journal) # {}
             PROVE  Credited(Held, PaidIn(journal)) = -prize
  BY TheBook DEF PaidOutExactly
<1> QED BY PaidExactly DEF PrizeInv, PrizeBooks

LEMMA InvEscrow == PrizeInv => EscrowMatchesState
<1> SUFFICES ASSUME PrizeInv, ~crossed
             PROVE  /\ Claim(Held) = IF escrow = "funded" THEN prize
                                     ELSE Credited(Held, Of("prize_confiscated"))
                    /\ prize > 0 /\ status \in Open => Claim(Held) = prize \/ Credited(Held, Paid) = -prize
  BY DEF EscrowMatchesState
<1> DEFINE c == KindIn(journal, "prize_confiscated")
<1>1. GoodBooks(journal, escrow, prize, condemned, crossed, podiums)
  BY DEF PrizeInv, PrizeBooks
<1>2. Claim(Held) = Credited(Held, journal) /\ Of("prize_confiscated") = c /\ Paid = PaidIn(journal)
  BY TheBook
<1>3. escrow \in {"none", "funded", "awarded", "refunded"}
  BY DEF PrizeInv, PrizesTypeOK
<1>4. CASE escrow = "none"
  <2>1. journal = {} /\ prize = 0
    BY <1>1, <1>4 DEF GoodBooks
  <2>2. c = journal
    BY <2>1 DEF KindIn
  <2> QED BY <1>2, <1>4, <2>1, <2>2
<1>5. CASE escrow = "funded"
  <2>1. prize \in Sums /\ journal = {Deposit(prize)}
    BY <1>1, <1>5 DEF GoodBooks, PrizeInv, Sequential
  <2>2. Credited(Held, {Deposit(prize)}) = prize
    BY <2>1, HeldWhenFunded
  <2> QED BY <1>2, <1>5, <2>1, <2>2
<1>6. CASE escrow = "refunded"
  <2>1. PICK r \in Reasons : journal = {Deposit(prize), Return(r, prize)}
    BY <1>6 DEF PrizeInv, Sequential
  <2>2. prize \in Sums
    BY <1>1, <1>6 DEF GoodBooks
  <2>3. Credited(Held, {Deposit(prize), Return(r, prize)}) = 0
        /\ Credited(Held, KindIn({Deposit(prize), Return(r, prize)}, "prize_confiscated")) = 0
    BY <2>2, HeldWhenReturned
  <2>4. status \notin Open
    BY <1>6 DEF PrizeInv, PrizeBooks
  <2> QED BY <1>2, <1>6, <2>1, <2>3, <2>4
<1>7. CASE escrow = "awarded"
  <2>1. PaidIn(journal) # {} /\ KindIn(journal, "prize_refund") \subseteq PaidIn(journal)
    BY <1>7 DEF PrizeInv, Sequential
  <2>2. Single(crossed, podiums)
    BY DEF Single
  <2>3. Credited(Held, journal) = Credited(Held, c)
    BY <1>1, <2>1, <2>2, HeldWhenPaid
  <2>4. Credited(Held, PaidIn(journal)) = -prize
    BY <1>1, <2>1, <2>2, PaidExactly
  <2> QED BY <1>2, <1>7, <2>3, <2>4
<1> QED BY <1>3, <1>4, <1>5, <1>6, <1>7

LEMMA PrizesInitInv == PrizesInit => PrizeInv
<1> SUFFICES ASSUME PrizesInit PROVE PrizeInv
  OBVIOUS
<1>1. PrizesTypeOK
  <2>1. 0 \in 0 .. MaxScore /\ 0 \in 0 .. Len(Field)
    <3>1. MaxScore \in Nat /\ Len(Field) \in Nat
      BY PrizesAssumption DEF PrizesAssumption
    <3> QED BY <3>1
  <2> QED BY <2>1 DEF PrizesInit, PrizesTypeOK, ContestStatus, Open
<1>2. PrizeBooks
  <2>1. IsFiniteSet({})
    BY FS_EmptySet
  <2>2. PaidIn({}) = {}
    BY DEF PaidIn, KindIn
  <2> QED BY <2>1, <2>2 DEF PrizesInit, PrizeBooks, GoodBooks, PaysOnce, Open
<1>3. Remembered
  BY DEF PrizesInit, Remembered, Knows
<1>4. Sequential
  BY DEF PrizesInit, Sequential
<1> QED BY <1>1, <1>2, <1>3, <1>4 DEF PrizeInv

-----------------------------------------------------------------------------
(* Types. *)

(* A standing is a place among those who have registered. *)
LEMMA StandingIs ==
  ASSUME PrizesTypeOK, NEW u \in Registered
  PROVE  Standing(u) \in 1 .. Len(Field)
<1> DEFINE better == {v \in Registered : Ahead(v, u)}
<1>0. Len(Field) \in Nat /\ entered \in Nat /\ entered <= Len(Field) /\ entered \in 0 .. Len(Field)
  BY PrizesAssumption DEF PrizesAssumption, PrizesTypeOK
<1>1. IsFiniteSet(Registered) /\ Cardinality(Registered) <= entered /\ Cardinality(Registered) \in Nat
  <2> DEFINE D == 1 .. entered
             f == [i \in D |-> Field[i]]
  <2>1. IsFiniteSet(D) /\ Cardinality(D) = entered
    BY <1>0, FS_Interval
  <2>3. f \in Surjection(D, Registered)
    BY DEF Registered, Surjection
  <2> HIDE DEF D, f
  <2>4. IsFiniteSet(Registered) /\ Cardinality(Registered) <= Cardinality(D)
    BY <2>1, <2>3, FS_Surjection
  <2> QED BY <2>1, <2>4, FS_CardinalityType
<1>2. u \notin better
  <2>2. u \in Entrant
    BY <1>0, PrizesAssumption DEF Registered, Entrant, PrizesAssumption, ToSet
  <2>3. score[u] \in 0 .. MaxScore
    BY <2>2 DEF PrizesTypeOK
  <2>4. Arrival(u) \in DOMAIN Field
    <3>1. \E i \in DOMAIN Field : Field[i] = u
      BY <2>2 DEF Entrant, ToSet
    <3> QED BY <3>1 DEF Arrival
  <2>5. DOMAIN Field = 1 .. Len(Field)
    BY PrizesAssumption DEF PrizesAssumption
  <2>6. ~Ahead(u, u)
    <3>1. ~(Arrival(u) < Arrival(u))
      BY <1>0, <2>4, <2>5
    <3>2. ~(score[u] > score[u])
      BY <2>3, PrizesAssumption DEF PrizesAssumption
    <3> QED BY <3>1, <3>2 DEF Ahead
  <2> QED BY <2>6
<1>3. IsFiniteSet(better) /\ Cardinality(better) \in Nat /\ Cardinality(better) < Cardinality(Registered)
  <2>1. better \subseteq Registered /\ better # Registered
    BY <1>2
  <2> HIDE DEF better
  <2> QED BY <1>1, <2>1, FS_Subset, FS_CardinalityType
<1> QED BY <1>0, <1>1, <1>3 DEF Standing

LEMMA RegisteredAreEntrants ==
  ASSUME PrizesTypeOK
  PROVE  Registered \subseteq Entrant
<1>1. Len(Field) \in Nat /\ entered \in 0 .. Len(Field) /\ DOMAIN Field = 1 .. Len(Field)
  BY PrizesAssumption DEF PrizesAssumption, PrizesTypeOK
<1> QED BY <1>1 DEF Registered, Entrant, ToSet

LEMMA EntrantsAreFinite == IsFiniteSet(Entrant)
<1> DEFINE D == DOMAIN Field
<1>1. Field \in Seq(Entrant) /\ Len(Field) \in Nat /\ D = 1 .. Len(Field)
  BY PrizesAssumption DEF PrizesAssumption
<1>2. IsFiniteSet(D)
  BY <1>1, FS_Interval
<1>3. Field \in Surjection(D, Entrant)
  BY <1>1 DEF Entrant, ToSet, Surjection
<1> HIDE DEF D
<1> QED BY <1>2, <1>3, FS_Surjection

LEMMA FragmentShareIs ==
  ASSUME PrizesTypeOK, NEW u \in Registered
  PROVE  FragmentShare(u) \in Nat
<1>1. Standing(u) \in 1 .. Len(Field) /\ Fragments \in Nat /\ Len(Field) \in Nat
  BY StandingIs, PrizesAssumption DEF PrizesAssumption
<1>2. CASE Standing(u) <= Len(Split)
  <2>1. Standing(u) \in {1, 2, 3}
    BY <1>1, <1>2 DEF Split
  <2>2. Split[Standing(u)] \in {50, 30, 20}
    BY <2>1 DEF Split
  <2>3. \A part \in {50, 30, 20} : (Fragments * part) \div 100 \in Nat
    BY <1>1
  <2> QED BY <1>2, <2>2, <2>3 DEF FragmentShare
<1>3. CASE ~(Standing(u) <= Len(Split))
  BY <1>3 DEF FragmentShare
<1> QED BY <1>2, <1>3

LEMMA PlacedIs ==
  ASSUME NEW r
  PROVE  IsFiniteSet(Placed(r)) /\ Cardinality(Placed(r)) \in Nat
<1>1. Placed(r) \subseteq Entrant
  BY DEF Placed
<1> QED BY <1>1, EntrantsAreFinite, FS_Subset, FS_CardinalityType

LEMMA PodiumIs == Len(Podium) = Cardinality(Placed(rank))
<1> DEFINE n == Cardinality(Placed(rank))
<1>1. n \in Nat
  BY PlacedIs
<1>2. DOMAIN Podium = 1 .. n
  BY DEF Podium
<1>3. Podium = [i \in 1 .. n |-> Podium[i]]
  BY DEF Podium
<1> HIDE DEF n
<1> QED BY <1>1, <1>2, <1>3 DEF n

-----------------------------------------------------------------------------
(* Steps that leave the book and the escrow alone. *)

QuietBooks == UNCHANGED <<journal, escrow, prize>>

(* What the others remember stays true. *)
LEMMA QuietKeeps ==
  ASSUME PrizeInv, QuietBooks, condemned \subseteq condemned', crossed => crossed',
         IsFiniteSet(podiums'), podiums \subseteq podiums', podiums' \subseteq Nat,
         rank' = rank \/ Cardinality(Placed(rank')) \in podiums',
         escrow = "refunded" => status' \notin Open
  PROVE  /\ PrizeBooks'
         /\ \A step, m : Knows(step, m) => Knows(step, m)'
<1>1. journal' = journal /\ escrow' = escrow /\ prize' = prize
  BY DEF QuietBooks
<1>2. PrizeBooks'
  <2>1. GoodBooks(journal, escrow, prize, condemned, crossed, podiums)
    BY DEF PrizeInv, PrizeBooks
  <2>2. GoodBooks(journal, escrow, prize, condemned', crossed', podiums')
    BY <2>1, BooksLater
  <2> QED BY <1>1, <2>2 DEF PrizeBooks, Open
<1>3. \A u, amount : Owes(journal, crossed, podiums, u, amount)
                       => Owes(journal, crossed', podiums', u, amount)
  BY OwesLater
<1>4. \A u, amount : Owes(journal, crossed, podiums, u, amount)' <=> Owes(journal', crossed', podiums', u, amount)
  BY DEF Owes, Single, AwardedIn, KindIn, Credited, Pending, Owed
<1>5. \A u, amount : Owes(journal, crossed, podiums, u, amount)
                       => Owes(journal, crossed, podiums, u, amount)'
  BY <1>1, <1>3, <1>4
<1>6. Placed(rank)' = Placed(rank')
  BY DEF Placed
<1>7. ASSUME NEW step, NEW m, Knows(step, m) PROVE Knows(step, m)'
  BY <1>1, <1>5, <1>6, <1>7 DEF Knows, Reasons
<1> QED BY <1>2, <1>7

(* A request goes on. *)
LEMMA SequentialGoes ==
  ASSUME PrizeInv, QuietBooks, NEW w \in Handler, NEW from, NEW to, Proceed(w, from, to),
         to = "fund" => escrow = "none",
         ~crossed /\ to \in {"podium", "pay", "refund"} => escrow = "funded"
  PROVE  Sequential'
<1> SUFFICES ASSUME ~crossed' PROVE Sequential'
  BY DEF Sequential
<1>1. ~crossed /\ (from = "idle" => \A x \in Handler : stage[x] = "idle") /\ stage[w] = from
  BY DEF Proceed
<1>2. \A x \in Handler : x # w => stage'[x] = stage[x]
  BY DEF Proceed, PrizeInv, PrizesTypeOK
<1>3. stage'[w] = to
  BY DEF Proceed, PrizeInv, PrizesTypeOK
<1>4. \A x \in Handler : x # w => stage[x] = "idle"
  BY <1>1 DEF PrizeInv, Sequential
<1>5. \A x, y \in Handler : stage'[x] # "idle" /\ stage'[y] # "idle" => x = y
  BY <1>2, <1>4
<1>6. \A x \in Handler : /\ stage'[x] = "fund" => escrow' = "none"
                         /\ stage'[x] \in {"podium", "pay", "refund"} => escrow' = "funded"
  BY <1>1, <1>2, <1>3, <1>4 DEF QuietBooks
<1>7. /\ escrow' = "funded" => journal' = {Deposit(prize')}
      /\ escrow' = "refunded" => \E r \in Reasons : journal' = {Deposit(prize'), Return(r, prize')}
      /\ escrow' = "awarded" => PaidIn(journal') # {} /\ KindIn(journal', "prize_refund") \subseteq PaidIn(journal')
  BY <1>1 DEF QuietBooks, PrizeInv, Sequential
<1> QED BY <1>5, <1>6, <1>7 DEF Sequential, Reasons, PaidIn, KindIn, Deposit, Return, Move, Held, World, Psp, Debit, Credit

LEMMA QuietStep ==
  ASSUME PrizeInv, QuietBooks, NEW w \in Handler, NEW from, NEW to, NEW value, Proceed(w, from, to),
         memo' = [memo EXCEPT ![w] = value],
         condemned \subseteq condemned', podiums \subseteq podiums', IsFiniteSet(podiums'), podiums' \subseteq Nat,
         rank' = rank \/ Cardinality(Placed(rank')) \in podiums',
         escrow = "refunded" => status' \notin Open,
         to = "fund" => escrow = "none",
         ~crossed /\ to \in {"podium", "pay", "refund"} => escrow = "funded",
         to # "idle" => Knows(to, value)'
  PROVE  PrizeBooks' /\ Remembered' /\ Sequential'
<1>1. crossed => crossed'
  BY DEF Proceed
<1>2. PrizeBooks' /\ \A step, m : Knows(step, m) => Knows(step, m)'
  BY <1>1, QuietKeeps
<1>3. Remembered'
  <2>1. memo' = [x \in Handler |-> memo'[x]]
    BY DEF PrizeInv, Remembered
  <2>2. \A x \in Handler : x # w => stage'[x] = stage[x] /\ memo'[x] = memo[x]
    BY DEF Proceed, PrizeInv, PrizesTypeOK, Remembered
  <2>3. stage'[w] = to /\ memo'[w] = value
    BY DEF Proceed, PrizeInv, PrizesTypeOK, Remembered
  <2>4. ASSUME NEW x \in Handler PROVE Knows(stage[x], memo[x])'
    <3> PICK step, m : step = stage'[x] /\ m = memo'[x]
      OBVIOUS
    <3>1. CASE x # w
      <4>1. Knows(step, m)
        BY <2>2, <3>1 DEF PrizeInv, Remembered
      <4> QED BY <1>2, <4>1
    <3>2. CASE x = w /\ to # "idle"
      <4>1. step = to /\ m = value
        BY <2>3, <3>2
      <4> QED BY <3>2, <4>1
    <3>3. CASE x = w /\ to = "idle"
      BY <2>3, <3>3 DEF Knows
    <3> QED BY <3>1, <3>2, <3>3
  <2> QED BY <2>1, <2>4 DEF Remembered
<1>4. Sequential'
  BY SequentialGoes
<1> QED BY <1>2, <1>3, <1>4

Stages == {"idle", "register", "fund", "rescore", "check", "rank", "award",
           "podium", "pay", "refund", "submit", "find", "seize"}

(* A request that only reads, and remembers what it read. *)
LEMMA ReadsKeeps ==
  ASSUME PrizeInv, NEW w \in Handler, NEW from, NEW to \in Stages, NEW value, Reads(w, from, to, value),
         to = "fund" => escrow = "none",
         ~crossed /\ to \in {"podium", "pay", "refund"} => escrow = "funded",
         to # "idle" => Knows(to, value)
  PROVE  PrizeInv'
<1> DEFINE kept == IF to = "idle" THEN Nil ELSE value
<1>1. /\ Proceed(w, from, to) /\ memo' = [memo EXCEPT ![w] = kept]
      /\ QuietBooks /\ condemned' = condemned /\ podiums' = podiums /\ rank' = rank /\ status' = status
      /\ UNCHANGED <<contest, entries>>
  BY DEF Reads, Keeps, QuietBooks, contest, entries
<1>2. IsFiniteSet(podiums) /\ podiums \subseteq Nat /\ (escrow = "refunded" => status \notin Open)
  BY DEF PrizeInv, PrizeBooks, GoodBooks
<1>3. crossed => crossed'
  BY <1>1 DEF Proceed
<1>4. to # "idle" => Knows(to, kept)'
  <2>1. \A step, m : Knows(step, m) => Knows(step, m)'
    BY <1>1, <1>2, <1>3, QuietKeeps
  <2> QED BY <2>1
<1>5. PrizeBooks' /\ Remembered' /\ Sequential'
  <2> HIDE DEF kept
  <2> QED BY <1>1, <1>2, <1>4, QuietStep
<1>6. PrizesTypeOK'
  BY <1>1 DEF PrizeInv, PrizesTypeOK, Proceed, contest, entries, ContestStatus, Open, Stages
<1> QED BY <1>5, <1>6 DEF PrizeInv

LEMMA FundInv ==
  ASSUME PrizeInv, NEW w \in Handler, Fund(w)
  PROVE  PrizeInv'
<1> PICK amount \in Sums : escrow = "none" /\ Reads(w, "idle", "fund", amount)
  BY DEF Fund
<1>1. Knows("fund", amount)
  BY DEF Knows
<1> QED BY <1>1, ReadsKeeps DEF Stages

LEMMA RegisterInv ==
  ASSUME PrizeInv, NEW w \in Handler, Register(w)
  PROVE  PrizeInv'
<1>1. Reads(w, "idle", "register", Nil)
  BY DEF Register
<1>2. Knows("register", Nil)
  BY DEF Knows
<1> QED BY <1>1, <1>2, ReadsKeeps DEF Stages

LEMMA SubmitInv ==
  ASSUME PrizeInv, NEW w \in Handler, Submit(w)
  PROVE  PrizeInv'
<1> PICK u \in Registered : Reads(w, "idle", "submit", u)
  BY DEF Submit
<1>1. Knows("submit", u)
  BY RegisteredAreEntrants DEF Knows, PrizeInv
<1> QED BY <1>1, ReadsKeeps DEF Stages

LEMMA ConcludeInv ==
  ASSUME PrizeInv, NEW w \in Handler, Conclude(w)
  PROVE  PrizeInv'
<1> DEFINE marks == [u \in {u \in Entrant : entry[u].status \notin {"none", "disqualified"}} |-> entry[u].score]
<1>1. Reads(w, "idle", "rescore", marks)
  BY DEF Conclude
<1>2. Knows("rescore", marks)
  BY DEF Knows, PrizeInv, PrizesTypeOK
<1> HIDE DEF marks
<1> QED BY <1>1, <1>2, ReadsKeeps DEF Stages

LEMMA RefundInv ==
  ASSUME PrizeInv, NEW w \in Handler, Refund(w)
  PROVE  PrizeInv'
<1> PICK reason \in Reasons : escrow = "funded" /\ Reads(w, "idle", "refund", reason)
  BY DEF Refund
<1>1. Knows("refund", reason)
  BY DEF Knows
<1> QED BY <1>1, ReadsKeeps DEF Stages

LEMMA FindPrizeInv ==
  ASSUME PrizeInv, NEW w \in Handler, FindPrize(w)
  PROVE  PrizeInv'
<1> DEFINE what == [of |-> memo[w], amount |-> Awarded(memo[w])]
           to == IF Seizable(memo[w]) THEN "seize" ELSE "idle"
<1>1. Reads(w, "find", to, what)
  BY DEF FindPrize
<1>2. to # "idle" => Knows(to, what)
  <2> SUFFICES ASSUME Seizable(memo[w]) PROVE Knows("seize", what)
    OBVIOUS
  <2>1. memo[w] \in condemned
    BY <1>1 DEF PrizeInv, Remembered, Knows, Reads, Proceed
  <2>2. GoodBooks(journal, escrow, prize, condemned, crossed, podiums)
    BY DEF PrizeInv, PrizeBooks
  <2>3. Awarded(memo[w]) = AwardedIn(journal, memo[w]) /\ AwardedIn(journal, memo[w]) \in Nat
    BY <2>2, TheBook, ClaimOfEntrant
  <2>4. Awarded(memo[w]) > 0
    BY DEF Seizable
  <2>5. Owes(journal, crossed, podiums, memo[w], Awarded(memo[w]))
    BY <2>3, <2>4 DEF Owes
  <2> QED BY <2>1, <2>5 DEF Knows
<1>3. to \in Stages /\ to # "fund" /\ to \notin {"podium", "pay", "refund"}
  BY DEF Stages
<1> HIDE DEF what, to
<1> QED BY <1>1, <1>2, <1>3, ReadsKeeps

LEMMA CheckStatusInv ==
  ASSUME PrizeInv, NEW w \in Handler, CheckStatus(w)
  PROVE  PrizeInv'
<1> DEFINE to == IF status = "concluded" THEN "idle" ELSE "rank"
<1>1. Reads(w, "check", to, Nil)
  BY DEF CheckStatus
<1>2. to \in Stages /\ to # "fund" /\ to \notin {"podium", "pay", "refund"} /\ Knows(to, Nil)
  BY DEF Stages, Knows
<1> HIDE DEF to
<1> QED BY <1>1, <1>2, ReadsKeeps

LEMMA BeginAwardInv ==
  ASSUME PrizeInv, NEW w \in Handler, BeginAward(w)
  PROVE  PrizeInv'
<1> DEFINE to == IF escrow = "funded" /\ status = "concluded" THEN "podium" ELSE "idle"
<1>1. Reads(w, "award", to, Nil)
  BY DEF BeginAward
<1>2. Cardinality(Placed(rank)) \in podiums
  BY <1>1 DEF PrizeInv, Remembered, Knows, Reads, Proceed
<1>3. to \in Stages /\ to # "fund" /\ (to \in {"podium", "pay", "refund"} => escrow = "funded")
  BY DEF Stages
<1>4. Knows(to, Nil)
  BY <1>2 DEF Knows
<1> HIDE DEF to
<1> QED BY <1>1, <1>3, <1>4, ReadsKeeps

LEMMA ReadPodiumInv ==
  ASSUME PrizeInv, NEW w \in Handler, ReadPodium(w)
  PROVE  PrizeInv'
<1>1. Reads(w, "podium", "pay", Podium) /\ stage[w] = "podium"
  BY DEF ReadPodium, Reads, Proceed
<1>2. Cardinality(Placed(rank)) \in podiums /\ escrow # "none" /\ (~crossed => escrow = "funded")
  BY <1>1 DEF PrizeInv, Remembered, Knows, Sequential
<1>3. Knows("pay", Podium)
  BY <1>2, PodiumIs DEF Knows
<1> QED BY <1>1, <1>2, <1>3, ReadsKeeps DEF Stages

-----------------------------------------------------------------------------
(* Steps that write, but not in the book. *)

LEMMA EnrollInv ==
  ASSUME PrizeInv, NEW w \in Handler, Enroll(w)
  PROVE  PrizeInv'
<1>1. /\ Proceed(w, "register", "idle") /\ memo' = [memo EXCEPT ![w] = Nil] /\ QuietBooks
      /\ condemned' = condemned /\ podiums' = podiums /\ rank' = rank /\ status' = status
  BY DEF Enroll, Forgets, Keeps, QuietBooks, entries
<1>2. IsFiniteSet(podiums) /\ podiums \subseteq Nat /\ (escrow = "refunded" => status \notin Open)
  BY DEF PrizeInv, PrizeBooks, GoodBooks
<1>3. PrizeBooks' /\ Remembered' /\ Sequential'
  BY <1>1, <1>2, QuietStep
<1>4. entered' \in 0 .. Len(Field)
  <2>1. Len(Field) \in Nat /\ entered \in 0 .. Len(Field)
    BY PrizesAssumption DEF PrizesAssumption, PrizeInv, PrizesTypeOK
  <2> QED BY <2>1 DEF Enroll
<1>5. PrizesTypeOK'
  BY <1>1, <1>4 DEF Enroll, Proceed, PrizeInv, PrizesTypeOK, entries, ContestStatus, Open
<1> QED BY <1>3, <1>5 DEF PrizeInv

LEMMA HandInInv ==
  ASSUME PrizeInv, NEW w \in Handler, HandIn(w)
  PROVE  PrizeInv'
<1>1. /\ Proceed(w, "submit", "idle") /\ memo' = [memo EXCEPT ![w] = Nil] /\ QuietBooks
      /\ condemned' = condemned /\ podiums' = podiums /\ rank' = rank /\ status' = status
  BY DEF HandIn, Forgets, Keeps, QuietBooks, contest
<1>2. IsFiniteSet(podiums) /\ podiums \subseteq Nat /\ (escrow = "refunded" => status \notin Open)
  BY DEF PrizeInv, PrizeBooks, GoodBooks
<1>3. PrizeBooks' /\ Remembered' /\ Sequential'
  BY <1>1, <1>2, QuietStep
<1>4. MaxScore \in Nat
  BY PrizesAssumption DEF PrizesAssumption
<1>5. PrizesTypeOK'
  <2> DEFINE new == [status |-> "submitted", score |-> 0]
             Entries == [status : {"none", "submitted", "accepted", "disqualified"}, score : 0 .. MaxScore]
  <2>1. new \in Entries /\ entry \in [Entrant -> Entries] /\ entry' = [entry EXCEPT ![memo[w]] = new]
    BY <1>4 DEF HandIn, PrizeInv, PrizesTypeOK
  <2> HIDE DEF new
  <2>2. entry' \in [Entrant -> Entries]
    <3> HIDE DEF Entries
    <3> QED BY <2>1
  <2> QED BY <1>1, <2>2 DEF HandIn, Proceed, PrizeInv, PrizesTypeOK, contest, ContestStatus, Open
<1> QED BY <1>3, <1>5 DEF PrizeInv

LEMMA UpholdInv ==
  ASSUME PrizeInv, NEW w \in Handler, NEW u \in Entrant, Uphold(w, u)
  PROVE  PrizeInv'
<1>1. /\ Proceed(w, "idle", "find") /\ memo' = [memo EXCEPT ![w] = u] /\ QuietBooks
      /\ condemned' = condemned \cup {u} /\ podiums' = podiums /\ rank' = rank /\ status' = status
  BY DEF Uphold, Keeps, QuietBooks, contest
<1>2. IsFiniteSet(podiums) /\ podiums \subseteq Nat /\ (escrow = "refunded" => status \notin Open)
  BY DEF PrizeInv, PrizeBooks, GoodBooks
<1>3. Knows("find", u)'
  BY <1>1 DEF Knows
<1>4. PrizeBooks' /\ Remembered' /\ Sequential'
  <2>1. condemned \subseteq condemned'
    BY <1>1
  <2> QED BY <1>1, <1>2, <1>3, <2>1, QuietStep
<1>5. PrizesTypeOK'
  <2>1. entry' \in [Entrant -> [status : {"none", "submitted", "accepted", "disqualified"},
                                score : 0 .. MaxScore]]
    BY DEF Uphold, PrizeInv, PrizesTypeOK
  <2>2. accused' \subseteq Entrant /\ condemned' \subseteq Entrant
    BY DEF Uphold, PrizeInv, PrizesTypeOK
  <2>3. stage' \in [Handler -> {"idle", "register", "fund", "rescore", "check", "rank", "award",
                                "podium", "pay", "refund", "submit", "find", "seize"}]
    BY DEF Uphold, Proceed, PrizeInv, PrizesTypeOK
  <2>4. crossed' \in BOOLEAN
    BY <1>1 DEF Proceed
  <2>5. UNCHANGED <<contest, score>>
    BY DEF Uphold
  <2> QED BY <2>1, <2>2, <2>3, <2>4, <2>5 DEF PrizeInv, PrizesTypeOK, contest
<1> QED BY <1>4, <1>5 DEF PrizeInv

LEMMA RescoreInv ==
  ASSUME PrizeInv, NEW w \in Handler, Rescore(w)
  PROVE  PrizeInv'
<1>1. /\ Proceed(w, "rescore", "check") /\ memo' = [memo EXCEPT ![w] = Nil] /\ QuietBooks
      /\ condemned' = condemned /\ podiums' = podiums /\ rank' = rank /\ status' = status
  BY DEF Rescore, Forgets, Keeps, QuietBooks, contest
<1>2. IsFiniteSet(podiums) /\ podiums \subseteq Nat /\ (escrow = "refunded" => status \notin Open)
  BY DEF PrizeInv, PrizeBooks, GoodBooks
<1>3. Knows("check", Nil)'
  BY DEF Knows
<1>4. PrizeBooks' /\ Remembered' /\ Sequential'
  BY <1>1, <1>2, <1>3, QuietStep
<1>5. \A u \in Entrant : u \in DOMAIN memo[w] => memo[w][u] \in 0 .. MaxScore
  BY <1>1 DEF PrizeInv, Remembered, Knows, Proceed
<1>6. score' \in [Entrant -> 0 .. MaxScore]
  BY <1>5 DEF Rescore, PrizeInv, PrizesTypeOK
<1>7. PrizesTypeOK'
  BY <1>1, <1>6 DEF Rescore, Proceed, PrizeInv, PrizesTypeOK, contest, ContestStatus, Open
<1> QED BY <1>4, <1>7 DEF PrizeInv

LEMMA RankInv ==
  ASSUME PrizeInv, NEW w \in Handler, Rank(w)
  PROVE  PrizeInv'
<1> DEFINE n == Cardinality(Placed(rank'))
<1>1. /\ Proceed(w, "rank", "award") /\ memo' = [memo EXCEPT ![w] = Nil] /\ QuietBooks
      /\ condemned' = condemned /\ podiums' = podiums \cup {n} /\ status' = "concluded"
  <2>1. podiums' = podiums \cup {n}
    BY DEF Rank, Placed
  <2> QED BY <2>1 DEF Rank, Forgets, Keeps, QuietBooks, entries
<1>2. n \in Nat
  BY PlacedIs
<1> HIDE DEF n
<1>3. IsFiniteSet(podiums') /\ podiums' \subseteq Nat /\ podiums \subseteq podiums'
  <2>1. IsFiniteSet(podiums) /\ podiums \subseteq Nat
    BY DEF PrizeInv, PrizeBooks, GoodBooks
  <2> QED BY <1>1, <1>2, <2>1, FS_AddElement
<1>4. Knows("award", Nil)' /\ n \in podiums'
  BY <1>1 DEF Knows, n, Placed
<1>5. PrizeBooks' /\ Remembered' /\ Sequential'
  <2>1. status' \notin Open
    BY <1>1 DEF Open
  <2> QED BY <1>1, <1>3, <1>4, <2>1, QuietStep DEF n
<1>6. rank' \in [Entrant -> 0 .. Len(Field)] /\ fragments' \in [Entrant -> Nat]
  <2>1. \A u \in Registered : Standing(u) \in 0 .. Len(Field) /\ FragmentShare(u) \in Nat
    <3>1. \A u \in Registered : Standing(u) \in 1 .. Len(Field) /\ FragmentShare(u) \in Nat
      BY StandingIs, FragmentShareIs DEF PrizeInv
    <3>2. Len(Field) \in Nat
      BY PrizesAssumption DEF PrizesAssumption
    <3> QED BY <3>1, <3>2
  <2>2. rank \in [Entrant -> 0 .. Len(Field)] /\ fragments \in [Entrant -> Nat]
    BY DEF PrizeInv, PrizesTypeOK
  <2>3. rank' \in [Entrant -> 0 .. Len(Field)]
    BY <2>1, <2>2 DEF Rank
  <2>4. fragments' \in [Entrant -> Nat]
    <3>1. fragments' = [u \in Entrant |-> fragments[u] + (IF u \in Registered THEN FragmentShare(u) ELSE 0)]
      BY DEF Rank
    <3> QED BY <2>1, <2>2, <3>1
  <2> QED BY <2>3, <2>4
<1>7. PrizesTypeOK'
  BY <1>1, <1>3, <1>6 DEF Rank, Proceed, PrizeInv, PrizesTypeOK, entries, ContestStatus
<1> QED BY <1>5, <1>7 DEF PrizeInv

(* Steps of nobody's request. *)
LEMMA OthersInv ==
  ASSUME PrizeInv, UNCHANGED <<process, escrow, prize, rank, podiums, journal>>, condemned' = condemned,
         escrow = "refunded" => status' \notin Open
  PROVE  PrizeBooks' /\ Remembered' /\ Sequential'
<1>1. stage' = stage /\ memo' = memo /\ crossed' = crossed /\ QuietBooks /\ rank' = rank /\ podiums' = podiums
  BY DEF process, QuietBooks
<1>2. IsFiniteSet(podiums) /\ podiums \subseteq Nat
  BY DEF PrizeInv, PrizeBooks, GoodBooks
<1>3. PrizeBooks' /\ \A step, m : Knows(step, m) => Knows(step, m)'
  BY <1>1, <1>2, QuietKeeps
<1>4. Remembered'
  <2>1. \A w \in Handler : Knows(stage[w], memo[w]) /\ memo = [x \in Handler |-> memo[x]]
    BY DEF PrizeInv, Remembered
  <2>2. ASSUME NEW w \in Handler PROVE Knows(stage[w], memo[w])'
    <3> PICK step, m : step = stage[w] /\ m = memo[w]
      OBVIOUS
    <3>1. Knows(step, m)'
      BY <1>3, <2>1
    <3> QED BY <1>1, <3>1
  <2> QED BY <1>1, <2>2 DEF Remembered, PrizeInv
<1>5. Sequential'
  BY <1>1 DEF PrizeInv, Sequential, QuietBooks, Reasons, PaidIn, KindIn, Deposit, Return, Move, Held, World, Psp, Debit, Credit
<1> QED BY <1>3, <1>4, <1>5

LEMMA JudgeInv ==
  ASSUME PrizeInv, NEW u \in Entrant, Judge(u) \/ Flag(u) \/ Dismiss(u)
  PROVE  PrizeInv'
<1>1. /\ UNCHANGED <<process, escrow, prize, rank, podiums, journal>> /\ condemned' = condemned
      /\ status' = status /\ UNCHANGED contest /\ UNCHANGED process
  BY DEF Judge, Flag, Dismiss, contest
<1>2. PrizeBooks' /\ Remembered' /\ Sequential'
  <2>1. escrow = "refunded" => status' \notin Open
    BY <1>1 DEF PrizeInv, PrizeBooks
  <2> QED BY <1>1, <2>1, OthersInv
<1>3. PrizesTypeOK'
  <2>1. MaxScore \in Nat
    BY PrizesAssumption DEF PrizesAssumption
  <2>2. CASE Judge(u)
    <3> PICK verdict \in Verdicts : /\ entry' = [entry EXCEPT ![u] = verdict]
                                    /\ score' = [score EXCEPT ![u] = verdict.score]
      BY <2>2 DEF Judge
    <3>1. verdict \in [status : {"none", "submitted", "accepted", "disqualified"}, score : 0 .. MaxScore]
          /\ verdict.score \in 0 .. MaxScore
      BY <2>1 DEF Verdicts
    <3>2. accused' = accused
      BY <2>2 DEF Judge
    <3> QED BY <1>1, <3>1, <3>2 DEF PrizeInv, PrizesTypeOK, contest, process, ContestStatus, Open
  <2>3. CASE Flag(u)
    BY <1>1, <2>3 DEF Flag, PrizeInv, PrizesTypeOK, contest, process, ContestStatus, Open
  <2>4. CASE Dismiss(u)
    BY <1>1, <2>4 DEF Dismiss, PrizeInv, PrizesTypeOK, contest, process, ContestStatus, Open
  <2> QED BY <2>2, <2>3, <2>4
<1> QED BY <1>2, <1>3 DEF PrizeInv

LEMMA SetStatusInv ==
  ASSUME PrizeInv, NEW s \in ContestStatus, SetStatus(s)
  PROVE  PrizeInv'
<1>1. /\ UNCHANGED <<process, escrow, prize, rank, podiums, journal>> /\ condemned' = condemned
      /\ escrow = "refunded" => status' \notin Open
  BY DEF SetStatus, entries
<1>2. PrizeBooks' /\ Remembered' /\ Sequential'
  BY <1>1, OthersInv
<1>3. PrizesTypeOK'
  BY <1>1 DEF SetStatus, PrizeInv, PrizesTypeOK, process, entries, ContestStatus, Open
<1> QED BY <1>2, <1>3 DEF PrizeInv

LEMMA CutInv ==
  ASSUME PrizeInv, NEW w \in Handler, Cut(w)
  PROVE  PrizeInv'
<1>1. /\ stage' = [stage EXCEPT ![w] = "idle"] /\ memo' = [memo EXCEPT ![w] = Nil] /\ crossed' = crossed
      /\ QuietBooks /\ condemned' = condemned /\ podiums' = podiums /\ rank' = rank /\ status' = status
      /\ UNCHANGED <<contest, entries>>
  BY DEF Cut, Forgets, Keeps, QuietBooks, contest, entries
<1>2. IsFiniteSet(podiums) /\ podiums \subseteq Nat /\ (escrow = "refunded" => status \notin Open)
  BY DEF PrizeInv, PrizeBooks, GoodBooks
<1>3. PrizeBooks' /\ \A step, m : Knows(step, m) => Knows(step, m)'
  BY <1>1, <1>2, QuietKeeps
<1>4. /\ \A x \in Handler : x # w => stage'[x] = stage[x] /\ memo'[x] = memo[x]
      /\ stage'[w] = "idle" /\ memo' = [x \in Handler |-> memo'[x]]
  BY <1>1 DEF PrizeInv, PrizesTypeOK, Remembered
<1>5. Remembered'
  <2>1. ASSUME NEW x \in Handler PROVE Knows(stage[x], memo[x])'
    <3> PICK step, m : step = stage'[x] /\ m = memo'[x]
      OBVIOUS
    <3>1. CASE x # w
      <4>1. Knows(step, m)
        BY <1>4, <3>1 DEF PrizeInv, Remembered
      <4>2. Knows(step, m)'
        BY <1>3, <4>1
      <4> QED BY <4>2
    <3>2. CASE x = w
      BY <1>4, <3>2 DEF Knows
    <3> QED BY <3>1, <3>2
  <2> QED BY <1>4, <2>1 DEF Remembered
<1>6. Sequential'
  <2>1. \A x \in Handler : stage'[x] # "idle" => stage'[x] = stage[x]
    BY <1>4
  <2> QED BY <1>1, <2>1 DEF PrizeInv, Sequential, QuietBooks, Reasons, PaidIn, KindIn, Deposit, Return, Move, Held, World, Psp, Debit, Credit
<1>7. PrizesTypeOK'
  BY <1>1 DEF PrizeInv, PrizesTypeOK, contest, entries, ContestStatus, Open
<1> QED BY <1>3, <1>5, <1>6, <1>7 DEF PrizeInv

-----------------------------------------------------------------------------
(* Steps that write in the book. *)

LEMMA BooksSeize ==
  ASSUME NEW j, NEW es, es # "none", NEW pz, NEW cond, NEW cr, NEW pods, GoodBooks(j, es, pz, cond, cr, pods),
         NEW p, \A q \in j : KeyOf(q) # KeyOf(p), Kind(p) = "prize_confiscated", IsSeizure(p, j, cond, cr, pods)
  PROVE  /\ GoodBooks(j \cup {p}, es, pz, cond, cr, pods)
         /\ PaidIn(j \cup {p}) = PaidIn(j)
         /\ \A u : AwardedIn(j \cup {p}, u) = AwardedIn(j, u)
<1>1. \/ Kind(p) = "prize_refund" /\ Why(p) # "unclaimed_place" /\ IsReturn(p)
      \/ Kind(p) = "prize_confiscated" /\ IsSeizure(p, j, cond, cr, pods)
  OBVIOUS
<1>2. GoodBooks(j \cup {p}, es, pz, cond, cr, pods)
  BY <1>1, BooksAdd
<1>3. KindIn(j \cup {p}, "prize_award") = KindIn(j, "prize_award")
      /\ KindIn(j \cup {p}, "prize_refund") = KindIn(j, "prize_refund")
  BY DEF KindIn
<1>4. PaidIn(j \cup {p}) = PaidIn(j) /\ \A u : AwardedIn(j \cup {p}, u) = AwardedIn(j, u)
  BY <1>3 DEF PaidIn, AwardedIn
<1> QED BY <1>2, <1>4

LEMMA BooksReturn ==
  ASSUME NEW j, NEW es, es # "none", NEW pz, NEW cond, NEW cr, NEW pods, GoodBooks(j, es, pz, cond, cr, pods),
         NEW p, \A q \in j : KeyOf(q) # KeyOf(p), Kind(p) = "prize_refund", Why(p) # "unclaimed_place", IsReturn(p)
  PROVE  /\ GoodBooks(j \cup {p}, es, pz, cond, cr, pods)
         /\ PaidIn(j \cup {p}) = PaidIn(j)
         /\ \A u : AwardedIn(j \cup {p}, u) = AwardedIn(j, u)
<1>1. \/ Kind(p) = "prize_refund" /\ Why(p) # "unclaimed_place" /\ IsReturn(p)
      \/ Kind(p) = "prize_confiscated" /\ IsSeizure(p, j, cond, cr, pods)
  OBVIOUS
<1>2. GoodBooks(j \cup {p}, es, pz, cond, cr, pods)
  BY <1>1, BooksAdd
<1>3. PaidIn(j \cup {p}) = PaidIn(j)
  BY <1>1, BooksAdd
<1>4. \A u : AwardedIn(j \cup {p}, u) = AwardedIn(j, u)
  BY <1>1, BooksAdd
<1> QED BY <1>2, <1>3, <1>4

LEMMA PostedIs ==
  ASSUME NEW ps
  PROVE  Posted(ps) = journal \cup Fresh(ps, journal)
BY DEF Posted, KeyOf, Fresh

(* A request that ends by writing in the book: what the others remember.   *)
LEMMA PostingStep ==
  ASSUME PrizeInv, NEW w \in Handler, NEW from, from # "idle", Proceed(w, from, "idle"), Forgets(w),
         condemned' = condemned, podiums' = podiums, rank' = rank,
         escrow # "none" => escrow' # "none",
         \A u, amount : Owes(journal, crossed, podiums, u, amount) => Owes(journal', crossed, podiums, u, amount)
  PROVE  /\ Remembered' /\ (crossed' <=> crossed)
         /\ stage' \in [Handler -> Stages] /\ crossed' \in BOOLEAN
         /\ \A x \in Handler : stage'[x] # "idle" => stage'[x] = stage[x] /\ x # w
<1>1. crossed' <=> crossed
  BY DEF Proceed
<1>2. crossed' = crossed
  BY <1>1 DEF Proceed, PrizeInv, PrizesTypeOK
<1>3. /\ \A x \in Handler : x # w => stage'[x] = stage[x] /\ memo'[x] = memo[x]
      /\ stage'[w] = "idle" /\ memo' = [x \in Handler |-> memo'[x]]
  BY DEF Proceed, Forgets, Keeps, PrizeInv, PrizesTypeOK, Remembered
<1>4. ASSUME NEW step, NEW m, Knows(step, m) PROVE Knows(step, m)'
  <2>1. step = "seize" => Owes(journal', crossed', podiums', m.of, m.amount)
    BY <1>2, <1>4 DEF Knows
  <2>2. Placed(rank)' = Placed(rank)
    BY DEF Placed
  <2> QED BY <1>4, <2>1, <2>2 DEF Knows, Reasons
<1>5. Remembered'
  <2>1. ASSUME NEW x \in Handler PROVE Knows(stage[x], memo[x])'
    <3> PICK step, m : step = stage'[x] /\ m = memo'[x]
      OBVIOUS
    <3>1. CASE x # w
      <4>1. Knows(step, m)
        BY <1>3, <3>1 DEF PrizeInv, Remembered
      <4>2. Knows(step, m)'
        BY <1>4, <4>1
      <4> QED BY <4>2
    <3>2. CASE x = w
      BY <1>3, <3>2 DEF Knows
    <3> QED BY <3>1, <3>2
  <2> QED BY <1>3, <2>1 DEF Remembered
<1>6. stage' \in [Handler -> Stages] /\ crossed' \in BOOLEAN
  BY DEF Proceed, PrizeInv, PrizesTypeOK, Stages
<1>7. \A x \in Handler : stage'[x] # "idle" => stage'[x] = stage[x] /\ x # w
  BY <1>3
<1> QED BY <1>1, <1>5, <1>6, <1>7

LEMMA RecordFundsInv ==
  ASSUME PrizeInv, NEW w \in Handler, RecordFunds(w)
  PROVE  PrizeInv'
<1>0. /\ Proceed(w, "fund", "idle") /\ Forgets(w) /\ stage[w] = "fund"
      /\ condemned' = condemned /\ podiums' = podiums /\ rank' = rank /\ status' = status
      /\ UNCHANGED <<entered, fragments, entries>>
      /\ journal' = Posted({Deposit(memo[w])})
      /\ prize'   = IF escrow = "none" THEN memo[w] ELSE prize
      /\ escrow'  = IF escrow = "none" THEN "funded" ELSE escrow
  BY DEF RecordFunds, Proceed, entries
<1>1. memo[w] \in Sums
  BY <1>0 DEF PrizeInv, Remembered, Knows
<1> PICK paidIn : paidIn = memo[w]
  OBVIOUS
<1>2. GoodBooks(journal, escrow, prize, condemned, crossed, podiums)
  BY DEF PrizeInv, PrizeBooks
<1>3. crossed' <=> crossed
  BY <1>0 DEF Proceed
<1>4. CASE escrow = "none"
  <2>1. journal = {} /\ prize = 0 /\ IsFiniteSet(podiums) /\ podiums \subseteq Nat
    BY <1>2, <1>4 DEF GoodBooks
  <2>2. journal' = {Deposit(paidIn)} /\ prize' = paidIn /\ escrow' = "funded"
    BY <1>0, <1>4, <2>1, PostedIs DEF Fresh
  <2>3. GoodBooks({Deposit(paidIn)}, "funded", paidIn, condemned', crossed', podiums')
    BY <1>0, <1>1, <2>1, BooksOpened
  <2>4. PrizeBooks'
    BY <2>2, <2>3 DEF PrizeBooks
  <2>5. \A u, amount : ~Owes(journal, crossed, podiums, u, amount)
    <3>1. KindIn(journal, "prize_award") = {}
      BY <2>1 DEF KindIn
    <3>2. \A u : AwardedIn(journal, u) = 0
      BY <3>1, CreditedNothing, FS_EmptySet DEF AwardedIn
    <3> QED BY <3>2 DEF Owes
  <2>6. /\ Remembered' /\ stage' \in [Handler -> Stages] /\ crossed' \in BOOLEAN
        /\ \A x \in Handler : stage'[x] # "idle" => stage'[x] = stage[x] /\ x # w
    BY <1>0, <1>4, <2>5, PostingStep
  <2>7. Sequential'
    <3> SUFFICES ASSUME ~crossed' PROVE Sequential'
      BY DEF Sequential
    <3>1. ~crossed /\ \A x \in Handler : x # w => stage[x] = "idle"
      BY <1>0, <1>3 DEF PrizeInv, Sequential
    <3>2. \A x \in Handler : stage'[x] = "idle"
      BY <2>6, <3>1
    <3>3. (journal = {Deposit(prize)})'
      BY <2>2 DEF Deposit, Move, Held, Psp, Debit, Credit
    <3> QED BY <2>2, <3>2, <3>3 DEF Sequential
  <2>8. PrizesTypeOK'
    BY <1>0, <1>1, <1>4, <2>2, <2>6 DEF PrizeInv, PrizesTypeOK, entries, Stages, ContestStatus, Open
  <2> QED BY <2>4, <2>6, <2>7, <2>8 DEF PrizeInv
<1>5. CASE escrow # "none"
  <2>1. Deposit(prize) \in journal
    BY <1>2, <1>5 DEF GoodBooks
  <2>2. KeyOf(Deposit(prize)) = KeyOf(Deposit(paidIn))
    BY KindsOf
  <2>3. journal' = journal /\ escrow' = escrow /\ prize' = prize
    BY <1>0, <1>5, <2>1, <2>2, PostedIs DEF Fresh
  <2>4. QuietBooks /\ memo' = [memo EXCEPT ![w] = Nil]
    BY <1>0, <2>3 DEF QuietBooks, Forgets, Keeps
  <2>5. PrizeBooks' /\ Remembered' /\ Sequential'
    <3>1. IsFiniteSet(podiums) /\ podiums \subseteq Nat /\ (escrow = "refunded" => status \notin Open)
      BY DEF PrizeInv, PrizeBooks, GoodBooks
    <3> QED BY <1>0, <2>4, <3>1, QuietStep
  <2>6. PrizesTypeOK'
    BY <1>0, <2>3 DEF PrizeInv, PrizesTypeOK, entries, Proceed, ContestStatus, Open
  <2> QED BY <2>5, <2>6 DEF PrizeInv
<1> QED BY <1>4, <1>5

LEMMA SeizeInv ==
  ASSUME PrizeInv, NEW w \in Handler, Seize(w)
  PROVE  PrizeInv'
<1> PICK of, amount : of = memo[w].of /\ amount = memo[w].amount
  OBVIOUS
<1> PICK p : p = Seizure(of, amount)
  OBVIOUS
<1>0. /\ Proceed(w, "seize", "idle") /\ Forgets(w) /\ stage[w] = "seize"
      /\ condemned' = condemned /\ podiums' = podiums /\ rank' = rank /\ status' = status
      /\ escrow' = escrow /\ prize' = prize
      /\ UNCHANGED <<entered, fragments, entries>>
      /\ journal' = Posted({p})
  BY DEF Seize, Seized, Proceed, entries, contest
<1>1. of \in condemned /\ Owes(journal, crossed, podiums, of, amount)
  BY <1>0 DEF PrizeInv, Remembered, Knows
<1>2. GoodBooks(journal, escrow, prize, condemned, crossed, podiums)
  BY DEF PrizeInv, PrizeBooks
<1>3. crossed' <=> crossed
  BY <1>0 DEF Proceed
<1>4. crossed' = crossed
  BY <1>3, <1>0 DEF Proceed, PrizeInv, PrizesTypeOK
<1>5. PaidIn(journal) # {} /\ escrow # "none"
  <2>1. PaidIn(journal) # {}
    <3> SUFFICES ASSUME PaidIn(journal) = {} PROVE FALSE
      OBVIOUS
    <3>1. KindIn(journal, "prize_award") = {}
      BY DEF PaidIn
    <3>2. AwardedIn(journal, of) = 0
      BY <3>1, CreditedNothing, FS_EmptySet DEF AwardedIn
    <3> QED BY <1>1, <3>2 DEF Owes
  <2>2. PaidIn({}) = {}
    BY DEF PaidIn, KindIn
  <2> QED BY <1>2, <2>1, <2>2 DEF GoodBooks
<1>6. Kind(p) = "prize_confiscated" /\ IsSeizure(p, journal, condemned, crossed, podiums)
  BY <1>1, KindsOf DEF IsSeizure, Owes
<1>7. /\ GoodBooks(journal', escrow, prize, condemned, crossed, podiums)
      /\ PaidIn(journal') = PaidIn(journal)
      /\ \A u : AwardedIn(journal', u) = AwardedIn(journal, u)
      /\ KindIn(journal', "prize_refund") = KindIn(journal, "prize_refund")
  <2>1. CASE \A q \in journal : KeyOf(q) # KeyOf(p)
    <3>1. journal' = journal \cup {p}
      BY <1>0, <2>1, PostedIs DEF Fresh
    <3>2. KindIn(journal \cup {p}, "prize_refund") = KindIn(journal, "prize_refund")
      BY <1>6 DEF KindIn
    <3>3. /\ GoodBooks(journal \cup {p}, escrow, prize, condemned, crossed, podiums)
          /\ PaidIn(journal \cup {p}) = PaidIn(journal)
          /\ \A u : AwardedIn(journal \cup {p}, u) = AwardedIn(journal, u)
      BY <1>2, <1>5, <1>6, <2>1, BooksSeize
    <3> QED BY <3>1, <3>2, <3>3
  <2>2. CASE \E q \in journal : KeyOf(q) = KeyOf(p)
    <3>1. journal' = journal
      BY <1>0, <2>2, PostedIs DEF Fresh
    <3> QED BY <1>2, <3>1
  <2> QED BY <2>1, <2>2
<1>8. PrizeBooks'
  BY <1>0, <1>4, <1>7 DEF PrizeBooks, PrizeInv, Open
<1>9. /\ Remembered' /\ stage' \in [Handler -> Stages] /\ crossed' \in BOOLEAN
      /\ \A x \in Handler : stage'[x] # "idle" => stage'[x] = stage[x] /\ x # w
  <2>1. \A u, a : Owes(journal, crossed, podiums, u, a) => Owes(journal', crossed, podiums, u, a)
    BY <1>7 DEF Owes
  <2> QED BY <1>0, <1>5, <2>1, PostingStep
<1>10. Sequential'
  <2> SUFFICES ASSUME ~crossed' PROVE Sequential'
    BY DEF Sequential
  <2>1. ~crossed /\ \A x \in Handler : x # w => stage[x] = "idle"
    BY <1>0, <1>3 DEF PrizeInv, Sequential
  <2>2. \A x \in Handler : stage'[x] = "idle"
    BY <1>9, <2>1
  <2>3. escrow = "awarded"
    <3>1. escrow # "funded"
      <4> SUFFICES ASSUME escrow = "funded" PROVE FALSE
        OBVIOUS
      <4>1. journal = {Deposit(prize)}
        BY <2>1 DEF PrizeInv, Sequential
      <4>2. PaidIn({Deposit(prize)}) = {}
        BY KindsOf DEF PaidIn, KindIn
      <4> QED BY <1>5, <4>1, <4>2
    <3>2. escrow # "refunded"
      <4> SUFFICES ASSUME escrow = "refunded" PROVE FALSE
        OBVIOUS
      <4>1. PICK r \in Reasons : journal = {Deposit(prize), Return(r, prize)}
        BY <2>1 DEF PrizeInv, Sequential
      <4>2. r # "unclaimed_place"
        BY DEF Reasons
      <4>3. PaidIn({Deposit(prize), Return(r, prize)}) = {}
        BY <4>2, KindsOf DEF PaidIn, KindIn
      <4> QED BY <1>5, <4>1, <4>3
    <3> QED BY <1>5, <3>1, <3>2 DEF PrizeInv, PrizesTypeOK
  <2>4. PaidIn(journal') # {} /\ KindIn(journal', "prize_refund") \subseteq PaidIn(journal')
    BY <1>7, <2>1, <2>3 DEF PrizeInv, Sequential
  <2>5. (PaidIn(journal) # {} /\ KindIn(journal, "prize_refund") \subseteq PaidIn(journal))'
    BY <2>4
  <2> QED BY <1>0, <2>2, <2>3, <2>5 DEF Sequential
<1>11. PrizesTypeOK'
  BY <1>0, <1>9 DEF PrizeInv, PrizesTypeOK, entries, Stages, ContestStatus, Open
<1> QED BY <1>8, <1>9, <1>10, <1>11 DEF PrizeInv

LEMMA ReturnPrizeInv ==
  ASSUME PrizeInv, NEW w \in Handler, ReturnPrize(w)
  PROVE  PrizeInv'
<1>0. /\ Proceed(w, "refund", "idle") /\ Forgets(w) /\ stage[w] = "refund"
      /\ condemned' = condemned /\ podiums' = podiums /\ rank' = rank /\ status' = status /\ prize' = prize
      /\ UNCHANGED <<entered, fragments, entries>>
  BY DEF ReturnPrize, Proceed, entries
<1>1. memo[w] \in Reasons /\ escrow # "none"
  BY <1>0 DEF PrizeInv, Remembered, Knows
<1>2. /\ GoodBooks(journal, escrow, prize, condemned, crossed, podiums)
      /\ IsFiniteSet(podiums) /\ podiums \subseteq Nat /\ (escrow = "refunded" => status \notin Open)
  BY DEF PrizeInv, PrizeBooks, GoodBooks
<1>3. crossed' <=> crossed
  BY <1>0 DEF Proceed
<1>4. crossed' = crossed
  BY <1>3, <1>0 DEF Proceed, PrizeInv, PrizesTypeOK
<1>5. CASE escrow = "funded" /\ status \in Open
  <2>1. QuietBooks /\ memo' = [memo EXCEPT ![w] = Nil]
    BY <1>0, <1>5 DEF ReturnPrize, QuietBooks, Forgets, Keeps
  <2>2. PrizeBooks' /\ Remembered' /\ Sequential'
    BY <1>0, <1>2, <2>1, QuietStep
  <2>3. PrizesTypeOK'
    BY <1>0, <2>1 DEF PrizeInv, PrizesTypeOK, QuietBooks, entries, Proceed, ContestStatus, Open
  <2> QED BY <2>2, <2>3 DEF PrizeInv
<1>6. CASE ~(escrow = "funded" /\ status \in Open)
  <2> PICK r, p : r = memo[w] /\ p = Return(memo[w], prize)
    OBVIOUS
  <2>0. journal' = Posted({p}) /\ escrow' = IF escrow = "funded" THEN "refunded" ELSE escrow
    BY <1>6 DEF ReturnPrize
  <2>1. Kind(p) = "prize_refund" /\ Why(p) # "unclaimed_place" /\ IsReturn(p)
    <3>1. prize \in Nat
      BY <1>1, <1>2, SumsArePositive DEF GoodBooks
    <3>2. r # "unclaimed_place"
      BY <1>1 DEF Reasons
    <3> QED BY <3>1, <3>2, KindsOf DEF IsReturn
  <2>2. /\ GoodBooks(journal', escrow, prize, condemned, crossed, podiums)
        /\ PaidIn(journal') = PaidIn(journal)
        /\ \A u : AwardedIn(journal', u) = AwardedIn(journal, u)
    <3>1. CASE \A q \in journal : KeyOf(q) # KeyOf(p)
      <4>1. journal' = journal \cup {p}
        BY <2>0, <3>1, PostedIs DEF Fresh
      <4>2. /\ GoodBooks(journal \cup {p}, escrow, prize, condemned, crossed, podiums)
            /\ PaidIn(journal \cup {p}) = PaidIn(journal)
            /\ \A u : AwardedIn(journal \cup {p}, u) = AwardedIn(journal, u)
        BY <1>1, <1>2, <2>1, <3>1, BooksReturn
      <4> QED BY <4>1, <4>2
    <3>2. CASE \E q \in journal : KeyOf(q) = KeyOf(p)
      <4>1. journal' = journal
        BY <2>0, <3>2, PostedIs DEF Fresh
      <4> QED BY <1>2, <4>1
    <3> QED BY <3>1, <3>2
  <2>3. PrizeBooks'
    <3>1. GoodBooks(journal', escrow', prize, condemned, crossed, podiums)
      BY <1>1, <2>0, <2>2 DEF GoodBooks
    <3>2. escrow' = "refunded" => status \notin Open
      BY <1>2, <1>6, <2>0
    <3> QED BY <1>0, <1>4, <3>1, <3>2 DEF PrizeBooks, Open
  <2>4. /\ Remembered' /\ stage' \in [Handler -> Stages] /\ crossed' \in BOOLEAN
        /\ \A x \in Handler : stage'[x] # "idle" => stage'[x] = stage[x] /\ x # w
    <3>1. \A u, a : Owes(journal, crossed, podiums, u, a) => Owes(journal', crossed, podiums, u, a)
      BY <2>2 DEF Owes
    <3>2. escrow # "none" => escrow' # "none"
      BY <2>0
    <3> QED BY <1>0, <3>1, <3>2, PostingStep
  <2>5. Sequential'
    <3> SUFFICES ASSUME ~crossed' PROVE Sequential'
      BY DEF Sequential
    <3>1. ~crossed /\ escrow = "funded" /\ \A x \in Handler : x # w => stage[x] = "idle"
      BY <1>0, <1>3 DEF PrizeInv, Sequential
    <3>2. \A x \in Handler : stage'[x] = "idle"
      BY <2>4, <3>1
    <3>3. journal = {Deposit(prize)} /\ escrow' = "refunded"
      BY <2>0, <3>1 DEF PrizeInv, Sequential
    <3>4. KeyOf(Deposit(prize)) # KeyOf(p)
      <4>1. Kind(Deposit(prize)) = "prize_escrow"
        BY KindsOf
      <4> QED BY <2>1, <4>1, SameKeySameKind
    <3>5. journal' = {Deposit(prize), Return(r, prize)}
      BY <2>0, <3>3, <3>4, PostedIs DEF Fresh
    <3>6. (\E x \in Reasons : journal = {Deposit(prize), Return(x, prize)})'
      BY <1>0, <1>1, <3>5 DEF Reasons, Deposit, Return, Move, Held, World, Psp, Debit, Credit
    <3> QED BY <3>2, <3>3, <3>6 DEF Sequential
  <2>6. PrizesTypeOK'
    BY <1>0, <2>0, <2>4 DEF PrizeInv, PrizesTypeOK, entries, Stages, ContestStatus, Open
  <2> QED BY <2>3, <2>4, <2>5, <2>6 DEF PrizeInv
<1> QED BY <1>5, <1>6

LEMMA PayInv ==
  ASSUME PrizeInv, NEW w \in Handler, Pay(w)
  PROVE  PrizeInv'
<1> PICK podium : podium = memo[w]
  OBVIOUS
<1>0. /\ Proceed(w, "pay", "idle") /\ Forgets(w) /\ stage[w] = "pay"
      /\ condemned' = condemned /\ podiums' = podiums /\ rank' = rank /\ status' = status /\ prize' = prize
      /\ escrow' = IF escrow = "funded" THEN "awarded" ELSE escrow
      /\ UNCHANGED <<entered, fragments, entries>>
  BY DEF Pay, Proceed, entries
<1>1. Len(podium) \in podiums /\ escrow # "none"
  BY <1>0 DEF PrizeInv, Remembered, Knows
<1>2. /\ GoodBooks(journal, escrow, prize, condemned, crossed, podiums)
      /\ escrow = "refunded" => status \notin Open
  BY DEF PrizeInv, PrizeBooks
<1>3. crossed' <=> crossed
  BY <1>0 DEF Proceed
<1>4. crossed' = crossed
  BY <1>3, <1>0 DEF Proceed, PrizeInv, PrizesTypeOK
<1>5. journal' = journal \cup Fresh(PayOf(prize, podium), journal)
  <2>1. Awards(podium) \cup Leftover(podium) = PayOf(prize, podium)
    BY DEF Awards, Leftover, PayOf, AwardsOf, LeftoverOf
  <2> QED BY <2>1, PostedIs DEF Pay
<1>6. ~crossed => escrow = "funded" /\ journal = {Deposit(prize)} /\ PaidIn(journal) = {}
                  /\ \A x \in Handler : x # w => stage[x] = "idle"
  <2> SUFFICES ASSUME ~crossed
               PROVE  escrow = "funded" /\ journal = {Deposit(prize)} /\ PaidIn(journal) = {}
                      /\ \A x \in Handler : x # w => stage[x] = "idle"
    OBVIOUS
  <2>1. escrow = "funded" /\ journal = {Deposit(prize)} /\ \A x \in Handler : x # w => stage[x] = "idle"
    BY <1>0 DEF PrizeInv, Sequential
  <2>2. PaidIn({Deposit(prize)}) = {}
    BY KindsOf DEF PaidIn, KindIn
  <2> QED BY <2>1, <2>2
<1>7. Single(crossed, podiums) => PaidIn(journal) = {} \/ Cardinality(podiums) <= 1
  BY <1>6 DEF Single
<1>8. /\ GoodBooks(journal', escrow, prize, condemned, crossed, podiums)
      /\ \A u, a : Owes(journal, crossed, podiums, u, a) => Owes(journal', crossed, podiums, u, a)
      /\ PaidIn(journal) = {} => /\ PaidIn(journal') = PayOf(prize, podium) /\ PaidIn(journal') # {}
                                 /\ journal' = journal \cup PayOf(prize, podium)
  <2> PICK k : k = journal'
    OBVIOUS
  <2>1. k = journal \cup Fresh(PayOf(prize, podium), journal)
    BY <1>5
  <2>2. GoodBooks(k, escrow, prize, condemned, crossed, podiums)
    BY <1>1, <1>2, <1>7, <2>1, BooksPay
  <2>3. PaidAfter(k, journal, prize, crossed, podiums, podium)
    BY <1>1, <1>2, <1>7, <2>1, BooksPay
  <2> QED BY <2>2, <2>3 DEF PaidAfter
<1>9. PrizeBooks'
  <2>1. GoodBooks(journal', escrow', prize, condemned, crossed, podiums)
    BY <1>0, <1>1, <1>8 DEF GoodBooks
  <2>2. escrow' = "refunded" => status \notin Open
    BY <1>0, <1>2
  <2> QED BY <1>0, <1>4, <2>1, <2>2 DEF PrizeBooks, Open
<1>10. /\ Remembered' /\ stage' \in [Handler -> Stages] /\ crossed' \in BOOLEAN
       /\ \A x \in Handler : stage'[x] # "idle" => stage'[x] = stage[x] /\ x # w
  <2>1. escrow # "none" => escrow' # "none"
    BY <1>0
  <2> QED BY <1>0, <1>8, <2>1, PostingStep
<1>11. Sequential'
  <2> SUFFICES ASSUME ~crossed' PROVE Sequential'
    BY DEF Sequential
  <2>1. ~crossed
    BY <1>3
  <2>2. \A x \in Handler : stage'[x] = "idle"
    BY <1>6, <1>10, <2>1
  <2>3. escrow' = "awarded"
    BY <1>0, <1>6, <2>1
  <2>4. PaidIn(journal') # {} /\ PaidIn(journal') = PayOf(prize, podium)
        /\ journal' = {Deposit(prize)} \cup PayOf(prize, podium)
    BY <1>6, <1>8, <2>1
  <2>5. KindIn(journal', "prize_refund") \subseteq PaidIn(journal')
    <3> SUFFICES ASSUME NEW p \in journal', Kind(p) = "prize_refund" PROVE p \in PaidIn(journal')
      BY DEF KindIn
    <3>1. Kind(Deposit(prize)) = "prize_escrow"
      BY KindsOf
    <3> QED BY <2>4, <3>1
  <2>6. (PaidIn(journal) # {} /\ KindIn(journal, "prize_refund") \subseteq PaidIn(journal))'
    BY <2>4, <2>5
  <2> QED BY <2>2, <2>3, <2>6 DEF Sequential
<1>12. PrizesTypeOK'
  BY <1>0, <1>10 DEF PrizeInv, PrizesTypeOK, entries, Stages, ContestStatus, Open
<1> QED BY <1>9, <1>10, <1>11, <1>12 DEF PrizeInv

-----------------------------------------------------------------------------

LEMMA PrizesNextInv == PrizeInv /\ [PrizesNext]_prizeVars => PrizeInv'
<1> SUFFICES ASSUME PrizeInv, [PrizesNext]_prizeVars PROVE PrizeInv'
  OBVIOUS
<1>1. CASE UNCHANGED prizeVars
  <2>1. UNCHANGED <<status, escrow, prize, entered, rank, fragments, podiums, entry, score, accused,
                    condemned, journal, stage, memo, crossed>>
    BY <1>1 DEF prizeVars, contest, entries, process
  <2>2. /\ UNCHANGED <<process, escrow, prize, rank, podiums, journal>> /\ condemned' = condemned
        /\ escrow = "refunded" => status' \notin Open
    BY <2>1 DEF process, PrizeInv, PrizeBooks
  <2>3. PrizeBooks' /\ Remembered' /\ Sequential'
    BY <2>2, OthersInv
  <2>4. PrizesTypeOK'
    BY <2>1 DEF PrizeInv, PrizesTypeOK, ContestStatus, Open
  <2> QED BY <2>3, <2>4 DEF PrizeInv
<1>2. ASSUME NEW w \in Handler, Resume(w) PROVE PrizeInv'
  BY <1>2, EnrollInv, RecordFundsInv, HandInInv, FindPrizeInv, SeizeInv, ReturnPrizeInv,
     RescoreInv, CheckStatusInv, RankInv, BeginAwardInv, ReadPodiumInv, PayInv DEF Resume
<1>3. ASSUME NEW w \in Handler, Register(w) \/ Fund(w) \/ Submit(w) \/ Conclude(w) \/ Refund(w) \/ Cut(w)
      PROVE  PrizeInv'
  BY <1>3, RegisterInv, FundInv, SubmitInv, ConcludeInv, RefundInv, CutInv
<1>4. ASSUME NEW w \in Handler, NEW u \in Entrant, Uphold(w, u) PROVE PrizeInv'
  BY <1>4, UpholdInv
<1>5. ASSUME NEW u \in Entrant, Judge(u) \/ Flag(u) \/ Dismiss(u) PROVE PrizeInv'
  BY <1>5, JudgeInv
<1>6. ASSUME NEW s \in ContestStatus, SetStatus(s) PROVE PrizeInv'
  BY <1>6, SetStatusInv
<1> QED BY <1>1, <1>2, <1>3, <1>4, <1>5, <1>6 DEF PrizesNext

(* The invariant of a contest's prize: every posting in its book is one    *)
(* the code writes, under a key of its own and for the amount it must      *)
(* have, what every request remembers of the book is still so, and, while  *)
(* requests follow each other, the escrow's state says what is in it.      *)
THEOREM PrizesInvariance == PrizesSpec => []PrizeInv
<1>1. PrizesInit => PrizeInv
  BY PrizesInitInv
<1>2. PrizeInv /\ [PrizesNext]_prizeVars => PrizeInv'
  BY PrizesNextInv
<1> QED BY <1>1, <1>2, PTL DEF PrizesSpec

(* Whatever requests overlap, however often an entry is accused: only what *)
(* a condemned entrant was awarded is taken back, and never more than that *)
(* (confiscate).                                                           *)
THEOREM PrizesSeizeSoundly == PrizesSpec => []SeizuresAreSound
BY PrizesInvariance, InvSeizures, PTL

(* Whatever conclusions overlap, on podiums of one size: what the winners  *)
(* get and what goes back for want of one is the prize to the cent, paid   *)
(* once (award, split_for).                                                *)
THEOREM PrizesPayExactly == PrizesSpec => []PaidOutExactly
BY PrizesInvariance, InvPaid, PTL

(* While requests follow each other, cut off anywhere: the escrow account  *)
(* holds the prize when the contest says it is funded, and nothing that is *)
(* anybody's once it says otherwise; an open contest holds its prize or    *)
(* has paid all of it.                                                     *)
THEOREM PrizesMatchEscrow == PrizesSpec => []EscrowMatchesState
BY PrizesInvariance, InvEscrow, PTL
===============================================================================
