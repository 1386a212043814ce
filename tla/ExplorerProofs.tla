--------------------------- MODULE ExplorerProofs ---------------------------
(***************************************************************************)
(* What the proxy and the peers keep of the chain. The caches of the       *)
(* proxy's database say what its views say, for any nodes, contracts,      *)
(* rents and addresses, whatever rows come and go: first what a sum over a *)
(* finite set does when one member comes or goes, which the triggers'      *)
(* increments rest on; then one lemma per write. The filters of a listing  *)
(* agree with what it shows. The peers' copies of each other's twins come  *)
(* from the chain, so they understand each other. Last, these hold of any  *)
(* run of MCRecords, whose behaviours are each of one of the parts, and so *)
(* does what FarmerBotProofs proves of the farmerbot.                      *)
(***************************************************************************)
EXTENDS MCRecords, FiniteSetTheorems, WellFoundedInduction, TLAPS

-----------------------------------------------------------------------------
(* Sums.                                                                   *)

(* Of the subsets of a finite set that are bad, some have no bad subset.   *)
LEMMA LeastSet ==
  ASSUME NEW S, IsFiniteSet(S), NEW Bad \in SUBSET (SUBSET S), Bad # {}
  PROVE  \E T \in Bad : \A U \in Bad : U \subseteq T => U = T
<1>1. IsWellFoundedOn(StrictSubsetOrdering(S), FiniteSubsetsOf(S)) BY FS_StrictSubsetOrderingWellFounded
<1>2. FiniteSubsetsOf(S) = SUBSET S BY FS_FiniteSubsetsOfFinite
<1>3. PICK T \in Bad : \A U \in Bad : ~(<<U, T>> \in StrictSubsetOrdering(S)) BY <1>1, <1>2, WFMin
<1>4. ASSUME NEW U \in Bad, U \subseteq T, U # T PROVE FALSE
  <2>1. <<U, T>> \in StrictSubsetOrdering(S) BY <1>4 DEF StrictSubsetOrdering
  <2> QED BY <1>3, <2>1
<1>5. \A U \in Bad : U \subseteq T => U = T BY <1>4
<1> QED BY <1>5

(* f adds v up over the subsets of S, in the order MapThenSumSet takes.    *)
First(s) == CHOOSE x \in s : TRUE
AddsUp(v, S, f) ==
  f = [s \in SUBSET S |-> IF s = {} THEN 0 ELSE v[First(s)] + f[s \ {First(s)}]]

LEMMA FirstIn == ASSUME NEW s, s # {} PROVE First(s) \in s
BY DEF First

LEMMA AddsUpAt ==
  ASSUME NEW S, NEW v, NEW f, AddsUp(v, S, f)
  PROVE  f[{}] = 0 /\ \A s \in SUBSET S : s # {} => f[s] = v[First(s)] + f[s \ {First(s)}]
<1>1. \A s \in SUBSET S : f[s] = IF s = {} THEN 0 ELSE v[First(s)] + f[s \ {First(s)}] BY DEF AddsUp
<1> QED BY <1>1

(* The sums over a set depend on what is added alone.                      *)
LEMMA SumsAgree ==
  ASSUME NEW S, IsFiniteSet(S), NEW T \in SUBSET S, NEW v, NEW w, \A x \in T : v[x] = w[x],
         NEW f, AddsUp(v, S, f), NEW g, AddsUp(w, T, g)
  PROVE  \A s \in SUBSET T : g[s] = f[s]
<1> DEFINE Bad == {s \in SUBSET T : g[s] # f[s]}
<1> SUFFICES ASSUME Bad # {} PROVE FALSE OBVIOUS
<1>1. IsFiniteSet(T) BY FS_Subset
<1>2. PICK s \in Bad : \A u \in Bad : u \subseteq s => u = s
  <2>1. Bad \in SUBSET (SUBSET T) OBVIOUS
  <2> HIDE DEF Bad
  <2> QED BY <1>1, <2>1, LeastSet
<1>3. s \in SUBSET T /\ s \in SUBSET S /\ g[s] # f[s] BY <1>2
<1>4. s # {}
  <2>1. f[{}] = 0 /\ g[{}] = 0 BY AddsUpAt
  <2> QED BY <1>3, <2>1
<1>5. First(s) \in s BY <1>4, FirstIn
<1>6. g[s \ {First(s)}] = f[s \ {First(s)}] BY <1>2, <1>3, <1>5
<1>7. v[First(s)] = w[First(s)] BY <1>3, <1>5
<1>8. f[s] = v[First(s)] + f[s \ {First(s)}]
  <2>1. \A u \in SUBSET S : u # {} => f[u] = v[First(u)] + f[u \ {First(u)}] BY AddsUpAt
  <2> QED BY <1>3, <1>4, <2>1
<1>9. g[s] = w[First(s)] + g[s \ {First(s)}]
  <2>1. \A u \in SUBSET T : u # {} => g[u] = w[First(u)] + g[u \ {First(u)}] BY DEF AddsUp
  <2> QED BY <1>3, <1>4, <2>1
<1> QED BY <1>3, <1>6, <1>7, <1>8, <1>9

(* There are sums: those over a least set without would be made of those   *)
(* over its subsets.                                                       *)
LEMMA SumsExist ==
  ASSUME NEW S, IsFiniteSet(S), NEW v \in [S -> Int]
  PROVE  \E f \in [SUBSET S -> Int] : AddsUp(v, S, f)
<1> DEFINE Has(T) == \E f \in [SUBSET T -> Int] : AddsUp(v, T, f)
           Bad == {T \in SUBSET S : ~Has(T)}
<1> SUFFICES ASSUME ~Has(S) PROVE FALSE OBVIOUS
<1>1. PICK T \in Bad : \A U \in Bad : U \subseteq T => U = T
  <2>1. Bad \in SUBSET (SUBSET S) /\ Bad # {} OBVIOUS
  <2> HIDE DEF Bad
  <2> QED BY <2>1, LeastSet
<1> DEFINE one(U) == CHOOSE f \in [SUBSET U -> Int] : AddsUp(v, U, f)
           rest == T \ {First(T)}
           f == [s \in SUBSET T |-> IF s # T THEN one(s)[s] ELSE IF T = {} THEN 0 ELSE v[First(T)] + one(rest)[rest]]
<1>2. ASSUME NEW U \in SUBSET T, U # T PROVE one(U) \in [SUBSET U -> Int] /\ AddsUp(v, U, one(U))
  <2>1. Has(U) BY <1>1, <1>2
  <2> QED BY <2>1
<1>3. T # {} => First(T) \in T /\ rest \in SUBSET T /\ rest # T BY FirstIn
<1>4. f \in [SUBSET T -> Int]
  <2> SUFFICES ASSUME NEW s \in SUBSET T PROVE f[s] \in Int OBVIOUS
  <2>1. CASE s # T BY <2>1, <1>2
  <2>2. CASE s = T /\ T # {}
    <3>1. one(rest)[rest] \in Int BY <2>2, <1>2, <1>3
    <3>2. v[First(T)] \in Int BY <2>2, <1>1, <1>3
    <3> QED BY <2>2, <3>1, <3>2
  <2>3. CASE s = T /\ T = {} BY <2>3
  <2> QED BY <2>1, <2>2, <2>3
<1>5. ASSUME NEW s \in SUBSET T, s # {} PROVE f[s] = v[First(s)] + f[s \ {First(s)}]
  <2> DEFINE less == s \ {First(s)}
  <2>1. First(s) \in s BY <1>5, FirstIn
  <2>2. less \in SUBSET T /\ less # T /\ less \in SUBSET s BY <2>1
  <2>3. f[less] = one(less)[less] BY <2>2
  <2>4. CASE s = T BY <2>3, <2>4, <1>5
  <2>5. CASE s # T
    <3>1. AddsUp(v, s, one(s)) /\ AddsUp(v, less, one(less)) BY <1>2, <2>2, <2>5
    <3>2. f[s] = one(s)[s] BY <2>5
    <3>3. IsFiniteSet(s) /\ s \in SUBSET s /\ less \in SUBSET less BY <1>1, FS_Subset
    <3> HIDE DEF one, less
    <3>4. one(s)[s] = v[First(s)] + one(s)[s \ {First(s)}]
      <4>1. \A u \in SUBSET s : u # {} => one(s)[u] = v[First(u)] + one(s)[u \ {First(u)}]
        BY <3>1 DEF AddsUp
      <4> QED BY <1>5, <3>3, <4>1
    <3>5. \A u \in SUBSET less : one(less)[u] = one(s)[u]
      <4>1. \A x \in less : v[x] = v[x] OBVIOUS
      <4> QED BY <3>1, <3>3, <2>2, <4>1, SumsAgree
    <3>6. one(less)[less] = one(s)[less] BY <3>5, <3>3
    <3> QED BY <3>2, <3>4, <3>6, <2>3 DEF less
  <2> QED BY <2>4, <2>5
<1>6. f[{}] = 0
  <2>1. CASE T = {} BY <2>1
  <2>2. CASE T # {}
    <3>1. AddsUp(v, {}, one({})) BY <2>2, <1>2
    <3>2. f[{}] = one({})[{}] BY <2>2
    <3> HIDE DEF one, f
    <3> QED BY <3>1, <3>2, AddsUpAt
  <2> QED BY <2>1, <2>2
<1>7. AddsUp(v, T, f)
  <2> HIDE DEF f
  <2>1. \A s \in SUBSET T : f[s] = IF s = {} THEN 0 ELSE v[First(s)] + f[s \ {First(s)}] BY <1>5, <1>6
  <2>2. f = [s \in SUBSET T |-> f[s]] BY <1>4
  <2> QED BY <2>1, <2>2 DEF AddsUp
<1> QED BY <1>1, <1>4, <1>7

(* One more is added wherever it comes in the order.                       *)
Adds(v, f, s, x) == f[s \cup {x}] = f[s] + v[x]

LEMMA OneMore ==
  ASSUME NEW S, IsFiniteSet(S), NEW v \in [S -> Int], NEW f \in [SUBSET S -> Int], AddsUp(v, S, f),
         NEW T \in SUBSET S, NEW x \in S \ T
  PROVE  Adds(v, f, T, x)
<1> USE DEF Adds
<1> DEFINE Bad == {U \in SUBSET S : \E y \in S \ U : f[U \cup {y}] # f[U] + v[y]}
<1> SUFFICES ASSUME f[T \cup {x}] # f[T] + v[x] PROVE FALSE OBVIOUS
<1>1. PICK U \in Bad : \A W \in Bad : W \subseteq U => W = U
  <2>1. Bad \in SUBSET (SUBSET S) /\ Bad # {} OBVIOUS
  <2> HIDE DEF Bad
  <2> QED BY <2>1, LeastSet
<1>2. U \in SUBSET S BY <1>1
<1>3. PICK y \in S \ U : f[U \cup {y}] # f[U] + v[y] BY <1>1
<1> DEFINE c == First(U \cup {y})
<1>4. c \in U \cup {y}
  <2>1. U \cup {y} # {} OBVIOUS
  <2> QED BY <2>1, FirstIn
<1>5. f[U \cup {y}] = v[c] + f[(U \cup {y}) \ {c}]
  <2>1. U \cup {y} \in SUBSET S /\ U \cup {y} # {} BY <1>2, <1>3
  <2>2. \A s \in SUBSET S : s # {} => f[s] = v[First(s)] + f[s \ {First(s)}] BY AddsUpAt
  <2> QED BY <2>1, <2>2
<1> HIDE DEF c
<1>6. c # y
  <2> SUFFICES ASSUME c = y PROVE FALSE OBVIOUS
  <2>1. (U \cup {y}) \ {c} = U BY <1>3
  <2>2. f[U] \in Int /\ v[y] \in Int BY <1>2, <1>3
  <2>3. f[U \cup {y}] = v[y] + f[U] BY <1>5, <2>1
  <2> QED BY <1>3, <2>2, <2>3
<1>7. c \in U BY <1>4, <1>6
<1> DEFINE W == U \ {c}
<1>8. W \in SUBSET S /\ W \subseteq U /\ W # U /\ c \in S \ W /\ y \in S \ W BY <1>2, <1>3, <1>7
<1>9. f[W \cup {y}] = f[W] + v[y] /\ f[W \cup {c}] = f[W] + v[c] BY <1>1, <1>8
<1>10. (U \cup {y}) \ {c} = W \cup {y} /\ W \cup {c} = U BY <1>6, <1>7
<1>11. f[W] \in Int /\ v[y] \in Int /\ v[c] \in Int BY <1>8
<1>12. f[U \cup {y}] = v[c] + (f[W] + v[y]) /\ f[U] = f[W] + v[c] BY <1>5, <1>9, <1>10
<1> QED BY <1>3, <1>11, <1>12

(* Sums of numbers, and the two facts as they are used.                    *)
Sums(S, v, f) ==
  IsFiniteSet(S) /\ v \in [S -> Int] /\ f \in [SUBSET S -> Int] /\ AddsUp(v, S, f)

LEMMA OneMoreAnywhere ==
  ASSUME NEW S, NEW v, NEW f, Sums(S, v, f)
  PROVE  \A U \in SUBSET S : \A x \in S \ U : Adds(v, f, U, x)
<1> SUFFICES ASSUME NEW U \in SUBSET S, NEW x \in S \ U PROVE Adds(v, f, U, x) OBVIOUS
<1> QED BY OneMore DEF Sums

LEMMA SumsOfTheSame ==
  ASSUME NEW S, NEW v, NEW f, Sums(S, v, f), NEW w, NEW h, Sums(S, w, h)
  PROVE  \A U \in SUBSET S : (\A x \in U : v[x] = w[x]) => f[U] = h[U]
<1> SUFFICES ASSUME NEW U \in SUBSET S, \A x \in U : v[x] = w[x] PROVE f[U] = h[U] OBVIOUS
<1> DEFINE u == [x \in U |-> v[x]]
<1>1. u \in [U -> Int] /\ (\A x \in U : u[x] = v[x]) /\ (\A x \in U : u[x] = w[x]) BY DEF Sums
<1>2. IsFiniteSet(S) /\ IsFiniteSet(U) /\ AddsUp(v, S, f) /\ AddsUp(w, S, h) BY FS_Subset DEF Sums
<1> HIDE DEF u
<1>3. PICK g \in [SUBSET U -> Int] : AddsUp(u, U, g) BY <1>1, <1>2, SumsExist
<1>4. \A s \in SUBSET U : g[s] = f[s] BY <1>1, <1>2, <1>3, SumsAgree
<1>5. \A s \in SUBSET U : g[s] = h[s] BY <1>1, <1>2, <1>3, SumsAgree
<1> QED BY <1>4, <1>5


-----------------------------------------------------------------------------
(***************************************************************************)
(* What is used of a node, of the contracts cs.                            *)
(***************************************************************************)
Reported(cs) == [c \in Contract |-> Coalesce(cs[c].report)]
Uses(cs) == CHOOSE f \in [SUBSET Contract -> Int] : AddsUp(Reported(cs), Contract, f)
On(cs, n) == {c \in Contract : cs[c].state \in Active /\ cs[c].node = n}
UsedBy(cs, n) == MapThenSumSet(LAMBDA c : Coalesce(cs[c].report), On(cs, n))

State == {"None", "Created", "GracePeriod", "Deleted"}
ContractsType(cs) == cs \in [Contract -> [node : Node \cup {0}, state : State, report : Nat \cup {NoRow}]]

LEMMA UsesAddUp ==
  ASSUME NEW cs, ContractsType(cs)
  PROVE  Uses(cs) \in [SUBSET Contract -> Int] /\ AddsUp(Reported(cs), Contract, Uses(cs))
<1>1. Reported(cs) \in [Contract -> Int] BY DEF ContractsType, Reported, Coalesce
<1> QED BY <1>1, SumsExist, ExplorerAssumption DEF Uses

(* The fold of the view gives that sum.                                    *)
LEMMA UsedIs ==
  ASSUME NEW cs, ContractsType(cs), NEW n
  PROVE  UsedBy(cs, n) = Uses(cs)[On(cs, n)]
<1> DEFINE T == On(cs, n)
           Sum(g) == g = [s \in SUBSET T |-> IF s = {} THEN 0 ELSE Coalesce(cs[First(s)].report) + g[s \ {First(s)}]]
           w == [c \in T |-> Coalesce(cs[c].report)]
<1>1. T \in SUBSET Contract BY DEF On
<1>2. IsFiniteSet(T) BY <1>1, FS_Subset, ExplorerAssumption
<1>3. w \in [T -> Int] /\ \A x \in T : Reported(cs)[x] = w[x] BY <1>1 DEF Reported, ContractsType, Coalesce
<1>4. PICK g \in [SUBSET T -> Int] : AddsUp(w, T, g)
  <2> HIDE DEF w, T
  <2> QED BY <1>2, <1>3, SumsExist
<1>5. ASSUME NEW f PROVE Sum(f) <=> AddsUp(w, T, f)
  <2>1. ASSUME NEW s \in SUBSET T, s # {} PROVE w[First(s)] = Coalesce(cs[First(s)].report)
    BY <2>1, FirstIn
  <2>2. [s \in SUBSET T |-> IF s = {} THEN 0 ELSE Coalesce(cs[First(s)].report) + f[s \ {First(s)}]]
        = [s \in SUBSET T |-> IF s = {} THEN 0 ELSE w[First(s)] + f[s \ {First(s)}]]
    BY <2>1
  <2> QED BY <2>2 DEF AddsUp
<1>6. UsedBy(cs, n) = (CHOOSE f : Sum(f))[T]
  BY DEF UsedBy, MapThenSumSet, MapThenFoldSet, First
<1>7. AddsUp(w, T, CHOOSE f : Sum(f))
  <2>1. Sum(g) BY <1>4, <1>5
  <2>2. Sum(CHOOSE f : Sum(f)) BY <2>1
  <2> QED BY <1>5, <2>2
<1>8. UsedBy(cs, n) = Uses(cs)[T]
  <2> HIDE DEF w, T, Sum
  <2>1. T \in SUBSET T OBVIOUS
  <2>2. AddsUp(Reported(cs), Contract, Uses(cs)) BY UsesAddUp
  <2>3. (CHOOSE f : Sum(f))[T] = Uses(cs)[T]
    BY <1>1, <1>3, <1>7, <2>1, <2>2, SumsAgree, ExplorerAssumption
  <2> QED BY <1>6, <2>3
<1> QED BY <1>8

(* What one contract adds to what is used of a node.                       *)
Share(cs, n, c) == IF c \in On(cs, n) THEN Coalesce(cs[c].report) ELSE 0

(* One contract changes: what the others use does not.                     *)
LEMMA OneChanges ==
  ASSUME NEW cs, ContractsType(cs), NEW ds, ContractsType(ds), NEW c \in Contract,
         \A d \in Contract \ {c} : ds[d] = cs[d], NEW n
  PROVE  /\ UsedBy(cs, n) \in Int /\ Share(cs, n, c) \in Int
         /\ UsedBy(ds, n) = UsedBy(cs, n) - Share(cs, n, c) + Share(ds, n, c)
<1> DEFINE T == On(cs, n) \ {c}
<1>1. T = On(ds, n) \ {c} /\ T \in SUBSET Contract /\ c \in Contract \ T BY DEF On
<1>2. IsFiniteSet(T) BY <1>1, FS_Subset, ExplorerAssumption
<1>3. ASSUME NEW es, ContractsType(es), T = On(es, n) \ {c}
      PROVE  /\ Uses(es)[T] \in Int /\ Share(es, n, c) \in Int
             /\ UsedBy(es, n) = Uses(es)[T] + Share(es, n, c)
  <2>1. Reported(es) \in [Contract -> Int] /\ Reported(es)[c] = Coalesce(es[c].report)
    BY <1>3 DEF ContractsType, Reported, Coalesce
  <2>2. Uses(es) \in [SUBSET Contract -> Int] /\ AddsUp(Reported(es), Contract, Uses(es)) BY <1>3, UsesAddUp
  <2> HIDE DEF T
  <2>3. Uses(es)[T] \in Int BY <1>1, <2>2
  <2>4. Uses(es)[T \cup {c}] = Uses(es)[T] + Reported(es)[c]
    <3>1. \A U \in SUBSET Contract : \A x \in Contract \ U :
            Adds(Reported(es), Uses(es), U, x)
      <4> HIDE DEF T
      <4>1. Sums(Contract, Reported(es), Uses(es)) BY <2>1, <2>2, ExplorerAssumption DEF Sums
      <4> QED BY <4>1, OneMoreAnywhere
    <3>2. Adds(Reported(es), Uses(es), T, c) BY <1>1, <3>1
    <3> QED BY <3>2 DEF Adds
  <2>5. On(es, n) = IF c \in On(es, n) THEN T \cup {c} ELSE T BY <1>3
  <2>6. UsedBy(es, n) = Uses(es)[On(es, n)] BY <1>3, UsedIs
  <2>7. Reported(es)[c] \in Int BY <2>1
  <2>8. Share(es, n, c) = IF c \in On(es, n) THEN Reported(es)[c] ELSE 0 BY <2>1 DEF Share
  <2>9. CASE c \in On(es, n)
    <3>1. On(es, n) = T \cup {c} BY <2>5, <2>9
    <3> QED BY <2>3, <2>4, <2>6, <2>7, <2>8, <2>9, <3>1
  <2>10. CASE c \notin On(es, n)
    <3>1. On(es, n) = T BY <2>5, <2>10
    <3> QED BY <2>3, <2>6, <2>8, <2>10, <3>1
  <2> QED BY <2>9, <2>10
<1>4. Uses(ds)[T] = Uses(cs)[T]
  <2>1. Sums(Contract, Reported(cs), Uses(cs)) /\ Sums(Contract, Reported(ds), Uses(ds))
    <3>1. Reported(cs) \in [Contract -> Int] /\ Reported(ds) \in [Contract -> Int]
      BY DEF ContractsType, Reported, Coalesce
    <3> QED BY <3>1, UsesAddUp, ExplorerAssumption DEF Sums
  <2>2. \A U \in SUBSET Contract :
          (\A x \in U : Reported(cs)[x] = Reported(ds)[x]) => Uses(cs)[U] = Uses(ds)[U]
    BY <2>1, SumsOfTheSame
  <2>3. \A x \in T : Reported(cs)[x] = Reported(ds)[x] BY <1>1 DEF Reported
  <2> QED BY <1>1, <2>2, <2>3
<1> HIDE DEF T
<1>5. UsedBy(cs, n) = Uses(cs)[T] + Share(cs, n, c) /\ Uses(cs)[T] \in Int /\ Share(cs, n, c) \in Int
  BY <1>3 DEF T
<1>6. UsedBy(ds, n) = Uses(ds)[T] + Share(ds, n, c) /\ Share(ds, n, c) \in Int
  BY <1>1, <1>3 DEF T
<1> QED BY <1>4, <1>5, <1>6

(* Used and ContractsOn are these of the contracts now, and after a step.  *)
LEMMA UsedNow == ASSUME NEW n PROVE Used(n) = UsedBy(contracts, n) /\ ContractsOn(n) = On(contracts, n)
BY DEF Used, UsedBy, ContractsOn, On, MapThenSumSet, MapThenFoldSet
LEMMA UsedNext == ASSUME NEW n PROVE Used(n)' = UsedBy(contracts', n) /\ ContractsOn(n)' = On(contracts', n)
BY DEF Used, UsedBy, ContractsOn, On, MapThenSumSet, MapThenFoldSet

LEMMA UsedInt ==
  ASSUME NEW cs, ContractsType(cs), NEW n
  PROVE  /\ UsedBy(cs, n) \in Int
         /\ IsFiniteSet(On(cs, n)) /\ Cardinality(On(cs, n)) \in Nat
<1>1. On(cs, n) \in SUBSET Contract BY DEF On
<1>2. Uses(cs)[On(cs, n)] \in Int BY <1>1, UsesAddUp
<1>3. IsFiniteSet(On(cs, n)) BY <1>1, FS_Subset, ExplorerAssumption
<1> QED BY <1>2, <1>3, UsedIs, FS_CardinalityType

LEMMA KeptInt == ASSUME NEW t \in Nat \cup {NoRow} PROVE Kept(t) \in Int /\ Coalesce(t) \in Nat
BY ExplorerAssumption DEF Kept, Coalesce, NoRow

-----------------------------------------------------------------------------
(***************************************************************************)
(* The inductive invariant of the cache of resources.                      *)
(***************************************************************************)
Fields == {"total", "free", "used", "renter", "rent", "count", "gpus", "fee"}
RowShape(row) ==
  /\ DOMAIN row = Fields
  /\ row.total \in Nat \cup {NoRow} /\ row.free \in Int /\ row.used \in Int /\ row.count \in Int

CacheType == cache = [n \in Node |-> cache[n]] /\ \A n \in Node : RowShape(cache[n])
KeptTables ==
  /\ nodes \in [Node -> [row : {"future", "here", "gone"}, power : Powers \cup {"none"},
                         age : Ages \cup {"fresh"}, fee : {0, 1}]]
  /\ totals \in [Node -> Nat \cup {NoRow}]
  /\ ContractsType(contracts)
  /\ rents \in [Rent -> [node : Node \cup {0}, twin : Twin \cup {0}, state : State]]

Renting(rs, n) == {r \in Rent : rs[r].state \in Active /\ rs[r].node = n}
OnceRented == \A r, s \in Rent :
  rents[r].state \in Active /\ rents[s].state \in Active /\ rents[r].node = rents[s].node => r = s

(* A row says what is used and what is left of a node.                     *)
Fits(row, used, total) ==
  /\ row.total = Coalesce(total)
  /\ row.used = used + Kept(total)
  /\ row.free = Coalesce(total) - used - Kept(total)

(* A row says who rents the node n.                                        *)
Rented(row, n, rs) ==
  /\ \A r \in Renting(rs, n) : row.rent = r /\ row.renter = rs[r].twin
  /\ Renting(rs, n) = {} => row.rent = 0 /\ row.renter = 0

RowRight(row, n, ns, ts, cs, rs) ==
  /\ ns[n].row = "here" =>
       Fits(row, UsedBy(cs, n), ts[n]) /\ Rented(row, n, rs) /\ row.count >= Cardinality(On(cs, n))
  /\ ns[n].row # "here" => row.total = NoRow

RowsRight == built => \A n \in Node : RowRight(cache[n], n, nodes, totals, contracts, rents)
RowsInv == KeptTables /\ CacheType /\ OnceRented /\ RowsRight

(* The row the view makes is right.                                        *)
ViewOf(n, ts, cs, rs, cards, fee) ==
  LET renters == Renting(rs, n)
      r    == CHOOSE x \in renters : TRUE
  IN  [total  |-> Coalesce(ts[n]),
       free   |-> Coalesce(ts[n]) - UsedBy(cs, n) - Kept(ts[n]),
       used   |-> UsedBy(cs, n) + Kept(ts[n]),
       renter |-> IF renters = {} THEN 0 ELSE rs[r].twin,
       rent   |-> IF renters = {} THEN 0 ELSE r,
       count  |-> Cardinality(On(cs, n)),
       gpus   |-> cards,
       fee    |-> fee]

LEMMA ViewNow == ASSUME NEW n
  PROVE ViewRow(n) = ViewOf(n, totals, contracts, rents, JoinedGpus(n), nodes[n].fee)
BY UsedNow DEF ViewRow, ViewOf, RentsOf, Renting
LEMMA ViewNext == ASSUME NEW n
  PROVE ViewRow(n)' = ViewOf(n, totals', contracts', rents', JoinedGpus(n)', nodes'[n].fee)
BY UsedNext DEF ViewRow, ViewOf, RentsOf, Renting

LEMMA ViewRight ==
  ASSUME NEW n \in Node, NEW ns, ns[n].row = "here",
         NEW ts \in [Node -> Nat \cup {NoRow}], NEW cs, ContractsType(cs),
         NEW rs, \A r, s \in Renting(rs, n) : r = s, NEW cards, NEW fee
  PROVE  LET row == ViewOf(n, ts, cs, rs, cards, fee)
         IN  RowShape(row) /\ RowRight(row, n, ns, ts, cs, rs)
<1> DEFINE row == ViewOf(n, ts, cs, rs, cards, fee)
<1>1. UsedBy(cs, n) \in Int /\ Cardinality(On(cs, n)) \in Nat BY UsedInt
<1>2. Kept(ts[n]) \in Int /\ Coalesce(ts[n]) \in Nat BY KeptInt
<1>3. RowShape(row) BY <1>1, <1>2 DEF RowShape, ViewOf, Fields
<1>4. Fits(row, UsedBy(cs, n), ts[n]) BY DEF Fits, ViewOf
<1>5. Rented(row, n, rs) BY DEF Rented, ViewOf
<1>6. row.count >= Cardinality(On(cs, n)) BY <1>1 DEF ViewOf
<1> QED BY <1>3, <1>4, <1>5, <1>6 DEF RowRight

(* A write that changes nothing of what the rows say.                      *)
LEMMA RowsSame ==
  ASSUME RowsInv, KeptTables', UNCHANGED <<totals, contracts, rents, cache, built>>,
         \A n \in Node : nodes'[n].row = nodes[n].row
  PROVE  RowsInv'
<1>1. CacheType' BY DEF RowsInv, CacheType
<1>2. OnceRented' BY DEF RowsInv, OnceRented
<1>3. RowsRight'
  <2>1. ASSUME NEW n \in Node, RowRight(cache[n], n, nodes, totals, contracts, rents)
        PROVE  RowRight(cache'[n], n, nodes', totals', contracts', rents')
    BY <2>1 DEF RowRight
  <2> QED BY <2>1 DEF RowsInv, RowsRight
<1> QED BY <1>1, <1>2, <1>3 DEF RowsInv

(* A trigger that puts a right row in place of the row of the one node the *)
(* write is about.                                                         *)
LEMMA Reflected ==
  ASSUME RowsInv, UNCHANGED <<nodes, built>>, NEW m, NEW row, Reflect(m, row), KeptTables',
         m \in Node => RowShape(row),
         \A n \in Node \ {m} : Listed(n) /\ RowRight(cache[n], n, nodes, totals, contracts, rents)
            => RowRight(cache[n], n, nodes, totals', contracts', rents'),
         m \in Node /\ Listed(m) /\ RowRight(cache[m], m, nodes, totals, contracts, rents)
            => RowRight(row, m, nodes, totals', contracts', rents')
  PROVE  CacheType' /\ RowsRight'
<1>1. CacheType' BY DEF RowsInv, CacheType, Reflect, Cached
<1>2. ASSUME built, NEW n \in Node
      PROVE  RowRight(cache'[n], n, nodes, totals', contracts', rents')
  <2>1. RowRight(cache[n], n, nodes, totals, contracts, rents) BY <1>2 DEF RowsInv, RowsRight
  <2>2. CASE ~Listed(n)
    <3>1. cache[n].total = NoRow BY <2>1, <2>2 DEF RowRight, Listed
    <3>2. cache'[n] = cache[n] BY <3>1 DEF Reflect, Cached, RowsInv, CacheType
    <3> QED BY <3>1, <3>2, <2>2 DEF RowRight, Listed
  <2>3. CASE Listed(n) /\ n # m
    <3>1. cache'[n] = cache[n] BY <2>3 DEF Reflect, RowsInv, CacheType
    <3> QED BY <3>1, <2>1, <2>3
  <2>4. CASE Listed(n) /\ n = m
    <3>1. cache[n].total = Coalesce(totals[n]) BY <2>1, <2>4 DEF RowRight, Fits, Listed
    <3>2. Coalesce(totals[n]) \in Nat BY KeptInt DEF RowsInv, KeptTables
    <3>3. Cached(m) BY <1>2, <2>4, <3>1, <3>2 DEF Cached, NoRow
    <3>4. cache'[n] = row BY <2>4, <3>3 DEF Reflect, RowsInv, CacheType
    <3> QED BY <2>1, <2>4, <3>4
  <2> QED BY <2>2, <2>3, <2>4
<1>3. RowsRight' BY <1>2 DEF RowsRight
<1> QED BY <1>1, <1>3

(* One lemma for each write and its trigger.                               *)
LEMMA TotalKept ==
  ASSUME RowsInv, NEW n \in Node, NEW t \in Total, SetTotal(n, t)
  PROVE  RowsInv'
<1> DEFINE row == [cache[n] EXCEPT
        !.total = t,
        !.free = @ + Kept(totals[n]) - Kept(t) + (t - Coalesce(totals[n])),
        !.used = @ - Kept(totals[n]) + Kept(t)]
<1>1. /\ Reflect(n, row) /\ Listed(n) /\ totals' = [totals EXCEPT ![n] = t]
      /\ UNCHANGED <<nodes, contracts, rents, built>>
  BY DEF SetTotal, ReflectTotal, Write
<1>2. t \in Nat /\ totals[n] \in Nat \cup {NoRow} BY ExplorerAssumption DEF RowsInv, KeptTables
<1>3. KeptTables' BY <1>1, <1>2 DEF RowsInv, KeptTables
<1>4. /\ Kept(t) \in Int /\ Kept(totals[n]) \in Int
      /\ Coalesce(t) = t /\ Coalesce(totals[n]) \in Nat
  <2>1. Coalesce(t) = t BY <1>2 DEF Coalesce, NoRow
  <2> QED BY <1>2, <2>1, KeptInt
<1>5. DOMAIN cache[n] = Fields /\ cache[n].free \in Int /\ cache[n].used \in Int /\ cache[n].count \in Int
  BY DEF RowsInv, CacheType, RowShape
<1>6. /\ row.total = t /\ row.used = cache[n].used - Kept(totals[n]) + Kept(t)
      /\ row.free = cache[n].free + Kept(totals[n]) - Kept(t) + (t - Coalesce(totals[n]))
      /\ row.renter = cache[n].renter /\ row.rent = cache[n].rent /\ row.count = cache[n].count
      /\ DOMAIN row = Fields
  BY <1>5 DEF Fields
<1> HIDE DEF row
<1>7. RowShape(row) BY <1>2, <1>4, <1>5, <1>6 DEF RowShape
<1>8. ASSUME NEW m \in Node \ {n}, RowRight(cache[m], m, nodes, totals, contracts, rents)
      PROVE  RowRight(cache[m], m, nodes, totals', contracts', rents')
  <2>1. totals'[m] = totals[m] BY <1>1 DEF RowsInv, KeptTables
  <2> QED BY <1>1, <1>8, <2>1 DEF RowRight
<1>9. ASSUME RowRight(cache[n], n, nodes, totals, contracts, rents)
      PROVE  RowRight(row, n, nodes, totals', contracts', rents')
  <2>1. totals'[n] = t BY <1>1 DEF RowsInv, KeptTables
  <2>2. UsedBy(contracts, n) \in Int BY UsedInt DEF RowsInv, KeptTables
  <2>3. Fits(cache[n], UsedBy(contracts, n), totals[n]) BY <1>1, <1>9 DEF RowRight, Listed
  <2>4. Fits(row, UsedBy(contracts, n), t) BY <2>2, <2>3, <1>2, <1>4, <1>5, <1>6 DEF Fits
  <2>5. Rented(row, n, rents) BY <1>1, <1>6, <1>9 DEF RowRight, Rented, Listed
  <2> QED BY <1>1, <1>6, <1>9, <2>1, <2>4, <2>5 DEF RowRight, Listed
<1>10. CacheType' /\ RowsRight' BY <1>1, <1>3, <1>7, <1>8, <1>9, Reflected
<1>11. OnceRented' BY <1>1 DEF RowsInv, OnceRented
<1> QED BY <1>3, <1>10, <1>11 DEF RowsInv

(* One contract is written, one of the node n before and after.            *)
ContractWritten(c, n, new) ==
  /\ contracts' = [contracts EXCEPT ![c] = new]
  /\ UNCHANGED <<nodes, totals, rents, built>>
  /\ new.state \in Active => new.node = n
  /\ contracts[c].state \in Active => contracts[c].node = n

LEMMA ContractKept ==
  ASSUME RowsInv, NEW c \in Contract, NEW n, NEW new, ContractWritten(c, n, new),
         new \in [node : Node \cup {0}, state : State, report : Nat \cup {NoRow}],
         NEW row, Reflect(n, row), n \in Node => RowShape(row),
         n \in Node =>
           /\ row.total = cache[n].total /\ row.renter = cache[n].renter /\ row.rent = cache[n].rent
           /\ row.used = cache[n].used + Share(contracts', n, c) - Share(contracts, n, c)
           /\ row.free = cache[n].free - Share(contracts', n, c) + Share(contracts, n, c)
           /\ cache[n].count >= Cardinality(On(contracts, n)) => row.count >= Cardinality(On(contracts', n))
  PROVE  RowsInv'
<1>1. KeptTables' BY DEF RowsInv, KeptTables, ContractsType, ContractWritten
<1>2. OnceRented' BY DEF RowsInv, OnceRented, ContractWritten
<1>3. ContractsType(contracts) /\ ContractsType(contracts') BY <1>1 DEF RowsInv, KeptTables
<1>4. contracts'[c] = new /\ \A d \in Contract \ {c} : contracts'[d] = contracts[d]
  BY <1>3 DEF ContractWritten, ContractsType
<1>5. ASSUME NEW m
      PROVE  /\ UsedBy(contracts, m) \in Int /\ Share(contracts, m, c) \in Int /\ Share(contracts', m, c) \in Int
             /\ UsedBy(contracts', m) = UsedBy(contracts, m) - Share(contracts, m, c) + Share(contracts', m, c)
  <2>1. /\ UsedBy(contracts, m) \in Int /\ Share(contracts, m, c) \in Int
        /\ UsedBy(contracts', m) = UsedBy(contracts, m) - Share(contracts, m, c) + Share(contracts', m, c)
    BY <1>3, <1>4, OneChanges
  <2>2. Share(contracts', m, c) \in Int BY <1>3 DEF Share, ContractsType, Coalesce
  <2> QED BY <2>1, <2>2
<1>6. ASSUME NEW m \in Node \ {n}, RowRight(cache[m], m, nodes, totals, contracts, rents)
      PROVE  RowRight(cache[m], m, nodes, totals', contracts', rents')
  <2>1. c \notin On(contracts, m) /\ c \notin On(contracts', m) BY <1>4 DEF On, ContractWritten
  <2>2. On(contracts', m) = On(contracts, m) BY <1>4, <2>1 DEF On
  <2>3. UsedBy(contracts', m) = UsedBy(contracts, m) BY <1>5, <2>1 DEF Share
  <2> QED BY <1>6, <2>2, <2>3 DEF RowRight, ContractWritten
<1>7. ASSUME n \in Node, RowRight(cache[n], n, nodes, totals, contracts, rents)
      PROVE  RowRight(row, n, nodes, totals', contracts', rents')
  <2> SUFFICES ASSUME nodes[n].row = "here" PROVE RowRight(row, n, nodes, totals', contracts', rents')
    BY <1>7 DEF RowRight
  <2>1. totals[n] \in Nat \cup {NoRow} BY <1>7 DEF RowsInv, KeptTables
  <2>2. Kept(totals[n]) \in Int /\ Coalesce(totals[n]) \in Nat BY <2>1, KeptInt
  <2>3. Fits(cache[n], UsedBy(contracts, n), totals[n]) BY <1>7 DEF RowRight
  <2>4. Fits(row, UsedBy(contracts', n), totals[n]) BY <1>5, <1>7, <2>2, <2>3 DEF Fits
  <2>5. Rented(row, n, rents) BY <1>7 DEF RowRight, Rented
  <2>6. row.count >= Cardinality(On(contracts', n)) BY <1>7 DEF RowRight
  <2> QED BY <2>4, <2>5, <2>6 DEF RowRight, ContractWritten
<1>8. CacheType' /\ RowsRight'
  <2>1. UNCHANGED <<nodes, built>> BY DEF ContractWritten
  <2> QED BY <1>1, <1>6, <1>7, <2>1, Reflected
<1> QED BY <1>1, <1>2, <1>8 DEF RowsInv

(* No trigger at all is one that puts the same row.                        *)
LEMMA NoReflection == ASSUME RowsInv, NEW n, UNCHANGED cache PROVE Reflect(n, cache[n])
BY DEF RowsInv, CacheType, Reflect

LEMMA CountNext == ASSUME NEW n PROVE Count(n)' = Cardinality(On(contracts', n))
BY UsedNext DEF Count

LEMMA ContractInserted ==
  ASSUME RowsInv, NEW c \in Contract, NEW n \in Node, InsertContract(c, n)
  PROVE  RowsInv'
<1> DEFINE row == [cache[n] EXCEPT !.count = Count(n)']
           new == [node |-> n, state |-> "Created", report |-> NoRow]
<1>1. contracts[c].state = "None" /\ ContractWritten(c, n, new) /\ Reflect(n, row)
  BY DEF InsertContract, ReflectContract, Write, ContractWritten, Active
<1>2. new \in [node : Node \cup {0}, state : State, report : Nat \cup {NoRow}] BY DEF State
<1>3. ContractsType(contracts) /\ contracts'[c] = new
  BY <1>1 DEF RowsInv, KeptTables, ContractsType, ContractWritten
<1>4. ContractsType(contracts') BY <1>2, <1>1, <1>3 DEF ContractsType, ContractWritten
<1>5. Share(contracts, n, c) = 0 /\ Share(contracts', n, c) = 0
  BY <1>1, <1>3 DEF Share, On, Active, Coalesce, NoRow
<1>6. Count(n)' = Cardinality(On(contracts', n)) /\ Cardinality(On(contracts', n)) \in Nat
  BY <1>4, CountNext, UsedInt
<1>7. RowShape(cache[n]) BY DEF RowsInv, CacheType
<1>8. /\ RowShape(row) /\ row.count = Count(n)'
      /\ row.total = cache[n].total /\ row.renter = cache[n].renter /\ row.rent = cache[n].rent
      /\ row.used = cache[n].used /\ row.free = cache[n].free
  BY <1>6, <1>7 DEF RowShape, Fields
<1> HIDE DEF row, new
<1>9. cache[n].used \in Int /\ cache[n].free \in Int /\ row.count >= Cardinality(On(contracts', n))
  BY <1>6, <1>7, <1>8 DEF RowShape
<1> QED BY <1>1, <1>2, <1>5, <1>8, <1>9, ContractKept

LEMMA ReportKept ==
  ASSUME RowsInv, NEW c \in Contract, NEW u \in Report, ReportResources(c, u)
  PROVE  RowsInv'
<1> DEFINE n == contracts[c].node
           old == contracts[c].report
           row == [cache[n] EXCEPT !.used = @ + (u - Coalesce(old)), !.free = @ - (u - Coalesce(old))]
           new == [contracts[c] EXCEPT !.report = u]
<1>1. ContractsType(contracts) /\ contracts[c].state \in Active BY DEF RowsInv, KeptTables, ReportResources
<1>2. u \in Nat BY ExplorerAssumption
<1>3. /\ new \in [node : Node \cup {0}, state : State, report : Nat \cup {NoRow}]
      /\ new.node = n /\ new.state = contracts[c].state /\ new.report = u
  BY <1>1, <1>2 DEF ContractsType
<1>4. ContractWritten(c, n, new) /\ Reflect(n, row)
  BY <1>3 DEF ReportResources, ReflectReport, Write, ContractWritten
<1>5. contracts'[c] = new /\ \A d \in Contract \ {c} : contracts'[d] = contracts[d]
  BY <1>1, <1>4 DEF ContractsType, ContractWritten
<1>6. Share(contracts, n, c) = Coalesce(old) /\ Share(contracts', n, c) = u
  BY <1>1, <1>2, <1>3, <1>5 DEF Share, On, Coalesce, NoRow
<1>7. On(contracts', n) = On(contracts, n) BY <1>3, <1>5 DEF On
<1>8. Coalesce(old) \in Nat BY <1>1, KeptInt DEF ContractsType
<1>9. ASSUME n \in Node
      PROVE  /\ RowShape(row) /\ row.count = cache[n].count
             /\ row.total = cache[n].total /\ row.renter = cache[n].renter /\ row.rent = cache[n].rent
             /\ row.used = cache[n].used + u - Coalesce(old) /\ row.free = cache[n].free - u + Coalesce(old)
  <2>1. RowShape(cache[n]) BY <1>9 DEF RowsInv, CacheType
  <2> HIDE DEF n, old
  <2> QED BY <2>1, <1>2, <1>8 DEF RowShape, Fields
<1> HIDE DEF row, new, n, old
<1> QED BY <1>3, <1>4, <1>6, <1>7, <1>9, ContractKept

LEMMA ContractUpdated ==
  ASSUME RowsInv, NEW c \in Contract, UpdateContract(c)
  PROVE  RowsInv'
<1> DEFINE n == contracts[c].node
           old == contracts[c].report
<1>1. ContractsType(contracts) /\ contracts[c].state \in Active BY DEF RowsInv, KeptTables, UpdateContract
<1>2. PICK state \in {"Created", "GracePeriod", "Deleted"} \ {contracts[c].state} :
        /\ contracts' = [contracts EXCEPT ![c].state = state]
        /\ IF state = "Deleted" THEN ReflectDeleted(n, old) ELSE UNCHANGED cache
  BY DEF UpdateContract
<1> DEFINE new == [contracts[c] EXCEPT !.state = state]
<1>3. /\ new \in [node : Node \cup {0}, state : State, report : Nat \cup {NoRow}]
      /\ new.node = n /\ new.state = state /\ new.report = old
  BY <1>1 DEF ContractsType, State
<1>4. ContractWritten(c, n, new) BY <1>2, <1>3 DEF UpdateContract, Write, ContractWritten
<1>5. contracts'[c] = new /\ \A d \in Contract \ {c} : contracts'[d] = contracts[d]
  BY <1>1, <1>4 DEF ContractsType, ContractWritten
<1>6. ContractsType(contracts') BY <1>1, <1>3, <1>4 DEF ContractsType, ContractWritten
<1>7. Coalesce(old) \in Nat BY <1>1, KeptInt DEF ContractsType
<1>8. /\ Share(contracts, n, c) = Coalesce(old)
      /\ Share(contracts', n, c) = IF state = "Deleted" THEN 0 ELSE Coalesce(old)
  BY <1>1, <1>3, <1>5 DEF Share, On, Active
<1>9. c \in On(contracts, n) /\ On(contracts', n) = IF state = "Deleted" THEN On(contracts, n) \ {c} ELSE On(contracts, n)
  BY <1>1, <1>3, <1>5 DEF On, Active
<1>10. /\ Cardinality(On(contracts, n)) \in Nat /\ Cardinality(On(contracts', n)) \in Nat
       /\ Cardinality(On(contracts', n)) <= Cardinality(On(contracts, n))
  <2>1. IsFiniteSet(On(contracts, n)) BY <1>1, UsedInt
  <2>2. On(contracts', n) \subseteq On(contracts, n) BY <1>9
  <2> QED BY <2>1, <2>2, <1>1, <1>6, UsedInt, FS_Subset
<1>11. ASSUME n \in Node PROVE RowShape(cache[n]) BY <1>11 DEF RowsInv, CacheType
<1>12. CASE state = "Deleted" /\ old # NoRow
  <2> DEFINE row == [cache[n] EXCEPT !.used = @ - old, !.free = @ + old, !.count = Count(n)']
  <2>1. Reflect(n, row) BY <1>2, <1>12 DEF ReflectDeleted
  <2>2. Count(n)' = Cardinality(On(contracts', n))
    <3>1. contracts'[c].node = n BY <1>3, <1>5
    <3>2. Count(n)' = Cardinality(On(contracts', contracts'[c].node)) BY DEF Count, ContractsOn, On
    <3> QED BY <3>1, <3>2
  <2>3. Coalesce(old) = old BY <1>12 DEF Coalesce
  <2> HIDE DEF n, old, new
  <2>4. ASSUME n \in Node
        PROVE  /\ RowShape(row) /\ row.count = Count(n)'
               /\ row.total = cache[n].total /\ row.renter = cache[n].renter /\ row.rent = cache[n].rent
               /\ row.used = cache[n].used - Coalesce(old) /\ row.free = cache[n].free + Coalesce(old)
    <3>1. RowShape(cache[n]) BY <1>11, <2>4
    <3> QED BY <3>1, <1>7, <1>10, <2>2, <2>3 DEF RowShape, Fields
  <2> HIDE DEF row
  <2>5. ASSUME n \in Node
        PROVE  /\ row.used = cache[n].used + Share(contracts', n, c) - Share(contracts, n, c)
               /\ row.free = cache[n].free - Share(contracts', n, c) + Share(contracts, n, c)
               /\ row.count >= Cardinality(On(contracts', n))
    <3>1. cache[n].used \in Int /\ cache[n].free \in Int BY <1>11, <2>5 DEF RowShape
    <3> QED BY <3>1, <1>7, <1>8, <1>10, <1>12, <2>2, <2>4, <2>5
  <2> QED BY <1>3, <1>4, <2>1, <2>4, <2>5, ContractKept
<1>13. CASE ~(state = "Deleted" /\ old # NoRow)
  <2>1. UNCHANGED cache BY <1>2, <1>13 DEF ReflectDeleted
  <2>2. Reflect(n, cache[n]) BY <2>1, NoReflection
  <2>3. Share(contracts', n, c) = Share(contracts, n, c) BY <1>8, <1>13 DEF Coalesce
  <2>4. Share(contracts, n, c) \in Int BY <1>7, <1>8
  <2> HIDE DEF n, old, new
  <2>5. ASSUME n \in Node
        PROVE  /\ cache[n].used = cache[n].used + Share(contracts', n, c) - Share(contracts, n, c)
               /\ cache[n].free = cache[n].free - Share(contracts', n, c) + Share(contracts, n, c)
               /\ cache[n].count >= Cardinality(On(contracts, n)) => cache[n].count >= Cardinality(On(contracts', n))
    <3>1. cache[n].used \in Int /\ cache[n].free \in Int /\ cache[n].count \in Int BY <1>11, <2>5 DEF RowShape
    <3> QED BY <3>1, <1>10, <2>3, <2>4
  <2> QED BY <1>3, <1>4, <1>11, <2>2, <2>5, ContractKept
<1> QED BY <1>12, <1>13

(* One rent contract is written, of the node n before and after.           *)
LEMMA RentKept ==
  ASSUME RowsInv, NEW r \in Rent, NEW n, NEW new, rents' = [rents EXCEPT ![r] = new],
         UNCHANGED <<nodes, totals, contracts, built>>,
         new \in [node : Node \cup {0}, twin : Twin \cup {0}, state : State], new.node = n,
         rents[r].state \in Active => rents[r].node = n,
         rents[r].state \in Active \/ Renting(rents, n) = {},
         NEW row, Reflect(n, row),
         n \in Node =>
           /\ RowShape(row) /\ row.total = cache[n].total /\ row.used = cache[n].used
           /\ row.free = cache[n].free /\ row.count = cache[n].count
           /\ Rented(cache[n], n, rents) => Rented(row, n, rents')
  PROVE  RowsInv'
<1>1. KeptTables' BY DEF RowsInv, KeptTables
<1>2. rents'[r] = new /\ \A s \in Rent \ {r} : rents'[s] = rents[s] BY DEF RowsInv, KeptTables
<1>3. OnceRented' BY <1>2 DEF RowsInv, OnceRented, Renting
<1>4. ASSUME NEW m \in Node \ {n}, RowRight(cache[m], m, nodes, totals, contracts, rents)
      PROVE  RowRight(cache[m], m, nodes, totals', contracts', rents')
  <2>1. r \notin Renting(rents, m) /\ r \notin Renting(rents', m) BY <1>2 DEF Renting
  <2>2. Renting(rents', m) = Renting(rents, m) BY <1>2, <2>1 DEF Renting
  <2>3. ASSUME NEW s \in Renting(rents, m) PROVE rents'[s] = rents[s]
    <3>1. s \in Rent /\ s # r BY <2>1 DEF Renting
    <3> QED BY <1>2, <3>1
  <2>4. ASSUME Rented(cache[m], m, rents) PROVE Rented(cache[m], m, rents')
    <3>1. ASSUME NEW s \in Renting(rents', m)
          PROVE  cache[m].rent = s /\ cache[m].renter = rents'[s].twin
      <4>1. s \in Renting(rents, m) BY <2>2
      <4>2. cache[m].rent = s /\ cache[m].renter = rents[s].twin BY <2>4, <4>1 DEF Rented
      <4> QED BY <2>3, <4>1, <4>2
    <3> QED BY <2>2, <2>4, <3>1 DEF Rented
  <2> QED BY <1>4, <2>4 DEF RowRight
<1>5. ASSUME n \in Node, RowRight(cache[n], n, nodes, totals, contracts, rents)
      PROVE  RowRight(row, n, nodes, totals', contracts', rents')
  <2> SUFFICES ASSUME nodes[n].row = "here" PROVE RowRight(row, n, nodes, totals', contracts', rents')
    BY <1>5 DEF RowRight
  <2>1. Fits(row, UsedBy(contracts, n), totals[n]) BY <1>5 DEF RowRight, Fits
  <2> QED BY <2>1, <1>5 DEF RowRight
<1>6. CacheType' /\ RowsRight' BY <1>1, <1>4, <1>5, Reflected
<1> QED BY <1>1, <1>3, <1>6 DEF RowsInv

LEMMA RentInserted ==
  ASSUME RowsInv, NEW r \in Rent, NEW n \in Node, NEW t \in Twin, InsertRent(r, n, t)
  PROVE  RowsInv'
<1> DEFINE row == [cache[n] EXCEPT !.renter = t, !.rent = r]
           new == [node |-> n, twin |-> t, state |-> "Created"]
<1>1. /\ rents' = [rents EXCEPT ![r] = new] /\ UNCHANGED <<nodes, totals, contracts, built>>
      /\ Reflect(n, row) /\ rents[r].state \notin Active /\ Renting(rents, n) = {}
  BY DEF InsertRent, ReflectRent, Write, Active, RentsOf, Renting
<1>2. new \in [node : Node \cup {0}, twin : Twin \cup {0}, state : State] /\ new.node = n BY DEF State
<1>3. RowShape(cache[n]) BY DEF RowsInv, CacheType
<1>4. /\ RowShape(row) /\ row.total = cache[n].total /\ row.used = cache[n].used
      /\ row.free = cache[n].free /\ row.count = cache[n].count /\ row.rent = r /\ row.renter = t
  BY <1>3 DEF RowShape, Fields
<1>5. Renting(rents', n) = {r} /\ rents'[r].twin = t
  <2>1. rents'[r] = new /\ \A s \in Rent \ {r} : rents'[s] = rents[s] BY <1>1 DEF RowsInv, KeptTables
  <2> QED BY <1>1, <2>1 DEF Renting, Active
<1> HIDE DEF row, new
<1>6. Rented(row, n, rents') BY <1>4, <1>5 DEF Rented
<1> QED BY <1>1, <1>2, <1>4, <1>6, RentKept

LEMMA RentUpdated ==
  ASSUME RowsInv, NEW r \in Rent, UpdateRent(r)
  PROVE  RowsInv'
<1> DEFINE n == rents[r].node
<1>1. PICK state \in {"Created", "GracePeriod", "Deleted"} \ {rents[r].state} :
        /\ rents' = [rents EXCEPT ![r].state = state]
        /\ IF state = "Deleted" THEN ReflectRent(n, 0, 0) ELSE UNCHANGED cache
  BY DEF UpdateRent
<1> DEFINE new == [rents[r] EXCEPT !.state = state]
<1>2. /\ new \in [node : Node \cup {0}, twin : Twin \cup {0}, state : State]
      /\ new.node = n /\ new.state = state /\ new.twin = rents[r].twin
  BY DEF RowsInv, KeptTables, State
<1>3. /\ rents' = [rents EXCEPT ![r] = new] /\ UNCHANGED <<nodes, totals, contracts, built>>
      /\ rents[r].state \in Active
  BY <1>1 DEF UpdateRent, Write
<1>4. rents'[r] = new /\ \A s \in Rent \ {r} : rents'[s] = rents[s] BY <1>3 DEF RowsInv, KeptTables
<1>5. Renting(rents, n) = {r} BY <1>3 DEF RowsInv, OnceRented, Renting
<1>6. ASSUME n \in Node PROVE RowShape(cache[n]) BY <1>6 DEF RowsInv, CacheType
<1>7. CASE state = "Deleted"
  <2> DEFINE row == [cache[n] EXCEPT !.renter = 0, !.rent = 0]
  <2>1. Reflect(n, row) BY <1>1, <1>7 DEF ReflectRent
  <2>2. Renting(rents', n) = {} BY <1>2, <1>4, <1>5, <1>7 DEF Renting, Active
  <2>3. ASSUME n \in Node
        PROVE  /\ RowShape(row) /\ row.total = cache[n].total /\ row.used = cache[n].used
               /\ row.free = cache[n].free /\ row.count = cache[n].count /\ row.rent = 0 /\ row.renter = 0
    <3> HIDE DEF n
    <3>1. RowShape(cache[n]) BY <1>6, <2>3
    <3> QED BY <3>1 DEF RowShape, Fields
  <2> HIDE DEF row, new, n
  <2>4. n \in Node => Rented(row, n, rents') BY <2>2, <2>3 DEF Rented
  <2> QED BY <1>2, <1>3, <2>1, <2>3, <2>4, RentKept DEF n
<1>8. CASE state # "Deleted"
  <2>1. Reflect(n, cache[n]) BY <1>1, <1>8, NoReflection
  <2>2. Renting(rents', n) = {r} /\ rents'[r].twin = rents[r].twin BY <1>2, <1>4, <1>5, <1>8 DEF Renting, Active
  <2> HIDE DEF new, n
  <2>3. Rented(cache[n], n, rents) => Rented(cache[n], n, rents') BY <1>5, <2>2 DEF Rented
  <2> QED BY <1>2, <1>3, <1>6, <2>1, <2>3, RentKept DEF n
<1> QED BY <1>7, <1>8

LEMMA NoRowShape == RowShape(NoCacheRow) /\ NoCacheRow.total = NoRow
BY DEF RowShape, NoCacheRow, Fields, NoRow

LEMMA NodeInserted ==
  ASSUME RowsInv, NEW n \in Node, InsertNode(n)
  PROVE  RowsInv'
<1> DEFINE new == [row |-> "here", power |-> "none", age |-> "fresh", fee |-> 0]
           view == ViewOf(n, totals, contracts, rents, JoinedGpus(n)', nodes'[n].fee)
<1>1. /\ nodes' = [nodes EXCEPT ![n] = new] /\ UNCHANGED <<totals, contracts, rents, built>>
      /\ cache' = IF built THEN [cache EXCEPT ![n] = view] ELSE cache
  <2>1. ViewRow(n)' = view BY ViewNext DEF InsertNode
  <2> HIDE DEF view
  <2> QED BY <2>1 DEF InsertNode, ReflectInsert, Write
<1>2. new \in [row : {"future", "here", "gone"}, power : Powers \cup {"none"}, age : Ages \cup {"fresh"}, fee : {0, 1}]
  OBVIOUS
<1>3. /\ nodes'[n].row = "here" /\ \A m \in Node \ {n} : nodes'[m] = nodes[m]
  BY <1>1 DEF RowsInv, KeptTables
<1> HIDE DEF new
<1>4. KeptTables' BY <1>1, <1>2 DEF RowsInv, KeptTables
<1>5. OnceRented' BY <1>1 DEF RowsInv, OnceRented
<1>6. RowShape(view) /\ RowRight(view, n, nodes', totals, contracts, rents)
  <2>1. \A r, s \in Renting(rents, n) : r = s BY DEF RowsInv, OnceRented, Renting
  <2>2. totals \in [Node -> Nat \cup {NoRow}] /\ ContractsType(contracts) BY DEF RowsInv, KeptTables
  <2> QED BY <1>3, <2>1, <2>2, ViewRight
<1> HIDE DEF view
<1>7. CacheType' BY <1>1, <1>6 DEF RowsInv, CacheType
<1>8. RowsRight'
  <2> SUFFICES ASSUME built, NEW m \in Node
               PROVE  RowRight(cache'[m], m, nodes', totals', contracts', rents')
    BY <1>1 DEF RowsRight
  <2>1. RowRight(cache[m], m, nodes, totals, contracts, rents) BY DEF RowsInv, RowsRight
  <2>2. CASE m = n BY <2>2, <1>1, <1>6 DEF RowsInv, CacheType
  <2>3. CASE m # n
    <3>1. cache'[m] = cache[m] BY <2>3, <1>1 DEF RowsInv, CacheType
    <3> QED BY <2>1, <2>3, <3>1, <1>1, <1>3 DEF RowRight
  <2> QED BY <2>2, <2>3
<1> QED BY <1>4, <1>5, <1>7, <1>8 DEF RowsInv

LEMMA NodeDeleted ==
  ASSUME RowsInv, NEW n \in Node, DeleteNode(n)
  PROVE  RowsInv'
<1>1. /\ nodes' = [nodes EXCEPT ![n].row = "gone"] /\ totals' = [totals EXCEPT ![n] = NoRow]
      /\ cache' = [cache EXCEPT ![n] = NoCacheRow] /\ UNCHANGED <<contracts, rents, built>>
  BY DEF DeleteNode, ReflectDelete, Write
<1>2. /\ nodes'[n].row = "gone" /\ \A m \in Node \ {n} : nodes'[m] = nodes[m] /\ totals'[m] = totals[m]
  BY <1>1 DEF RowsInv, KeptTables
<1>3. KeptTables'
  <2> DEFINE Rows == [row : {"future", "here", "gone"}, power : Powers \cup {"none"},
                      age : Ages \cup {"fresh"}, fee : {0, 1}]
  <2>1. [nodes[n] EXCEPT !.row = "gone"] \in Rows
    <3>1. nodes[n] \in Rows BY DEF RowsInv, KeptTables
    <3> QED BY <3>1
  <2>2. nodes \in [Node -> Rows] BY DEF RowsInv, KeptTables
  <2> HIDE DEF Rows
  <2>3. nodes' \in [Node -> Rows] BY <1>1, <2>1, <2>2
  <2>4. totals' \in [Node -> Nat \cup {NoRow}] BY <1>1 DEF RowsInv, KeptTables
  <2> QED BY <1>1, <2>3, <2>4 DEF RowsInv, KeptTables, Rows
<1>4. OnceRented' BY <1>1 DEF RowsInv, OnceRented
<1>5. CacheType' BY <1>1, NoRowShape DEF RowsInv, CacheType
<1>6. RowsRight'
  <2> SUFFICES ASSUME built, NEW m \in Node
               PROVE  RowRight(cache'[m], m, nodes', totals', contracts', rents')
    BY <1>1 DEF RowsRight
  <2>1. RowRight(cache[m], m, nodes, totals, contracts, rents) BY DEF RowsInv, RowsRight
  <2>2. CASE m = n
    <3>1. cache'[m] = NoCacheRow BY <2>2, <1>1 DEF RowsInv, CacheType
    <3> QED BY <2>2, <3>1, <1>2, NoRowShape DEF RowRight
  <2>3. CASE m # n
    <3>1. cache'[m] = cache[m] BY <2>3, <1>1 DEF RowsInv, CacheType
    <3> QED BY <2>1, <2>3, <3>1, <1>1, <1>2 DEF RowRight
  <2> QED BY <2>2, <2>3
<1> QED BY <1>3, <1>4, <1>5, <1>6 DEF RowsInv

LEMMA NodeUpdated ==
  ASSUME RowsInv, NEW n \in Node, UpdatePower(n) \/ UpdateFee(n) \/ UpdateAge(n)
  PROVE  RowsInv'
<1> DEFINE Rows == [row : {"future", "here", "gone"}, power : Powers \cup {"none"},
                    age : Ages \cup {"fresh"}, fee : {0, 1}]
<1>1. ASSUME NEW new \in Rows, new.row = nodes[n].row, UpdateNode(n, new)
      PROVE  RowsInv'
  <2>1. /\ nodes' = [nodes EXCEPT ![n] = new]
        /\ UNCHANGED <<totals, contracts, rents, cache, built>>
    BY <1>1 DEF UpdateNode, Write
  <2>2. KeptTables' BY <1>1, <2>1 DEF RowsInv, KeptTables
  <2>3. \A m \in Node : nodes'[m].row = nodes[m].row BY <1>1, <2>1 DEF RowsInv, KeptTables
  <2> QED BY <2>1, <2>2, <2>3, RowsSame
<1>2. nodes[n] \in Rows BY DEF RowsInv, KeptTables
<1>3. ASSUME NEW p \in Powers
      PROVE  [nodes[n] EXCEPT !.power = p] \in Rows /\ [nodes[n] EXCEPT !.power = p].row = nodes[n].row
  BY <1>2
<1>4. ASSUME NEW fee \in {0, 1}
      PROVE  [nodes[n] EXCEPT !.fee = fee] \in Rows /\ [nodes[n] EXCEPT !.fee = fee].row = nodes[n].row
  BY <1>2
<1>5. ASSUME NEW age \in Ages
      PROVE  [nodes[n] EXCEPT !.age = age] \in Rows /\ [nodes[n] EXCEPT !.age = age].row = nodes[n].row
  BY <1>2
<1> HIDE DEF Rows
<1>6. CASE UpdatePower(n) BY <1>6, <1>1, <1>3 DEF UpdatePower
<1>7. CASE UpdateFee(n) BY <1>7, <1>1, <1>4 DEF UpdateFee
<1>8. CASE UpdateAge(n) BY <1>8, <1>1, <1>5 DEF UpdateAge
<1> QED BY <1>6, <1>7, <1>8

LEMMA GpusCounted ==
  ASSUME RowsInv, NEW n \in Node, IndexGpus(n)
  PROVE  RowsInv'
<1>1. PICK answer \in Answers(n), old \in SUBSET GpusOf(n) : UpsertGpus(n, answer, old) BY DEF IndexGpus
<1> DEFINE kept == GpusOf(n) \ old
           ids  == {g.id : g \in answer}
           row  == [cache[n] EXCEPT !.gpus = @ + Cardinality(ids \ {g.id : g \in kept}) - Cardinality(old)]
<1>2. Reflect(n, row) /\ UNCHANGED <<nodes, totals, contracts, rents, built>>
  BY <1>1 DEF UpsertGpus, ReflectGpus, Write
<1>3. RowShape(cache[n]) BY DEF RowsInv, CacheType
<1>4. /\ RowShape(row) /\ row.total = cache[n].total /\ row.used = cache[n].used /\ row.free = cache[n].free
      /\ row.count = cache[n].count /\ row.renter = cache[n].renter /\ row.rent = cache[n].rent
  BY <1>3 DEF RowShape, Fields
<1> HIDE DEF row
<1>5. KeptTables' BY <1>2 DEF RowsInv, KeptTables
<1>6. RowRight(cache[n], n, nodes, totals, contracts, rents) => RowRight(row, n, nodes, totals', contracts', rents')
  BY <1>2, <1>4 DEF RowRight, Fits, Rented
<1>7. ASSUME NEW m \in Node, RowRight(cache[m], m, nodes, totals, contracts, rents)
      PROVE  RowRight(cache[m], m, nodes, totals', contracts', rents')
  BY <1>2, <1>7 DEF RowRight
<1>8. CacheType' /\ RowsRight' BY <1>2, <1>4, <1>5, <1>6, <1>7, Reflected
<1>9. OnceRented' BY <1>2 DEF RowsInv, OnceRented
<1> QED BY <1>5, <1>8, <1>9 DEF RowsInv

(* A cache filled from the view is right.                                  *)
LEMMA ViewsRight ==
  ASSUME KeptTables, OnceRented
  PROVE  \A n \in Node : /\ RowShape(ResourcesCacheView[n])
                         /\ RowRight(ResourcesCacheView[n], n, nodes, totals, contracts, rents)
<1> SUFFICES ASSUME NEW n \in Node
             PROVE  /\ RowShape(ResourcesCacheView[n])
                    /\ RowRight(ResourcesCacheView[n], n, nodes, totals, contracts, rents)
  OBVIOUS
<1>1. CASE Listed(n)
  <2> DEFINE view == ViewOf(n, totals, contracts, rents, JoinedGpus(n), nodes[n].fee)
  <2>1. ResourcesCacheView[n] = view BY <1>1, ViewNow DEF ResourcesCacheView
  <2>2. \A r, s \in Renting(rents, n) : r = s BY DEF OnceRented, Renting
  <2>3. totals \in [Node -> Nat \cup {NoRow}] /\ ContractsType(contracts) BY DEF KeptTables
  <2>4. nodes[n].row = "here" BY <1>1 DEF Listed
  <2>5. RowShape(view) /\ RowRight(view, n, nodes, totals, contracts, rents) BY <2>2, <2>3, <2>4, ViewRight
  <2> HIDE DEF view
  <2> QED BY <2>1, <2>5
<1>2. CASE ~Listed(n)
  <2>1. ResourcesCacheView[n] = NoCacheRow BY <1>2 DEF ResourcesCacheView
  <2> QED BY <1>2, <2>1, NoRowShape DEF RowRight, Listed
<1> QED BY <1>1, <1>2

LEMMA Rebuilt ==
  ASSUME RowsInv, Restart
  PROVE  RowsInv'
<1>1. cache' = ResourcesCacheView /\ UNCHANGED <<nodes, totals, contracts, rents>>
  BY DEF Restart, Initialize, tables
<1>2. KeptTables' /\ OnceRented' BY <1>1 DEF RowsInv, KeptTables, OnceRented
<1>3. \A n \in Node : /\ RowShape(cache'[n])
                      /\ RowRight(cache'[n], n, nodes', totals', contracts', rents')
  BY <1>1, ViewsRight DEF RowsInv
<1>4. CacheType' /\ RowsRight'
  <2>1. cache' = [n \in Node |-> cache'[n]] BY <1>1 DEF ResourcesCacheView
  <2> QED BY <1>3, <2>1 DEF CacheType, RowsRight
<1> QED BY <1>2, <1>4 DEF RowsInv

LEMMA Dropped ==
  ASSUME RowsInv, CachesDropped
  PROVE  RowsInv'
<1>1. /\ cache' = [n \in Node |-> NoCacheRow] /\ built' = FALSE
      /\ UNCHANGED <<nodes, totals, contracts, rents>>
  BY DEF CachesDropped, tables
<1>2. KeptTables' /\ OnceRented' BY <1>1 DEF RowsInv, KeptTables, OnceRented
<1>3. CacheType' /\ RowsRight' BY <1>1, NoRowShape DEF CacheType, RowsRight
<1> QED BY <1>2, <1>3 DEF RowsInv

LEMMA RowsInit == Init => RowsInv
<1> SUFFICES ASSUME Init PROVE RowsInv OBVIOUS
<1>1. (CHOOSE t \in Total : TRUE) \in Nat /\ (CHOOSE u \in Report : TRUE) \in Nat BY ExplorerAssumption
<1>2. KeptTables
  <2>1. nodes \in [Node -> [row : {"future", "here", "gone"}, power : Powers \cup {"none"},
                            age : Ages \cup {"fresh"}, fee : {0, 1}]]
    BY DEF Init
  <2>2. totals \in [Node -> Nat \cup {NoRow}] BY <1>1 DEF Init
  <2>3. ContractsType(contracts)
    <3> DEFINE Rows == [node : Node \cup {0}, state : State, report : Nat \cup {NoRow}]
    <3>1. NoContract \in Rows BY DEF NoContract, State
    <3>2. ASSUME NEW h \in Held PROVE h \in Rows
      <4>1. PICK n \in Node, u \in {NoRow, CHOOSE u \in Report : TRUE} :
              h = [node |-> n, state |-> "Created", report |-> u]
        BY DEF Held
      <4>2. u \in Nat \cup {NoRow} BY <1>1
      <4> QED BY <4>1, <4>2 DEF State
    <3> HIDE DEF Rows
    <3>3. contracts \in [Contract -> Rows] BY <3>1, <3>2 DEF Init
    <3> QED BY <3>3 DEF ContractsType, Rows
  <2>4. rents \in [Rent -> [node : Node \cup {0}, twin : Twin \cup {0}, state : State]] BY DEF Init, State
  <2> QED BY <2>1, <2>2, <2>3, <2>4 DEF KeptTables
<1>3. OnceRented BY DEF Init, OnceRented, Active
<1>4. cache = ResourcesCacheView BY DEF Init
<1>5. CacheType /\ RowsRight
  <2>1. cache = [n \in Node |-> cache[n]] BY <1>4 DEF ResourcesCacheView
  <2> QED BY <1>2, <1>3, <1>4, <2>1, ViewsRight DEF CacheType, RowsRight
<1> QED BY <1>2, <1>3, <1>5 DEF RowsInv

LEMMA RowsKept == RowsInv /\ [Next]_vars => RowsInv'
<1> SUFFICES ASSUME RowsInv, [Next]_vars PROVE RowsInv' OBVIOUS
<1> DEFINE Same == UNCHANGED <<nodes, totals, contracts, rents, cache, built>>
<1>1. ASSUME Same PROVE RowsInv'
  <2>1. KeptTables' BY <1>1 DEF RowsInv, KeptTables
  <2> QED BY <1>1, <2>1, RowsSame
<1>2. CASE UNCHANGED vars BY <1>1, <1>2 DEF vars, tables
<1>3. ASSUME NEW f \in Farm, InsertFarm(f) \/ DeleteFarm(f) PROVE RowsInv'
  BY <1>1, <1>3 DEF InsertFarm, DeleteFarm, Write
<1>4. ASSUME NEW n \in Node,
             InsertNode(n) \/ DeleteNode(n) \/ UpdatePower(n) \/ UpdateFee(n) \/ UpdateAge(n)
      PROVE  RowsInv'
  BY <1>4, NodeInserted, NodeDeleted, NodeUpdated
<1>5. ASSUME NEW n \in Node, NEW t \in Total, SetTotal(n, t) PROVE RowsInv' BY <1>5, TotalKept
<1>6. ASSUME NEW c \in Contract, NEW n \in Node, InsertContract(c, n) PROVE RowsInv' BY <1>6, ContractInserted
<1>7. ASSUME NEW c \in Contract, NEW u \in Report, ReportResources(c, u) PROVE RowsInv' BY <1>7, ReportKept
<1>8. ASSUME NEW c \in Contract, UpdateContract(c) PROVE RowsInv' BY <1>8, ContractUpdated
<1>9. ASSUME NEW r \in Rent, NEW n \in Node, NEW t \in Twin, InsertRent(r, n, t) PROVE RowsInv' BY <1>9, RentInserted
<1>10. ASSUME NEW r \in Rent, UpdateRent(r) PROVE RowsInv' BY <1>10, RentUpdated
<1>11. ASSUME NEW i \in Ip, InsertIp(i) \/ ReserveIp(i) \/ FreeIp(i) \/ DeleteIp(i) PROVE RowsInv'
  BY <1>1, <1>11 DEF InsertIp, ReserveIp, FreeIp, DeleteIp, Write
<1>12. ASSUME NEW n \in Node, IndexGpus(n) PROVE RowsInv' BY <1>12, GpusCounted
<1>13. ASSUME NEW n \in Node, NEW found \in {"yes", "no"}, UpsertHealth(n, found) PROVE RowsInv'
  BY <1>1, <1>13 DEF UpsertHealth, Write
<1>14. CASE Restart \/ ShouldRetry BY <1>14, Rebuilt DEF ShouldRetry
<1>15. CASE CachesDropped BY <1>15, Dropped
<1> HIDE DEF Same
<1> QED BY <1>2, <1>3, <1>4, <1>5, <1>6, <1>7, <1>8, <1>9, <1>10, <1>11, <1>12, <1>13, <1>14, <1>15 DEF Next

-----------------------------------------------------------------------------
(***************************************************************************)
(* The inductive invariant of the cache of addresses.                      *)
(***************************************************************************)
AllOf(is, f) == {i \in Ip : is[i] # NoRow /\ IpFarm[i] = f}
FreeOf(is, f) == {i \in AllOf(is, f) : is[i] = 0}
IpsRow(fs, is, f) ==
  IF fs[f] = "none" THEN NoIpsRow
  ELSE [free |-> Cardinality(FreeOf(is, f)), total |-> Cardinality(AllOf(is, f))]

AddressesInv ==
  /\ farms \in [Farm -> {"none", "shared", "dedicated"}]
  /\ ips \in [Ip -> {NoRow, 0, 1}]
  /\ \A i \in Ip : ips[i] # NoRow => farms[IpFarm[i]] # "none"
  /\ built => ipsCache = [f \in Farm |-> IpsRow(farms, ips, f)]

LEMMA IpsViewNow == PublicIpsView = [f \in Farm |-> IpsRow(farms, ips, f)]
BY DEF PublicIpsView, IpsRow, IpsOf, AllOf, FreeOf
LEMMA IpsViewNext == PublicIpsView' = [f \in Farm |-> IpsRow(farms', ips', f)]
BY DEF PublicIpsView, IpsRow, IpsOf, AllOf, FreeOf

LEMMA OneMember ==
  ASSUME NEW S, IsFiniteSet(S), NEW x
  PROVE  /\ Cardinality(S) \in Nat /\ Cardinality(S \ {x}) \in Nat
         /\ Cardinality(S) = Cardinality(S \ {x}) + (IF x \in S THEN 1 ELSE 0)
<1>1. Cardinality(S) \in Nat /\ IsFiniteSet(S \ {x}) BY FS_CardinalityType, FS_RemoveElement
<1>2. Cardinality(S \ {x}) \in Nat BY <1>1, FS_CardinalityType
<1>3. CASE x \in S
  <2>1. Cardinality(S \ {x}) = Cardinality(S) - 1 BY <1>3, FS_RemoveElement
  <2> QED BY <1>1, <1>2, <1>3, <2>1
<1>4. CASE x \notin S
  <2>1. S \ {x} = S BY <1>4
  <2> QED BY <1>1, <1>4, <2>1
<1> QED BY <1>1, <1>2, <1>3, <1>4

(* By how much an address that goes from old to new changes the counts.    *)
MoreFree(old, new) == (IF new = 0 THEN 1 ELSE 0) - (IF old = 0 THEN 1 ELSE 0)
MoreInAll(old, new) == (IF new = NoRow THEN 0 ELSE 1) - (IF old = NoRow THEN 0 ELSE 1)

LEMMA AddressKept ==
  ASSUME AddressesInv, NEW i \in Ip, NEW new \in {NoRow, 0, 1}, ips' = [ips EXCEPT ![i] = new],
         UNCHANGED <<farms, built>>, farms[IpFarm[i]] # "none",
         ReflectIp(IpFarm[i], MoreFree(ips[i], new), MoreInAll(ips[i], new))
  PROVE  AddressesInv'
<1> DEFINE f == IpFarm[i]
           free == MoreFree(ips[i], new)
           total == MoreInAll(ips[i], new)
<1> HIDE DEF free, total
<1>1. f \in Farm BY ExplorerAssumption
<1>2. ips[i] \in {NoRow, 0, 1} /\ ips'[i] = new /\ \A j \in Ip \ {i} : ips'[j] = ips[j] BY DEF AddressesInv
<1>3. /\ ips' \in [Ip -> {NoRow, 0, 1}]
      /\ \A j \in Ip : ips'[j] # NoRow => farms'[IpFarm[j]] # "none"
  BY <1>2 DEF AddressesInv
<1>4. ASSUME built PROVE ipsCache' = [g \in Farm |-> IpsRow(farms', ips', g)]
  <2>1. /\ IsFiniteSet(AllOf(ips, f)) /\ IsFiniteSet(FreeOf(ips, f))
        /\ IsFiniteSet(AllOf(ips', f)) /\ IsFiniteSet(FreeOf(ips', f))
    <3>1. /\ AllOf(ips, f) \subseteq Ip /\ FreeOf(ips, f) \subseteq Ip
          /\ AllOf(ips', f) \subseteq Ip /\ FreeOf(ips', f) \subseteq Ip
      BY DEF AllOf, FreeOf
    <3> QED BY <3>1, FS_Subset, ExplorerAssumption
  <2>2. AllOf(ips', f) \ {i} = AllOf(ips, f) \ {i} /\ FreeOf(ips', f) \ {i} = FreeOf(ips, f) \ {i}
    BY <1>2 DEF AllOf, FreeOf
  <2>3. /\ i \in AllOf(ips, f) <=> ips[i] # NoRow
        /\ i \in AllOf(ips', f) <=> new # NoRow
        /\ i \in FreeOf(ips, f) <=> ips[i] = 0
        /\ i \in FreeOf(ips', f) <=> new = 0
    BY <1>2 DEF AllOf, FreeOf, NoRow
  <2>4. /\ Cardinality(AllOf(ips, f)) \in Nat
        /\ Cardinality(AllOf(ips', f)) = Cardinality(AllOf(ips, f)) + total
    <3> DEFINE c == Cardinality(AllOf(ips, f) \ {i})
    <3>1. c \in Nat /\ Cardinality(AllOf(ips, f)) = c + (IF i \in AllOf(ips, f) THEN 1 ELSE 0)
      BY <2>1, OneMember
    <3>2. Cardinality(AllOf(ips', f)) = c + (IF i \in AllOf(ips', f) THEN 1 ELSE 0)
      <4>1. Cardinality(AllOf(ips', f)) = Cardinality(AllOf(ips', f) \ {i}) + (IF i \in AllOf(ips', f) THEN 1 ELSE 0)
        BY <2>1, OneMember
      <4> QED BY <2>2, <4>1
    <3> HIDE DEF c, f
    <3> QED BY <2>3, <3>1, <3>2 DEF total, MoreInAll
  <2>5. /\ Cardinality(FreeOf(ips, f)) \in Nat
        /\ Cardinality(FreeOf(ips', f)) = Cardinality(FreeOf(ips, f)) + free
    <3> DEFINE c == Cardinality(FreeOf(ips, f) \ {i})
    <3>1. c \in Nat /\ Cardinality(FreeOf(ips, f)) = c + (IF i \in FreeOf(ips, f) THEN 1 ELSE 0)
      BY <2>1, OneMember
    <3>2. Cardinality(FreeOf(ips', f)) = c + (IF i \in FreeOf(ips', f) THEN 1 ELSE 0)
      <4>1. Cardinality(FreeOf(ips', f)) = Cardinality(FreeOf(ips', f) \ {i}) + (IF i \in FreeOf(ips', f) THEN 1 ELSE 0)
        BY <2>1, OneMember
      <4> QED BY <2>2, <4>1
    <3> HIDE DEF c, f
    <3> QED BY <2>3, <3>1, <3>2 DEF free, MoreFree
  <2>6. ASSUME NEW g \in Farm \ {f} PROVE IpsRow(farms', ips', g) = IpsRow(farms, ips, g)
    <3>1. AllOf(ips', g) = AllOf(ips, g) BY <1>2, <2>6 DEF AllOf
    <3>2. FreeOf(ips', g) = FreeOf(ips, g)
      <4>1. \A j \in AllOf(ips, g) : ips'[j] = ips[j] BY <1>2, <2>6 DEF AllOf
      <4> QED BY <3>1, <4>1 DEF FreeOf
    <3> QED BY <3>1, <3>2 DEF IpsRow
  <2>7. ipsCache = [g \in Farm |-> IpsRow(farms, ips, g)] BY <1>4 DEF AddressesInv
  <2>8. ipsCache[f].total = Cardinality(AllOf(ips, f)) /\ ipsCache[f].free = Cardinality(FreeOf(ips, f))
    BY <1>1, <2>7 DEF IpsRow
  <2>9. ipsCache' = [ipsCache EXCEPT ![f] = [free |-> ipsCache[f].free + free, total |-> ipsCache[f].total + total]]
    BY <1>4, <2>4, <2>8 DEF ReflectIp, NoRow, free, total
  <2>10. IpsRow(farms', ips', f) = [free |-> ipsCache[f].free + free, total |-> ipsCache[f].total + total]
    BY <2>4, <2>5, <2>8 DEF IpsRow
  <2> HIDE DEF f
  <2> QED BY <1>1, <2>6, <2>7, <2>9, <2>10
<1> QED BY <1>3, <1>4 DEF AddressesInv

(* One step per action: those of addresses and farms, a build, the others. *)
LEMMA AddressesKept == AddressesInv /\ [Next]_vars => AddressesInv'
<1> SUFFICES ASSUME AddressesInv, [Next]_vars PROVE AddressesInv' OBVIOUS
<1>1. ASSUME UNCHANGED <<farms, ips, ipsCache, built>> PROVE AddressesInv' BY <1>1 DEF AddressesInv
<1>2. CASE UNCHANGED vars BY <1>1, <1>2 DEF vars, tables
<1>3. ASSUME NEW f \in Farm, InsertFarm(f) PROVE AddressesInv'
  <2>1. PICK kind \in {"shared", "dedicated"} : farms' = [farms EXCEPT ![f] = kind] BY <1>3 DEF InsertFarm
  <2>2. /\ farms[f] = "none" /\ UNCHANGED <<ips, built>>
        /\ ipsCache' = IF built THEN [ipsCache EXCEPT ![f] = [free |-> 0, total |-> 0]] ELSE ipsCache
    BY <1>3 DEF InsertFarm, Write
  <2>3. farms' \in [Farm -> {"none", "shared", "dedicated"}] BY <2>1 DEF AddressesInv
  <2>4. farms'[f] # "none" /\ \A g \in Farm \ {f} : farms'[g] = farms[g] BY <2>1 DEF AddressesInv
  <2>5. AllOf(ips, f) = {} /\ FreeOf(ips, f) = {} BY <2>2 DEF AddressesInv, AllOf, FreeOf
  <2>6. IpsRow(farms', ips', f) = [free |-> 0, total |-> 0] BY <2>2, <2>4, <2>5, FS_EmptySet DEF IpsRow
  <2>7. \A g \in Farm \ {f} : IpsRow(farms', ips', g) = IpsRow(farms, ips, g) BY <2>2, <2>4 DEF IpsRow
  <2>8. ASSUME built PROVE ipsCache' = [g \in Farm |-> IpsRow(farms', ips', g)]
    <3>1. ipsCache = [g \in Farm |-> IpsRow(farms, ips, g)] BY <2>8 DEF AddressesInv
    <3>2. ipsCache' = [ipsCache EXCEPT ![f] = IpsRow(farms', ips', f)] BY <2>2, <2>6, <2>8
    <3> QED BY <2>7, <3>1, <3>2
  <2>9. \A i \in Ip : ips'[i] # NoRow => farms'[IpFarm[i]] # "none"
    BY <2>2, <2>4, ExplorerAssumption DEF AddressesInv
  <2> QED BY <2>2, <2>3, <2>8, <2>9 DEF AddressesInv
<1>4. ASSUME NEW f \in Farm, DeleteFarm(f) PROVE AddressesInv'
  <2>1. /\ farms' = [farms EXCEPT ![f] = "none"] /\ UNCHANGED <<ips, built>> /\ AllOf(ips, f) = {}
        /\ ipsCache' = [ipsCache EXCEPT ![f] = NoIpsRow]
    BY <1>4 DEF DeleteFarm, Write, IpsOf, AllOf
  <2>2. farms' \in [Farm -> {"none", "shared", "dedicated"}] BY <2>1 DEF AddressesInv
  <2>3. farms'[f] = "none" /\ \A g \in Farm \ {f} : farms'[g] = farms[g] BY <2>1 DEF AddressesInv
  <2>4. IpsRow(farms', ips', f) = NoIpsRow BY <2>3 DEF IpsRow
  <2>5. \A g \in Farm \ {f} : IpsRow(farms', ips', g) = IpsRow(farms, ips, g) BY <2>1, <2>3 DEF IpsRow
  <2>6. ASSUME built PROVE ipsCache' = [g \in Farm |-> IpsRow(farms', ips', g)]
    <3>1. ipsCache = [g \in Farm |-> IpsRow(farms, ips, g)] BY <2>6 DEF AddressesInv
    <3>2. ipsCache' = [ipsCache EXCEPT ![f] = IpsRow(farms', ips', f)] BY <2>1, <2>4
    <3> QED BY <2>5, <3>1, <3>2
  <2>7. \A i \in Ip : ips'[i] # NoRow => farms'[IpFarm[i]] # "none"
    BY <2>1, <2>3, ExplorerAssumption DEF AddressesInv, AllOf
  <2> QED BY <2>1, <2>2, <2>6, <2>7 DEF AddressesInv
<1>5. ASSUME NEW i \in Ip, InsertIp(i) PROVE AddressesInv'
  <2>1. /\ ips[i] = NoRow /\ farms[IpFarm[i]] # "none" /\ ips' = [ips EXCEPT ![i] = 0]
        /\ ReflectIp(IpFarm[i], 1, 1) /\ UNCHANGED <<farms, built>>
    BY <1>5 DEF InsertIp, Write
  <2>2. MoreFree(NoRow, 0) = 1 /\ MoreInAll(NoRow, 0) = 1 BY DEF MoreFree, MoreInAll, NoRow
  <2> QED BY <2>1, <2>2, AddressKept
<1>6. ASSUME NEW i \in Ip, ReserveIp(i) PROVE AddressesInv'
  <2>1. /\ ips[i] = 0 /\ farms[IpFarm[i]] # "none" /\ ips' = [ips EXCEPT ![i] = 1]
        /\ ReflectIp(IpFarm[i], -1, 0) /\ UNCHANGED <<farms, built>>
    BY <1>6 DEF ReserveIp, Write, AddressesInv, NoRow
  <2>2. MoreFree(0, 1) = -1 /\ MoreInAll(0, 1) = 0 BY DEF MoreFree, MoreInAll, NoRow
  <2> QED BY <2>1, <2>2, AddressKept
<1>7. ASSUME NEW i \in Ip, FreeIp(i) PROVE AddressesInv'
  <2>1. /\ ips[i] = 1 /\ farms[IpFarm[i]] # "none" /\ ips' = [ips EXCEPT ![i] = 0]
        /\ ReflectIp(IpFarm[i], 1, 0) /\ UNCHANGED <<farms, built>>
    BY <1>7 DEF FreeIp, Write, AddressesInv, NoRow
  <2>2. MoreFree(1, 0) = 1 /\ MoreInAll(1, 0) = 0 BY DEF MoreFree, MoreInAll, NoRow
  <2> QED BY <2>1, <2>2, AddressKept
<1>8. ASSUME NEW i \in Ip, DeleteIp(i) PROVE AddressesInv'
  <2>1. /\ ips[i] # NoRow /\ farms[IpFarm[i]] # "none" /\ ips' = [ips EXCEPT ![i] = NoRow]
        /\ ReflectIp(IpFarm[i], IF ips[i] = 0 THEN -1 ELSE 0, -1) /\ UNCHANGED <<farms, built>>
    BY <1>8 DEF DeleteIp, Write, AddressesInv
  <2>2. MoreFree(ips[i], NoRow) = (IF ips[i] = 0 THEN -1 ELSE 0) /\ MoreInAll(ips[i], NoRow) = -1
    BY <2>1 DEF MoreFree, MoreInAll, NoRow
  <2> QED BY <2>1, <2>2, AddressKept
<1>9. CASE Restart \/ ShouldRetry
  <2>1. ipsCache' = PublicIpsView /\ UNCHANGED <<farms, ips>>
    BY <1>9 DEF ShouldRetry, Restart, Initialize, tables
  <2> QED BY <2>1, IpsViewNow DEF AddressesInv
<1>10. CASE CachesDropped BY <1>10 DEF CachesDropped, tables, AddressesInv
<1>11. ASSUME NEW n \in Node,
              InsertNode(n) \/ DeleteNode(n) \/ UpdatePower(n) \/ UpdateFee(n) \/ UpdateAge(n) \/ IndexGpus(n)
       PROVE  AddressesInv'
  BY <1>1, <1>11 DEF InsertNode, DeleteNode, UpdatePower, UpdateFee, UpdateAge, UpdateNode, IndexGpus, UpsertGpus, Write
<1>12. ASSUME NEW n \in Node, NEW t \in Total, SetTotal(n, t) PROVE AddressesInv' BY <1>1, <1>12 DEF SetTotal, Write
<1>13. ASSUME NEW c \in Contract, NEW n \in Node, InsertContract(c, n) PROVE AddressesInv'
  BY <1>1, <1>13 DEF InsertContract, Write
<1>14. ASSUME NEW c \in Contract, NEW u \in Report, ReportResources(c, u) PROVE AddressesInv'
  BY <1>1, <1>14 DEF ReportResources, Write
<1>15. ASSUME NEW c \in Contract, UpdateContract(c) PROVE AddressesInv' BY <1>1, <1>15 DEF UpdateContract, Write
<1>16. ASSUME NEW r \in Rent, NEW n \in Node, NEW t \in Twin, InsertRent(r, n, t) PROVE AddressesInv'
  BY <1>1, <1>16 DEF InsertRent, Write
<1>17. ASSUME NEW r \in Rent, UpdateRent(r) PROVE AddressesInv' BY <1>1, <1>17 DEF UpdateRent, Write
<1>18. ASSUME NEW n \in Node, NEW found \in {"yes", "no"}, UpsertHealth(n, found) PROVE AddressesInv'
  BY <1>1, <1>18 DEF UpsertHealth, Write
<1> QED BY <1>2, <1>3, <1>4, <1>5, <1>6, <1>7, <1>8, <1>9, <1>10, <1>11, <1>12, <1>13, <1>14, <1>15, <1>16,
           <1>17, <1>18 DEF Next

LEMMA AddressesInit == Init => AddressesInv
BY IpsViewNow DEF Init, AddressesInv, NoRow

(* The addresses a farm's row counts are those of its table.               *)
THEOREM AddressesAlways == Spec => []AddressesInv
BY AddressesInit, AddressesKept, PTL DEF Spec
(* The row of every listed node fits its totals, contracts and rents.      *)
THEOREM RowsAlways == Spec => []RowsInv
BY RowsInit, RowsKept, PTL DEF Spec

LEMMA ExactNow == RowsInv /\ AddressesInv => CacheExact /\ NeverOffered
<1> SUFFICES ASSUME RowsInv, AddressesInv PROVE CacheExact /\ NeverOffered OBVIOUS
<1>1. ASSUME built, NEW n \in Node, Listed(n)
      PROVE  /\ cache[n].used = ViewRow(n).used /\ cache[n].free = ViewRow(n).free
             /\ cache[n].total = ViewRow(n).total
             /\ cache[n].renter = ViewRow(n).renter /\ cache[n].rent = ViewRow(n).rent
             /\ cache[n].count >= Count(n)
  <2>1. RowRight(cache[n], n, nodes, totals, contracts, rents) BY <1>1 DEF RowsInv, RowsRight
  <2>2. /\ Fits(cache[n], UsedBy(contracts, n), totals[n]) /\ Rented(cache[n], n, rents)
        /\ cache[n].count >= Cardinality(On(contracts, n))
    BY <1>1, <2>1 DEF RowRight, Listed
  <2> DEFINE view == ViewOf(n, totals, contracts, rents, JoinedGpus(n), nodes[n].fee)
  <2>3. /\ cache[n].used = view.used /\ cache[n].free = view.free /\ cache[n].total = view.total
    BY <2>2 DEF Fits, ViewOf
  <2>4. cache[n].renter = view.renter /\ cache[n].rent = view.rent
    <3>1. CASE Renting(rents, n) = {} BY <2>2, <3>1 DEF Rented, ViewOf
    <3>2. CASE Renting(rents, n) # {}
      <4>1. (CHOOSE x \in Renting(rents, n) : TRUE) \in Renting(rents, n) BY <3>2
      <4> QED BY <2>2, <3>2, <4>1 DEF Rented, ViewOf
    <3> QED BY <3>1, <3>2
  <2>5. Count(n) = Cardinality(On(contracts, n)) BY UsedNow DEF Count
  <2> HIDE DEF view
  <2>6. ViewRow(n) = view BY ViewNow DEF view
  <2> QED BY <2>2, <2>3, <2>4, <2>5, <2>6
<1>2. CacheExact BY <1>1, IpsViewNow DEF CacheExact, AddressesInv
<1>3. NeverOffered BY <1>1 DEF NeverOffered
<1> QED BY <1>2, <1>3

(* Memory used and free, the renter and the addresses are what the view    *)
(* says, after any writes and restarts: no trigger adds twice or misses.   *)
THEOREM CacheIsExact == Spec => []CacheExact
BY RowsAlways, AddressesAlways, ExactNow, PTL

(* No node with contracts running is counted as without: the count of the  *)
(* triggers, stale at times, is never too low.                             *)
THEOREM NodesNeverOffered == Spec => []NeverOffered
BY RowsAlways, AddressesAlways, ExactNow, PTL
-----------------------------------------------------------------------------
(***************************************************************************)
(* A call between two peers: what they go by is what the chain says.       *)
(***************************************************************************)
TwinRecord == [key : BOOLEAN, relay : PeerRelay \cup {"none"}]
PeersType ==
  /\ cached \in {"memory", "files"} /\ quiet \in Nat /\ faults \in Nat
  /\ chain \in [PeerTwin -> TwinRecord]
  /\ peers \in [PeerTwin -> [up : BOOLEAN, key : BOOLEAN, relay : PeerRelay \cup {"none"}]]
  /\ \A t \in PeerTwin : peers[t].up => peers[t].relay \in PeerRelay
  /\ cache \in [PeerTwin -> [PeerTwin -> [has : BOOLEAN, twin : TwinRecord, age : Nat]]]
  /\ call = [uid |-> call.uid, from |-> call.from, phase |-> call.phase, sure |-> call.sure]
  /\ call.uid \in Nat /\ call.sure \in BOOLEAN
  /\ \A env \in wire : env.uid \in Nat /\ env.uid <= call.uid

(* A record that is not what the chain says was read before the chain      *)
(* changed, and so it is at least as old as the change.                    *)
Aged ==
  cached = "files" => \A t, u \in PeerTwin :
    Twins!Valid(t, u) /\ cache[t][u].twin # chain[u] => cache[t][u].age >= quiet

(* An envelope that its two peers, if nothing changes, make the same of.   *)
Sound(env) ==
  /\ env.source \in PeerTwin /\ env.destination \in PeerTwin
  /\ peers[env.source].up /\ peers[env.destination].up
  /\ Twins!VerifySignature(env) /\ Twins!Reaches(env)
  /\ env.payload \in {"plain", "cipher"}
  /\ env.payload = "cipher" => peers[env.destination].key /\ chain[env.source].key

(* While a call is sure, nobody goes by an old record.                     *)
Sure ==
  call.sure =>
    /\ call.phase \notin {"failed", "panic"}
    /\ call.phase = "waiting" =>
         /\ \A t \in PeerTwin : Twins!Announced(t)
         /\ Twins!Fresh
         /\ \A env \in wire : env.uid = call.uid => Sound(env)

PeersInv == PeersType /\ Aged /\ Sure /\ Twins!AnnouncedByMemory

LEMMA PeersInit == Twins!EnvelopesAssumption /\ Twins!Init => PeersInv
<1> SUFFICES ASSUME Twins!EnvelopesAssumption, Twins!Init PROVE PeersInv OBVIOUS
<1>1. PeersType BY DEF Twins!Init, PeersType, Twins!NoEntry, Twins!Down, Twins!NoCall, TwinRecord
<1>2. Aged BY DEF Twins!Init, Aged, Twins!Valid, Twins!NoEntry
<1>3. Sure BY DEF Twins!Init, Sure, Twins!NoCall
<1>4. Twins!AnnouncedByMemory BY DEF Twins!Init, Twins!AnnouncedByMemory, Twins!Announced, Twins!Down
<1> QED BY <1>1, <1>2, <1>3, <1>4 DEF PeersInv

(* A record that is read over is the chain's, and what is read is either.  *)
LEMMA FilledCache ==
  ASSUME PeersType, NEW t \in PeerTwin, NEW u \in PeerTwin
  PROVE  /\ Twins!Get(t, u) \in TwinRecord
         /\ Twins!Filled(cache, t, u) \in [PeerTwin -> [PeerTwin -> [has : BOOLEAN, twin : TwinRecord, age : Nat]]]
         /\ \A s, v \in PeerTwin :
              \/ Twins!Filled(cache, t, u)[s][v] = cache[s][v]
              \/ Twins!Filled(cache, t, u)[s][v] = [has |-> TRUE, twin |-> chain[v], age |-> 0]
<1> DEFINE e == [has |-> TRUE, twin |-> chain[u], age |-> 0]
<1>1. e \in [has : BOOLEAN, twin : TwinRecord, age : Nat] BY DEF PeersType
<1>2. Twins!Filled(cache, t, u) = IF Twins!Valid(t, u) THEN cache ELSE [cache EXCEPT ![t][u] = e]
  BY DEF Twins!Filled
<1> HIDE DEF e
<1>3. Twins!Filled(cache, t, u) \in [PeerTwin -> [PeerTwin -> [has : BOOLEAN, twin : TwinRecord, age : Nat]]]
  BY <1>1, <1>2 DEF PeersType
<1>4. \A s, v \in PeerTwin :
        \/ Twins!Filled(cache, t, u)[s][v] = cache[s][v]
        \/ Twins!Filled(cache, t, u)[s][v] = e /\ u = v
  BY <1>2 DEF PeersType
<1>5. \A s, v \in PeerTwin :
        \/ Twins!Filled(cache, t, u)[s][v] = cache[s][v]
        \/ Twins!Filled(cache, t, u)[s][v] = [has |-> TRUE, twin |-> chain[v], age |-> 0]
  BY <1>4, ZenonT(30) DEF e
<1>6. Twins!Get(t, u) \in TwinRecord BY DEF Twins!Get, PeersType
<1> QED BY <1>3, <1>5, <1>6

(* Caches that are read over, while the chain and the peers stay.          *)
Reread ==
  /\ cache' \in [PeerTwin -> [PeerTwin -> [has : BOOLEAN, twin : TwinRecord, age : Nat]]]
  /\ \A t, u \in PeerTwin :
       cache'[t][u] = cache[t][u] \/ cache'[t][u] = [has |-> TRUE, twin |-> chain[u], age |-> 0]
SameWorld == UNCHANGED <<cached, chain, peers, quiet>>

LEMMA RereadKeeps ==
  ASSUME PeersType, Aged, Reread, SameWorld
  PROVE  Aged' /\ (Twins!Fresh => Twins!Fresh')
<1>1. \A t, u \in PeerTwin :
        \/ cache'[t][u] = cache[t][u]
        \/ cache'[t][u].twin = chain[u]
  <2> SUFFICES ASSUME NEW t \in PeerTwin, NEW u \in PeerTwin, cache'[t][u] # cache[t][u]
               PROVE  cache'[t][u].twin = chain[u]
    OBVIOUS
  <2>1. cache'[t][u] = [has |-> TRUE, twin |-> chain[u], age |-> 0] BY DEF Reread
  <2> QED BY <2>1
<1> QED BY <1>1 DEF Aged, SameWorld, Twins!Fresh, Twins!Valid

LEMMA FilledRereads ==
  ASSUME PeersType, NEW t \in PeerTwin, NEW u \in PeerTwin, cache' = Twins!Filled(cache, t, u)
  PROVE  Reread
BY FilledCache DEF Reread

(* The same where one of them may not be a twin: then nothing is filled.   *)
LEMMA FilledSomewhere ==
  ASSUME PeersType, NEW t, NEW u, cache' = Twins!Filled(cache, t, u)
  PROVE  Reread
<1>1. CASE t \in PeerTwin /\ u \in PeerTwin BY <1>1, FilledRereads
<1>2. CASE ~(t \in PeerTwin /\ u \in PeerTwin)
  <2>1. \A s, v \in PeerTwin : cache'[s][v] = cache[s][v]
    BY <1>2 DEF Twins!Filled, PeersType
  <2>2. cache' \in [PeerTwin -> [PeerTwin -> [has : BOOLEAN, twin : TwinRecord, age : Nat]]]
    BY <1>2, ZenonT(30) DEF Twins!Filled, PeersType
  <2> QED BY <2>1, <2>2 DEF Reread
<1> QED BY <1>1, <1>2

LEMMA KeptRereads == ASSUME PeersType, cache' = cache PROVE Reread
BY DEF Reread, PeersType

(* By fresh records, peers that announced themselves make sound envelopes. *)
LEMMA MadeSound ==
  ASSUME Twins!EnvelopesAssumption, PeersType, \A t \in PeerTwin : Twins!Announced(t), Twins!Fresh,
         NEW s \in PeerTwin, NEW d \in PeerTwin, peers[s].up, peers[d].up, NEW message, NEW uid
  PROVE  Sound(Twins!MakeEnvelope(s, d, message, uid)) 
<1> DEFINE got == Twins!Get(s, d)
           env == [uid |-> uid, source |-> s, destination |-> d, message |-> message, relays |-> peers[s].relay,
                   federation |-> got.relay,
                   payload |-> IF got.key /\ peers[s].key THEN "cipher" ELSE "plain", signature |-> "none"]
           letter == Twins!MakeEnvelope(s, d, message, uid)
<1>1. got = chain[d] BY DEF Twins!Fresh, Twins!Get
<1>2. chain[d].key = peers[d].key /\ chain[d].relay = peers[d].relay /\ chain[s].key = peers[s].key
  BY DEF Twins!Announced, PeersType
<1>3. letter = [env EXCEPT !.signature = Twins!Sign(s, Twins!Challenge(env))]
  BY DEF Twins!MakeEnvelope, Twins!Signed
<1> HIDE DEF got
<1>4. /\ letter.uid = uid /\ letter.source = s /\ letter.destination = d /\ letter.message = message
      /\ letter.relays = peers[s].relay /\ letter.federation = got.relay
      /\ letter.payload = (IF got.key /\ peers[s].key THEN "cipher" ELSE "plain")
      /\ letter.signature = Twins!Sign(s, Twins!Challenge(env))
  BY <1>3
<1>5. Twins!VerifySignature(letter) BY <1>4 DEF Twins!VerifySignature, Twins!Challenge
<1>6. Twins!Reaches(letter)
  BY <1>1, <1>2, <1>4 DEF Twins!Reaches, PeersType, Twins!EnvelopesAssumption
<1>7. letter.payload = "cipher" => peers[d].key /\ chain[s].key BY <1>1, <1>2, <1>4
<1> HIDE DEF letter
<1> QED BY <1>4, <1>5, <1>6, <1>7 DEF Sound, letter

(* Nothing but caches and the envelopes on their way change.               *)
SoundStays == \A env : Sound(env) => Sound(env)'
LEMMA SameSound == ASSUME SameWorld PROVE SoundStays
BY DEF SoundStays, SameWorld, Sound, Twins!Reaches, Twins!VerifySignature, Twins!Sign, Twins!Challenge

LEMMA SameAnnounced ==
  ASSUME SameWorld, NEW t \in PeerTwin PROVE Twins!Announced(t) => Twins!Announced(t)'
BY DEF SameWorld, Twins!Announced

(* Both sides read the payload of a sound envelope alike.                  *)
LEMMA SoundIsPlain ==
  ASSUME Twins!Fresh, NEW env, Sound(env)
  PROVE  Twins!HandleIncoming(env.destination, env) = "plain"
<1>1. Twins!Get(env.destination, env.source) = chain[env.source]
  BY DEF Twins!Fresh, Twins!Get, Sound
<1> QED BY <1>1 DEF Sound, Twins!HandleIncoming

CallIs(c) == c = [uid |-> c.uid, from |-> c.from, phase |-> c.phase, sure |-> c.sure]

LEMMA NewPeerStep ==
  ASSUME Twins!EnvelopesAssumption, PeersInv,
         NEW t \in PeerTwin, NEW key \in BOOLEAN, NEW relay \in PeerRelay, Twins!NewPeer(t, key, relay)
  PROVE  PeersInv'
<1> DEFINE e == [has |-> TRUE, twin |-> chain[t], age |-> 0]
           Entry == [has : BOOLEAN, twin : TwinRecord, age : Nat]
           opened == Twins!Opened(t)
<1>0. PeersType /\ Aged /\ Sure /\ Twins!AnnouncedByMemory BY DEF PeersInv
<1>1. /\ \/ /\ chain' = [chain EXCEPT ![t] = [key |-> key, relay |-> relay]] /\ quiet' = 0
            /\ peers' = [peers EXCEPT ![t] = [up |-> TRUE, key |-> key, relay |-> relay]] /\ UNCHANGED faults
         \/ /\ peers' = [peers EXCEPT ![t] = [up |-> FALSE, key |-> FALSE, relay |-> "none"]]
            /\ faults' = faults + 1 /\ UNCHANGED <<chain, quiet>>
         \/ /\ peers' = [peers EXCEPT ![t] = [up |-> TRUE, key |-> key, relay |-> relay]]
            /\ UNCHANGED <<chain, quiet, faults>>
            /\ cached = "memory" => chain[t] = [key |-> key, relay |-> relay]
      /\ cached' = cached /\ wire' = wire
      /\ call' = IF call.phase # "waiting" THEN call
                 ELSE IF call.from = t THEN [call EXCEPT !.phase = "gone"] ELSE [call EXCEPT !.sure = FALSE]
  BY <1>0 DEF Twins!NewPeer, Twins!Differs, Twins!Fault, Twins!Down, PeersType
<1>2. cache' \in [PeerTwin -> [PeerTwin -> Entry]]
  <2>1. e \in Entry /\ Twins!NoEntry \in Entry BY <1>0 DEF PeersType, Twins!NoEntry, TwinRecord
  <2>2. CASE cached = "files"
    <3>1. cache' = Twins!Filled(cache, t, t) BY <2>2 DEF Twins!NewPeer, Twins!Opened
    <3> QED BY <1>0, <3>1, FilledCache
  <2>3. CASE cached = "memory"
    <3>1. cache' = [[cache EXCEPT ![t] = [u \in PeerTwin |-> Twins!NoEntry]] EXCEPT ![t][t] = e]
      BY <2>3 DEF Twins!NewPeer, Twins!Opened
    <3> HIDE DEF e, Entry
    <3>2. [cache EXCEPT ![t] = [u \in PeerTwin |-> Twins!NoEntry]] \in [PeerTwin -> [PeerTwin -> Entry]]
      BY <1>0, <2>1 DEF PeersType, Entry
    <3> QED BY <2>1, <3>1, <3>2
  <2> QED BY <1>0, <2>2, <2>3 DEF PeersType
<1>3. /\ call' = [uid |-> call'.uid, from |-> call'.from, phase |-> call'.phase, sure |-> call'.sure]
      /\ call'.uid = call.uid /\ call'.sure \in BOOLEAN
      /\ call'.phase # "waiting" \/ call'.sure = FALSE
      /\ call'.sure = TRUE => call.sure = TRUE /\ call'.phase \in {call.phase, "gone"}
  <2>1. call = [uid |-> call.uid, from |-> call.from, phase |-> call.phase, sure |-> call.sure]
        /\ call.sure \in BOOLEAN
    BY <1>0 DEF PeersType
  <2>2. CASE call' = call /\ call.phase # "waiting" BY <2>1, <2>2
  <2>3. CASE call' = [call EXCEPT !.phase = "gone"]
    <3>1. call' = [uid |-> call.uid, from |-> call.from, phase |-> "gone", sure |-> call.sure] BY <2>1, <2>3
    <3> QED BY <2>1, <3>1
  <2>4. CASE call' = [call EXCEPT !.sure = FALSE]
    <3>1. call' = [uid |-> call.uid, from |-> call.from, phase |-> call.phase, sure |-> FALSE] BY <2>1, <2>4
    <3> QED BY <3>1
  <2> QED BY <1>1, <2>2, <2>3, <2>4
<1>4. PeersType'
  <2>1. /\ chain' \in [PeerTwin -> TwinRecord] /\ quiet' \in Nat /\ faults' \in Nat
        /\ peers' \in [PeerTwin -> [up : BOOLEAN, key : BOOLEAN, relay : PeerRelay \cup {"none"}]]
    <3> DEFINE Peer == [up : BOOLEAN, key : BOOLEAN, relay : PeerRelay \cup {"none"}]
               on == [up |-> TRUE, key |-> key, relay |-> relay]
               off == [up |-> FALSE, key |-> FALSE, relay |-> "none"]
               said == [key |-> key, relay |-> relay]
    <3>1. on \in Peer /\ off \in Peer /\ said \in TwinRecord BY DEF TwinRecord
    <3>2. peers \in [PeerTwin -> Peer] /\ chain \in [PeerTwin -> TwinRecord] /\ quiet \in Nat /\ faults \in Nat
      BY <1>0 DEF PeersType
    <3>3. peers' = [peers EXCEPT ![t] = on] \/ peers' = [peers EXCEPT ![t] = off] BY <1>1
    <3>4. chain' = [chain EXCEPT ![t] = said] \/ chain' = chain BY <1>1
    <3>5. quiet' \in Nat /\ faults' \in Nat BY <1>1, <3>2
    <3> HIDE DEF Peer, on, off, said
    <3>6. peers' \in [PeerTwin -> Peer] /\ chain' \in [PeerTwin -> TwinRecord] BY <3>1, <3>2, <3>3, <3>4
    <3> QED BY <3>5, <3>6 DEF Peer
  <2>2. ASSUME NEW u \in PeerTwin PROVE peers'[u].up => peers'[u].relay \in PeerRelay
    <3>1. \/ peers'[u] = peers[u] \/ peers'[u] = [up |-> TRUE, key |-> key, relay |-> relay]
          \/ peers'[u] = [up |-> FALSE, key |-> FALSE, relay |-> "none"]
      BY <1>0, <1>1 DEF PeersType
    <3> QED BY <1>0, <3>1 DEF PeersType
  <2>3. \A env \in wire' : env.uid \in Nat /\ env.uid <= call'.uid BY <1>0, <1>1, <1>3 DEF PeersType
  <2> QED BY <1>0, <1>1, <1>2, <1>3, <2>1, <2>2, <2>3 DEF PeersType
<1>5. Aged'
  <2> SUFFICES ASSUME cached = "files", NEW s \in PeerTwin, NEW u \in PeerTwin, Twins!Valid(s, u)',
                      cache'[s][u].twin # chain'[u]
               PROVE  cache'[s][u].age >= quiet'
    BY <1>1 DEF Aged
  <2>1. cache'[s][u].age \in Nat BY <1>2
  <2>2. CASE quiet' = 0 BY <2>1, <2>2
  <2>3. CASE UNCHANGED <<chain, quiet>>
    <3>1. cache' = Twins!Filled(cache, t, t) BY DEF Twins!NewPeer, Twins!Opened
    <3>2. \/ cache'[s][u] = cache[s][u]
          \/ cache'[s][u] = [has |-> TRUE, twin |-> chain[u], age |-> 0]
      BY <1>0, <3>1, FilledCache
    <3>3. [has |-> TRUE, twin |-> chain[u], age |-> 0].twin = chain[u] OBVIOUS
    <3>4. cache'[s][u] = cache[s][u] BY <2>3, <3>2, <3>3
    <3> QED BY <1>0, <1>1, <2>3, <3>4 DEF Aged, Twins!Valid
  <2> QED BY <1>1, <2>2, <2>3
<1>6. Sure' BY <1>0, <1>3 DEF Sure
<1>7. Twins!AnnouncedByMemory'
  <2> SUFFICES ASSUME cached = "memory", NEW u \in PeerTwin PROVE Twins!Announced(u)'
    BY <1>1 DEF Twins!AnnouncedByMemory
  <2>1. Twins!Announced(u) BY <1>0 DEF Twins!AnnouncedByMemory
  <2>2. CASE u # t
    <3>1. peers'[u] = peers[u] /\ chain'[u] = chain[u] BY <1>0, <1>1, <2>2 DEF PeersType
    <3> QED BY <2>1, <3>1 DEF Twins!Announced
  <2>3. CASE u = t
    <3>1. \/ peers'[t] = [up |-> FALSE, key |-> FALSE, relay |-> "none"]
          \/ /\ peers'[t] = [up |-> TRUE, key |-> key, relay |-> relay]
             /\ chain'[t] = [key |-> key, relay |-> relay]
      BY <1>0, <1>1 DEF PeersType
    <3> QED BY <2>3, <3>1 DEF Twins!Announced
  <2> QED BY <2>2, <2>3
<1> QED BY <1>4, <1>5, <1>6, <1>7 DEF PeersInv

LEMMA SendRequestStep ==
  ASSUME Twins!EnvelopesAssumption, PeersInv,
         NEW s \in PeerTwin, NEW d \in PeerTwin, Twins!SendRequest(s, d)
  PROVE  PeersInv'
<1> DEFINE letter == [uid |-> call.uid + 1, from |-> s, phase |-> "waiting",
                    sure |-> (\A t \in PeerTwin : Twins!Announced(t))
                             /\ (Twins!Fresh \/ (cached = "files" /\ quiet > PeerTtl))]
           env == Twins!MakeEnvelope(s, d, "request", letter.uid)
<1>0. PeersType /\ Aged /\ Sure /\ Twins!AnnouncedByMemory BY DEF PeersInv
<1>1. /\ SameWorld /\ peers[s].up /\ peers[d].up
      /\ \/ /\ call' = letter /\ wire' = wire \cup {env}
            /\ cache' = Twins!Filled(cache, s, d) /\ UNCHANGED faults
         \/ /\ call' = [letter EXCEPT !.sure = FALSE, !.phase = "failed"] /\ faults' = faults + 1
            /\ UNCHANGED <<wire, cache>>
  BY DEF Twins!SendRequest, Twins!Fault, SameWorld
<1>2. Reread BY <1>0, <1>1, FilledRereads, KeptRereads
<1>3. Aged' /\ (Twins!Fresh => Twins!Fresh') BY <1>0, <1>1, <1>2, RereadKeeps
<1>4. call.uid \in Nat /\ call.uid + 1 \in Nat BY <1>0 DEF PeersType
<1>5. env.uid = call.uid + 1 BY DEF Twins!MakeEnvelope, Twins!Signed
<1>6. /\ call' = [uid |-> call'.uid, from |-> call'.from, phase |-> call'.phase, sure |-> call'.sure]
      /\ call'.uid = call.uid + 1 /\ call'.sure \in BOOLEAN
      /\ call'.sure = TRUE => letter.sure = TRUE /\ call' = letter
  <2>1. CASE call' = letter BY <2>1
  <2>2. CASE call' = [letter EXCEPT !.sure = FALSE, !.phase = "failed"]
    <3>1. call' = [uid |-> call.uid + 1, from |-> s, phase |-> "failed", sure |-> FALSE] BY <2>2
    <3> QED BY <3>1
  <2> QED BY <1>1, <2>1, <2>2
<1> HIDE DEF env
<1>7. PeersType'
  <2>1. \A e \in wire' : e.uid \in Nat /\ e.uid <= call'.uid
    BY <1>0, <1>1, <1>4, <1>5, <1>6 DEF PeersType
  <2>2. faults' \in Nat BY <1>0, <1>1 DEF PeersType
  <2> QED BY <1>0, <1>1, <1>2, <1>4, <1>6, <2>1, <2>2 DEF PeersType, SameWorld, Reread
<1>8. Sure'
  <2> SUFFICES ASSUME call'.sure = TRUE
               PROVE  /\ call'.phase = "waiting" /\ \A t \in PeerTwin : Twins!Announced(t)' /\ Twins!Fresh'
                      /\ \A e \in wire' : e.uid = call'.uid => Sound(e)'
    BY <1>6 DEF Sure
  <2>1. call'.phase = "waiting" /\ \A t \in PeerTwin : Twins!Announced(t) BY <1>6
  <2>2. Twins!Fresh
    <3>1. Twins!Fresh \/ (cached = "files" /\ quiet > PeerTtl) BY <1>6
    <3>2. ASSUME cached = "files", quiet > PeerTtl, NEW t \in PeerTwin, NEW u \in PeerTwin, Twins!Valid(t, u)
          PROVE  cache[t][u].twin = chain[u]
      <4>1. cache[t][u].age <= PeerTtl BY <3>2 DEF Twins!Valid
      <4>2. cache[t][u].age \in Nat /\ quiet \in Nat BY <1>0 DEF PeersType
      <4>3. ~(cache[t][u].age >= quiet) BY <3>2, <4>1, <4>2 DEF Twins!EnvelopesAssumption
      <4> QED BY <1>0, <3>2, <4>3 DEF Aged
    <3> QED BY <3>1, <3>2 DEF Twins!Fresh
  <2>3. Sound(env) BY <1>0, <1>1, <2>1, <2>2, MadeSound DEF env
  <2>4. \A e \in wire : e.uid # call.uid + 1 BY <1>0, <1>4 DEF PeersType
  <2>5. \A e \in wire' : e.uid = call'.uid => Sound(e)
    <3>1. wire' \subseteq wire \cup {env} BY <1>1
    <3> QED BY <1>6, <2>3, <2>4, <3>1
  <2>6. SoundStays BY <1>1, SameSound
  <2> QED BY <1>1, <1>3, <2>1, <2>2, <2>5, <2>6, SameAnnounced DEF SoundStays
<1>9. Twins!AnnouncedByMemory'
  BY <1>0, <1>1, SameAnnounced DEF Twins!AnnouncedByMemory, SameWorld
<1> QED BY <1>3, <1>7, <1>8, <1>9 DEF PeersInv

(* What a step makes of the call, or leaves of it, when the peers stay.    *)
LEMMA CallStays ==
  ASSUME Twins!EnvelopesAssumption, PeersInv, SameWorld, Reread, faults' \in Nat,
         NEW c, CallIs(c), call' = c, c.uid = call.uid, c.sure \in BOOLEAN,
         c.sure = TRUE => call.sure = TRUE /\ c.phase \notin {"failed", "panic"},
         c.sure = TRUE /\ c.phase = "waiting" => call.phase = "waiting",
         \A env \in wire' : env \in wire \/ (env.uid \in Nat /\ env.uid <= call.uid),
         c.sure = TRUE /\ c.phase = "waiting" =>
           \A env \in wire' : env.uid = call.uid => env \in wire \/ Sound(env)
  PROVE  PeersInv'
<1>0. PeersType /\ Aged /\ Sure /\ Twins!AnnouncedByMemory BY DEF PeersInv
<1>1. PeersType'
  <2>1. \A env \in wire' : env.uid \in Nat /\ env.uid <= call'.uid BY <1>0 DEF PeersType
  <2> QED BY <1>0, <2>1 DEF PeersType, SameWorld, Reread, CallIs
<1>2. Aged' /\ (Twins!Fresh => Twins!Fresh') BY <1>0, RereadKeeps
<1>3. SoundStays BY SameSound
<1>4. Sure' BY <1>0, <1>2, <1>3, SameAnnounced DEF Sure, SoundStays
<1>5. Twins!AnnouncedByMemory' BY <1>0, SameAnnounced DEF Twins!AnnouncedByMemory, SameWorld
<1> QED BY <1>1, <1>2, <1>4, <1>5 DEF PeersInv

LEMMA PeerCallIs == ASSUME PeersType PROVE CallIs(call) /\ call.sure \in BOOLEAN
BY DEF PeersType, CallIs

(* An answer ends the call it is for, well if it is read as plain.         *)
LEMMA AnsweredCall ==
  ASSUME PeersInv, NEW env \in wire, NEW got
  PROVE  LET c == Twins!Answered(env, got)
         IN  /\ CallIs(c) /\ c.uid = call.uid /\ c.sure = call.sure
             /\ \/ c = call
                \/ /\ call.phase = "waiting" /\ env.uid = call.uid
                   /\ c.phase = IF got = "plain" THEN "ok" ELSE IF got = "error" THEN "failed" ELSE "panic"
<1> DEFINE c == Twins!Answered(env, got)
           p == IF got = "plain" THEN "ok" ELSE IF got = "error" THEN "failed" ELSE "panic"
<1>1. PeersType /\ CallIs(call) BY PeerCallIs DEF PeersInv
<1>2. CASE c = call BY <1>1, <1>2
<1>3. CASE c # call
  <2>1. call.phase = "waiting" /\ env.uid = call.uid /\ c = [call EXCEPT !.phase = p]
    BY <1>3 DEF Twins!Answered
  <2>2. c = [uid |-> call.uid, from |-> call.from, phase |-> p, sure |-> call.sure]
    BY <1>1, <2>1 DEF CallIs
  <2> QED BY <2>1, <2>2 DEF CallIs
<1> QED BY <1>2, <1>3

LEMMA ProcessStep ==
  ASSUME Twins!EnvelopesAssumption, PeersInv, NEW env \in wire, Twins!Process(env)
  PROVE  PeersInv'
<1> DEFINE t == env.destination
           got == Twins!HandleIncoming(t, env)
           reply == Twins!MakeEnvelope(t, env.source, "response", env.uid)
<1>0. PeersType /\ Aged /\ Sure /\ CallIs(call) /\ call.sure \in BOOLEAN BY PeerCallIs DEF PeersInv
<1>1. SameWorld BY DEF Twins!Process, SameWorld
<1>2. env.uid \in Nat /\ env.uid <= call.uid BY <1>0 DEF PeersType
<1>3. CASE /\ cache' = Twins!Filled(cache, t, env.source) /\ UNCHANGED faults
           /\ env.message = "request" /\ UNCHANGED call
           /\ wire' = IF got = "plain" THEN (wire \ {env}) \cup {reply} ELSE wire \ {env}
  <2>1. Reread BY <1>0, <1>3, FilledSomewhere
  <2>2. reply.uid = env.uid BY DEF Twins!MakeEnvelope, Twins!Signed
  <2>3. call.sure = TRUE /\ call.phase = "waiting" /\ env.uid = call.uid => Sound(reply)
    <3>1. SUFFICES ASSUME call.sure = TRUE, call.phase = "waiting", env.uid = call.uid PROVE Sound(reply)
      OBVIOUS
    <3>2. Sound(env) /\ Twins!Fresh /\ \A u \in PeerTwin : Twins!Announced(u) BY <1>0, <3>1 DEF Sure
    <3> QED BY <1>0, <3>2, MadeSound DEF Sound
  <2> HIDE DEF reply
  <2>4. \A e \in wire' : e \in wire \/ e = reply BY <1>3
  <2>5. faults' \in Nat BY <1>0, <1>3 DEF PeersType
  <2>6. call.sure = TRUE => call.phase \notin {"failed", "panic"} BY <1>0 DEF Sure
  <2> QED BY <1>0, <1>1, <1>2, <1>3, <2>1, <2>2, <2>3, <2>4, <2>5, <2>6, CallStays
<1>4. CASE /\ cache' = Twins!Filled(cache, t, env.source) /\ UNCHANGED faults
           /\ wire' = wire \ {env} /\ call' = Twins!Answered(env, got)
  <2> DEFINE c == Twins!Answered(env, got)
  <2>1. Reread BY <1>0, <1>4, FilledSomewhere
  <2>2. /\ CallIs(c) /\ c.uid = call.uid /\ c.sure = call.sure
        /\ \/ c = call
           \/ /\ call.phase = "waiting" /\ env.uid = call.uid
              /\ c.phase = IF got = "plain" THEN "ok" ELSE IF got = "error" THEN "failed" ELSE "panic"
    BY AnsweredCall
  <2>3. call.sure = TRUE /\ call.phase = "waiting" /\ env.uid = call.uid => got = "plain"
    <3>1. SUFFICES ASSUME call.sure = TRUE, call.phase = "waiting", env.uid = call.uid PROVE got = "plain"
      OBVIOUS
    <3>2. Sound(env) /\ Twins!Fresh BY <1>0, <3>1 DEF Sure
    <3> QED BY <3>2, SoundIsPlain
  <2>4. call.sure = TRUE => call.phase \notin {"failed", "panic"} BY <1>0 DEF Sure
  <2> HIDE DEF c, got
  <2>5. c.sure = TRUE => call.sure = TRUE /\ c.phase \notin {"failed", "panic"} BY <2>2, <2>3, <2>4
  <2>6. c.sure = TRUE /\ c.phase = "waiting" => call.phase = "waiting" BY <2>2
  <2>7. faults' \in Nat BY <1>0, <1>4 DEF PeersType
  <2>8. call' = c BY <1>4 DEF c, got
  <2>9. \A e \in wire' : e \in wire BY <1>4
  <2> QED BY <1>0, <1>1, <2>1, <2>2, <2>5, <2>6, <2>7, <2>8, <2>9, CallStays
<1>5. CASE /\ faults' = faults + 1 /\ UNCHANGED cache /\ wire' = wire \ {env}
           /\ call' = IF env.message = "request" THEN [call EXCEPT !.sure = FALSE]
                      ELSE [Twins!Answered(env, "error") EXCEPT !.sure = FALSE]
  <2> DEFINE c == IF env.message = "request" THEN call ELSE Twins!Answered(env, "error")
  <2>1. CallIs(c) /\ c.uid = call.uid BY <1>0, AnsweredCall
  <2> HIDE DEF c
  <2>2. call' = [uid |-> c.uid, from |-> c.from, phase |-> c.phase, sure |-> FALSE]
    <3>1. call' = [c EXCEPT !.sure = FALSE] BY <1>5 DEF c
    <3> QED BY <2>1, <3>1 DEF CallIs
  <2>3. CallIs(call') /\ call'.uid = call.uid /\ call'.sure = FALSE BY <2>1, <2>2 DEF CallIs
  <2>4. faults' \in Nat BY <1>0, <1>5 DEF PeersType
  <2>5. Reread BY <1>0, <1>5, KeptRereads
  <2>6. \A e \in wire' : e \in wire BY <1>5
  <2> QED BY <1>1, <2>3, <2>4, <2>5, <2>6, CallStays
<1> QED BY <1>3, <1>4, <1>5 DEF Twins!Process, Twins!Fault

LEMMA LoseStep ==
  ASSUME Twins!EnvelopesAssumption, PeersInv, NEW env \in wire, Twins!Lose(env)
  PROVE  PeersInv'
<1>0. PeersType /\ Sure /\ CallIs(call) /\ call.sure \in BOOLEAN BY PeerCallIs DEF PeersInv
<1>1. /\ SameWorld /\ Reread /\ wire' = wire \ {env} /\ faults' \in Nat
      /\ call' = call \/ call' = [call EXCEPT !.sure = FALSE]
  BY <1>0, KeptRereads DEF Twins!Lose, Twins!Fault, SameWorld, PeersType
<1>2. CASE call' = call
  <2>1. call.sure = TRUE => call.phase \notin {"failed", "panic"} BY <1>0 DEF Sure
  <2> QED BY <1>0, <1>1, <1>2, <2>1, CallStays
<1>3. CASE call' = [call EXCEPT !.sure = FALSE]
  <2>1. call' = [uid |-> call.uid, from |-> call.from, phase |-> call.phase, sure |-> FALSE]
    BY <1>0, <1>3 DEF CallIs
  <2>2. CallIs(call') /\ call'.uid = call.uid /\ call'.sure = FALSE BY <2>1 DEF CallIs
  <2> QED BY <1>1, <2>2, CallStays
<1> QED BY <1>1, <1>2, <1>3

LEMMA GiveUpPeers ==
  ASSUME Twins!EnvelopesAssumption, PeersInv, Twins!GiveUp
  PROVE  PeersInv'
<1>0. PeersType /\ Sure /\ CallIs(call) /\ call.sure \in BOOLEAN BY PeerCallIs DEF PeersInv
<1>1. SameWorld /\ Reread /\ wire' = wire /\ faults' \in Nat /\ call' = [call EXCEPT !.phase = "late"]
  BY <1>0, KeptRereads DEF Twins!GiveUp, SameWorld, PeersType
<1>2. call' = [uid |-> call.uid, from |-> call.from, phase |-> "late", sure |-> call.sure]
  BY <1>0, <1>1 DEF CallIs
<1>3. CallIs(call') /\ call'.uid = call.uid /\ call'.sure = call.sure /\ call'.phase = "late"
  BY <1>2 DEF CallIs
<1> QED BY <1>0, <1>1, <1>3, CallStays

(* Records grow old, all of them, up to the age at which none is used.     *)
LEMMA TickStep ==
  ASSUME Twins!EnvelopesAssumption, PeersInv, Twins!Tick
  PROVE  PeersInv'
<1>0. PeersType /\ Aged /\ Sure /\ Twins!AnnouncedByMemory BY DEF PeersInv
<1>1. /\ UNCHANGED <<cached, chain, peers, wire, call, faults>>
      /\ quiet' = IF quiet > PeerTtl THEN quiet ELSE quiet + 1
      /\ cache' = [t \in PeerTwin |-> [u \in PeerTwin |->
           IF cache[t][u].has /\ cache[t][u].age <= PeerTtl THEN [cache[t][u] EXCEPT !.age = @ + 1] ELSE cache[t][u]]]
  BY DEF Twins!Tick
<1>2. ASSUME NEW t \in PeerTwin, NEW u \in PeerTwin
      PROVE  /\ cache'[t][u] \in [has : BOOLEAN, twin : TwinRecord, age : Nat]
             /\ cache'[t][u].has = cache[t][u].has /\ cache'[t][u].twin = cache[t][u].twin
             /\ cache'[t][u].age = IF cache[t][u].has /\ cache[t][u].age <= PeerTtl
                                   THEN cache[t][u].age + 1 ELSE cache[t][u].age
             /\ cache[t][u].age \in Nat
  <2> DEFINE e == cache[t][u]
  <2>1. e \in [has : BOOLEAN, twin : TwinRecord, age : Nat] BY <1>0 DEF PeersType
  <2>2. cache'[t][u] = IF e.has /\ e.age <= PeerTtl THEN [e EXCEPT !.age = e.age + 1] ELSE e BY <1>1
  <2> HIDE DEF e
  <2>3. [e EXCEPT !.age = e.age + 1] = [has |-> e.has, twin |-> e.twin, age |-> e.age + 1] BY <2>1
  <2> QED BY <2>1, <2>2, <2>3 DEF e
<1>3. quiet \in Nat /\ PeerTtl \in Nat BY <1>0 DEF PeersType, Twins!EnvelopesAssumption
<1>4. PeersType'
  <2>1. cache' \in [PeerTwin -> [PeerTwin -> [has : BOOLEAN, twin : TwinRecord, age : Nat]]]
    BY <1>1, <1>2
  <2> QED BY <1>0, <1>1, <1>3, <2>1 DEF PeersType
<1>5. \A t, u \in PeerTwin : Twins!Valid(t, u)' => Twins!Valid(t, u)
  BY <1>1, <1>2, <1>3 DEF Twins!Valid
<1>6. Aged'
  <2> SUFFICES ASSUME cached = "files", NEW t \in PeerTwin, NEW u \in PeerTwin, Twins!Valid(t, u)',
                      cache'[t][u].twin # chain'[u]
               PROVE  cache'[t][u].age >= quiet'
    BY <1>1 DEF Aged
  <2>1. Twins!Valid(t, u) /\ cache[t][u].twin # chain[u] BY <1>1, <1>2, <1>5
  <2>2. cache[t][u].age >= quiet BY <1>0, <2>1 DEF Aged
  <2>3. cache[t][u].has /\ cache[t][u].age <= PeerTtl BY <2>1 DEF Twins!Valid
  <2> QED BY <1>1, <1>2, <1>3, <2>2, <2>3
<1>8. Sure'
  <2>1. Twins!Fresh => Twins!Fresh' BY <1>1, <1>2, <1>5 DEF Twins!Fresh
  <2>2. \A t \in PeerTwin : Twins!Announced(t) => Twins!Announced(t)' BY <1>1 DEF Twins!Announced
  <2>3. \A env : Sound(env) => Sound(env)'
    BY <1>1 DEF Sound, Twins!Reaches, Twins!VerifySignature, Twins!Sign, Twins!Challenge
  <2> QED BY <1>0, <1>1, <2>1, <2>2, <2>3 DEF Sure
<1>9. Twins!AnnouncedByMemory' BY <1>0, <1>1 DEF Twins!AnnouncedByMemory, Twins!Announced
<1> QED BY <1>4, <1>6, <1>8, <1>9 DEF PeersInv

LEMMA PeersNext ==
  ASSUME Twins!EnvelopesAssumption, PeersInv, [Twins!Next]_(Twins!vars) PROVE PeersInv'
<1>1. CASE UNCHANGED Twins!vars
  BY <1>1 DEF Twins!vars, PeersInv, PeersType, Aged, Sure, Sound, Twins!AnnouncedByMemory, Twins!Announced,
              Twins!Valid, Twins!Fresh, Twins!Reaches, Twins!VerifySignature, Twins!Sign, Twins!Challenge
<1> QED BY <1>1, NewPeerStep, SendRequestStep, ProcessStep, LoseStep, GiveUpPeers, TickStep DEF Twins!Next

(* Two peers, in every reachable state.                                    *)
THEOREM PeersInvariance == Twins!EnvelopesAssumption => (Twins!Spec => []PeersInv)
<1> SUFFICES ASSUME Twins!EnvelopesAssumption PROVE Twins!Spec => []PeersInv OBVIOUS
<1>1. Twins!Init => PeersInv BY PeersInit
<1>2. PeersInv /\ [Twins!Next]_(Twins!vars) => PeersInv' BY PeersNext
<1> QED BY <1>1, <1>2, PTL DEF Twins!Spec

LEMMA PeersAgreed == PeersInv => Twins!PeersAgree
BY DEF PeersInv, Sure, Sound, Twins!PeersAgree, Twins!Reached

(* A call between peers that said what they are, and go by no old record,  *)
(* reaches the other and is answered; a peer that keeps what it reads in   *)
(* memory has said what it is.                                             *)
THEOREM PeersUnderstand == Twins!EnvelopesAssumption => (Twins!Spec => []Twins!PeersAgree)
BY PeersAgreed, PeersInvariance, PTL
-----------------------------------------------------------------------------
(***************************************************************************)
(* Listings: what the database filters by is what the answer shows.        *)
(***************************************************************************)
Statuses == {"up", "down", "standby"}
NodesKnown ==
  \A n \in Node : /\ nodes[n].power \in {"none", "on", "off", "goingOff", "comingOn"}
                  /\ nodes[n].age \in {"fresh", "late", "old"}

(* The rule of the status, as a condition, as a column of an order and as  *)
(* a conversion, is one rule.                                              *)
LEMMA OneStatus ==
  ASSUME NEW row, row.power \in {"none", "on", "off", "goingOff", "comingOn"}, row.age \in {"fresh", "late", "old"}
  PROVE  /\ DecideNodeStatus(row) \in Statuses
         /\ \A s \in Statuses : DecideNodeStatusCondition(s, row) <=> DecideNodeStatus(row) = s
BY DEF Statuses, DecideNodeStatus, DecideNodeStatusCondition, InUpInterval, InStandbyInterval, RunsFreely, FarmerHasIt

(* Without a filter on cards a listing goes through the nodes of the table, *)
(* a row for each.                                                         *)
LEMMA RowOf == ASSUME NEW n PROVE NodeTableRow(n).id = n BY DEF NodeTableRow
Plainly(filter) == DOMAIN filter \cap GpuFilters = {}
Passes(filter, r) == PassesResources(filter, r) /\ PassesDedicated(filter, r)

LEMMA ListedRows ==
  ASSUME NEW filter, Plainly(filter)
  PROVE  /\ NodesMatching(filter) = {r \in {NodeTableRow(n) : n \in {n \in Node : Listed(n)}} : Passes(filter, r)}
         /\ \A n \in Node : Listed(n) =>
              (n \in {r.id : r \in NodesMatching(filter)} <=> Passes(filter, NodeTableRow(n)))
<1>1. NodeTableQuery(filter) = {NodeTableRow(n) : n \in {n \in Node : Listed(n)}}
  BY DEF Plainly, NodeTableQuery, IsGpuFilterRequested
<1>2. NodesMatching(filter) = {r \in {NodeTableRow(n) : n \in {n \in Node : Listed(n)}} : Passes(filter, r)}
  BY <1>1 DEF NodesMatching, Passes
<1>3. ASSUME NEW n \in Node, Listed(n)
      PROVE  n \in {r.id : r \in NodesMatching(filter)} <=> Passes(filter, NodeTableRow(n))
  <2>1. ASSUME NEW r \in NodesMatching(filter), r.id = n PROVE r = NodeTableRow(n)
    <3>1. PICK m \in Node : r = NodeTableRow(m) BY <1>2
    <3> QED BY <2>1, <3>1, RowOf
  <2> QED BY <1>2, <1>3, <2>1, RowOf
<1> QED BY <1>2, <1>3

LEMMA RentableFilter ==
  ASSUME NEW b \in BOOLEAN, NEW n \in Node
  PROVE  LET f == [rentable |-> b] IN
         /\ Plainly(f)
         /\ Passes(f, NodeTableRow(n)) <=> NodeFromDBNode(NodeTableRow(n)).rentable = b
<1> DEFINE f == [rentable |-> b]
<1>1. DOMAIN f = {"rentable"} /\ f.rentable = b OBVIOUS
<1> HIDE DEF f
<1>2. NodeTableRow(n).id # Ghost BY RowOf, ExplorerAssumption DEF Ghost
<1>3. PassesResources(f, NodeTableRow(n)) BY <1>1 DEF PassesResources
<1>4. PassesDedicated(f, NodeTableRow(n)) <=> NodeTableRow(n).rentable = b
  BY <1>1, <1>2 DEF PassesDedicated
<1>5. NodeFromDBNode(NodeTableRow(n)).rentable = NodeTableRow(n).rentable BY DEF NodeFromDBNode
<1>6. Plainly(f) BY <1>1 DEF Plainly, GpuFilters
<1> QED BY <1>3, <1>4, <1>5, <1>6 DEF Passes, f

LEMMA RentedFilter ==
  ASSUME NEW b \in BOOLEAN, NEW n \in Node
  PROVE  LET f == [rented |-> b] IN
         /\ Plainly(f)
         /\ Passes(f, NodeTableRow(n)) <=> NodeFromDBNode(NodeTableRow(n)).rented = b
<1> DEFINE f == [rented |-> b]
<1>1. DOMAIN f = {"rented"} /\ f.rented = b OBVIOUS
<1> HIDE DEF f
<1>3. PassesResources(f, NodeTableRow(n)) BY <1>1 DEF PassesResources
<1>4. PassesDedicated(f, NodeTableRow(n)) <=> NodeTableRow(n).rented = b
  BY <1>1 DEF PassesDedicated
<1>5. NodeFromDBNode(NodeTableRow(n)).rented = NodeTableRow(n).rented BY DEF NodeFromDBNode
<1>6. Plainly(f) BY <1>1 DEF Plainly, GpuFilters
<1> QED BY <1>3, <1>4, <1>5, <1>6 DEF Passes, f

LEMMA RenterFilter ==
  ASSUME NEW t, NEW n \in Node
  PROVE  LET f == [rented_by |-> t] IN
         /\ Plainly(f)
         /\ Passes(f, NodeTableRow(n)) <=> NodeFromDBNode(NodeTableRow(n)).rentedBy = t
<1> DEFINE f == [rented_by |-> t]
<1>1. DOMAIN f = {"rented_by"} /\ f.rented_by = t OBVIOUS
<1> HIDE DEF f
<1>3. PassesResources(f, NodeTableRow(n)) BY <1>1 DEF PassesResources
<1>4. PassesDedicated(f, NodeTableRow(n)) <=> NodeTableRow(n).cached.renter = t
  BY <1>1 DEF PassesDedicated
<1>5. NodeFromDBNode(NodeTableRow(n)).rentedBy = NodeTableRow(n).cached.renter BY DEF NodeFromDBNode
<1>6. Plainly(f) BY <1>1 DEF Plainly, GpuFilters
<1> QED BY <1>3, <1>4, <1>5, <1>6 DEF Passes, f

LEMMA StatusFilter ==
  ASSUME NodesKnown, NEW S \in SUBSET Statuses, NEW n \in Node
  PROVE  LET f == [status |-> S] IN
         /\ Plainly(f)
         /\ Passes(f, NodeTableRow(n)) <=> NodeFromDBNode(NodeTableRow(n)).status \in S
<1> DEFINE f == [status |-> S]
           r == NodeTableRow(n)
<1>1. DOMAIN f = {"status"} /\ f.status = S OBVIOUS
<1>2. r.id # Ghost BY RowOf, ExplorerAssumption DEF Ghost
<1>3. r.power = nodes[n].power /\ r.age = nodes[n].age BY DEF NodeTableRow
<1>4. NodeFromDBNode(r).status = DecideNodeStatus(r) BY DEF NodeFromDBNode
<1> HIDE DEF f, r
<1>5. PassesDedicated(f, r) BY <1>1 DEF PassesDedicated
<1>6. PassesResources(f, r) <=> \E s \in S : DecideNodeStatusCondition(s, r)
  BY <1>1, <1>2 DEF PassesResources
<1>7. (\E s \in S : DecideNodeStatusCondition(s, r)) <=> DecideNodeStatus(r) \in S
  BY <1>3, OneStatus DEF NodesKnown
<1>8. Plainly(f) BY <1>1 DEF Plainly, GpuFilters
<1> QED BY <1>4, <1>5, <1>6, <1>7, <1>8 DEF Passes, f, r

LEMMA ShownIs ==
  ASSUME NodesKnown, NEW q \in Shown, NEW n \in Node, Listed(n)
  PROVE  /\ Plainly(q.f)
         /\ n \in {r.id : r \in NodesMatching(q.f)} <=> NodeFromDBNode(NodeTableRow(n))[q.k] = q.v
<1>1. CASE \E b \in BOOLEAN : q = [f |-> [rentable |-> b], k |-> "rentable", v |-> b]
  <2>1. PICK b \in BOOLEAN : q = [f |-> [rentable |-> b], k |-> "rentable", v |-> b] BY <1>1
  <2>2. q.f = [rentable |-> b] /\ q.k = "rentable" /\ q.v = b BY <2>1
  <2> QED BY <2>2, RentableFilter, ListedRows
<1>2. CASE \E b \in BOOLEAN : q = [f |-> [rented |-> b], k |-> "rented", v |-> b]
  <2>1. PICK b \in BOOLEAN : q = [f |-> [rented |-> b], k |-> "rented", v |-> b] BY <1>2
  <2>2. q.f = [rented |-> b] /\ q.k = "rented" /\ q.v = b BY <2>1
  <2> QED BY <2>2, RentedFilter, ListedRows
<1>3. CASE \E t \in Twin : q = [f |-> [rented_by |-> t], k |-> "rentedBy", v |-> t]
  <2>1. PICK t \in Twin : q = [f |-> [rented_by |-> t], k |-> "rentedBy", v |-> t] BY <1>3
  <2>2. q.f = [rented_by |-> t] /\ q.k = "rentedBy" /\ q.v = t BY <2>1
  <2> QED BY <2>2, RenterFilter, ListedRows
<1>4. CASE \E s \in Statuses : q = [f |-> [status |-> {s}], k |-> "status", v |-> s]
  <2>1. PICK s \in Statuses : q = [f |-> [status |-> {s}], k |-> "status", v |-> s] BY <1>4
  <2>2. q.f = [status |-> {s}] /\ q.k = "status" /\ q.v = s BY <2>1
  <2>3. {s} \in SUBSET Statuses OBVIOUS
  <2>4. Plainly([status |-> {s}]) /\ (Passes([status |-> {s}], NodeTableRow(n))
                                      <=> NodeFromDBNode(NodeTableRow(n)).status \in {s})
    BY <2>3, StatusFilter
  <2> QED BY <2>2, <2>4, ListedRows
<1> QED BY <1>1, <1>2, <1>3, <1>4 DEF Shown, Statuses

LEMMA ListingIs == ASSUME NodesKnown PROVE ListingAgrees
BY ShownIs DEF ListingAgrees

(* The instance that ages has the tables and the queries of the other.     *)
LEMMA AgingStatus ==
  ASSUME NEW row
  PROVE  /\ Aging!DecideNodeStatus(row) = DecideNodeStatus(row)
         /\ \A s : Aging!DecideNodeStatusCondition(s, row) <=> DecideNodeStatusCondition(s, row)
BY DEF DecideNodeStatus, DecideNodeStatusCondition, InUpInterval, InStandbyInterval, RunsFreely, FarmerHasIt,
       Aging!DecideNodeStatus, Aging!DecideNodeStatusCondition, Aging!InUpInterval, Aging!InStandbyInterval,
       Aging!RunsFreely, Aging!FarmerHasIt

LEMMA AgingRows ==
  ASSUME NEW n
  PROVE  /\ Aging!Listed(n) <=> Listed(n)
         /\ Aging!NodeTableRow(n) = NodeTableRow(n)
         /\ Aging!NodeFromDBNode(Aging!NodeTableRow(n)) = NodeFromDBNode(NodeTableRow(n))
<1>1. Aging!NodeTableRow(n) = NodeTableRow(n) BY DEF Aging!NodeTableRow, NodeTableRow
<1>2. Aging!DecideNodeStatus(NodeTableRow(n)) = DecideNodeStatus(NodeTableRow(n)) BY AgingStatus
<1> QED BY <1>1, <1>2 DEF Aging!Listed, Listed, Aging!NodeFromDBNode, NodeFromDBNode

LEMMA AgingQueries ==
  ASSUME NEW filter, Plainly(filter)
  PROVE  Aging!NodesMatching(filter) = NodesMatching(filter)
<1>1. Aging!NodeTableQuery(filter) = {NodeTableRow(n) : n \in {n \in Node : Listed(n)}}
  BY AgingRows DEF Plainly, GpuFilters, Aging!NodeTableQuery, Aging!IsGpuFilterRequested, Aging!GpuFilters
<1>2. ASSUME NEW r PROVE Aging!PassesResources(filter, r) <=> PassesResources(filter, r)
  BY AgingStatus DEF PassesResources, Aging!PassesResources, Ghost, Aging!Ghost
<1>3. ASSUME NEW r PROVE Aging!PassesDedicated(filter, r) <=> PassesDedicated(filter, r)
  BY DEF PassesDedicated, Aging!PassesDedicated, Ghost, Aging!Ghost, DedicatedCondition,
         Aging!DedicatedCondition, AvailableTo, Aging!AvailableTo
<1> QED BY <1>1, <1>2, <1>3, ListedRows DEF Aging!NodesMatching, Passes

LEMMA AgingListingIs == ASSUME NodesKnown PROVE Aging!ListingAgrees
<1>1. Aging!Shown = Shown BY DEF Aging!Shown, Shown
<1>2. ASSUME NEW q \in Shown, NEW n \in Node, Listed(n)
      PROVE  n \in {r.id : r \in Aging!NodesMatching(q.f)}
               <=> Aging!NodeFromDBNode(Aging!NodeTableRow(n))[q.k] = q.v
  <2>1. Aging!NodesMatching(q.f) = NodesMatching(q.f) BY <1>2, ShownIs, AgingQueries
  <2>2. Aging!NodeFromDBNode(Aging!NodeTableRow(n)) = NodeFromDBNode(NodeTableRow(n)) BY AgingRows
  <2> QED BY <1>2, <2>1, <2>2, ShownIs
<1> QED BY <1>1, <1>2, AgingRows DEF Aging!ListingAgrees

(* What is written of a node is one of the known states and ages.          *)
LEMMA KnownInit == ASSUME Init \/ Aging!Init PROVE NodesKnown
BY DEF Init, Aging!Init, NodesKnown

LEMMA OneUpdated ==
  ASSUME NodesKnown, NEW n \in Node, NEW row, nodes' = [nodes EXCEPT ![n] = row],
         row.power \in {"none", "on", "off", "goingOff", "comingOn"}, row.age \in {"fresh", "late", "old"}
  PROVE  NodesKnown'
<1> SUFFICES ASSUME NEW m \in Node
             PROVE  nodes'[m].power \in {"none", "on", "off", "goingOff", "comingOn"}
                    /\ nodes'[m].age \in {"fresh", "late", "old"}
  BY DEF NodesKnown
<1>1. nodes'[m] = nodes[m] \/ nodes'[m] = row OBVIOUS
<1> QED BY <1>1 DEF NodesKnown

LEMMA KnownKept == ASSUME NodesKnown, [Next]_vars PROVE NodesKnown'
<1>1. ASSUME UNCHANGED nodes PROVE NodesKnown' BY <1>1 DEF NodesKnown
<1>2. ASSUME NEW n \in Node, InsertNode(n) PROVE NodesKnown' BY <1>2 DEF NodesKnown, InsertNode
<1>3. ASSUME NEW n \in Node, DeleteNode(n) PROVE NodesKnown' BY <1>3 DEF NodesKnown, DeleteNode
<1>4. ASSUME NEW n \in Node, UpdatePower(n) PROVE NodesKnown'
  <2> PICK v \in Powers : UpdateNode(n, [nodes[n] EXCEPT !.power = v]) BY <1>4 DEF UpdatePower
  <2>1. nodes' = [nodes EXCEPT ![n] = [nodes[n] EXCEPT !.power = v]] BY DEF UpdateNode
  <2>2. [nodes[n] EXCEPT !.power = v].power \in {"none", "on", "off", "goingOff", "comingOn"}
        /\ [nodes[n] EXCEPT !.power = v].age \in {"fresh", "late", "old"}
    BY ExplorerAssumption DEF NodesKnown
  <2> QED BY <2>1, <2>2, OneUpdated
<1>5. ASSUME NEW n \in Node, UpdateFee(n) PROVE NodesKnown'
  <2> PICK v \in {0, 1} : UpdateNode(n, [nodes[n] EXCEPT !.fee = v]) BY <1>5 DEF UpdateFee
  <2>1. nodes' = [nodes EXCEPT ![n] = [nodes[n] EXCEPT !.fee = v]] BY DEF UpdateNode
  <2>2. [nodes[n] EXCEPT !.fee = v].power \in {"none", "on", "off", "goingOff", "comingOn"}
        /\ [nodes[n] EXCEPT !.fee = v].age \in {"fresh", "late", "old"}
    BY ExplorerAssumption DEF NodesKnown
  <2> QED BY <2>1, <2>2, OneUpdated
<1>6. ASSUME NEW n \in Node, UpdateAge(n) PROVE NodesKnown'
  <2> PICK v \in Ages : UpdateNode(n, [nodes[n] EXCEPT !.age = v]) BY <1>6 DEF UpdateAge
  <2>1. nodes' = [nodes EXCEPT ![n] = [nodes[n] EXCEPT !.age = v]] BY DEF UpdateNode
  <2>2. [nodes[n] EXCEPT !.age = v].power \in {"none", "on", "off", "goingOff", "comingOn"}
        /\ [nodes[n] EXCEPT !.age = v].age \in {"fresh", "late", "old"}
    BY ExplorerAssumption DEF NodesKnown
  <2> QED BY <2>1, <2>2, OneUpdated
<1>7. CASE Next
  BY <1>1, <1>2, <1>3, <1>4, <1>5, <1>6, <1>7
  DEF Next, InsertFarm, DeleteFarm, SetTotal, InsertContract, ReportResources, UpdateContract, InsertRent,
      UpdateRent, InsertIp, ReserveIp, FreeIp, DeleteIp, IndexGpus, UpsertGpus, UpsertHealth, Restart,
      CachesDropped, ShouldRetry, tables
<1> QED BY <1>1, <1>7 DEF vars, tables

LEMMA AgingKnown == ASSUME NodesKnown, Aging!Next PROVE NodesKnown'
<1>1. ASSUME UNCHANGED nodes PROVE NodesKnown' BY <1>1 DEF NodesKnown
<1>2. ASSUME NEW n \in Node, Aging!InsertNode(n) PROVE NodesKnown' BY <1>2 DEF NodesKnown, Aging!InsertNode
<1>3. ASSUME NEW n \in Node, Aging!DeleteNode(n) PROVE NodesKnown' BY <1>3 DEF NodesKnown, Aging!DeleteNode
<1>4. ASSUME NEW n \in Node, Aging!UpdatePower(n) PROVE NodesKnown'
  <2> PICK v \in AllPowers : Aging!UpdateNode(n, [nodes[n] EXCEPT !.power = v]) BY <1>4 DEF Aging!UpdatePower
  <2>1. nodes' = [nodes EXCEPT ![n] = [nodes[n] EXCEPT !.power = v]] BY DEF Aging!UpdateNode
  <2>2. [nodes[n] EXCEPT !.power = v].power \in {"none", "on", "off", "goingOff", "comingOn"}
        /\ [nodes[n] EXCEPT !.power = v].age \in {"fresh", "late", "old"}
    BY Assumptions DEF NodesKnown
  <2> QED BY <2>1, <2>2, OneUpdated
<1>5. ASSUME NEW n \in Node, Aging!UpdateFee(n) PROVE NodesKnown'
  <2> PICK v \in {0, 1} : Aging!UpdateNode(n, [nodes[n] EXCEPT !.fee = v]) BY <1>5 DEF Aging!UpdateFee
  <2>1. nodes' = [nodes EXCEPT ![n] = [nodes[n] EXCEPT !.fee = v]] BY DEF Aging!UpdateNode
  <2>2. [nodes[n] EXCEPT !.fee = v].power \in {"none", "on", "off", "goingOff", "comingOn"}
        /\ [nodes[n] EXCEPT !.fee = v].age \in {"fresh", "late", "old"}
    BY Assumptions DEF NodesKnown
  <2> QED BY <2>1, <2>2, OneUpdated
<1>6. ASSUME NEW n \in Node, Aging!UpdateAge(n) PROVE NodesKnown'
  <2> PICK v \in AllAges : Aging!UpdateNode(n, [nodes[n] EXCEPT !.age = v]) BY <1>6 DEF Aging!UpdateAge
  <2>1. nodes' = [nodes EXCEPT ![n] = [nodes[n] EXCEPT !.age = v]] BY DEF Aging!UpdateNode
  <2>2. [nodes[n] EXCEPT !.age = v].power \in {"none", "on", "off", "goingOff", "comingOn"}
        /\ [nodes[n] EXCEPT !.age = v].age \in {"fresh", "late", "old"}
    BY Assumptions DEF NodesKnown
  <2> QED BY <2>1, <2>2, OneUpdated
<1> QED
  BY <1>1, <1>2, <1>3, <1>4, <1>5, <1>6
  DEF Aging!Next, Aging!InsertFarm, Aging!DeleteFarm, Aging!SetTotal, Aging!InsertContract,
      Aging!ReportResources, Aging!UpdateContract, Aging!InsertRent, Aging!UpdateRent, Aging!InsertIp,
      Aging!ReserveIp, Aging!FreeIp, Aging!DeleteIp, Aging!IndexGpus, Aging!UpsertGpus, Aging!UpsertHealth,
      Aging!Restart, Aging!CachesDropped, Aging!ShouldRetry, Aging!tables

-----------------------------------------------------------------------------
(***************************************************************************)
(* The run: a behaviour of MCSpec is one of its part.                      *)
(***************************************************************************)
RunInv ==
  /\ part \in {"rows", "status"} => NodesKnown
  /\ part = "twins" => PeersInv
  /\ part = "farm" => Farmer!IInv /\ Farmer!Sole

(* The farmerbot's instance is one its theorems are about.                 *)
LEMMA FarmAssumed ==
  /\ Farmer!ConfigAssumption /\ Farmer!TenancyAssumption /\ Farmer!ActorsAssumption
  /\ Farmer!FiniteAssumption /\ Farmer!BoundsAssumption /\ Farmer!RequestsAssumption /\ Farmer!PowerOnOnly
BY Assumptions DEF Farmer!PowerOnOnly

LEMMA PartStep ==
  ASSUME [MCNext]_mcVars
  PROVE  /\ part' = part
         /\ part = "rows" => [Next]_vars
         /\ part = "status" => Aging!Next \/ UNCHANGED nodes
         /\ part = "twins" => [Twins!Next]_(Twins!vars)
         /\ part = "farm" => [Farmer!Next]_(Farmer!vars)
<1>1. CASE UNCHANGED mcVars
  <2>1. UNCHANGED vars BY <1>1 DEF mcVars, explorerOnly, vars, tables
  <2>2. UNCHANGED Twins!vars BY <1>1 DEF mcVars, twinsOnly, Twins!vars
  <2>3. UNCHANGED Farmer!vars
    BY <1>1 DEF mcVars, farmOnly, Farmer!vars, Farmer!chain, Farmer!round, Farmer!count
  <2> QED BY <1>1, <2>1, <2>2, <2>3 DEF mcVars
<1>2. CASE MCNext BY <1>2 DEF MCNext
<1> QED BY <1>1, <1>2

LEMMA RunInit == ASSUME MCInit PROVE RunInv
<1>1. part \in {"rows", "status"} => NodesKnown BY KnownInit DEF MCInit
<1>2. part = "twins" => PeersInv BY PeersInit, Assumptions DEF MCInit
<1>3. part = "farm" => Farmer!IInv /\ Farmer!Sole
  <2>1. part = "farm" => Farmer!Init BY DEF MCInit
  <2> QED BY <2>1, FarmAssumed, Farmer!InitIInv, Farmer!SoleInit
<1> QED BY <1>1, <1>2, <1>3 DEF RunInv

LEMMA RunNext == ASSUME RunInv, [MCNext]_mcVars PROVE RunInv'
<1>1. part' = part BY PartStep
<1>2. part = "rows" => NodesKnown' BY PartStep, KnownKept DEF RunInv
<1>3. part = "status" => NodesKnown' BY PartStep, AgingKnown DEF RunInv, NodesKnown
<1>4. part = "twins" => PeersInv' BY PartStep, PeersNext, Assumptions DEF RunInv
<1>5. part = "farm" => Farmer!IInv' /\ Farmer!Sole'
  BY PartStep, FarmAssumed, Farmer!NextStep, Farmer!SoleStep DEF RunInv
<1> QED BY <1>1, <1>2, <1>3, <1>4, <1>5 DEF RunInv

(* In every reachable state of the run, for every value of its constants.  *)
THEOREM RunInvariance == MCSpec => []RunInv
BY RunInit, RunNext, PTL DEF MCSpec

(* The nodes a listing holds by a filter are those whose answer shows what *)
(* the filter asks for, in both instances.                                 *)
THEOREM RunListings == MCSpec => []Listings
<1>1. RunInv => Listings BY ListingIs, AgingListingIs DEF RunInv, Listings
<1> QED BY <1>1, RunInvariance, PTL

(* Two peers agree on how they talk to each other.                         *)
THEOREM RunPeers == MCSpec => []PeersAgree
<1>1. RunInv => PeersAgree BY PeersAgreed DEF RunInv, PeersAgree
<1> QED BY <1>1, RunInvariance, PTL

(* A node that counts as on for the farmerbot has its target up, and the   *)
(* bot manages no node twice.                                              *)
THEOREM RunCounted == MCSpec => []Counted
<1>1. RunInv => Counted BY FarmAssumed, Farmer!CountedRight DEF RunInv, Counted
<1> QED BY <1>1, RunInvariance, PTL

(* The farmerbot leaves a node of the farm on.                             *)
THEOREM RunKeepsOneOn == MCSpec => OneStaysOn
<1>1. RunInv /\ [MCNext]_mcVars => [part = "farm" => Farmer!StaysUp]_mcVars
  BY PartStep, FarmAssumed, Farmer!StaysRight DEF RunInv
<1> QED BY <1>1, RunInvariance, PTL DEF MCSpec, OneStaysOn
=============================================================================
