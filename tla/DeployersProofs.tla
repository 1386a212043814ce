-------------------------- MODULE DeployersProofs --------------------------
(***************************************************************************)
(* What the deployers promise: the ledger of contracts that they implement, *)
(* for any set of contracts; the network deployer, for any nodes; gateways  *)
(* and clusters, for any of them on any nodes. Of the last two every call   *)
(* ends with what Deployer.Deploy may leave behind, which comes first.      *)
(***************************************************************************)
EXTENDS MCDeployers, FiniteSetTheorems, WellFoundedInduction, TLAPS
CONSTANT Contract
VARIABLES opened, live, held, reported

Ledger == INSTANCE ContractLedger

(***************************************************************************)
(* The ledger.                                                             *)
(***************************************************************************)

(* A report may name a contract that has ended; what is held was opened.   *)
LedgerInv ==
  Ledger!Accounted /\ held \cap reported = {} /\ live \subseteq opened /\ reported \subseteq opened

(* In every behaviour of the ledger, and so of whatever implements it, no  *)
(* contract is live without being held by the client or reported.          *)
THEOREM NothingUnaccounted == Ledger!Spec => []Ledger!Accounted
<1>1. Ledger!Init => LedgerInv BY DEF Ledger!Init, LedgerInv, Ledger!Accounted
<1>2. LedgerInv /\ [Ledger!Next]_Ledger!ledger => LedgerInv'
  <2> SUFFICES ASSUME LedgerInv, [Ledger!Next]_Ledger!ledger PROVE LedgerInv' OBVIOUS
  <2>1. ASSUME NEW S \in SUBSET Contract, NEW R \in SUBSET Contract, Ledger!Open(S, R) PROVE LedgerInv'
    BY <2>1 DEF Ledger!Open, LedgerInv, Ledger!Accounted
  <2>2. ASSUME NEW S \in SUBSET Contract, Ledger!Close(S) PROVE LedgerInv'
    BY <2>2 DEF Ledger!Close, LedgerInv, Ledger!Accounted
  <2>3. ASSUME NEW S \in SUBSET Contract, NEW T \in SUBSET Contract, Ledger!Report(S, T) PROVE LedgerInv'
    BY <2>3 DEF Ledger!Report, LedgerInv, Ledger!Accounted
  <2>4. CASE UNCHANGED Ledger!ledger BY <2>4 DEF Ledger!ledger, LedgerInv, Ledger!Accounted
  <2> QED BY <2>1, <2>2, <2>3, <2>4 DEF Ledger!Next
<1>3. LedgerInv => Ledger!Accounted BY DEF LedgerInv
<1> QED BY <1>1, <1>2, <1>3, PTL DEF Ledger!Spec

(***************************************************************************)
(* What a call of Deployer.Deploy leaves (Outcome).                        *)
(***************************************************************************)

O == INSTANCE Outcome

LEMMA OutcomeCounts == \A S : O!Cardinality(S) = Cardinality(S)
BY DEF O!Cardinality, Cardinality, O!IsFiniteSet, IsFiniteSet

LEMMA FreshIs ==
  ASSUME NEW S, S \subseteq Nat, IsFiniteSet(S), NEW top \in Nat
  PROVE  /\ Cardinality(S) \in Nat
         /\ \A n \in S : O!Fresh(S, n, top) \in (top + 1)..(top + Cardinality(S))
         /\ \A n, m \in S : n # m => O!Fresh(S, n, top) # O!Fresh(S, m, top)
<1> DEFINE B(n) == {m \in S : m <= n}
<1>1. Cardinality(S) \in Nat BY FS_CardinalityType
<1>2. ASSUME NEW n \in S PROVE IsFiniteSet(B(n)) /\ Cardinality(B(n)) \in 1..Cardinality(S)
  <2>1. IsFiniteSet(B(n)) /\ Cardinality(B(n)) <= Cardinality(S) BY FS_Subset
  <2>2. Cardinality(B(n)) \in Nat BY <2>1, FS_CardinalityType
  <2>3. n \in B(n) OBVIOUS
  <2>4. Cardinality(B(n)) # 0 BY <2>1, <2>3, FS_EmptySet
  <2> HIDE DEF B
  <2> QED BY <1>1, <2>1, <2>2, <2>4
<1>3. ASSUME NEW n \in S, NEW m \in S, n < m PROVE Cardinality(B(n)) < Cardinality(B(m))
  <2>0. n \in Nat /\ m \in Nat OBVIOUS
  <2>a. ASSUME NEW x \in B(n) PROVE x \in B(m)
    <3>1. x \in S /\ x <= n /\ x \in Nat OBVIOUS
    <3> QED BY <1>3, <2>0, <3>1
  <2>b. m \in B(m) /\ m \notin B(n) BY <1>3, <2>0
  <2>1. B(n) \subseteq B(m) /\ m \in B(m) /\ m \notin B(n) BY <2>a, <2>b
  <2>2. IsFiniteSet(B(m)) BY <1>2
  <2> HIDE DEF B
  <2>3. Cardinality(B(n)) <= Cardinality(B(m)) /\ (Cardinality(B(m)) = Cardinality(B(n)) => B(m) = B(n))
    BY <2>1, <2>2, FS_Subset
  <2>4. Cardinality(B(n)) \in Nat /\ Cardinality(B(m)) \in Nat BY <1>2
  <2> QED BY <2>1, <2>3, <2>4
<1>4. \A n \in S : O!Fresh(S, n, top) = top + Cardinality(B(n)) BY OutcomeCounts DEF O!Fresh
<1> HIDE DEF B
<1>5. \A n \in S : Cardinality(B(n)) \in 1..Cardinality(S) BY <1>2
<1>6. \A n \in S : O!Fresh(S, n, top) \in (top + 1)..(top + Cardinality(S)) BY <1>1, <1>4, <1>5
<1>7. ASSUME NEW n \in S, NEW m \in S, n # m PROVE O!Fresh(S, n, top) # O!Fresh(S, m, top)
  <2>1. n < m \/ m < n BY <1>7
  <2>2. Cardinality(B(n)) # Cardinality(B(m)) BY <2>1, <1>3, <1>5
  <2> QED BY <2>2, <1>4, <1>5
<1> QED BY <1>1, <1>6, <1>7

(* The contracts top since: those above top.                              *)
New(top, out) == (top + 1)..out.made

(* What a call is given: ids of contracts top, no two the same.            *)
Given(ids, g, stuck, top) ==
  /\ top \in Nat /\ IsFiniteSet(DOMAIN ids) /\ IsFiniteSet(DOMAIN stuck)
  /\ DOMAIN ids \subseteq Nat /\ DOMAIN stuck \subseteq Nat /\ DOMAIN g \subseteq 1..top
  /\ \A n \in DOMAIN ids : ids[n] \in 1..top
  /\ \A n, m \in DOMAIN ids : n # m => ids[n] # ids[m]

(* What it leaves: a node keeps its contract or has a new one, what is not  *)
(* of the call stays, nothing of the call is out of sight, and a deployment *)
(* is as it was or as it was asked for.                                     *)
Follows(ids, g, stuck, top, out) ==
  /\ out.made \in Nat /\ top <= out.made
  /\ out.ids = [n \in DOMAIN out.ids |-> out.ids[n]] /\ DOMAIN out.ids \subseteq DOMAIN ids \cup DOMAIN stuck
  /\ out.grid = [i \in DOMAIN out.grid |-> out.grid[i]]
  /\ \A n \in DOMAIN out.ids : (n \in DOMAIN ids /\ out.ids[n] = ids[n]) \/ out.ids[n] \in New(top, out)
  /\ \A n, m \in DOMAIN out.ids : n # m => out.ids[n] # out.ids[m]
  /\ \A i \in DOMAIN out.grid \ DOMAIN g : i \in New(top, out) /\ \E n \in DOMAIN out.ids : i = out.ids[n]
  /\ \A i \in DOMAIN g : (\A n \in DOMAIN ids : ids[n] # i) => i \in DOMAIN out.grid /\ out.grid[i] = g[i]
  /\ \A n \in DOMAIN ids : ids[n] \in DOMAIN out.grid => n \in DOMAIN out.ids /\ out.ids[n] = ids[n]
  /\ \A n \in DOMAIN out.ids : out.ids[n] \in DOMAIN out.grid =>
       \/ n \in DOMAIN stuck /\ out.grid[out.ids[n]] = stuck[n]
       \/ n \in DOMAIN ids /\ ids[n] \in DOMAIN g /\ out.grid[out.ids[n]] = g[ids[n]]

LEMMA LeftFollows ==
  ASSUME NEW ids, NEW g, NEW stuck, NEW top, Given(ids, g, stuck, top),
         NEW K, NEW R, NEW L, NEW U, K \cup R \subseteq DOMAIN ids \ DOMAIN stuck, K \cap R = {},
         L \subseteq DOMAIN stuck \ DOMAIN ids, U \subseteq DOMAIN stuck \cap DOMAIN ids,
         \A n \in R : ids[n] \in DOMAIN g
  PROVE  Follows(ids, g, stuck, top, O!Left(ids, g, stuck, top, K, R, L, U))
<1> DEFINE out == O!Left(ids, g, stuck, top, K, R, L, U)
           stay == K \cup (DOMAIN ids \cap DOMAIN stuck)
           again == R \cup L
           fresh(n) == O!Fresh(again, n, top)
           now == [n \in stay \cup again |-> IF n \in stay THEN ids[n] ELSE fresh(n)]
           gone == {ids[n] : n \in DOMAIN ids \ stay}
           of(S, i) == {n \in S : now[n] = i}
           one(S) == CHOOSE n \in S : TRUE
           dom == (DOMAIN g \ gone) \cup {now[n] : n \in again}
           at(i) == IF of(L \cup U, i) # {} THEN stuck[one(of(L \cup U, i))]
                    ELSE IF of(R, i) # {} THEN g[ids[one(of(R, i))]] ELSE g[i]
<1>1. out = [ids |-> now, made |-> top + O!Cardinality(again), grid |-> [i \in dom |-> at(i)]] BY Zenon DEF O!Left
<1>2. IsFiniteSet(again) /\ again \subseteq Nat /\ stay \cap again = {} /\ stay \subseteq DOMAIN ids
  <2>1. IsFiniteSet(R) /\ IsFiniteSet(L)
    <3>1. R \in SUBSET DOMAIN ids /\ L \in SUBSET DOMAIN stuck OBVIOUS
    <3> QED BY <3>1, FS_Subset DEF Given
  <2> QED BY <2>1, FS_Union DEF Given
<1> HIDE DEF out
<1>3. out.ids = now /\ out.made = top + Cardinality(again) /\ out.grid = [i \in dom |-> at(i)]
  BY <1>1, OutcomeCounts
<1>4. /\ Cardinality(again) \in Nat
      /\ \A n \in again : fresh(n) \in (top + 1)..(top + Cardinality(again))
      /\ \A n, m \in again : n # m => fresh(n) # fresh(m)
  BY <1>2, FreshIs DEF Given
<1>5. out.made \in Nat /\ top <= out.made /\ \A n \in again : fresh(n) \in New(top, out)
  <2>1. top \in Nat BY DEF Given
  <2>2. out.made \in Nat /\ top <= out.made BY <2>1, <1>3, <1>4
  <2>3. New(top, out) = (top + 1)..(top + Cardinality(again)) BY <1>3 DEF New
  <2> QED BY <2>2, <2>3, <1>4
<1>6. \A i \in New(top, out) : i \notin 1..top BY <1>5 DEF New, Given
<1> HIDE DEF fresh
<1>7. /\ \A n \in stay : now[n] = ids[n] /\ now[n] \in 1..top
      /\ \A n \in again : now[n] = fresh(n) /\ now[n] \notin 1..top /\ now[n] \notin DOMAIN g
      /\ DOMAIN now = stay \cup again
  BY <1>2, <1>5, <1>6 DEF Given
<1>8. \A n, m \in DOMAIN now : n # m => now[n] # now[m] BY <1>2, <1>4, <1>7 DEF Given
<1>9. \A S \in SUBSET (stay \cup again) : \A n \in S : of(S, now[n]) = {n} BY <1>7, <1>8
<1>10. \A n \in L \cup U : at(now[n]) = stuck[n]
  <2>1. L \cup U \in SUBSET (stay \cup again) BY <1>2
  <2>2. \A n \in L \cup U : of(L \cup U, now[n]) = {n} BY <1>9, <2>1
  <2>3. \A x : one({x}) = x OBVIOUS
  <2> HIDE DEF of, one, now
  <2> QED BY <2>2, <2>3
<1>11. \A n \in R : at(now[n]) = g[ids[n]]
  <2>1. R \in SUBSET (stay \cup again) OBVIOUS
  <2>2. \A n \in R : n \notin L \cup U OBVIOUS
  <2>3. \A n \in R : of(L \cup U, now[n]) = {} BY <2>2, <1>2, <1>7, <1>8
  <2>4. \A n \in R : of(R, now[n]) = {n} BY <1>9, <2>1
  <2>5. \A x : one({x}) = x OBVIOUS
  <2> HIDE DEF of, one, now
  <2> QED BY <2>3, <2>4, <2>5
<1>12. \A n \in stay \ U : at(now[n]) = g[ids[n]]
  <2>1. \A n \in stay \ U : of(L \cup U, now[n]) = {} /\ of(R, now[n]) = {} BY <1>2, <1>7, <1>8
  <2> QED BY <2>1, <1>7
<1>13. \A i \in DOMAIN g : (\A n \in DOMAIN ids : ids[n] # i) => i \in dom /\ at(i) = g[i]
  <2> SUFFICES ASSUME NEW i \in DOMAIN g, \A n \in DOMAIN ids : ids[n] # i PROVE i \in dom /\ at(i) = g[i]
    OBVIOUS
  <2>1. \A n \in stay \cup again : now[n] # i BY <1>2, <1>7
  <2>2. of(L \cup U, i) = {} /\ of(R, i) = {} BY <2>1, <1>2
  <2> QED BY <2>2, <1>2
<1>14. \A n \in DOMAIN ids : ids[n] \in dom => n \in stay
  BY <1>7 DEF Given
<1> HIDE DEF at, of, one
<1>15. \A n \in stay \cup again : now[n] \in dom =>
         \/ n \in DOMAIN stuck /\ at(now[n]) = stuck[n]
         \/ n \in DOMAIN ids /\ ids[n] \in DOMAIN g /\ at(now[n]) = g[ids[n]]
  <2>1. \A n \in stay : now[n] \in dom => ids[n] \in DOMAIN g BY <1>2, <1>7
  <2> QED BY <2>1, <1>2, <1>10, <1>11, <1>12
<1>16. \A i \in dom \ DOMAIN g : i \in New(top, out) /\ \E n \in stay \cup again : i = now[n]
  <2>1. \A n \in again : now[n] \in New(top, out) BY <1>5, <1>7
  <2> HIDE DEF now
  <2>2. \A i \in dom \ DOMAIN g : \E n \in again : i = now[n] OBVIOUS
  <2> QED BY <2>1, <2>2
<1>17. DOMAIN out.ids = stay \cup again /\ DOMAIN out.grid = dom /\ \A i \in dom : out.grid[i] = at(i)
  BY <1>3, <1>7
<1> HIDE DEF now, dom
<1>18. stay \cup again \subseteq DOMAIN ids \cup DOMAIN stuck OBVIOUS
<1>19. out.ids = [n \in DOMAIN out.ids |-> out.ids[n]] BY <1>3 DEF now
<1>20. out.grid = [i \in DOMAIN out.grid |-> out.grid[i]] BY <1>3
<1>21. \A n \in DOMAIN ids : ids[n] \in dom => n \in stay \cup again /\ now[n] = ids[n] BY <1>14, <1>7
<1>22. \A n \in stay \cup again : (n \in DOMAIN ids /\ now[n] = ids[n]) \/ now[n] \in New(top, out)
  BY <1>2, <1>5, <1>7
<1>23. Follows(ids, g, stuck, top, out)
  BY <1>3, <1>5, <1>8, <1>13, <1>15, <1>16, <1>17, <1>18, <1>19, <1>20, <1>21, <1>22 DEF Follows
<1> QED BY <1>23 DEF out

LEMMA FailuresFollow ==
  ASSUME NEW ids, NEW g, NEW stuck, NEW top, Given(ids, g, stuck, top),
         NEW out \in O!Failures(ids, g, stuck, top)
  PROVE  Follows(ids, g, stuck, top, out)
<1> DEFINE gone == DOMAIN ids \ DOMAIN stuck
           added == DOMAIN stuck \ DOMAIN ids
           kept == {n \in DOMAIN stuck \cap DOMAIN ids : ids[n] \in DOMAIN g}
           back == IF \A n \in DOMAIN ids : ids[n] \in DOMAIN g THEN gone ELSE {}
           left(K, R, L, U) == O!Left(ids, g, stuck, top, K, R, L, U)
<1>1. \/ \E p \in (SUBSET gone) \X (SUBSET back) : p[1] \cap p[2] = {} /\ out = left(p[1], p[2], {}, {})
      \/ \E L \in SUBSET added, U \in SUBSET kept : out = left({}, {}, L, U)
      \/ \E R \in SUBSET back, U \in SUBSET kept : out = left({}, R, {}, U)
  <2> HIDE DEF left
  <2>1. O!Failures(ids, g, stuck, top) =
          {left(p[1], p[2], {}, {}) : p \in {p \in (SUBSET gone) \X (SUBSET back) : p[1] # {} /\ p[1] \cap p[2] = {}}}
          \cup {left({}, {}, L, U) : L \in SUBSET added, U \in SUBSET kept}
          \cup {left({}, R, {}, U) : R \in SUBSET back, U \in SUBSET kept}
    BY DEF O!Failures, left
  <2> HIDE DEF gone, added, kept, back
  <2> QED BY <2>1
<1>2. \A n \in back : n \in gone /\ ids[n] \in DOMAIN g OBVIOUS
<1>3. CASE \E p \in (SUBSET gone) \X (SUBSET back) : p[1] \cap p[2] = {} /\ out = left(p[1], p[2], {}, {})
  <2>1. PICK p \in (SUBSET gone) \X (SUBSET back) : p[1] \cap p[2] = {} /\ out = left(p[1], p[2], {}, {}) BY <1>3
  <2>2. p[1] \cup p[2] \subseteq gone /\ \A n \in p[2] : ids[n] \in DOMAIN g BY <2>1, <1>2
  <2> HIDE DEF back
  <2> QED BY <2>1, <2>2, LeftFollows
<1>4. CASE \E L \in SUBSET added, U \in SUBSET kept : out = left({}, {}, L, U)
  BY <1>4, LeftFollows
<1>5. CASE \E R \in SUBSET back, U \in SUBSET kept : out = left({}, R, {}, U)
  <2>1. PICK R \in SUBSET back, U \in SUBSET kept : out = left({}, R, {}, U) BY <1>5
  <2>2. R \subseteq gone /\ \A n \in R : ids[n] \in DOMAIN g BY <2>1, <1>2
  <2> HIDE DEF back
  <2> QED BY <2>1, <2>2, LeftFollows
<1> QED BY <1>1, <1>3, <1>4, <1>5

(* A call without error has a contract for all it was asked for, and no     *)
(* other.                                                                   *)
Reached(new, out) ==
  /\ DOMAIN out.ids = DOMAIN new
  /\ \A n \in DOMAIN new : out.ids[n] \in DOMAIN out.grid /\ out.grid[out.ids[n]] = new[n]

LEMMA SucceededFollows ==
  ASSUME NEW ids, NEW g, NEW new, NEW top, Given(ids, g, new, top), O!Succeeds(ids, g, new)
  PROVE  /\ Follows(ids, g, new, top, O!Succeeded(ids, g, new, top))
         /\ Reached(new, O!Succeeded(ids, g, new, top))
<1> DEFINE out == O!Succeeded(ids, g, new, top)
           added == DOMAIN new \ DOMAIN ids
           fresh(n) == O!Fresh(added, n, top)
           now == [n \in DOMAIN new |-> IF n \in added THEN fresh(n) ELSE ids[n]]
           gone == {ids[n] : n \in DOMAIN ids \ DOMAIN new}
           of(i) == {n \in DOMAIN new : now[n] = i}
           dom == (DOMAIN g \ gone) \cup {now[n] : n \in DOMAIN new}
           at(i) == IF of(i) # {} THEN new[CHOOSE n \in of(i) : TRUE] ELSE g[i]
<1>1. out = [ids |-> now, made |-> top + O!Cardinality(added), grid |-> [i \in dom |-> at(i)]] BY Zenon DEF O!Succeeded
<1>2. IsFiniteSet(added) /\ added \subseteq Nat
  <2>1. added \in SUBSET DOMAIN new OBVIOUS
  <2> QED BY <2>1, FS_Subset DEF Given
<1> HIDE DEF out
<1>3. out.ids = now /\ out.made = top + Cardinality(added) /\ out.grid = [i \in dom |-> at(i)]
  BY <1>1, OutcomeCounts
<1>4. /\ Cardinality(added) \in Nat
      /\ \A n \in added : fresh(n) \in (top + 1)..(top + Cardinality(added))
      /\ \A n, m \in added : n # m => fresh(n) # fresh(m)
  BY <1>2, FreshIs DEF Given
<1>5. out.made \in Nat /\ top <= out.made /\ \A n \in added : fresh(n) \in New(top, out)
  <2>1. top \in Nat BY DEF Given
  <2>2. out.made \in Nat /\ top <= out.made BY <2>1, <1>3, <1>4
  <2>3. New(top, out) = (top + 1)..(top + Cardinality(added)) BY <1>3 DEF New
  <2> QED BY <2>2, <2>3, <1>4
<1>6. \A i \in New(top, out) : i \notin 1..top BY <1>5 DEF New, Given
<1> HIDE DEF fresh
<1>7. /\ \A n \in DOMAIN new \ added : n \in DOMAIN ids /\ now[n] = ids[n] /\ now[n] \in 1..top
      /\ \A n \in added : now[n] = fresh(n) /\ now[n] \notin 1..top /\ now[n] \notin DOMAIN g
      /\ DOMAIN now = DOMAIN new
  BY <1>2, <1>5, <1>6 DEF Given
<1>8. \A n, m \in DOMAIN now : n # m => now[n] # now[m] BY <1>2, <1>4, <1>7 DEF Given
<1>9. \A n \in DOMAIN new : of(now[n]) = {n} BY <1>7, <1>8
<1>10. \A n \in DOMAIN new : at(now[n]) = new[n]
  <2>1. \A x : (CHOOSE n \in {x} : TRUE) = x OBVIOUS
  <2> HIDE DEF of, now
  <2> QED BY <1>9, <2>1
<1>11. \A i \in DOMAIN g : (\A n \in DOMAIN ids : ids[n] # i) => i \in dom /\ at(i) = g[i]
  <2> SUFFICES ASSUME NEW i \in DOMAIN g, \A n \in DOMAIN ids : ids[n] # i PROVE i \in dom /\ at(i) = g[i]
    OBVIOUS
  <2>1. \A n \in DOMAIN new : now[n] # i BY <1>7
  <2>2. of(i) = {} BY <2>1
  <2> QED BY <2>2
<1>12. \A n \in DOMAIN ids : ids[n] \in dom => n \in DOMAIN new
  <2>1. \A n \in DOMAIN ids : n \notin DOMAIN new => ids[n] \in gone OBVIOUS
  <2>2. \A n \in DOMAIN ids, m \in DOMAIN new : ids[n] = now[m] => n = m BY <1>7 DEF Given
  <2> QED BY <2>1, <2>2
<1> HIDE DEF at, of
<1>13. \A i \in dom \ DOMAIN g : i \in New(top, out) /\ \E n \in DOMAIN new : i = now[n]
  <2>1. \A n \in DOMAIN new : n \notin added => now[n] \in DOMAIN g BY <1>7 DEF O!Succeeds
  <2> QED BY <1>5, <1>7, <2>1
<1>14. DOMAIN out.ids = DOMAIN new /\ DOMAIN out.grid = dom /\ \A i \in dom : out.grid[i] = at(i)
  BY <1>3, <1>7
<1>15. \A n \in DOMAIN new : now[n] \in dom OBVIOUS
<1> HIDE DEF now, dom
<1>16. out.ids = [n \in DOMAIN out.ids |-> out.ids[n]] BY <1>3 DEF now
<1>17. out.grid = [i \in DOMAIN out.grid |-> out.grid[i]] BY <1>3
<1>18. \A n \in DOMAIN ids : ids[n] \in dom => n \in DOMAIN new /\ now[n] = ids[n] BY <1>12, <1>7
<1>19. \A n \in DOMAIN new : (n \in DOMAIN ids /\ now[n] = ids[n]) \/ now[n] \in New(top, out)
  BY <1>5, <1>7
<1>20. Follows(ids, g, new, top, out)
  BY <1>3, <1>5, <1>7, <1>8, <1>10, <1>11, <1>13, <1>14, <1>15, <1>16, <1>17, <1>18, <1>19 DEF Follows
<1>21. Reached(new, out) BY <1>3, <1>10, <1>14, <1>15 DEF Reached
<1> QED BY <1>20, <1>21 DEF out

(***************************************************************************)
(* A network. What the caller holds of it, and what its nodes hold.        *)
(***************************************************************************)
NetType(z) ==
  /\ z = [nodes |-> z.nodes, wg |-> z.wg, sized |-> z.sized, ext |-> z.ext, sk |-> z.sk,
          pub |-> z.pub, ranges |-> z.ranges, keys |-> z.keys, ports |-> z.ports, ids |-> z.ids]
  /\ z.nodes \subseteq Node /\ z.wg \in BOOLEAN
  /\ z.ext \in Octet \cup {NoSubnet} /\ z.pub \in Node \cup {NoNode}
  /\ DOMAIN z.ranges \subseteq Node /\ \A n \in DOMAIN z.ranges : z.ranges[n] \in Octet
  /\ light => /\ z.wg = FALSE /\ z.ext = NoSubnet /\ z.sk = FALSE /\ z.pub = NoNode
              /\ z.keys = Empty /\ z.ports = Empty

WorkloadType(w) ==
  /\ w = [id |-> w.id, subnet |-> w.subnet, key |-> w.key, port |-> w.port, peers |-> w.peers,
          ext |-> w.ext, sk |-> w.sk, pub |-> w.pub]
  /\ w.subnet \in Octet /\ w.ext \in Octet \cup {NoSubnet} /\ w.pub \in Node \cup {NoNode}

(* The caller holds the contract of every deployment, and the plugin's     *)
(* state some contract of every node that has one.                         *)
Held ==
  /\ DOMAIN grid \subseteq Node
  /\ \A n \in DOMAIN grid :
       WorkloadType(grid[n]) /\ n \in DOMAIN znet.ids /\ znet.ids[n] = grid[n].id /\ tracked[n] # {}

(* After a call without error what the caller holds is what the nodes do.  *)
ReadBack ==
  status \in {"ok", "kept"} =>
    /\ znet.ids = IdsOf(grid)
    /\ znet.ranges = [n \in DOMAIN grid |-> grid[n].subnet]
    /\ ~light => /\ znet.keys = [n \in DOMAIN grid |-> grid[n].key]
                 /\ znet.ports = [n \in DOMAIN grid |-> grid[n].port]
                 /\ \A n \in DOMAIN grid :
                      grid[n].ext = znet.ext /\ grid[n].sk = znet.sk /\ grid[n].pub = znet.pub

NetInv == light \in BOOLEAN /\ NetType(znet) /\ Held /\ ReadBack

Distinct(z) == ~Overlaps(z)

(* y is z, but for its subnets.                                            *)
OnlySubnets(y, z) ==
  /\ y.nodes = z.nodes /\ y.wg = z.wg /\ y.sized = z.sized /\ y.sk = z.sk /\ y.pub = z.pub
  /\ y.keys = z.keys /\ y.ports = z.ports /\ y.ids = z.ids

LEMMA Lowest == ASSUME NEW S \in SUBSET Nat, S # {} PROVE \E o \in S : \A p \in S : o <= p
<1>1. PICK o \in S : \A p \in S : ~(<<p, o>> \in OpToRel(<, Nat))
  BY NatLessThanWellFounded, WFMin
<1>2. \A p \in S : p < o => <<p, o>> \in OpToRel(<, Nat) BY DEF OpToRel
<1>3. \A p \in S : ~(p < o) BY <1>1, <1>2
<1>4. \A p \in S : o <= p BY <1>3
<1> QED BY <1>4

LEMMA OctetsAreNumbers == ASSUME BoundAssumption PROVE Octet \subseteq Nat /\ NoSubnet \notin Octet
BY DEF BoundAssumption, Octet, NoSubnet

(* nextFreeIP and AssignNodesIPs: nodes that stay keep their subnet, and   *)
(* what is handed out is held by nobody. If subnets run out, only a node   *)
(* that the network is to do without can hold that of the user's machine.  *)
LEMMA Assigned ==
  ASSUME BoundAssumption, NEW z, NetType(z), NEW nodes \in SUBSET Node,
         NEW r \in AssignNodesIPs(z, nodes)
  PROVE  /\ NetType(r.z) /\ r.ok \in BOOLEAN
         /\ OnlySubnets(r.z, z) /\ (~z.wg => r.z.ext = z.ext)
         /\ r.ok => DOMAIN r.z.ranges = nodes
         /\ Distinct(z) /\ (z.wg \/ z.ext = NoSubnet) /\ z.nodes \subseteq nodes =>
              (r.ok => Distinct(r.z)) /\ (Overlaps(r.z) => RanOut(r.z))
<1> DEFINE kept    == Restrict(z.ranges, nodes \cap DOMAIN z.ranges)
           missing == nodes \ DOMAIN kept
           before  == UsedOctets(z, kept)
           lowest(S) == CHOOSE o \in S : \A p \in S : o <= p
           ext     == IF z.wg /\ z.ext = NoSubnet /\ Octet \ before # {}
                        THEN lowest(Octet \ before) ELSE z.ext
           free    == Octet \ (before \cup (IF z.wg THEN {ext} ELSE {}))
           next    == {o \in free : Cardinality({p \in free : p < o}) < Cardinality(missing)}
           failed  == (z.wg /\ ext = NoSubnet) \/ Cardinality(next) < Cardinality(missing)
<1>1. \/ r = [ok |-> FALSE, z |-> [z EXCEPT !.ext = ext]]
      \/ \E f \in Bijection(missing, next) :
           r = [ok |-> TRUE, z |-> [z EXCEPT !.ext = ext, !.ranges = Over(kept, f)]]
  BY DEF AssignNodesIPs
<1>2. /\ kept = [n \in nodes \cap DOMAIN z.ranges |-> z.ranges[n]] /\ DOMAIN kept = nodes \cap DOMAIN z.ranges
      /\ \A n \in DOMAIN kept : kept[n] = z.ranges[n] /\ kept[n] \in before
  BY DEF Restrict, UsedOctets, Range
<1>3. /\ ext \in Octet \cup {NoSubnet} /\ (~z.wg => ext = z.ext)
      /\ ext # z.ext => ext \notin before
  <2>1. CASE z.wg /\ z.ext = NoSubnet /\ Octet \ before # {}
    <3>1. Octet \ before \in SUBSET Nat BY OctetsAreNumbers
    <3>2. \E o \in Octet \ before : \A p \in Octet \ before : o <= p BY <2>1, <3>1, Lowest
    <3>3. lowest(Octet \ before) \in Octet \ before BY <3>2
    <3> QED BY <2>1, <3>3
  <2>2. CASE ~(z.wg /\ z.ext = NoSubnet /\ Octet \ before # {})
    BY <2>2 DEF NetType
  <2> QED BY <2>1, <2>2
<1> HIDE DEF kept, before, ext
<1>4. CASE r = [ok |-> FALSE, z |-> [z EXCEPT !.ext = ext]]
  <2>1. /\ r.ok = FALSE /\ r.z.ext = ext /\ r.z.ranges = z.ranges /\ r.z.nodes = z.nodes
        /\ OnlySubnets(r.z, z)
    BY <1>4 DEF NetType, OnlySubnets
  <2>2. NetType(r.z) BY <1>3, <1>4 DEF NetType
  <2>3. ASSUME Distinct(z), z.nodes \subseteq nodes PROVE RanOut(r.z)
    <3>1. ASSUME NEW n \in z.nodes \cap DOMAIN z.ranges PROVE z.ranges[n] # ext
      BY <1>2, <1>3, <2>3, <3>1 DEF Distinct, Overlaps, Range
    <3> QED BY <2>1, <2>3, <3>1 DEF Distinct, Overlaps, RanOut
  <2> QED BY <1>3, <2>1, <2>2, <2>3
<1>5. ASSUME NEW f \in Bijection(missing, next),
             r = [ok |-> TRUE, z |-> [z EXCEPT !.ext = ext, !.ranges = Over(kept, f)]]
      PROVE  /\ NetType(r.z) /\ r.ok = TRUE
             /\ OnlySubnets(r.z, z) /\ r.z.ext = ext
             /\ DOMAIN r.z.ranges = nodes
             /\ Distinct(z) /\ (z.wg \/ z.ext = NoSubnet) /\ z.nodes \subseteq nodes => Distinct(r.z)
  <2>1. f \in [missing -> next] /\ IsInjective(f) BY DEF Bijection, Injection
  <2>2. next \subseteq Octet \ before /\ (z.wg => ext \notin next) OBVIOUS
  <2> HIDE DEF next
  <2>3. /\ DOMAIN Over(kept, f) = nodes
        /\ \A n \in nodes : \/ n \in DOMAIN kept /\ Over(kept, f)[n] = z.ranges[n] /\ Over(kept, f)[n] \in before
                            \/ n \in missing /\ Over(kept, f)[n] = f[n] /\ f[n] \in next
    BY <1>2, <2>1 DEF Over
  <2>4. /\ r.ok = TRUE /\ r.z.ext = ext /\ r.z.ranges = Over(kept, f) /\ r.z.nodes = z.nodes
    BY <1>5 DEF NetType
  <2>5. NetType(r.z)
    <3>1. \A n \in nodes : Over(kept, f)[n] \in Octet BY <1>2, <2>2, <2>3 DEF NetType
    <3> QED BY <1>3, <1>5, <2>3, <3>1 DEF NetType
  <2>6. ASSUME Distinct(z), z.wg \/ z.ext = NoSubnet PROVE Distinct(r.z)
    <3>1. \A m, n \in nodes : Over(kept, f)[m] = Over(kept, f)[n] => m = n
      <4> SUFFICES ASSUME NEW m \in nodes, NEW n \in nodes, Over(kept, f)[m] = Over(kept, f)[n] PROVE m = n
        OBVIOUS
      <4>1. CASE m \in DOMAIN kept /\ n \in DOMAIN kept
        BY <1>2, <2>3, <2>6, <4>1 DEF Distinct, Overlaps, IsInjective
      <4>2. CASE m \in missing /\ n \in missing BY <2>1, <2>3, <4>2 DEF IsInjective
      <4> QED BY <2>2, <2>3, <4>1, <4>2
    <3>2. \A n \in nodes : Over(kept, f)[n] # ext
      <4> SUFFICES ASSUME NEW n \in nodes PROVE Over(kept, f)[n] # ext OBVIOUS
      <4>1. CASE n \in DOMAIN kept BY <1>2, <1>3, <2>3, <2>6, <4>1 DEF Distinct, Overlaps, Range
      <4>2. CASE n \in missing /\ z.wg BY <2>2, <2>3, <4>2
      <4>3. CASE n \in missing /\ ~z.wg BY <1>3, <2>2, <2>3, <2>6, <4>3, OctetsAreNumbers
      <4> QED BY <2>3, <4>1, <4>2, <4>3
    <3> QED BY <2>3, <2>4, <3>1, <3>2 DEF Distinct, Overlaps, IsInjective, Range
  <2> QED BY <1>5, <2>3, <2>4, <2>5, <2>6 DEF NetType, OnlySubnets
<1> QED BY <1>1, <1>3, <1>4, <1>5 DEF Distinct

(* What generateDeployments makes: deployments for nodes the network uses, *)
(* with the subnets it assigned and the metadata of the whole network.     *)
Fits(z, w, n) ==
  /\ WorkloadType(w) /\ w.subnet = z.ranges[n]
  /\ ~light => w.ext = z.ext /\ w.sk = z.sk /\ w.pub = z.pub

LEMMA GeneratedRight ==
  ASSUME NodeAssumption, BoundAssumption, light \in BOOLEAN, NEW z, NetType(z),
         NEW found \in Node \cup {NoNode}, NEW bad, NEW r \in Generated(z, found, bad)
  PROVE  /\ NetType(r.z) /\ r.ok \in BOOLEAN /\ r.z.ids = z.ids /\ r.z.nodes = z.nodes
         /\ Distinct(z) /\ (z.wg \/ z.ext = NoSubnet) =>
              (r.ok => Distinct(r.z)) /\ (Overlaps(r.z) => RanOut(r.z))
         /\ r.ok => /\ DOMAIN r.dls \subseteq NodesUsed(r.z) /\ DOMAIN r.dls = DOMAIN r.z.ranges
                    /\ \A n \in DOMAIN r.dls : Fits(r.z, r.dls[n], n)
<1>1. ASSUME r = Refused(z)
      PROVE  r.ok = FALSE /\ r.z = z /\ (Overlaps(z) => ~Distinct(z))
  BY <1>1 DEF Refused, Distinct
<1>2. CASE light
  <2>1. PICK a \in AssignNodesIPs(z, z.nodes) :
          r = IF a.ok THEN [ok |-> TRUE, z |-> a.z, dls |-> [n \in z.nodes |-> LightWorkloadOf(a.z, n)]]
                      ELSE Refused(a.z)
    BY <1>2 DEF Generated, GeneratedLight
  <2>2. z.nodes \in SUBSET Node BY DEF NetType
  <2>3. /\ NetType(a.z) /\ a.ok \in BOOLEAN
        /\ OnlySubnets(a.z, z)
        /\ a.ok => DOMAIN a.z.ranges = z.nodes
        /\ Distinct(z) /\ (z.wg \/ z.ext = NoSubnet) => (a.ok => Distinct(a.z)) /\ (Overlaps(a.z) => RanOut(a.z))
    BY <2>1, <2>2, Assigned
  <2>4. r.z = a.z /\ r.ok = a.ok BY <2>1, <2>3 DEF Refused
  <2>5. a.z.ids = z.ids /\ a.z.nodes = z.nodes BY <2>3 DEF OnlySubnets
  <2>6. ASSUME a.ok PROVE /\ DOMAIN r.dls \subseteq NodesUsed(r.z) /\ DOMAIN r.dls = DOMAIN r.z.ranges
                          /\ \A n \in DOMAIN r.dls : Fits(r.z, r.dls[n], n)
    <3>1. r.dls = [n \in z.nodes |-> LightWorkloadOf(a.z, n)] BY <2>1, <2>6
    <3>2. \A n \in z.nodes : a.z.ranges[n] \in Octet BY <2>3, <2>6 DEF NetType
    <3>3. \A n \in z.nodes : Fits(a.z, LightWorkloadOf(a.z, n), n)
      BY <1>2, <3>2 DEF Fits, WorkloadType, LightWorkloadOf
    <3> QED BY <2>3, <2>4, <2>5, <2>6, <3>1, <3>3 DEF NodesUsed
  <2> QED BY <2>3, <2>4, <2>5, <2>6
<1>3. CASE ~light /\ r \in {Refused(z)}
  BY <1>1, <1>3 DEF Distinct
<1>4. CASE ~light /\ r \notin {Refused(z)}
  <2>1. PICK p \in PublicNodes(z, found, bad) :
          r \in GeneratedWith([z EXCEPT !.pub = p], IF z.pub = NoNode THEN p ELSE NoNode, {z.pub, found} \cap bad # {})
    BY <1>4 DEF Generated
  <2> DEFINE y == [z EXCEPT !.pub = p]
             taken == IF z.pub = NoNode THEN p ELSE NoNode
             failed == {z.pub, found} \cap bad # {}
             all == Hidden(y) \cup Accessible(y)
             signed(x) == AssignPorts(AssignNodesWGKey([x EXCEPT !.sk = @ \/ y.wg], all), all)
  <2>2. p \in Node \cup {NoNode} /\ (NeedsPublic(z) => p # NoNode)
    BY DEF PublicNodes, NetType, NodeAssumption, NoNode
  <2>3. /\ NetType(y) /\ y.ids = z.ids /\ y.nodes = z.nodes /\ y.ranges = z.ranges
        /\ y.ext = z.ext /\ y.wg = z.wg /\ y.pub = p
    BY <1>4, <2>2 DEF NetType
  <2>4. NeedsPublic(y) => p # NoNode BY <2>2, <2>3 DEF NeedsPublic, Hidden
  <2>5. all = y.nodes \cup (IF NeedsPublic(y) THEN {p} ELSE {})
    BY <2>3 DEF Hidden, Accessible, Open
  <2>6. all \in SUBSET Node /\ y.nodes \subseteq all BY <2>2, <2>3, <2>4, <2>5 DEF NetType
  <2>. failed \in BOOLEAN /\ r \in GeneratedWith(y, taken, failed) BY <2>1
  <2> HIDE DEF y, taken, failed
  <2>7. PICK a \in AssignNodesIPs(y, all) :
          r = IF a.ok THEN [ok |-> ~failed, z |-> signed(a.z),
                            dls |-> [n \in all |-> WorkloadOf(signed(a.z), taken, n)]]
                      ELSE Refused(a.z)
    BY Zenon DEF GeneratedWith
  <2> HIDE DEF all
  <2>8. /\ NetType(a.z) /\ a.ok \in BOOLEAN
        /\ OnlySubnets(a.z, y)
        /\ a.ok => DOMAIN a.z.ranges = all
        /\ Distinct(y) /\ (y.wg \/ y.ext = NoSubnet) => (a.ok => Distinct(a.z)) /\ (Overlaps(a.z) => RanOut(a.z))
    BY <2>3, <2>6, <2>7, Assigned
  <2>9. a.z.ids = z.ids /\ a.z.nodes = z.nodes /\ a.z.pub = p BY <2>3, <2>8 DEF OnlySubnets
  <2>10. Distinct(z) => Distinct(y) BY <2>3 DEF Distinct, Overlaps
  <2>11. CASE ~a.ok
    <3>1. r.ok = FALSE /\ r.z = a.z BY <2>7, <2>11 DEF Refused
    <3> QED BY <2>3, <2>8, <2>9, <2>10, <3>1
  <2>12. CASE a.ok
    <3> DEFINE x == signed(a.z)
    <3>1. r.z = x /\ r.ok \in BOOLEAN /\ r.dls = [n \in all |-> WorkloadOf(x, taken, n)]
      BY <2>7, <2>12
    <3>2. /\ x = [a.z EXCEPT !.sk = x.sk, !.keys = x.keys, !.ports = x.ports]
      BY <2>8 DEF AssignPorts, AssignNodesWGKey, NetType
    <3> HIDE DEF x
    <3>3. /\ NetType(x) /\ x.ids = a.z.ids /\ x.nodes = a.z.nodes /\ x.pub = a.z.pub /\ x.ext = a.z.ext
          /\ x.ranges = a.z.ranges
      BY <1>4, <2>8, <3>2 DEF NetType
    <3>4. Distinct(a.z) => Distinct(x) BY <3>3 DEF Distinct, Overlaps
    <3>5. all \subseteq NodesUsed(x) BY <2>3, <2>4, <2>5, <2>9, <3>3 DEF NodesUsed
    <3>6. \A n \in all : x.ranges[n] \in Octet BY <2>8, <2>12, <3>3 DEF NetType
    <3>7. \A n \in all : Fits(x, WorkloadOf(x, taken, n), n)
      BY <3>3, <3>6 DEF Fits, WorkloadType, WorkloadOf, NetType
    <3> QED BY <2>3, <2>8, <2>9, <2>10, <2>12, <3>1, <3>3, <3>4, <3>5, <3>7 DEF Distinct
  <2> QED BY <2>8, <2>11, <2>12
<1> QED BY <1>2, <1>3, <1>4

(* InvalidateBrokenAttributes keeps the contract of every deployment.      *)
LEMMA Invalidated ==
  ASSUME BoundAssumption, NetInv, NEW nodes \in SUBSET Node, NEW wg \in BOOLEAN, light => ~wg, NEW up \in BOOLEAN,
         NEW z, z = InvalidateBrokenAttributes(Asked(nodes, wg), up)
  PROVE  /\ NetType(z) /\ DOMAIN z.ids = DOMAIN grid /\ \A n \in DOMAIN grid : z.ids[n] = grid[n].id
         /\ z.wg \/ z.ext = NoSubnet
         /\ Distinct(znet) => Distinct(z)
<1> DEFINE gone == {n \in DOMAIN znet.ids : ~Alive(n, znet.ids[n])}
<1>1. z = [nodes |-> nodes, wg |-> wg, sized |-> znet.sized, ext |-> IF wg THEN znet.ext ELSE NoSubnet, sk |-> znet.sk,
           pub |-> IF up THEN znet.pub ELSE NoNode, ranges |-> Without(znet.ranges, gone),
           keys |-> Without(znet.keys, gone), ports |-> Without(znet.ports, gone), ids |-> Without(znet.ids, gone)]
  BY DEF NetInv, NetType, Asked, InvalidateBrokenAttributes
<1>2. Without(Empty, gone) = Empty BY DEF Without, Restrict, Empty
<1>3. /\ DOMAIN z.ranges = DOMAIN znet.ranges \ gone
      /\ \A n \in DOMAIN z.ranges : z.ranges[n] = znet.ranges[n]
  BY <1>1 DEF Without, Restrict
<1>41. \A n \in DOMAIN znet.ids : n \in gone <=> n \notin DOMAIN grid BY DEF Alive, NetInv, Held
<1>42. DOMAIN grid \subseteq DOMAIN znet.ids BY DEF NetInv, Held
<1> HIDE DEF gone
<1>4. DOMAIN z.ids = DOMAIN grid /\ \A n \in DOMAIN grid : z.ids[n] = grid[n].id
  <2>1. DOMAIN z.ids = DOMAIN znet.ids \ gone /\ \A n \in DOMAIN z.ids : z.ids[n] = znet.ids[n]
    BY <1>1 DEF Without, Restrict
  <2>2. \A n \in DOMAIN grid : znet.ids[n] = grid[n].id BY DEF NetInv, Held
  <2> QED BY <1>41, <1>42, <2>1, <2>2
<1>5. NetType(z)
  <2>1. /\ z.nodes = nodes /\ z.wg = wg /\ z.ext = (IF wg THEN znet.ext ELSE NoSubnet) /\ z.sk = znet.sk
        /\ z.pub = (IF up THEN znet.pub ELSE NoNode)
        /\ z.keys = Without(znet.keys, gone) /\ z.ports = Without(znet.ports, gone)
    BY <1>1
  <2>2. DOMAIN z.ranges \subseteq Node /\ \A n \in DOMAIN z.ranges : z.ranges[n] \in Octet
    BY <1>3 DEF NetInv, NetType
  <2>3. light => /\ z.wg = FALSE /\ z.ext = NoSubnet /\ z.sk = FALSE /\ z.pub = NoNode
                 /\ z.keys = Empty /\ z.ports = Empty
    BY <1>2, <2>1 DEF NetInv, NetType
  <2>4. z.ext \in Octet \cup {NoSubnet} /\ z.pub \in Node \cup {NoNode} BY <2>1 DEF NetInv, NetType
  <2>5. z = [nodes |-> z.nodes, wg |-> z.wg, sized |-> z.sized, ext |-> z.ext, sk |-> z.sk, pub |-> z.pub,
             ranges |-> z.ranges, keys |-> z.keys, ports |-> z.ports, ids |-> z.ids]
    BY <1>1
  <2> QED BY <2>1, <2>2, <2>3, <2>4, <2>5 DEF NetType
<1>6. Distinct(znet) => Distinct(z)
  <2> SUFFICES ASSUME Distinct(znet) PROVE Distinct(z) OBVIOUS
  <2>1. IsInjective(z.ranges) BY <1>3 DEF Distinct, Overlaps, IsInjective
  <2>2. z.ext \notin Range(z.ranges)
    BY <1>1, <1>3, OctetsAreNumbers DEF Distinct, Overlaps, Range, NetInv, NetType
  <2> QED BY <2>1, <2>2 DEF Distinct, Overlaps
<1> QED BY <1>1, <1>4, <1>5, <1>6

LEMMA WithIds ==
  ASSUME NEW z, NetType(z), NEW ids, NEW y, y = [z EXCEPT !.ids = ids]
  PROVE  /\ NetType(y) /\ y.ids = ids /\ y.ranges = z.ranges /\ y.ext = z.ext /\ y.sk = z.sk
         /\ y.pub = z.pub /\ y.nodes = z.nodes /\ (Distinct(z) => Distinct(y)) 
<1>1. /\ NetType(y) /\ y.ids = ids /\ y.ranges = z.ranges /\ y.ext = z.ext /\ y.sk = z.sk
      /\ y.pub = z.pub /\ y.nodes = z.nodes
  BY DEF NetType
<1> QED BY <1>1 DEF Distinct, Overlaps

LEMMA NewOnFits ==
  ASSUME NEW z, NEW y, NEW dls, NEW n, Fits(y, dls[n], n)
  PROVE  Fits(y, NewOn(z, dls, n), n)
<1> DEFINE w == dls[n]
<1>1. \E i : NewOn(z, dls, n) = [w EXCEPT !.id = i] BY DEF NewOn
<1>2. Fits(y, w, n) OBVIOUS
<1> HIDE DEF w
<1>3. ASSUME NEW i PROVE Fits(y, [w EXCEPT !.id = i], n) BY <1>2 DEF Fits, WorkloadType
<1> QED BY <1>1, <1>3

(* ReadNodesConfig of the deployments of the network's own nodes.          *)
LEMMA ConfigRead ==
  ASSUME light \in BOOLEAN, NEW y, NetType(y), NEW g, DOMAIN g \subseteq Node, \A n \in DOMAIN g : Fits(y, g[n], n),
         DOMAIN g \subseteq DOMAIN y.ranges, NEW c, c = ReadNodesConfig(y, g)
  PROVE  /\ NetType(c) /\ c.ids = y.ids /\ c.ranges = [n \in DOMAIN g |-> g[n].subnet]
         /\ ~light => /\ c.keys = [n \in DOMAIN g |-> g[n].key] /\ c.ports = [n \in DOMAIN g |-> g[n].port]
                      /\ \A n \in DOMAIN g : g[n].ext = c.ext /\ g[n].sk = c.sk /\ g[n].pub = c.pub
         /\ Distinct(y) => Distinct(c)
<1> DEFINE ranges == [n \in DOMAIN g |-> g[n].subnet]
<1>0. \A n \in DOMAIN g : ranges[n] = y.ranges[n] /\ ranges[n] \in Octet BY DEF Fits, WorkloadType
<1>1. CASE light
  <2>1. c = [y EXCEPT !.ranges = ranges] BY <1>1 DEF ReadNodesConfig, ReadNodesConfigLight
  <2> HIDE DEF ranges
  <2>2. DOMAIN ranges = DOMAIN g BY DEF ranges
  <2>3. c.ids = y.ids /\ c.ranges = ranges /\ c.ext = y.ext BY <2>1 DEF NetType
  <2>4. NetType(c) BY <1>0, <2>1, <2>2 DEF NetType
  <2>5. Distinct(y) => Distinct(c) BY <1>0, <2>2, <2>3 DEF Distinct, Overlaps, IsInjective, Range
  <2> QED BY <1>1, <2>3, <2>4, <2>5 DEF ranges
<1>2. CASE ~light
  <2> DEFINE keys == [n \in DOMAIN g |-> g[n].key]
             ports == [n \in DOMAIN g |-> g[n].port]
             wg == \E n \in DOMAIN g : \E p \in g[n].peers : p.at = NoEndpoint
  <2>1. c = [y EXCEPT !.keys = keys, !.ports = ports, !.ranges = ranges, !.wg = wg]
    BY <1>2 DEF ReadNodesConfig
  <2>2. wg \in BOOLEAN OBVIOUS
  <2>3. DOMAIN ranges = DOMAIN g OBVIOUS
  <2> HIDE DEF ranges, keys, ports, wg
  <2>4. /\ c.ids = y.ids /\ c.ranges = ranges /\ c.ext = y.ext /\ c.sk = y.sk /\ c.pub = y.pub
        /\ c.keys = keys /\ c.ports = ports
    BY <2>1 DEF NetType
  <2>5. NetType(c) BY <1>0, <1>2, <2>1, <2>2, <2>3 DEF NetType
  <2>6. Distinct(y) => Distinct(c) BY <1>0, <2>3, <2>4 DEF Distinct, Overlaps, IsInjective, Range
  <2>7. \A n \in DOMAIN g : g[n].ext = c.ext /\ g[n].sk = c.sk /\ g[n].pub = c.pub BY <1>2, <2>4 DEF Fits
  <2> QED BY <2>4, <2>5, <2>6, <2>7 DEF ranges, keys, ports
<1> QED BY <1>1, <1>2

LEMMA Recorded ==
  ASSUME NEW z, NEW g, Record(z, g), DOMAIN g \subseteq Node,
         \A n \in DOMAIN g : n \in NodesUsed(z) \/ tracked[n] # {}
  PROVE  grid' = g /\ \A n \in DOMAIN g : tracked'[n] # {}
BY DEF Record

-----------------------------------------------------------------------------
(* What every step of a network does, and of it, what every call does.     *)
StepRight == NetInv' /\ SubnetsStep /\ LoadStep
NetAssumption == NodeAssumption /\ BoundAssumption

LEMMA CallRight ==
  ASSUME NetInv', Distinct(znet) => Distinct(znet'), status' # "loaded"
  PROVE  StepRight
BY DEF StepRight, SubnetsStep, LoadStep, Distinct

LEMMA DeployInvalidStep ==
  ASSUME NetAssumption, NetInv, NEW nodes \in SUBSET Node, NEW wg \in BOOLEAN, light => ~wg,
         DeployInvalid(Asked(nodes, wg))
  PROVE  StepRight
<1>1. znet' = [znet EXCEPT !.nodes = nodes, !.wg = wg] /\ status' = "refused"
      /\ UNCHANGED <<light, grid, tracked>>
  BY DEF DeployInvalid, Asked
<1>2. NetType(znet)' BY <1>1 DEF NetInv, NetType
<1>3. znet'.ids = znet.ids /\ znet'.ranges = znet.ranges /\ znet'.ext = znet.ext BY <1>1 DEF NetInv, NetType
<1>4. NetInv' BY <1>1, <1>2, <1>3 DEF NetInv, Held, ReadBack, WorkloadType
<1>5. Distinct(znet) => Distinct(znet') BY <1>3 DEF Distinct, Overlaps
<1> QED BY <1>1, <1>4, <1>5, CallRight

LEMMA GenerationFailsStep ==
  ASSUME NetAssumption, NetInv, NEW z, NetType(z), DOMAIN z.ids = DOMAIN grid,
         \A n \in DOMAIN grid : z.ids[n] = grid[n].id,
         z.wg \/ z.ext = NoSubnet, Distinct(znet) => Distinct(z),
         NEW found \in Node \cup {NoNode}, GenerationFails(z, found)
  PROVE  StepRight
<1>1. PICK bad : \E r \in Generated(z, found, bad) : znet' = r.z BY DEF GenerationFails
<1>2. PICK r \in Generated(z, found, bad) : znet' = r.z BY <1>1
<1>3. status' = "refused" /\ UNCHANGED <<light, grid, tracked>> BY DEF GenerationFails
<1>4. /\ NetType(r.z) /\ r.ok \in BOOLEAN /\ r.z.ids = z.ids
      /\ Distinct(z) => (Overlaps(r.z) => RanOut(r.z))
  BY <1>2, GeneratedRight DEF NetAssumption, NetInv
<1>5. NetType(znet)' BY <1>2, <1>3, <1>4 DEF NetType
<1>6. NetInv' BY <1>2, <1>3, <1>4, <1>5 DEF NetInv, Held, ReadBack, WorkloadType
<1> QED BY <1>2, <1>3, <1>4, <1>6 DEF StepRight, SubnetsStep, LoadStep, Distinct

(* What is recorded of deployments that fit their network.                 *)
LEMMA HeldAfter ==
  ASSUME NEW z, NEW g, Record(z, g), DOMAIN g \subseteq Node,
         \A n \in DOMAIN g : WorkloadType(g[n]) /\ (n \in NodesUsed(z) \/ tracked[n] # {}),
         znet'.ids = IdsOf(g)
  PROVE  grid' = g /\ Held'
<1>1. grid' = g /\ \A n \in DOMAIN g : tracked'[n] # {} BY Recorded
<1>2. DOMAIN znet'.ids = DOMAIN g /\ \A n \in DOMAIN g : znet'.ids[n] = g[n].id BY DEF IdsOf
<1> QED BY <1>1, <1>2 DEF Held, WorkloadType

LEMMA NodesUsedType == ASSUME NEW z, NetType(z) PROVE NodesUsed(z) \subseteq Node
BY DEF NetType, NodesUsed

LEMMA DeploySucceedsStep ==
  ASSUME NetAssumption, NetInv, NEW z, NetType(z), z.wg \/ z.ext = NoSubnet,
         Distinct(znet) => Distinct(z), NEW found \in Node \cup {NoNode}, DeploySucceeds(z, found)
  PROVE  StepRight
<1>1. PICK r \in Generated(z, found, {}) :
        LET g == [n \in DOMAIN r.dls |-> NewOn(z, r.dls, n)]
        IN  /\ r.ok /\ Record(r.z, g)
            /\ LET y == [r.z EXCEPT !.ids = IdsOf(g)]
               IN  \/ znet' = ReadNodesConfig(y, g) /\ status' = Ended(z, r.z)
                   \/ znet' = y /\ status' = "failed"
            /\ UNCHANGED light
  BY DEF DeploySucceeds
<1> DEFINE g == [n \in DOMAIN r.dls |-> NewOn(z, r.dls, n)]
           y == [r.z EXCEPT !.ids = IdsOf(g)]
<1>2. /\ r.ok /\ Record(r.z, g) /\ UNCHANGED light
      /\ \/ znet' = ReadNodesConfig(y, g) /\ status' = Ended(z, r.z)
         \/ znet' = y /\ status' = "failed"
  BY <1>1
<1>3. /\ NetType(r.z) /\ (Distinct(z) => Distinct(r.z))
      /\ DOMAIN r.dls \subseteq NodesUsed(r.z) /\ DOMAIN r.dls = DOMAIN r.z.ranges
      /\ \A n \in DOMAIN r.dls : Fits(r.z, r.dls[n], n)
  BY <1>1, <1>2, GeneratedRight DEF NetAssumption, NetInv
<1>4. DOMAIN g = DOMAIN r.dls /\ \A n \in DOMAIN g : Fits(r.z, g[n], n) BY <1>3, NewOnFits
<1> HIDE DEF g
<1>5. /\ NetType(y) /\ y.ids = IdsOf(g) /\ y.ranges = r.z.ranges /\ y.ext = r.z.ext /\ y.sk = r.z.sk
      /\ y.pub = r.z.pub /\ (Distinct(r.z) => Distinct(y))
  BY <1>3, WithIds
<1>6. \A n \in DOMAIN g : Fits(y, g[n], n) /\ WorkloadType(g[n]) BY <1>4, <1>5 DEF Fits
<1> HIDE DEF y
<1>7. DOMAIN g \subseteq Node BY <1>3, <1>4, NodesUsedType
<1>8. CASE znet' = ReadNodesConfig(y, g) /\ status' = Ended(z, r.z)
  <2>1. /\ NetType(znet') /\ znet'.ids = y.ids /\ znet'.ranges = [n \in DOMAIN g |-> g[n].subnet]
        /\ ~light => /\ znet'.keys = [n \in DOMAIN g |-> g[n].key] /\ znet'.ports = [n \in DOMAIN g |-> g[n].port]
                     /\ \A n \in DOMAIN g : g[n].ext = znet'.ext /\ g[n].sk = znet'.sk /\ g[n].pub = znet'.pub
        /\ Distinct(y) => Distinct(znet')
    BY <1>3, <1>4, <1>5, <1>6, <1>7, <1>8, ConfigRead DEF NetInv
  <2>2. grid' = g /\ Held' BY <1>2, <1>3, <1>4, <1>5, <1>6, <1>7, <2>1, HeldAfter
  <2>3. NetInv' BY <1>2, <1>5, <2>1, <2>2 DEF NetInv, NetType, ReadBack
  <2>4. status' # "loaded" BY <1>8 DEF Ended
  <2> QED BY <1>3, <1>5, <2>1, <2>3, <2>4, CallRight
<1>9. CASE znet' = y /\ status' = "failed"
  <2>1. grid' = g /\ Held' BY <1>2, <1>3, <1>4, <1>5, <1>6, <1>7, <1>9, HeldAfter
  <2>2. NetInv' BY <1>2, <1>5, <1>9, <2>1 DEF NetInv, NetType, ReadBack
  <2> QED BY <1>3, <1>5, <1>9, <2>2, CallRight
<1> QED BY <1>2, <1>8, <1>9

LEMMA DeployFailsStep ==
  ASSUME NetAssumption, NetInv, NEW z, NetType(z), DOMAIN z.ids = DOMAIN grid, z.wg \/ z.ext = NoSubnet,
         Distinct(znet) => Distinct(z), NEW found \in Node \cup {NoNode}, DeployFails(z, found)
  PROVE  StepRight
<1>1. PICK r \in Generated(z, found, {}) :
        /\ r.ok
        /\ \E left \in LeftBehind(z, r.dls) :
             LET g == Restrict(left, {n \in DOMAIN left : left[n] # Absent})
             IN  Record(r.z, g) /\ znet' = [r.z EXCEPT !.ids = IdsOf(g)]
  BY DEF DeployFails
<1>2. PICK left \in LeftBehind(z, r.dls) :
        LET g == Restrict(left, {n \in DOMAIN left : left[n] # Absent})
        IN  Record(r.z, g) /\ znet' = [r.z EXCEPT !.ids = IdsOf(g)]
  BY <1>1
<1> DEFINE g == Restrict(left, {n \in DOMAIN left : left[n] # Absent})
           y == [r.z EXCEPT !.ids = IdsOf(g)]
<1>3. Record(r.z, g) /\ znet' = y BY <1>2
<1>4. status' = "failed" /\ UNCHANGED light BY DEF DeployFails
<1>5. /\ NetType(r.z) /\ (Distinct(z) => Distinct(r.z))
      /\ DOMAIN r.dls \subseteq NodesUsed(r.z)
      /\ \A n \in DOMAIN r.dls : Fits(r.z, r.dls[n], n)
  BY <1>1, GeneratedRight DEF NetAssumption, NetInv
<1>6. /\ NetType(y) /\ y.ids = IdsOf(g) /\ (Distinct(r.z) => Distinct(y))
  BY <1>5, WithIds
<1>7. DOMAIN left = DOMAIN r.dls \cup DOMAIN z.ids /\ \A n \in DOMAIN left : left[n] \in LeftOn(z, r.dls, n)
  BY <1>2 DEF LeftBehind
<1>8. DOMAIN g \subseteq DOMAIN left /\ \A n \in DOMAIN g : g[n] = left[n] /\ left[n] # Absent
  BY DEF Restrict
<1> HIDE DEF g, y
<1>9. DOMAIN g \subseteq Node BY <1>5, <1>7, <1>8, NodesUsedType DEF NetInv, Held
<1>10. \A n \in DOMAIN r.dls : WorkloadType(NewOn(z, r.dls, n)) BY <1>5, NewOnFits DEF Fits
<1>11. ASSUME NEW n \in DOMAIN g PROVE WorkloadType(g[n]) /\ (n \in NodesUsed(r.z) \/ tracked[n] # {})
  <2>1. CASE n \notin DOMAIN z.ids
    BY <1>5, <1>7, <1>8, <1>10, <2>1 DEF LeftOn
  <2>2. CASE n \in DOMAIN z.ids
    <3>1. WorkloadType(grid[n]) /\ tracked[n] # {} BY <2>2 DEF NetInv, Held
    <3>2. ASSUME NEW i PROVE WorkloadType([grid[n] EXCEPT !.id = i]) BY <3>1 DEF WorkloadType
    <3>3. \/ n \in DOMAIN r.dls /\ g[n] = NewOn(z, r.dls, n)
          \/ g[n] = grid[n]
          \/ g[n] = [grid[n] EXCEPT !.id = FreshId(n)]
      BY <1>7, <1>8, <2>2 DEF LeftOn
    <3> QED BY <1>10, <3>1, <3>2, <3>3
  <2> QED BY <2>1, <2>2
<1>12. grid' = g /\ Held' BY <1>3, <1>5, <1>6, <1>9, <1>11, HeldAfter
<1>13. NetInv' BY <1>3, <1>4, <1>6, <1>12 DEF NetInv, NetType, ReadBack
<1> QED BY <1>3, <1>4, <1>5, <1>6, <1>13, CallRight

LEMMA NetBatchStep ==
  ASSUME NetAssumption, NetInv, NEW nodes \in SUBSET Node, NEW wg \in BOOLEAN, light => ~wg,
         BatchDeploy(Asked(nodes, wg))
  PROVE  StepRight
<1>1. PICK z \in {InvalidateBrokenAttributes(Asked(nodes, wg), up) : up \in BOOLEAN} :
        \E found \in CalcPublicNode(z) : \E r \in Generated(z, found, {}) :
          /\ r.ok
          /\ \E sent \in SUBSET DOMAIN r.dls :
               LET g == [n \in sent |-> NewOn(z, r.dls, n)]
               IN  /\ Record(r.z, g)
                   /\ znet' = ReadNodesConfig([r.z EXCEPT !.ids = IdsOf(g)], g)
                   /\ status' = IF sent = DOMAIN r.dls /\ (LooksForPublic(z) => found # NoNode)
                                  THEN Ended(z, r.z) ELSE "failed"
  BY DEF BatchDeploy
<1>2. /\ NetType(z) /\ (z.wg \/ z.ext = NoSubnet) /\ (Distinct(znet) => Distinct(z))
  BY <1>1, Invalidated DEF NetAssumption
<1>3. PICK found \in CalcPublicNode(z) : \E r \in Generated(z, found, {}) : \E sent \in SUBSET DOMAIN r.dls :
        LET g == [n \in sent |-> NewOn(z, r.dls, n)]
        IN  /\ r.ok /\ Record(r.z, g)
            /\ znet' = ReadNodesConfig([r.z EXCEPT !.ids = IdsOf(g)], g)
            /\ status' = IF sent = DOMAIN r.dls /\ (LooksForPublic(z) => found # NoNode)
                           THEN Ended(z, r.z) ELSE "failed"
  BY <1>1
<1>4. PICK r \in Generated(z, found, {}) : \E sent \in SUBSET DOMAIN r.dls :
        LET g == [n \in sent |-> NewOn(z, r.dls, n)]
        IN  /\ r.ok /\ Record(r.z, g)
            /\ znet' = ReadNodesConfig([r.z EXCEPT !.ids = IdsOf(g)], g)
            /\ status' = IF sent = DOMAIN r.dls /\ (LooksForPublic(z) => found # NoNode)
                           THEN Ended(z, r.z) ELSE "failed"
  BY <1>3
<1>41. PICK sent \in SUBSET DOMAIN r.dls :
        LET g == [n \in sent |-> NewOn(z, r.dls, n)]
        IN  /\ r.ok /\ Record(r.z, g)
            /\ znet' = ReadNodesConfig([r.z EXCEPT !.ids = IdsOf(g)], g)
            /\ status' = IF sent = DOMAIN r.dls /\ (LooksForPublic(z) => found # NoNode)
                           THEN Ended(z, r.z) ELSE "failed"
  BY <1>4
<1>5. found \in Node \cup {NoNode} BY <1>4 DEF CalcPublicNode
<1>6. UNCHANGED light BY DEF BatchDeploy
<1> DEFINE g == [n \in sent |-> NewOn(z, r.dls, n)]
           y == [r.z EXCEPT !.ids = IdsOf(g)]
<1>7. r.ok /\ Record(r.z, g) /\ znet' = ReadNodesConfig(y, g) /\ status' \in {"ok", "kept", "failed"}
  BY <1>41 DEF Ended
<1>8. /\ NetType(r.z) /\ (Distinct(z) => Distinct(r.z))
      /\ DOMAIN r.dls \subseteq NodesUsed(r.z) /\ DOMAIN r.dls = DOMAIN r.z.ranges
      /\ \A n \in DOMAIN r.dls : Fits(r.z, r.dls[n], n)
  BY <1>2, <1>4, <1>5, <1>7, GeneratedRight DEF NetAssumption, NetInv
<1>9. DOMAIN g = sent /\ sent \subseteq DOMAIN r.dls /\ \A n \in DOMAIN g : Fits(r.z, g[n], n) BY <1>8, NewOnFits
<1> HIDE DEF g
<1>10. /\ NetType(y) /\ y.ids = IdsOf(g) /\ y.ranges = r.z.ranges /\ y.ext = r.z.ext /\ y.sk = r.z.sk
       /\ y.pub = r.z.pub /\ (Distinct(r.z) => Distinct(y))
  BY <1>8, WithIds
<1>11. \A n \in DOMAIN g : Fits(y, g[n], n) /\ WorkloadType(g[n]) BY <1>9, <1>10 DEF Fits
<1> HIDE DEF y
<1>12. DOMAIN g \subseteq Node BY <1>8, <1>9, NodesUsedType
<1>13. /\ NetType(znet') /\ znet'.ids = y.ids /\ znet'.ranges = [n \in DOMAIN g |-> g[n].subnet]
       /\ ~light => /\ znet'.keys = [n \in DOMAIN g |-> g[n].key] /\ znet'.ports = [n \in DOMAIN g |-> g[n].port]
                    /\ \A n \in DOMAIN g : g[n].ext = znet'.ext /\ g[n].sk = znet'.sk /\ g[n].pub = znet'.pub
       /\ Distinct(y) => Distinct(znet')
  BY <1>7, <1>8, <1>9, <1>10, <1>11, <1>12, ConfigRead DEF NetInv
<1>14. grid' = g /\ Held' BY <1>7, <1>8, <1>9, <1>10, <1>11, <1>12, <1>13, HeldAfter
<1>15. NetInv' BY <1>6, <1>10, <1>13, <1>14 DEF NetInv, NetType, ReadBack
<1> QED BY <1>2, <1>7, <1>8, <1>10, <1>13, <1>15, CallRight

LEMMA NetCancelStep ==
  ASSUME NetAssumption, NetInv, NEW cancelled \in SUBSET DOMAIN znet.ids, Cancel(cancelled)
  PROVE  StepRight
<1> DEFINE z == [znet EXCEPT !.ids = Without(@, cancelled)]
<1>1. /\ grid' = Without(grid, cancelled) /\ UNCHANGED light
      /\ tracked' = [n \in Node |-> tracked[n] \ (IF n \in cancelled THEN {znet.ids[n]} ELSE {})]
      /\ \/ cancelled = DOMAIN znet.ids /\ znet' = ReadNodesConfig(z, Empty) /\ status' = "cancelled"
         \/ cancelled # DOMAIN znet.ids /\ znet' = z /\ status' = "failed"
  BY DEF Cancel
<1>2. /\ NetType(z) /\ z.ids = Without(znet.ids, cancelled) /\ (Distinct(znet) => Distinct(z))
  <2>1. NetType(znet) BY DEF NetInv
  <2> QED BY <2>1, WithIds
<1>3. /\ DOMAIN grid' = DOMAIN grid \ cancelled /\ \A n \in DOMAIN grid' : grid'[n] = grid[n]
      /\ DOMAIN z.ids = DOMAIN znet.ids \ cancelled /\ \A n \in DOMAIN z.ids : z.ids[n] = znet.ids[n]
  BY <1>1, <1>2 DEF Without, Restrict
<1>4. ASSUME NEW n \in DOMAIN grid'
      PROVE  WorkloadType(grid'[n]) /\ n \in DOMAIN z.ids /\ z.ids[n] = grid'[n].id /\ tracked'[n] # {}
  BY <1>1, <1>3 DEF NetInv, Held
<1> HIDE DEF z
<1>5. CASE cancelled = DOMAIN znet.ids /\ znet' = ReadNodesConfig(z, Empty) /\ status' = "cancelled"
  <2>1. DOMAIN Empty = {} BY DEF Empty
  <2>2. /\ DOMAIN Empty \subseteq Node /\ DOMAIN Empty \subseteq DOMAIN z.ranges
        /\ \A n \in DOMAIN Empty : Fits(z, Empty[n], n)
    BY <2>1
  <2>3. NetType(znet') BY <1>2, <1>5, <2>2, ConfigRead DEF NetInv
  <2>4. znet'.ids = z.ids
    <3>1. CASE light BY <1>2, <1>5, <3>1 DEF NetType, ReadNodesConfig, ReadNodesConfigLight
    <3>2. CASE ~light BY <1>2, <1>5, <3>2 DEF NetType, ReadNodesConfig
    <3> QED BY <3>1, <3>2
  <2>5. Distinct(z) => Distinct(znet') BY <1>2, <1>5, <2>2, ConfigRead DEF NetInv
  <2>6. NetInv' BY <1>1, <1>3, <1>4, <1>5, <2>3, <2>4 DEF NetInv, NetType, Held, WorkloadType, ReadBack
  <2> QED BY <1>2, <1>5, <2>5, <2>6, CallRight
<1>6. CASE cancelled # DOMAIN znet.ids /\ znet' = z /\ status' = "failed"
  <2>1. NetInv' BY <1>1, <1>2, <1>3, <1>4, <1>6 DEF NetInv, NetType, Held, WorkloadType, ReadBack
  <2> QED BY <1>2, <1>6, <2>1, CallRight
<1> QED BY <1>1, <1>5, <1>6

LEMMA NetBatchCancelStep ==
  ASSUME NetInv, BatchCancel PROVE StepRight
<1>1. /\ grid' = Without(grid, DOMAIN znet.ids) /\ status' = "cancelled" /\ UNCHANGED light
      /\ znet' = [znet EXCEPT !.ids = Empty, !.keys = Empty, !.ports = Empty, !.ranges = Empty]
  BY DEF BatchCancel
<1>2. DOMAIN grid' = {} BY <1>1 DEF Without, Restrict, NetInv, Held
<1>3. DOMAIN Empty = {} BY DEF Empty
<1>4. NetType(znet)' BY <1>1, <1>3 DEF NetInv, NetType
<1>5. znet'.ranges = Empty BY <1>1 DEF NetInv, NetType
<1>6. Distinct(znet') BY <1>3, <1>5 DEF Distinct, Overlaps, IsInjective, Range
<1>7. NetInv' BY <1>1, <1>2, <1>4 DEF NetInv, Held, ReadBack
<1> QED BY <1>1, <1>6, <1>7, CallRight

(* A network read back whole: every deployment has a contract the state    *)
(* knows, and the state knows none but those.                              *)
LEMMA NetLoadStep ==
  ASSUME NetAssumption, NetInv, NEW known, known = tracked \/ known = FromChain, Load(known)
  PROVE  StepRight
<1> DEFINE g == Restrict(grid, {n \in DOMAIN grid : grid[n].id \in known[n]})
<1>1. PICK last \in DOMAIN g : znet' = Loaded(last, g) BY DEF Load
<1>2. /\ \A n \in Node : \A id \in known[n] : Alive(n, id)
      /\ tracked' = known /\ status' = "loaded" /\ UNCHANGED <<light, grid>>
  BY DEF Load
<1>3. \A n \in DOMAIN grid : n \in Node /\ grid[n].id \in known[n]
  <2> SUFFICES ASSUME NEW n \in DOMAIN grid PROVE n \in Node /\ grid[n].id \in known[n] OBVIOUS
  <2>1. n \in Node /\ tracked[n] # {} BY DEF NetInv, Held
  <2>2. CASE known = tracked
    <3>1. PICK id : id \in known[n] BY <2>1, <2>2
    <3> QED BY <1>2, <2>1, <3>1 DEF Alive
  <2>3. CASE known = FromChain BY <2>1, <2>3 DEF FromChain
  <2> QED BY <2>1, <2>2, <2>3
<1>4. DOMAIN g = DOMAIN grid /\ \A n \in DOMAIN grid : g[n] = grid[n] BY <1>3 DEF Restrict
<1> HIDE DEF g
<1> DEFINE ranges == [n \in DOMAIN g |-> g[n].subnet]
           keys == [n \in DOMAIN g |-> g[n].key]
           ports == [n \in DOMAIN g |-> g[n].port]
<1>5. /\ ranges = [n \in DOMAIN grid |-> grid[n].subnet] /\ keys = [n \in DOMAIN grid |-> grid[n].key]
      /\ ports = [n \in DOMAIN grid |-> grid[n].port] /\ IdsOf(g) = IdsOf(grid)
      /\ DOMAIN ranges = DOMAIN grid /\ \A n \in DOMAIN grid : ranges[n] = grid[n].subnet
  BY <1>4 DEF IdsOf
<1> DEFINE all == Merged(NewNet, g)
<1> HIDE DEF ranges, keys, ports
<1>6. all =
        [nodes |-> DOMAIN g, wg |-> FALSE, sized |-> TRUE, ext |-> NoSubnet, sk |-> FALSE, pub |-> NoNode,
         ranges |-> ranges, keys |-> Empty, ports |-> Empty, ids |-> IdsOf(g)]
  <2>1. all = [NewNet EXCEPT !.nodes = DOMAIN g, !.ranges = ranges, !.ids = IdsOf(g)]
    BY DEF Merged, ranges
  <2> QED BY <2>1 DEF NewNet
<1>7. /\ light => znet' = [nodes |-> DOMAIN g, wg |-> FALSE, sized |-> FALSE, ext |-> NoSubnet, sk |-> FALSE,
                           pub |-> NoNode, ranges |-> ranges, keys |-> Empty, ports |-> Empty, ids |-> IdsOf(g)]
      /\ ~light => znet' = [nodes |-> DOMAIN g, wg |-> g[last].ext # NoSubnet, sized |-> TRUE, ext |-> g[last].ext,
                            sk |-> g[last].sk, pub |-> g[last].pub, ranges |-> ranges, keys |-> keys,
                            ports |-> ports, ids |-> IdsOf(g)]
  <2>1. CASE light
    <3>1. znet' = [all EXCEPT !.sized = FALSE] BY <1>1, <2>1 DEF Loaded, LightNetworkOf
    <3> HIDE DEF all
    <3> QED BY <1>6, <2>1, <3>1
  <2>2. CASE ~light
    <3>1. znet' = [all EXCEPT !.wg = g[last].ext # NoSubnet, !.ext = g[last].ext, !.sk = g[last].sk,
                     !.pub = g[last].pub, !.keys = keys, !.ports = ports]
      BY <1>1, <2>2 DEF Loaded, NetworkOf, keys, ports
    <3> HIDE DEF all
    <3> QED BY <1>6, <2>2, <3>1
  <2> QED BY <2>1, <2>2
<1>8. /\ znet'.nodes = DOMAIN grid /\ znet'.ids = IdsOf(grid) /\ znet'.ranges = ranges
      /\ light => /\ znet'.ext = NoSubnet /\ znet'.sk = FALSE /\ znet'.pub = NoNode
                  /\ znet'.keys = Empty /\ znet'.ports = Empty
      /\ ~light => /\ znet'.ext = grid[last].ext /\ znet'.sk = grid[last].sk /\ znet'.pub = grid[last].pub
                   /\ znet'.keys = keys /\ znet'.ports = ports
  BY <1>1, <1>4, <1>5, <1>7
<1>9. NetType(znet')
  <2>1. WorkloadType(grid[last]) /\ last \in DOMAIN grid BY <1>1, <1>4 DEF NetInv, Held
  <2>2. \A n \in DOMAIN grid : n \in Node /\ ranges[n] \in Octet BY <1>3, <1>5 DEF NetInv, Held, WorkloadType
  <2>3. DOMAIN znet'.ranges \subseteq Node /\ \A n \in DOMAIN znet'.ranges : znet'.ranges[n] \in Octet
    BY <1>5, <1>8, <2>2
  <2>4. znet'.wg \in BOOLEAN /\ (light => znet'.wg = FALSE)
    <3>1. light => znet'.wg = FALSE BY <1>7
    <3>2. ~light => znet'.wg = (g[last].ext # NoSubnet) BY <1>7
    <3> QED BY <3>1, <3>2
  <2>5. znet'.ext \in Octet \cup {NoSubnet} /\ znet'.pub \in Node \cup {NoNode}
    BY <1>8, <2>1 DEF WorkloadType, NetInv
  <2>6. znet'.nodes \subseteq Node BY <1>3, <1>8
  <2>7. znet' = [nodes |-> znet'.nodes, wg |-> znet'.wg, sized |-> znet'.sized, ext |-> znet'.ext, sk |-> znet'.sk,
                 pub |-> znet'.pub, ranges |-> znet'.ranges, keys |-> znet'.keys, ports |-> znet'.ports, ids |-> znet'.ids]
    BY <1>7
  <2> QED BY <1>8, <2>3, <2>4, <2>5, <2>6, <2>7 DEF NetType
<1>10. NetInv'
  <2>1. \A n \in DOMAIN grid : znet'.ids[n] = grid[n].id /\ n \in DOMAIN znet'.ids /\ tracked'[n] # {}
    BY <1>2, <1>3, <1>8 DEF IdsOf
  <2> QED BY <1>2, <1>9, <2>1 DEF NetInv, NetType, Held, WorkloadType, ReadBack
<1>11. ASSUME status \in {"ok", "kept"}
       PROVE  \A f \in {"ranges", "keys", "ports", "ids", "ext", "sk", "pub"} : znet'[f] = znet[f]
  <2>1. /\ znet.ids = IdsOf(grid) /\ znet.ranges = ranges
        /\ ~light => /\ znet.keys = keys /\ znet.ports = ports
                     /\ \A n \in DOMAIN grid :
                          grid[n].ext = znet.ext /\ grid[n].sk = znet.sk /\ grid[n].pub = znet.pub
    BY <1>5, <1>11 DEF NetInv, ReadBack
  <2>2. light => /\ znet.ext = NoSubnet /\ znet.sk = FALSE /\ znet.pub = NoNode
                 /\ znet.keys = Empty /\ znet.ports = Empty
    BY DEF NetInv, NetType
  <2>3. last \in DOMAIN grid BY <1>1, <1>4
  <2>4. /\ znet'.ranges = znet.ranges /\ znet'.ids = znet.ids /\ znet'.ext = znet.ext /\ znet'.sk = znet.sk
        /\ znet'.pub = znet.pub /\ znet'.keys = znet.keys /\ znet'.ports = znet.ports
    BY <1>8, <2>1, <2>2, <2>3
  <2> QED BY <2>4
<1>12. LoadStep BY <1>8, <1>11 DEF LoadStep
<1>13. SubnetsStep
  <2>1. status \in {"ok", "kept"} /\ Overlaps(znet') => Overlaps(znet) BY <1>11 DEF Overlaps
  <2> QED BY <1>2, <2>1 DEF SubnetsStep
<1> QED BY <1>10, <1>12, <1>13 DEF StepRight

LEMMA ContractEndsStep ==
  ASSUME NetInv, NEW n \in Node, ContractEnds(n) PROVE StepRight
<1>1. grid' = Without(grid, {n}) /\ status' = "broken" /\ UNCHANGED <<light, znet, tracked>> BY DEF ContractEnds
<1>2. DOMAIN grid' = DOMAIN grid \ {n} /\ \A m \in DOMAIN grid' : grid'[m] = grid[m]
  BY <1>1 DEF Without, Restrict
<1>3. NetType(znet)' BY <1>1 DEF NetInv, NetType
<1>4. Held' BY <1>1, <1>2 DEF NetInv, Held, WorkloadType
<1>5. NetInv' BY <1>1, <1>3, <1>4 DEF NetInv, ReadBack
<1> QED BY <1>1, <1>5, CallRight

LEMMA NetDeployStep ==
  ASSUME NetAssumption, NetInv, NEW nodes \in SUBSET Node, NEW wg \in BOOLEAN, light => ~wg,
         Deploy(Asked(nodes, wg))
  PROVE  StepRight
<1>1. CASE DeployInvalid(Asked(nodes, wg)) BY <1>1, DeployInvalidStep
<1>2. ASSUME NEW up \in BOOLEAN, NEW z, z = InvalidateBrokenAttributes(Asked(nodes, wg), up),
             NEW found \in CalcPublicNode(z),
             GenerationFails(z, found) \/ DeploySucceeds(z, found) \/ DeployFails(z, found)
      PROVE  StepRight
  <2>1. z = InvalidateBrokenAttributes(Asked(nodes, wg), up) /\ BoundAssumption BY <1>2 DEF NetAssumption
  <2>11. NetType(z) BY <2>1, Invalidated
  <2>12. DOMAIN z.ids = DOMAIN grid BY <2>1, Invalidated
  <2>13. \A n \in DOMAIN grid : z.ids[n] = grid[n].id BY <2>1, Invalidated
  <2>14. z.wg \/ z.ext = NoSubnet BY <2>1, Invalidated
  <2>15. Distinct(znet) => Distinct(z) BY <2>1, Invalidated
  <2>2. found \in Node \cup {NoNode} BY <1>2 DEF CalcPublicNode
  <2>3. CASE GenerationFails(z, found) BY <2>11, <2>12, <2>13, <2>14, <2>15, <2>2, <2>3, GenerationFailsStep
  <2>4. CASE DeploySucceeds(z, found) BY <2>11, <2>12, <2>13, <2>14, <2>15, <2>2, <2>4, DeploySucceedsStep
  <2>5. CASE DeployFails(z, found) BY <2>11, <2>12, <2>13, <2>14, <2>15, <2>2, <2>5, DeployFailsStep
  <2> QED BY <1>2, <2>3, <2>4, <2>5
<1> QED BY <1>1, <1>2 DEF Deploy

(* Init, and every step of Next.                                           *)
LEMMA NetInit == ASSUME NetAssumption, Init PROVE NetInv
<1>1. DOMAIN Empty = {} BY DEF Empty
<1> QED BY <1>1 DEF Init, NetInv, NetType, NewNet, Held, ReadBack

LEMMA NetNext == ASSUME NetAssumption, NetInv, [Next]_vars PROVE StepRight
<1>1. ASSUME NEW nodes \in SUBSET Node, NEW wg \in BOOLEAN, light => ~wg,
             Call(Deploy(Asked(nodes, wg))) \/ Call(BatchDeploy(Asked(nodes, wg)))
      PROVE  StepRight
  BY <1>1, NetDeployStep, NetBatchStep DEF Call
<1>2. ASSUME NEW cancelled \in SUBSET DOMAIN znet.ids, Call(Cancel(cancelled)) PROVE StepRight
  BY <1>2, NetCancelStep DEF Call
<1>3. CASE Call(BatchCancel) BY <1>3, NetBatchCancelStep DEF Call
<1>4. CASE Load(tracked) \/ Load(FromChain) BY <1>4, NetLoadStep
<1>5. ASSUME NEW n \in Node, ContractEnds(n) PROVE StepRight BY <1>5, ContractEndsStep
<1>6. CASE UNCHANGED vars
  <2>1. NetInv' BY <1>6 DEF vars, NetInv, NetType, Held, WorkloadType, ReadBack, IdsOf
  <2>2. znet' = znet /\ status' = status BY <1>6 DEF vars
  <2> QED BY <2>1, <2>2 DEF StepRight, SubnetsStep, LoadStep
<1>7. Next => StepRight BY <1>1, <1>2, <1>3, <1>4, <1>5 DEF Next
<1> QED BY <1>6, <1>7

(* A network, in every reachable state: of any nodes, however its calls    *)
(* fail and its contracts end.                                             *)
THEOREM NetworkInvariance == NetAssumption => (Spec => []NetInv)
<1> SUFFICES ASSUME NetAssumption PROVE Spec => []NetInv OBVIOUS
<1>1. Init => NetInv BY NetInit
<1>2. NetInv /\ [Next]_vars => NetInv' BY NetNext DEF StepRight
<1> QED BY <1>1, <1>2, PTL DEF Spec

-----------------------------------------------------------------------------
(* Who talks to whom. The deployments g are those generateDeployments made *)
(* of y, and its peers know where every accessible node is: none but taken *)
(* is from outside the network.                                            *)
Wired(g, y, taken) ==
  /\ DOMAIN g = Hidden(y) \cup Accessible(y)
  /\ \A n \in DOMAIN g : /\ g[n].subnet = y.ranges[n] /\ y.ranges[n] \in Octet
                         /\ g[n].key = y.keys[n] /\ n \in DOMAIN y.keys
                         /\ g[n].port = y.ports[n] /\ n \in DOMAIN y.ports
                         /\ g[n].peers = PeersOf(y, taken, n)
                         /\ g[n].ext = y.ext /\ g[n].pub = y.pub
  /\ y.nodes \subseteq Node /\ y.ext \in Octet \cup {NoSubnet}
  /\ NeedsPublic(y) => y.pub # NoNode
  /\ y.wg \/ y.ext = NoSubnet
  /\ \A n \in Accessible(y) : n \in y.nodes \/ n = taken

Wiring == status = "ok" /\ ~light => \E y, taken : Wired(grid, y, taken)

LEMMA WiredReach ==
  ASSUME NetAssumption, NEW y, NEW taken, Wired(grid, y, taken)
  PROVE  AllReach
<1> DEFINE toOpen(m)   == [key |-> NodeKey(y, m), at |-> EndpointOf(y, taken, m),
                           to |-> {y.ranges[m]} \cup (IF m = y.pub THEN BehindPublic(y) ELSE {})]
           toHidden(h) == [key |-> NodeKey(y, h), at |-> NoEndpoint, to |-> {y.ranges[h]}]
           toUser      == [key |-> UserKey, at |-> NoEndpoint, to |-> {y.ext}]
           toPublic    == [key |-> NodeKey(y, y.pub), at |-> EndpointOf(y, taken, y.pub), to |-> Octet]
<1>1. /\ \A n \in Accessible(y) : \A m \in Accessible(y) \ {n} : toOpen(m) \in PeersOf(y, taken, n)
      /\ y.pub \in Accessible(y) => \A h \in Hidden(y) : toHidden(h) \in PeersOf(y, taken, y.pub)
      /\ y.pub \in Accessible(y) /\ y.wg => toUser \in PeersOf(y, taken, y.pub)
      /\ y.pub # NoNode => \A h \in Hidden(y) \ Accessible(y) : toPublic \in PeersOf(y, taken, h)
  BY DEF PeersOf
<1>2. /\ \A n \in DOMAIN grid : NodeKey(y, n) = <<n, grid[n].key>>
      /\ \A n \in Accessible(y) : EndpointOf(y, taken, n) = At(n)
  BY DEF Wired, NodeKey, EndpointOf, At
<1>3. /\ \A m : toOpen(m).key = NodeKey(y, m) /\ toOpen(m).at = EndpointOf(y, taken, m) /\ y.ranges[m] \in toOpen(m).to
      /\ \A e \in BehindPublic(y) : e \in toOpen(y.pub).to
      /\ \A h : toHidden(h).key = NodeKey(y, h) /\ y.ranges[h] \in toHidden(h).to
      /\ toUser.key = UserKey /\ toUser.to = {y.ext}
      /\ toPublic.key = NodeKey(y, y.pub) /\ toPublic.at = EndpointOf(y, taken, y.pub) /\ toPublic.to = Octet
  OBVIOUS
<1> HIDE DEF toOpen, toHidden, toUser, toPublic
<1>4. \A h \in Hidden(y) : y.ranges[h] \in BehindPublic(y) BY DEF BehindPublic
<1>5. NeedsPublic(y) => y.pub \in Accessible(y) BY DEF Accessible
<1> DEFINE Far == Hidden(y) \ Accessible(y)
<1>6. ASSUME NEW a \in Accessible(y), NEW b \in Accessible(y), a # b,
             NEW from, from = grid[a].subnet \/ (a = y.pub /\ from \in BehindPublic(y)),
             NEW to, to = grid[b].subnet \/ (b = y.pub /\ to \in BehindPublic(y))
      PROVE  Carries(a, b, from, to)
  <2>1. toOpen(b) \in grid[a].peers /\ toOpen(a) \in grid[b].peers BY <1>1, <1>6 DEF Wired
  <2>2. toOpen(b).key = <<b, grid[b].key>> /\ toOpen(a).key = <<a, grid[a].key>> /\ toOpen(b).at = At(b)
    BY <1>2, <1>3 DEF Wired
  <2>3. to \in toOpen(b).to /\ from \in toOpen(a).to BY <1>3, <1>6 DEF Wired
  <2> QED BY <2>1, <2>2, <2>3 DEF Carries
<1>7. ASSUME NEW h \in Far, NEW to \in Octet, y.pub \in Accessible(y), y.pub # NoNode
      PROVE  Carries(h, y.pub, grid[h].subnet, to) /\ Carries(y.pub, h, to, grid[h].subnet)
  <2>1. toPublic \in grid[h].peers /\ toHidden(h) \in grid[y.pub].peers BY <1>1, <1>7 DEF Wired
  <2>2. toPublic.key = <<y.pub, grid[y.pub].key>> /\ toHidden(h).key = <<h, grid[h].key>> /\ toPublic.at = At(y.pub)
    BY <1>2, <1>3, <1>7 DEF Wired
  <2>3. to \in toPublic.to /\ grid[h].subnet \in toHidden(h).to BY <1>3, <1>7 DEF Wired
  <2> QED BY <2>1, <2>2, <2>3 DEF Carries
<1>8. ASSUME NEW a \in Far, NEW b \in DOMAIN grid, a # b PROVE NeedsPublic(y)
  <2> SUFFICES ASSUME ~NeedsPublic(y) PROVE FALSE OBVIOUS
  <2>1. a \in y.nodes /\ b \in y.nodes BY DEF Wired, Hidden, Accessible, Open
  <2>2. IsFiniteSet(y.nodes) BY FS_Subset DEF Wired, NetAssumption, NodeAssumption
  <2>3. Cardinality({a, b}) = 2 /\ {a, b} \subseteq y.nodes
    <3>1. IsFiniteSet({a}) /\ Cardinality({a}) = 1 BY FS_Singleton
    <3>2. Cardinality({a} \cup {b}) = 2 BY <1>8, <3>1, FS_AddElement
    <3> QED BY <2>1, <3>2
  <2>4. Cardinality(y.nodes) \in Nat /\ Cardinality(y.nodes) >= 2 BY <2>2, <2>3, FS_Subset, FS_CardinalityType
  <2> QED BY <2>4 DEF NeedsPublic
<1>9. DOMAIN grid = Far \cup Accessible(y) /\ \A n \in DOMAIN grid : grid[n].subnet \in Octet BY DEF Wired
<1>10. \A h \in Far : grid[h].subnet \in BehindPublic(y) BY <1>4, <1>9 DEF Wired
<1> HIDE DEF Far
<1>11. ASSUME NEW a \in DOMAIN grid, NEW b \in DOMAIN grid, a # b PROVE Reaches(a, b)
  <2> DEFINE p == y.pub
  <2>1. CASE a \in Accessible(y) /\ b \in Accessible(y) BY <1>6, <1>11, <2>1 DEF Reaches
  <2>2. CASE a \in Far \/ b \in Far
    <3>1. p # NoNode /\ p \in Accessible(y) /\ p \in DOMAIN grid BY <1>5, <1>8, <1>9, <1>11, <2>2 DEF Wired
    <3>2. CASE a = p BY <1>7, <1>9, <2>2, <3>1, <3>2, <1>11 DEF Reaches, Far
    <3>3. CASE b = p BY <1>7, <1>9, <2>2, <3>1, <3>3, <1>11 DEF Reaches, Far
    <3>4. CASE a # p /\ b # p
      <4>1. Carries(a, p, grid[a].subnet, grid[b].subnet)
        <5>1. CASE a \in Far BY <1>7, <1>9, <3>1, <5>1
        <5>2. CASE a \in Accessible(y) BY <1>6, <1>9, <1>10, <2>2, <3>1, <3>4, <5>2 DEF Far
        <5> QED BY <1>9, <5>1, <5>2
      <4>2. Carries(p, b, grid[a].subnet, grid[b].subnet)
        <5>1. CASE b \in Far BY <1>7, <1>9, <3>1, <5>1
        <5>2. CASE b \in Accessible(y) BY <1>6, <1>9, <1>10, <2>2, <3>1, <3>4, <5>2 DEF Far
        <5> QED BY <1>9, <5>1, <5>2
      <4> QED BY <3>1, <3>4, <4>1, <4>2 DEF Reaches
    <3> QED BY <3>2, <3>3, <3>4
  <2> QED BY <1>9, <2>1, <2>2
<1>12. ASSUME NEW a \in DOMAIN grid, grid[a].ext # NoSubnet PROVE ReachesUser(a)
  <2>1. y.wg /\ grid[a].ext = y.ext /\ y.ext \in Octet /\ grid[a].pub = y.pub BY <1>12 DEF Wired
  <2>2. y.pub # NoNode /\ y.pub \in Accessible(y) /\ y.pub \in DOMAIN grid
    BY <1>5, <1>9, <2>1 DEF NeedsPublic, Wired
  <2>3. y.ext \in BehindPublic(y) BY <2>1 DEF BehindPublic
  <2>4. toUser \in grid[y.pub].peers /\ toUser.key = UserKey /\ toUser.to = {grid[a].ext}
    BY <1>1, <1>3, <2>1, <2>2 DEF Wired
  <2>5. ASSUME a # y.pub PROVE Carries(a, y.pub, grid[a].subnet, grid[a].ext)
    <3>1. CASE a \in Far BY <1>7, <2>1, <2>2, <3>1
    <3>2. CASE a \in Accessible(y) BY <1>6, <2>1, <2>2, <2>3, <2>5, <3>2
    <3> QED BY <1>9, <3>1, <3>2
  <2> QED BY <2>1, <2>4, <2>5 DEF ReachesUser
<1> QED BY <1>11, <1>12 DEF AllReach

(* What generateDeployments returns is wired, if the public node it chose  *)
(* is of the network or was not there before.                              *)
LEMMA GeneratedWired ==
  ASSUME NetAssumption, light = FALSE, NEW z, NetType(z), z.wg \/ z.ext = NoSubnet,
         NEW found \in Node \cup {NoNode}, NEW r \in Generated(z, found, {}), r.ok,
         z.pub \notin Accessible(r.z) \ r.z.nodes
  PROVE  \E taken : Wired(r.dls, r.z, taken)
<1>1. PICK p \in PublicNodes(z, found, {}) :
        r \in GeneratedWith([z EXCEPT !.pub = p], IF z.pub = NoNode THEN p ELSE NoNode, {z.pub, found} \cap {} # {})
  <2>1. r \notin {Refused(z)} BY DEF Refused
  <2> QED BY <2>1 DEF Generated
<1> DEFINE y == [z EXCEPT !.pub = p]
           taken == IF z.pub = NoNode THEN p ELSE NoNode
           failed == {z.pub, found} \cap {} # {}
           all == Hidden(y) \cup Accessible(y)
           signed(x) == AssignPorts(AssignNodesWGKey([x EXCEPT !.sk = @ \/ y.wg], all), all)
<1>2. p \in Node \cup {NoNode} /\ (NeedsPublic(z) => p # NoNode) /\ (NeedsPublic(z) /\ z.pub # NoNode => p = z.pub)
  BY DEF PublicNodes, NetType, NodeAssumption, NetAssumption, NoNode
<1>3. NetType(y) /\ y.ext = z.ext /\ y.wg = z.wg /\ y.pub = p /\ y.nodes = z.nodes BY <1>2 DEF NetType
<1>. failed \in BOOLEAN /\ r \in GeneratedWith(y, taken, failed) BY <1>1
<1>4. taken = IF z.pub = NoNode THEN p ELSE NoNode OBVIOUS
<1> HIDE DEF y, taken, failed
<1>5. PICK a \in AssignNodesIPs(y, all) :
        r = IF a.ok THEN [ok |-> ~failed, z |-> signed(a.z), dls |-> [n \in all |-> WorkloadOf(signed(a.z), taken, n)]]
            ELSE Refused(a.z)
  BY Zenon DEF GeneratedWith
<1>6. all \in SUBSET Node BY <1>2, <1>3 DEF Hidden, Accessible, Open, NeedsPublic, NetType
<1> HIDE DEF all
<1>7. BoundAssumption BY DEF NetAssumption
<1>8. NetType(a.z) /\ OnlySubnets(a.z, y) /\ (~y.wg => a.z.ext = y.ext) /\ (a.ok => DOMAIN a.z.ranges = all)
  BY <1>3, <1>5, <1>6, <1>7, Assigned
<1>9. a.ok /\ (~y.wg => a.z.ext = y.ext)
  <2>1. a.ok BY <1>5 DEF Refused
  <2> QED BY <1>8, <2>1
<1> DEFINE x == signed(a.z)
           keysOf == Over(a.z.keys, [n \in all |-> IF n \in DOMAIN grid /\ grid[n].key = 1 THEN 2 ELSE 1])
           portsOf == Over([n \in all |-> IF n \in DOMAIN grid /\ grid[n].port = 1 THEN 2 ELSE 1], a.z.ports)
<1>10. r.z = x /\ r.dls = [n \in all |-> WorkloadOf(x, taken, n)] BY <1>5, <1>9
<1>11. x = [a.z EXCEPT !.sk = x.sk, !.keys = keysOf, !.ports = portsOf]
  BY <1>8 DEF AssignPorts, AssignNodesWGKey, NetType
<1>12. all \subseteq DOMAIN keysOf /\ all \subseteq DOMAIN portsOf BY DEF Over
<1> HIDE DEF x, keysOf, portsOf
<1>13. /\ x.nodes = y.nodes /\ x.pub = p /\ x.wg = y.wg /\ x.ext = a.z.ext /\ x.ranges = a.z.ranges
       /\ x.keys = keysOf /\ x.ports = portsOf
  BY <1>3, <1>8, <1>11 DEF NetType, OnlySubnets
<1>14. Hidden(x) = Hidden(y) /\ Accessible(x) = Accessible(y) /\ (NeedsPublic(x) <=> NeedsPublic(y))
  BY <1>3, <1>13 DEF Hidden, Accessible, Open, NeedsPublic
<1>15. NeedsPublic(y) <=> NeedsPublic(z) BY <1>3 DEF NeedsPublic, Hidden
<1>16. all = Hidden(x) \cup Accessible(x) BY <1>14 DEF all
<1>17. \A n \in all : x.ranges[n] \in Octet BY <1>8, <1>9, <1>13 DEF NetType
<1>18. x.wg \/ x.ext = NoSubnet BY <1>3, <1>9, <1>13
<1>19. x.nodes \subseteq Node /\ x.ext \in Octet \cup {NoSubnet} BY <1>3, <1>8, <1>13 DEF NetType
<1>20. \A n \in Accessible(x) : n \in x.nodes \/ n = taken
  <2> SUFFICES ASSUME NEW n \in Accessible(x), n \notin x.nodes PROVE n = taken OBVIOUS
  <2>1. NeedsPublic(x) /\ n = p BY <1>13 DEF Accessible, Open
  <2>2. z.pub # p BY <1>10, <2>1
  <2> QED BY <1>2, <1>4, <1>14, <1>15, <2>1, <2>2
<1>21. \A n \in all : /\ r.dls[n].subnet = x.ranges[n] /\ r.dls[n].key = x.keys[n] /\ r.dls[n].port = x.ports[n]
                      /\ r.dls[n].peers = PeersOf(x, taken, n) /\ r.dls[n].ext = x.ext /\ r.dls[n].pub = x.pub
  BY <1>10 DEF WorkloadOf
<1>22. DOMAIN r.dls = all BY <1>10
<1>23. Wired(r.dls, x, taken)
  BY <1>2, <1>12, <1>13, <1>14, <1>15, <1>16, <1>17, <1>18, <1>19, <1>20, <1>21, <1>22 DEF Wired
<1> QED BY <1>10, <1>23

(* A contract id does not change who is wired to whom.                     *)
LEMMA WiredAnew ==
  ASSUME NEW z, NEW y, NEW taken, NEW dls, Wired(dls, y, taken), \A n \in DOMAIN dls : WorkloadType(dls[n])
  PROVE  Wired([n \in DOMAIN dls |-> NewOn(z, dls, n)], y, taken)
<1> DEFINE g == [n \in DOMAIN dls |-> NewOn(z, dls, n)]
<1>1. ASSUME NEW n \in DOMAIN dls
      PROVE  /\ g[n].subnet = dls[n].subnet /\ g[n].key = dls[n].key /\ g[n].port = dls[n].port
             /\ g[n].peers = dls[n].peers /\ g[n].ext = dls[n].ext /\ g[n].pub = dls[n].pub
  <2> DEFINE w == dls[n]
  <2>1. WorkloadType(w) OBVIOUS
  <2>2. \E i : g[n] = [w EXCEPT !.id = i] BY DEF NewOn
  <2> HIDE DEF w, g
  <2>3. g[n].subnet = w.subnet /\ g[n].key = w.key /\ g[n].port = w.port
        /\ g[n].peers = w.peers /\ g[n].ext = w.ext /\ g[n].pub = w.pub
    BY <2>1, <2>2 DEF WorkloadType
  <2> QED BY <2>3 DEF w
<1>2. DOMAIN g = DOMAIN dls OBVIOUS
<1> HIDE DEF g
<1>3. Wired(g, y, taken) BY <1>1, <1>2 DEF Wired
<1> QED BY <1>3 DEF g

(* A call that ends without error leaves a wired network.                  *)
LEMMA WiredAfter ==
  ASSUME NetAssumption, NetInv, light = FALSE, NEW z, NetType(z), z.wg \/ z.ext = NoSubnet,
         NEW found \in Node \cup {NoNode}, NEW r \in Generated(z, found, {}), r.ok, Ended(z, r.z) = "ok",
         Record(r.z, [n \in DOMAIN r.dls |-> NewOn(z, r.dls, n)])
  PROVE  \E y, taken : Wired(grid', y, taken)
<1>1. z.pub \notin Accessible(r.z) \ r.z.nodes BY DEF Ended
<1>2. PICK taken : Wired(r.dls, r.z, taken) BY <1>1, GeneratedWired
<1>3. \A n \in DOMAIN r.dls : WorkloadType(r.dls[n]) BY GeneratedRight DEF NetAssumption, Fits
<1>4. Wired([n \in DOMAIN r.dls |-> NewOn(z, r.dls, n)], r.z, taken) BY <1>2, <1>3, WiredAnew
<1>5. grid' = [n \in DOMAIN r.dls |-> NewOn(z, r.dls, n)] BY DEF Record
<1> QED BY <1>4, <1>5

LEMMA WiringStep ==
  ASSUME NetAssumption, NetInv, Wiring, [Next]_vars PROVE Wiring'
<1> SUFFICES ASSUME status' = "ok", ~light' PROVE \E y, taken : Wired(grid', y, taken)
  BY DEF Wiring
<1>1. ASSUME NEW nodes \in SUBSET Node, NEW wg \in BOOLEAN, light => ~wg, Deploy(Asked(nodes, wg))
      PROVE  \E y, taken : Wired(grid', y, taken)
  <2>1. PICK z \in {InvalidateBrokenAttributes(Asked(nodes, wg), up) : up \in BOOLEAN} :
          \E found \in CalcPublicNode(z) : DeploySucceeds(z, found)
    BY <1>1 DEF Deploy, DeployInvalid, GenerationFails, DeployFails
  <2>2. PICK found \in CalcPublicNode(z) : DeploySucceeds(z, found) BY <2>1
  <2>3. NetType(z) /\ (z.wg \/ z.ext = NoSubnet)
    <3>1. PICK up \in BOOLEAN : z = InvalidateBrokenAttributes(Asked(nodes, wg), up) BY <2>1
    <3> QED BY <1>1, <3>1, Invalidated DEF NetAssumption
  <2>4. found \in Node \cup {NoNode} BY <2>2 DEF CalcPublicNode
  <2>5. PICK r \in Generated(z, found, {}) :
          /\ r.ok /\ Record(r.z, [n \in DOMAIN r.dls |-> NewOn(z, r.dls, n)])
          /\ status' = Ended(z, r.z) /\ UNCHANGED light
    BY <2>2 DEF DeploySucceeds
  <2>6. light = FALSE /\ Ended(z, r.z) = "ok" BY <2>5 DEF NetInv
  <2> QED BY <2>3, <2>4, <2>5, <2>6, WiredAfter
<1>2. ASSUME NEW nodes \in SUBSET Node, NEW wg \in BOOLEAN, light => ~wg, BatchDeploy(Asked(nodes, wg))
      PROVE  \E y, taken : Wired(grid', y, taken)
  <2>1. PICK z \in {InvalidateBrokenAttributes(Asked(nodes, wg), up) : up \in BOOLEAN} :
          \E found \in CalcPublicNode(z) : \E r \in Generated(z, found, {}) : \E sent \in SUBSET DOMAIN r.dls :
            /\ r.ok /\ Record(r.z, [n \in sent |-> NewOn(z, r.dls, n)])
            /\ status' = IF sent = DOMAIN r.dls /\ (LooksForPublic(z) => found # NoNode)
                           THEN Ended(z, r.z) ELSE "failed"
    BY <1>2 DEF BatchDeploy
  <2>2. PICK found \in CalcPublicNode(z) : \E r \in Generated(z, found, {}) : \E sent \in SUBSET DOMAIN r.dls :
            /\ r.ok /\ Record(r.z, [n \in sent |-> NewOn(z, r.dls, n)])
            /\ status' = IF sent = DOMAIN r.dls /\ (LooksForPublic(z) => found # NoNode)
                           THEN Ended(z, r.z) ELSE "failed"
    BY <2>1
  <2>3. PICK r \in Generated(z, found, {}) : \E sent \in SUBSET DOMAIN r.dls :
            /\ r.ok /\ Record(r.z, [n \in sent |-> NewOn(z, r.dls, n)])
            /\ status' = IF sent = DOMAIN r.dls /\ (LooksForPublic(z) => found # NoNode)
                           THEN Ended(z, r.z) ELSE "failed"
    BY <2>2
  <2>4. r.ok /\ Record(r.z, [n \in DOMAIN r.dls |-> NewOn(z, r.dls, n)]) /\ Ended(z, r.z) = "ok" BY <2>3
  <2>5. NetType(z) /\ (z.wg \/ z.ext = NoSubnet) BY <1>2, <2>1, Invalidated DEF NetAssumption
  <2>6. found \in Node \cup {NoNode} BY <2>2 DEF CalcPublicNode
  <2>7. light = FALSE BY <1>2 DEF NetInv, BatchDeploy
  <2> QED BY <2>3, <2>4, <2>5, <2>6, <2>7, WiredAfter
<1>3. CASE UNCHANGED vars BY <1>3 DEF vars, Wiring
<1>4. CASE Next
  <2>1. ASSUME NEW nodes \in SUBSET Node, NEW wg \in BOOLEAN, light => ~wg,
               Call(Deploy(Asked(nodes, wg))) \/ Call(BatchDeploy(Asked(nodes, wg)))
        PROVE  \E y, taken : Wired(grid', y, taken)
    BY <1>1, <1>2, <2>1 DEF Call
  <2>2. ~(\E cancelled \in SUBSET DOMAIN znet.ids : Call(Cancel(cancelled))) BY DEF Call, Cancel
  <2>3. ~Call(BatchCancel) /\ ~Load(tracked) /\ ~Load(FromChain) BY DEF Call, BatchCancel, Load
  <2>4. ~(\E n \in Node : ContractEnds(n)) BY DEF ContractEnds
  <2> QED BY <1>4, <2>1, <2>2, <2>3, <2>4 DEF Next
<1> QED BY <1>3, <1>4

(* After a deployment without error the nodes of the network, and the      *)
(* user's machine if it asked for access, reach each other: whatever nodes *)
(* are hidden, were added, removed or lost before.                         *)
THEOREM NetworkConnected == NetAssumption => (Spec => []Connected)
<1> SUFFICES ASSUME NetAssumption PROVE Spec => []Connected OBVIOUS
<1>1. Init => NetInv /\ Wiring BY NetInit DEF Init, Wiring
<1>2. NetInv /\ Wiring /\ [Next]_vars => (NetInv /\ Wiring)' BY NetNext, WiringStep DEF StepRight
<1>3. Wiring => Connected BY WiredReach DEF Wiring, Connected
<1> QED BY <1>1, <1>2, <1>3, PTL DEF Spec

(* No subnet of a network is given twice, to nodes or to the user's        *)
(* machine, by any sequence of calls: only the load of a network that a    *)
(* failed call left half changed, and an assignment that runs out of       *)
(* subnets, can bring an overlap.                                          *)
THEOREM SubnetsNotShared == NetAssumption => (Spec => SubnetsDistinct)
<1> SUFFICES ASSUME NetAssumption PROVE Spec => SubnetsDistinct OBVIOUS
<1>1. NetInv /\ [Next]_vars => [SubnetsStep]_vars BY NetNext DEF StepRight
<1> QED BY <1>1, NetworkInvariance, PTL DEF Spec, SubnetsDistinct

(* The caller's network or the plugin state knows the contract of every    *)
(* deployment, after failed calls, reverts and loads too.                  *)
THEOREM AllInSight == NetAssumption => (Spec => []NothingOutOfSight)
<1> SUFFICES ASSUME NetAssumption PROVE Spec => []NothingOutOfSight OBVIOUS
<1>1. NetInv => NothingOutOfSight BY DEF NetInv, Held, NothingOutOfSight
<1> QED BY <1>1, NetworkInvariance, PTL

(* LoadNetworkFromGrid right after a deployment, in the same process or a  *)
(* new one, gives the network that was deployed.                           *)
THEOREM NetworkReadsBack == NetAssumption => (Spec => LoadsWhatWasDeployed)
<1> SUFFICES ASSUME NetAssumption PROVE Spec => LoadsWhatWasDeployed OBVIOUS
<1>1. NetInv /\ [Next]_vars => [LoadStep]_vars BY NetNext DEF StepRight
<1> QED BY <1>1, NetworkInvariance, PTL DEF Spec, LoadsWhatWasDeployed

(***************************************************************************)
(* Gateways.                                                               *)
(***************************************************************************)

(***************************************************************************)
(* Gateways. A contract is of the gateway of its project and kind; names   *)
(* are given once.                                                         *)
(***************************************************************************)
KindOf(g) == IF g \in FqdnKind THEN "fqdn" ELSE "name"
GwOf(g, c) == c.type = "node" /\ c.project = Project[g] /\ c.wl.type = KindOf(g)

ContractShape(c) ==
  c = [type |-> c.type, node |-> c.node, name |-> c.name, project |-> c.project, created |-> c.created, wl |-> c.wl]
ContractOk(c) ==
  /\ ContractShape(c) /\ c.created \in BOOLEAN
  /\ \/ c.type = "name" /\ c.node = 0 /\ c.project = Gw!NoName /\ c.wl = Gw!Empty
     \/ c.type = "node" /\ c.node \in GwNode

NamesOnce(c) == \A i, j \in DOMAIN c : c[i].type = "name" /\ c[j].type = "name" /\ c[i].name = c[j].name => i = j
ChainOk(c, m) ==
  /\ m \in Nat /\ c = [i \in DOMAIN c |-> c[i]] /\ DOMAIN c \subseteq 1..m
  /\ \A i \in DOMAIN c : ContractOk(c[i])
  /\ NamesOnce(c)

(* A gateway has contracts of its own alone, and none it does not know of   *)
(* before it was put on a node.                                             *)
GwShape(gw) ==
  gw = [name |-> gw.name, data |-> gw.data, fqdn |-> gw.fqdn, node |-> gw.node, ids |-> gw.ids,
        nameId |-> gw.nameId, cid |-> gw.cid]
GwIdsOk(g, ids, c, m) ==
  /\ ids = [n \in DOMAIN ids |-> ids[n]] /\ DOMAIN ids \subseteq GwNode
  /\ \A n \in DOMAIN ids : ids[n] \in 1..m /\ (ids[n] \in DOMAIN c => GwOf(g, c[ids[n]]))
  /\ \A n, k \in DOMAIN ids : n # k => ids[n] # ids[k]
NameIdOk(g, id, c, m) ==
  /\ id \in 0..m /\ (id \in DOMAIN c => c[id].type = "name")
  /\ g \in FqdnKind => id = 0
GwHandOk(g, gw, c, m) ==
  /\ GwShape(gw) /\ gw.node \in GwNode \cup {0}
  /\ GwIdsOk(g, gw.ids, c, m) /\ NameIdOk(g, gw.nameId, c, m)
  /\ (\E i \in DOMAIN c : GwOf(g, c[i])) => gw.node # 0

(* What a gateway deployed without error has.                               *)
OkRight(g, gw, c) ==
  /\ gw.ids = Gw!Single(gw.node, gw.cid)
  /\ gw.cid \in DOMAIN c /\ c[gw.cid] = Gw!NodeContract(g, gw, "ok")
  /\ g \notin FqdnKind => gw.nameId \in DOMAIN c /\ c[gw.nameId] = Gw!NameContract(gw.name)

NameIdsApart(gs) == \A g, h \in Gateway : g # h /\ gs[g].nameId = gs[h].nameId => gs[g].nameId = 0
GwInv ==
  /\ gws = [g \in Gateway |-> gws[g]] /\ outcome = [g \in Gateway |-> outcome[g]]
  /\ ChainOk(chain, made)
  /\ \A g \in Gateway : GwHandOk(g, gws[g], chain, made)
  /\ NameIdsApart(gws)
  /\ \A g \in Gateway : outcome[g] = "ok" => OkRight(g, gws[g], chain)

LEMMA OfOne ==
  ASSUME Gw!GatewayAssumption, NEW g \in Gateway, NEW h \in Gateway, NEW c, GwOf(g, c), GwOf(h, c) PROVE g = h
BY DEF Gw!GatewayAssumption, GwOf, KindOf

(* What another's step does to the contracts of h.                          *)
Spares(h, c, m, c2, m2) ==
  /\ m2 \in Nat /\ m <= m2
  /\ \A i \in DOMAIN c2 :
       \/ i \in DOMAIN c /\ c2[i] = c[i]
       \/ ~GwOf(h, c2[i]) /\ (IF i \in DOMAIN c THEN c[i].type = "node" /\ ~GwOf(h, c[i]) ELSE i > m)
GwKeeps(h, nameId, c, c2) == \A i \in DOMAIN c : GwOf(h, c[i]) \/ i = nameId => i \in DOMAIN c2

LEMMA HandSpared ==
  ASSUME NEW h \in Gateway, NEW gw, NEW c, NEW m, NEW c2, NEW m2,
         DOMAIN c \subseteq 1..m, m \in Nat, GwHandOk(h, gw, c, m), Spares(h, c, m, c2, m2)
  PROVE  GwHandOk(h, gw, c2, m2)
<1>1. \A i \in 1..m : i \in DOMAIN c2 => i \in DOMAIN c BY DEF Spares
<1>2. \A i \in 1..m : i \in 1..m2 BY DEF Spares
<1>3. GwIdsOk(h, gw.ids, c2, m2)
  <2>1. \A n \in DOMAIN gw.ids : gw.ids[n] \in 1..m2 /\ (gw.ids[n] \in DOMAIN c2 => GwOf(h, c2[gw.ids[n]]))
    BY <1>1, <1>2 DEF GwHandOk, GwIdsOk, Spares
  <2> QED BY <2>1 DEF GwHandOk, GwIdsOk
<1>4. NameIdOk(h, gw.nameId, c2, m2)
  <2>1. gw.nameId \in 0..m2 BY DEF GwHandOk, NameIdOk, Spares
  <2>2. ASSUME gw.nameId \in DOMAIN c2 PROVE c2[gw.nameId].type = "name"
    <3>1. gw.nameId \in 0..m BY DEF GwHandOk, NameIdOk
    <3>2. gw.nameId \in DOMAIN c BY <2>2, <3>1 DEF Spares
    <3>3. c[gw.nameId].type # "node" BY <3>2 DEF GwHandOk, NameIdOk
    <3> QED BY <2>2, <3>2, <3>3 DEF Spares, GwHandOk, NameIdOk
  <2> QED BY <2>1, <2>2 DEF GwHandOk, NameIdOk
<1>5. (\E i \in DOMAIN c2 : GwOf(h, c2[i])) => gw.node # 0 BY DEF GwHandOk, Spares
<1> QED BY <1>3, <1>4, <1>5 DEF GwHandOk

LEMMA OkSpared ==
  ASSUME NEW h \in Gateway, NEW gw, NEW c, NEW m, NEW c2, NEW m2,
         DOMAIN c \subseteq 1..m, m \in Nat, GwHandOk(h, gw, c, m), OkRight(h, gw, c),
         Spares(h, c, m, c2, m2), GwKeeps(h, gw.nameId, c, c2)
  PROVE  OkRight(h, gw, c2)
<1>1. GwOf(h, c[gw.cid]) /\ gw.cid \in DOMAIN c2
  <2>1. GwOf(h, c[gw.cid])  BY DEF OkRight, GwOf, KindOf, Gw!NodeContract
  <2> QED BY <2>1 DEF OkRight, GwKeeps
<1>2. c2[gw.cid] = c[gw.cid] BY <1>1 DEF OkRight, Spares
<1>3. ASSUME h \notin FqdnKind PROVE gw.nameId \in DOMAIN c2 /\ c2[gw.nameId] = c[gw.nameId]
  <2>1. gw.nameId \in DOMAIN c /\ c[gw.nameId].type = "name" BY <1>3 DEF OkRight, Gw!NameContract
  <2>2. gw.nameId \in DOMAIN c2 BY <2>1 DEF GwKeeps
  <2> QED BY <2>1, <2>2 DEF Spares
<1> QED BY <1>1, <1>2, <1>3 DEF OkRight

(* A Deploy of one node's contract, for a gateway.                          *)
LEMMA OutcomeRight ==
  ASSUME Gw!GatewayAssumption, NEW g \in Gateway, NEW gw, NEW c, NEW m, ChainOk(c, m), GwHandOk(g, gw, c, m),
         NEW n0 \in GwNode, NEW d, ContractOk(d), GwOf(g, d), NEW new, new = O!Single(n0, d),
         NEW out, Follows(gw.ids, c, new, m, out)
  PROVE  /\ ChainOk(out.grid, out.made) /\ GwIdsOk(g, out.ids, out.grid, out.made)
         /\ \A i \in DOMAIN c : ~GwOf(g, c[i]) => i \in DOMAIN out.grid /\ out.grid[i] = c[i]
         /\ \A h \in Gateway \ {g} : Spares(h, c, m, out.grid, out.made)
         /\ m <= out.made /\ out.made \in Nat
<1> DEFINE ids == gw.ids
           e == out.grid
<1>0. DOMAIN new = {n0} /\ new[n0] = d BY DEF O!Single
<1>1. \A i \in DOMAIN c : ~GwOf(g, c[i]) => i \in DOMAIN e /\ e[i] = c[i]
  <2>1. ASSUME NEW i \in DOMAIN c, ~GwOf(g, c[i]) PROVE \A n \in DOMAIN ids : ids[n] # i
    BY <2>1 DEF GwHandOk, GwIdsOk
  <2> QED BY <2>1 DEF Follows
<1>2. \A n \in DOMAIN out.ids : out.ids[n] \in DOMAIN e => GwOf(g, e[out.ids[n]]) /\ ContractOk(e[out.ids[n]])
  <2> SUFFICES ASSUME NEW n \in DOMAIN out.ids, out.ids[n] \in DOMAIN e
               PROVE  GwOf(g, e[out.ids[n]]) /\ ContractOk(e[out.ids[n]])
    OBVIOUS
  <2>1. CASE n \in DOMAIN new /\ e[out.ids[n]] = new[n] BY <2>1, <1>0
  <2>2. CASE n \in DOMAIN ids /\ ids[n] \in DOMAIN c /\ e[out.ids[n]] = c[ids[n]]
    BY <2>2 DEF GwHandOk, GwIdsOk, ChainOk
  <2> QED BY <2>1, <2>2 DEF Follows
<1>3. \A i \in DOMAIN e : \/ i \in DOMAIN c /\ e[i] = c[i] /\ \A n \in DOMAIN ids : ids[n] # i
                          \/ \E n \in DOMAIN out.ids : i = out.ids[n]
  BY DEF Follows
<1>4. \A i \in DOMAIN e \ DOMAIN c : i \in New(m, out) BY DEF Follows
<1>5. out.made \in Nat /\ m <= out.made /\ m \in Nat BY DEF Follows, ChainOk
<1>6. New(m, out) = (m + 1)..out.made BY DEF New
<1>7. \A i \in DOMAIN e : i \in 1..out.made /\ (i \notin DOMAIN c => i > m)
  <2> SUFFICES ASSUME NEW i \in DOMAIN e PROVE i \in 1..out.made /\ (i \notin DOMAIN c => i > m) OBVIOUS
  <2>1. CASE i \in DOMAIN c BY <2>1, <1>5 DEF ChainOk
  <2>2. CASE i \notin DOMAIN c BY <2>2, <1>4, <1>5, <1>6
  <2> QED BY <2>1, <2>2
<1>8. \A i \in DOMAIN e : (i \in DOMAIN c /\ e[i] = c[i]) \/ (GwOf(g, e[i]) /\ (i \in DOMAIN c => GwOf(g, c[i])))
  <2> SUFFICES ASSUME NEW i \in DOMAIN e, ~(i \in DOMAIN c /\ e[i] = c[i])
               PROVE  GwOf(g, e[i]) /\ (i \in DOMAIN c => GwOf(g, c[i]))
    OBVIOUS
  <2>1. GwOf(g, e[i]) BY <1>2, <1>3
  <2>2. i \in DOMAIN c => GwOf(g, c[i]) BY <1>1
  <2> QED BY <2>1, <2>2
<1>9. ChainOk(e, out.made)
  <2>1. \A i \in DOMAIN e : ContractOk(e[i]) BY <1>2, <1>3 DEF ChainOk
  <2>2. \A i \in DOMAIN e : e[i].type = "name" => i \in DOMAIN c /\ e[i] = c[i] BY <1>8 DEF GwOf
  <2>3. NamesOnce(e) BY <2>2 DEF ChainOk, NamesOnce
  <2>4. e = [i \in DOMAIN e |-> e[i]] BY DEF Follows
  <2> QED BY <2>1, <2>3, <2>4, <1>5, <1>7 DEF ChainOk
<1>10. GwIdsOk(g, out.ids, e, out.made)
  <2>1. DOMAIN out.ids \subseteq GwNode BY <1>0 DEF Follows, GwHandOk, GwIdsOk
  <2>2. \A n \in DOMAIN out.ids : out.ids[n] \in 1..out.made
    BY <1>5, <1>6 DEF Follows, GwHandOk, GwIdsOk
  <2> QED BY <2>1, <2>2, <1>2 DEF Follows, GwIdsOk
<1>11. \A h \in Gateway \ {g} : Spares(h, c, m, e, out.made)
  <2> SUFFICES ASSUME NEW h \in Gateway \ {g}, NEW i \in DOMAIN e, ~(i \in DOMAIN c /\ e[i] = c[i])
               PROVE  ~GwOf(h, e[i]) /\ (IF i \in DOMAIN c THEN c[i].type = "node" /\ ~GwOf(h, c[i]) ELSE i > m)
    BY <1>5 DEF Spares
  <2>1. GwOf(g, e[i]) /\ (i \in DOMAIN c => GwOf(g, c[i])) BY <1>8
  <2>2. ~GwOf(h, e[i]) BY <2>1, OfOne
  <2>3. i \in DOMAIN c => c[i].type = "node" /\ ~GwOf(h, c[i]) BY <2>1, OfOne DEF GwOf
  <2> QED BY <2>2, <2>3, <1>7
<1> QED BY <1>1, <1>5, <1>9, <1>10, <1>11

(* The name contract before a Deploy.                                       *)
NamedWell(g, gw, c, m, r) ==
  /\ ChainOk(r.chain, r.made) /\ m <= r.made
  /\ NameIdOk(g, r.id, r.chain, r.made)
  /\ r.id = 0 \/ r.id = gw.nameId \/ (r.id = r.made /\ r.id > m)
  /\ \A i \in DOMAIN c : i # gw.nameId => i \in DOMAIN r.chain /\ r.chain[i] = c[i]
  /\ \A i \in DOMAIN r.chain : IF i \in DOMAIN c THEN r.chain[i] = c[i] ELSE i > m /\ r.chain[i].type = "name"
  /\ r.ok /\ g \notin FqdnKind => r.id \in DOMAIN r.chain /\ r.chain[r.id] = Gw!NameContract(gw.name)
  /\ r.ok /\ gw.nameId \in DOMAIN c /\ c[gw.nameId].created /\ gw.nameId \in DOMAIN r.chain => r.id = gw.nameId

LEMMA NamedRight ==
  ASSUME Gw!GatewayAssumption, NEW g \in Gateway, NEW gw, NEW c, NEW m, ChainOk(c, m), GwHandOk(g, gw, c, m),
         NEW r \in Gw!Named(g, gw, c, m)
  PROVE  NamedWell(g, gw, c, m, r)
<1>1. CASE g \in FqdnKind
  <2>1. r = [id |-> gw.nameId, chain |-> c, made |-> m, ok |-> TRUE] BY <1>1 DEF Gw!Named
  <2>2. 0 \notin DOMAIN c /\ gw.nameId = 0 BY <1>1 DEF ChainOk, GwHandOk, NameIdOk
  <2> QED BY <1>1, <2>1, <2>2 DEF NamedWell, GwHandOk, NameIdOk, ChainOk
<1>2. CASE g \notin FqdnKind
  <2> DEFINE id == gw.nameId
  <2>0. id \in 0..m /\ m \in Nat /\ 0 \notin DOMAIN c /\ (id \in DOMAIN c => c[id].type = "name")
    BY DEF ChainOk, GwHandOk, NameIdOk
  <2>1. PICK q \in Gw!InvalidateNameContract(c, id, gw.name) :
          r = IF ~q.ok \/ (q.id = 0 /\ Gw!Registered(q.chain, gw.name))
                THEN [id |-> q.id, chain |-> q.chain, made |-> m, ok |-> FALSE]
              ELSE IF q.id # 0 THEN [id |-> q.id, chain |-> q.chain, made |-> m, ok |-> TRUE]
              ELSE [id |-> m + 1, chain |-> Gw!Over(Gw!Single(m + 1, Gw!NameContract(gw.name)), q.chain),
                    made |-> m + 1, ok |-> TRUE]
    BY <1>2 DEF Gw!Named
  <2>2. \/ q = [id |-> 0, chain |-> c, ok |-> TRUE] /\ (id \in DOMAIN c => ~c[id].created)
        \/ q = [id |-> 0, chain |-> c, ok |-> FALSE]
        \/ id \in DOMAIN c /\ q = [id |-> 0, chain |-> Gw!Without(c, {id}), ok |-> TRUE]
        \/ /\ id \in DOMAIN c /\ c[id].name = gw.name /\ c[id].created
           /\ q = [id |-> id, chain |-> c, ok |-> TRUE]
    BY <2>0 DEF Gw!InvalidateNameContract
  <2>3. /\ ChainOk(q.chain, m)
        /\ \A i \in DOMAIN c : i # id => i \in DOMAIN q.chain
        /\ \A i \in DOMAIN q.chain : i \in DOMAIN c /\ q.chain[i] = c[i]
    <3>1. CASE q.chain = c BY <3>1
    <3>2. CASE q.chain = Gw!Without(c, {id})
      <4>1. DOMAIN q.chain = DOMAIN c \ {id} /\ \A i \in DOMAIN q.chain : q.chain[i] = c[i] BY <3>2 DEF Gw!Without
      <4>2. q.chain = [i \in DOMAIN q.chain |-> q.chain[i]] BY <3>2 DEF Gw!Without
      <4> QED BY <4>1, <4>2 DEF ChainOk, NamesOnce
    <3> QED BY <2>2, <3>1, <3>2
  <2>4. q.id = 0 \/ (q.ok /\ q.id = id /\ id # 0 /\ q.chain = c /\ id \in DOMAIN c /\ c[id].name = gw.name /\ c[id].created)
    BY <2>0, <2>2
  <2>5. q.ok /\ id \in DOMAIN c /\ c[id].created /\ id \in DOMAIN q.chain => q.id = id
    BY <2>2 DEF Gw!Without
  <2>6. CASE r.ok /\ q.id = 0
    <3> DEFINE new == Gw!NameContract(gw.name)
    <3>1. r = [id |-> m + 1, chain |-> Gw!Over(Gw!Single(m + 1, new), q.chain), made |-> m + 1, ok |-> TRUE]
      BY <2>1, <2>6
    <3>2. ~Gw!Registered(q.chain, gw.name) /\ q.ok BY <2>1, <2>6
    <3>3. m + 1 \notin DOMAIN q.chain /\ m + 1 \notin DOMAIN c /\ m + 1 # id /\ m + 1 > m BY <2>0, <2>3 DEF ChainOk
    <3>4. /\ DOMAIN r.chain = DOMAIN q.chain \cup {m + 1} /\ r.chain[m + 1] = new
          /\ \A i \in DOMAIN q.chain : r.chain[i] = q.chain[i]
          /\ r.chain = [i \in DOMAIN r.chain |-> r.chain[i]]
      BY <3>1, <3>3 DEF Gw!Over, Gw!Single
    <3>5. new.type = "name" /\ new.name = gw.name /\ ContractOk(new)
      BY DEF Gw!NameContract, ContractOk, ContractShape
    <3> HIDE DEF new
    <3>6. \A i \in DOMAIN q.chain : ~(q.chain[i].type = "name" /\ q.chain[i].name = gw.name) BY <3>2 DEF Gw!Registered
    <3>7. ChainOk(r.chain, m + 1)
      <4>1. NamesOnce(r.chain) BY <3>3, <3>4, <3>5, <3>6, <2>3 DEF ChainOk, NamesOnce
      <4>2. DOMAIN r.chain \subseteq 1..(m + 1) BY <3>4, <2>0, <2>3 DEF ChainOk
      <4>3. \A i \in DOMAIN r.chain : ContractOk(r.chain[i]) BY <3>4, <3>5, <2>3 DEF ChainOk
      <4> QED BY <4>1, <4>2, <4>3, <3>4, <2>0 DEF ChainOk
    <3>8. NameIdOk(g, m + 1, r.chain, m + 1) BY <1>2, <2>0, <3>4, <3>5 DEF NameIdOk
    <3>9. r.id = m + 1 /\ r.made = m + 1 BY <3>1
    <3>10. \A i \in DOMAIN c : i # id => i \in DOMAIN r.chain /\ r.chain[i] = c[i] BY <2>3, <3>4
    <3>11. \A i \in DOMAIN r.chain : IF i \in DOMAIN c THEN r.chain[i] = c[i] ELSE i > m /\ r.chain[i].type = "name"
      BY <2>3, <3>3, <3>4, <3>5
    <3>12. id \in DOMAIN c /\ c[id].created => id \notin DOMAIN r.chain
      BY <2>0, <2>5, <3>2, <3>3, <3>4, <2>6
    <3>13. r.chain[r.id] = Gw!NameContract(gw.name) /\ r.id \in DOMAIN r.chain BY <3>4, <3>9 DEF new
    <3>14. m <= r.made BY <3>9, <2>0
    <3> QED BY <3>3, <3>7, <3>8, <3>9, <3>10, <3>11, <3>12, <3>13, <3>14 DEF NamedWell
  <2>7. CASE r.ok /\ q.id # 0
    <3>1. r.id = id /\ r.chain = c /\ r.made = m BY <2>1, <2>4, <2>7
    <3>2. ContractOk(c[id]) /\ c[id].type = "name" BY <2>0, <2>4, <2>7 DEF ChainOk
    <3>3. c[id] = Gw!NameContract(gw.name)
      <4>1. ContractShape(c[id]) /\ c[id].node = 0 /\ c[id].project = Gw!NoName /\ c[id].wl = Gw!Empty
        BY <3>2 DEF ContractOk
      <4>2. c[id].created = TRUE BY <3>2, <2>4, <2>7 DEF ContractOk
      <4> QED BY <4>1, <4>2, <3>2, <2>4, <2>7 DEF Gw!NameContract, ContractShape
    <3> QED BY <3>1, <3>3, <2>0, <2>3, <2>4, <2>7 DEF NamedWell, GwHandOk, NameIdOk
  <2>8. CASE ~r.ok
    <3>1. r.id = q.id /\ r.chain = q.chain /\ r.made = m BY <2>1, <2>8
    <3>2. NameIdOk(g, r.id, r.chain, m) BY <1>2, <2>0, <2>3, <2>4, <3>1 DEF NameIdOk, ChainOk
    <3> QED BY <3>1, <3>2, <2>0, <2>3, <2>4, <2>8 DEF NamedWell
  <2> QED BY <2>6, <2>7, <2>8
<1> QED BY <1>1, <1>2

LEMMA SparesBoth ==
  ASSUME NEW h \in Gateway, NEW c, NEW m, NEW c2, NEW m2, NEW c3, NEW m3, m \in Nat, DOMAIN c \subseteq 1..m, DOMAIN c3 \subseteq Nat,
         Spares(h, c, m, c2, m2), Spares(h, c2, m2, c3, m3)
  PROVE  /\ Spares(h, c, m, c3, m3)
         /\ \A id : GwKeeps(h, id, c, c2) /\ GwKeeps(h, id, c2, c3) => GwKeeps(h, id, c, c3)
<1>1. m2 \in Nat /\ m3 \in Nat /\ m <= m2 /\ m <= m3 BY DEF Spares
<1>2. \A i \in DOMAIN c : i \in 1..m2 BY <1>1
<1>3. ASSUME NEW i \in DOMAIN c3, ~(i \in DOMAIN c /\ c3[i] = c[i])
      PROVE  ~GwOf(h, c3[i]) /\ (IF i \in DOMAIN c THEN c[i].type = "node" /\ ~GwOf(h, c[i]) ELSE i > m)
  <2>1. CASE i \in DOMAIN c2 /\ c3[i] = c2[i] BY <1>3, <2>1 DEF Spares
  <2>2. CASE i \in DOMAIN c2 /\ c3[i] # c2[i] BY <1>3, <2>2 DEF Spares
  <2>3. CASE i \notin DOMAIN c2
    <3>1. ~GwOf(h, c3[i]) /\ i > m2 BY <2>3 DEF Spares
    <3>2. i \notin DOMAIN c BY <3>1, <1>2, <1>1
    <3>3. i > m BY <3>1, <1>1
    <3> QED BY <3>1, <3>2, <3>3
  <2> QED BY <2>1, <2>2, <2>3
<1>4. Spares(h, c, m, c3, m3) BY <1>1, <1>3 DEF Spares
<1>5. ASSUME NEW id, GwKeeps(h, id, c, c2), GwKeeps(h, id, c2, c3) PROVE GwKeeps(h, id, c, c3)
  <2>1. \A i \in DOMAIN c : GwOf(h, c[i]) => i \in DOMAIN c2 /\ GwOf(h, c2[i]) BY <1>5 DEF GwKeeps, Spares
  <2> QED BY <1>5, <2>1 DEF GwKeeps
<1> QED BY <1>4, <1>5

LEMMA NamedHand ==
  ASSUME NEW g \in Gateway, NEW gw, NEW c, NEW m, ChainOk(c, m), GwHandOk(g, gw, c, m), NEW r, NamedWell(g, gw, c, m, r)
  PROVE  /\ GwHandOk(g, [gw EXCEPT !.nameId = r.id], r.chain, r.made)
         /\ GwIdsOk(g, gw.ids, r.chain, r.made)
         /\ \A h \in Gateway : Spares(h, c, m, r.chain, r.made)
         /\ \A h \in Gateway : \A id : id = 0 \/ id # gw.nameId => GwKeeps(h, id, c, r.chain)
<1>1. m \in Nat /\ r.made \in Nat /\ m <= r.made /\ 0 \notin DOMAIN c BY DEF ChainOk, NamedWell
<1>2. \A h \in Gateway : Spares(h, c, m, r.chain, r.made)
  BY <1>1 DEF NamedWell, Spares, GwOf
<1>3. \A h \in Gateway : \A id : id = 0 \/ id # gw.nameId => GwKeeps(h, id, c, r.chain)
  <2>1. \A h \in Gateway, i \in DOMAIN c : GwOf(h, c[i]) => i # gw.nameId BY DEF GwHandOk, NameIdOk, GwOf
  <2> QED BY <1>1, <2>1 DEF NamedWell, GwKeeps
<1>5. \A i \in 1..m : i \in 1..r.made /\ (i \in DOMAIN r.chain => i \in DOMAIN c /\ r.chain[i] = c[i])
  BY <1>1 DEF NamedWell
<1>6. GwIdsOk(g, gw.ids, r.chain, r.made) BY <1>5 DEF GwHandOk, GwIdsOk
<1>7. (\E i \in DOMAIN r.chain : GwOf(g, r.chain[i])) => gw.node # 0 BY DEF NamedWell, GwHandOk, GwOf
<1>8. GwHandOk(g, [gw EXCEPT !.nameId = r.id], r.chain, r.made)
  <2> DEFINE x == [gw EXCEPT !.nameId = r.id]
  <2>1. /\ x.nameId = r.id /\ x.ids = gw.ids /\ x.node = gw.node /\ GwShape(x)
    BY DEF GwHandOk, GwShape
  <2> HIDE DEF x
  <2>2. GwHandOk(g, x, r.chain, r.made) BY <2>1, <1>6, <1>7 DEF GwHandOk, NamedWell
  <2> QED BY <2>2 DEF x
<1> QED BY <1>2, <1>3, <1>6, <1>8

(* What a caller asks of a gateway it has.                                  *)
AskedOf(g, gw) ==
  GwShape(gw) /\ gw.node \in GwNode /\ gw.ids = gws[g].ids /\ gw.nameId = gws[g].nameId

LEMMA AskedHand ==
  ASSUME Gw!GatewayAssumption, GwInv, NEW g \in Gateway, NEW gw, AskedOf(g, gw) PROVE GwHandOk(g, gw, chain, made)
<1>1. GwHandOk(g, gws[g], chain, made) BY DEF GwInv
<1>2. gw.node # 0 BY DEF AskedOf, Gw!GatewayAssumption
<1> QED BY <1>1, <1>2 DEF AskedOf, GwHandOk

(* A step of one gateway: what is left to be shown of it.                   *)
NameStays(g, x, how) ==
  /\ x.nameId = 0 \/ x.nameId = gws[g].nameId \/ x.nameId > made
  /\ gws[g].nameId # 0 /\ Gw!IsValidContract(gws[g].nameId) /\ gws[g].nameId \in DOMAIN chain'
       /\ chain'[gws[g].nameId].created => x.nameId = gws[g].nameId \/ how = "unnamed"
GwSpared(g) ==
  \A h \in Gateway \ {g} : Spares(h, chain, made, chain', made') /\ GwKeeps(h, gws[h].nameId, chain, chain')
Takes(g, x, how) == gws' = [gws EXCEPT ![g] = x] /\ outcome' = [outcome EXCEPT ![g] = how]
LEMMA OneStep ==
  ASSUME GwInv, NEW g \in Gateway, NEW x, NEW how, Takes(g, x, how),
         ChainOk(chain', made'), GwHandOk(g, x, chain', made'), GwSpared(g), NameStays(g, x, how),
         how = "ok" => OkRight(g, x, chain')
  PROVE  GwInv' /\ Gw!NameStep /\ (how \notin {"synced", "loaded"} => Gw!ReadStep)
<1>1. /\ gws'[g] = x /\ outcome'[g] = how
      /\ \A h \in Gateway \ {g} : gws'[h] = gws[h] /\ outcome'[h] = outcome[h]
      /\ gws' = [h \in Gateway |-> gws'[h]] /\ outcome' = [h \in Gateway |-> outcome'[h]]
  BY DEF GwInv, Takes
<1>2. made \in Nat /\ DOMAIN chain \subseteq 1..made BY DEF GwInv, ChainOk
<1>3. ASSUME NEW h \in Gateway PROVE GwHandOk(h, gws'[h], chain', made')
  <2>1. CASE h = g BY <2>1, <1>1
  <2>2. CASE h # g BY <2>2, <1>1, <1>2, HandSpared DEF GwSpared, GwInv
  <2> QED BY <2>1, <2>2
<1>4. ASSUME NEW h \in Gateway, outcome'[h] = "ok" PROVE OkRight(h, gws'[h], chain')
  <2>1. CASE h = g BY <2>1, <1>1, <1>4
  <2>2. CASE h # g BY <2>2, <1>1, <1>2, <1>4, OkSpared DEF GwSpared, GwInv
  <2> QED BY <2>1, <2>2
<1>5. NameIdsApart(gws')
  <2>1. \A h \in Gateway : gws[h].nameId \in 0..made BY DEF GwInv, GwHandOk, NameIdOk
  <2>2. \A h \in Gateway : gws[h].nameId <= made BY <2>1, <1>2
  <2>3. \A h \in Gateway : ~(gws[h].nameId > made) BY <2>1, <1>2
  <2>4. \A h \in Gateway \ {g} : x.nameId = gws[h].nameId => x.nameId = 0
    BY <2>3 DEF GwInv, NameIdsApart, NameStays
  <2> QED BY <2>4, <1>1 DEF GwInv, NameIdsApart
<1>6. GwInv' BY <1>1, <1>3, <1>4, <1>5 DEF GwInv
<1>7. Gw!NameStep
  <2> SUFFICES ASSUME NEW h \in Gateway, gws[h].nameId # 0, Gw!IsValidContract(gws[h].nameId),
                      gws[h].nameId \in DOMAIN chain', chain'[gws[h].nameId].created
               PROVE  gws'[h].nameId = gws[h].nameId \/ outcome'[h] = "unnamed"
    BY DEF Gw!NameStep
  <2> QED BY <1>1 DEF NameStays
<1>8. ASSUME how \notin {"synced", "loaded"} PROVE Gw!ReadStep
  <2> SUFFICES ASSUME NEW h \in Gateway, outcome[h] = "ok", outcome'[h] \in {"synced", "loaded"} PROVE FALSE
    BY DEF Gw!ReadStep
  <2> QED BY <1>1, <1>8
<1> QED BY <1>6, <1>7, <1>8

LEMMA SameFailures ==
  \A ids, g, stuck, m : Gw!Failures(ids, g, stuck, m) = O!Failures(ids, g, stuck, m)
BY DEF Gw!Failures, O!Failures, Gw!Left, O!Left, Gw!Fresh, O!Fresh, Gw!Cardinality, O!Cardinality,
       Gw!IsFiniteSet, O!IsFiniteSet
LEMMA SameSucceeded ==
  \A ids, g, new, m : /\ Gw!Succeeded(ids, g, new, m) = O!Succeeded(ids, g, new, m)
                      /\ Gw!Succeeds(ids, g, new) <=> O!Succeeds(ids, g, new)
BY DEF Gw!Succeeded, O!Succeeded, Gw!Succeeds, O!Succeeds, Gw!Fresh, O!Fresh, Gw!Cardinality, O!Cardinality,
       Gw!IsFiniteSet, O!IsFiniteSet

SetTo(gw, ids, nameId, cid) == [gw EXCEPT !.ids = ids, !.nameId = nameId, !.cid = cid]
LEMMA SetGwIs ==
  ASSUME NEW gw, GwShape(gw), NEW i, NEW n, NEW k
  PROVE  SetTo(gw, i, n, k) = [name |-> gw.name, data |-> gw.data, fqdn |-> gw.fqdn, node |-> gw.node,
                               ids |-> i, nameId |-> n, cid |-> k]
<1> DEFINE e == SetTo(gw, i, n, k)
           r == [name |-> gw.name, data |-> gw.data, fqdn |-> gw.fqdn, node |-> gw.node, ids |-> i, nameId |-> n, cid |-> k]
           at(f) == IF f = "cid" THEN k ELSE IF f = "nameId" THEN n ELSE IF f = "ids" THEN i ELSE gw[f]
<1>1. DOMAIN gw = {"name", "data", "fqdn", "node", "ids", "nameId", "cid"} BY DEF GwShape
<1>2. e = [f \in DOMAIN gw |-> at(f)] BY DEF SetTo
<1>3. r = [f \in DOMAIN gw |-> at(f)] BY <1>1
<1> QED BY <1>2, <1>3

LEMMA SetGw ==
  ASSUME NEW gw, GwShape(gw), NEW i, NEW n, NEW k, NEW x, x = SetTo(gw, i, n, k)
  PROVE  /\ x.name = gw.name /\ x.data = gw.data /\ x.fqdn = gw.fqdn /\ x.node = gw.node
         /\ x.ids = i /\ x.nameId = n /\ x.cid = k /\ GwShape(x)
<1>1. x = [name |-> gw.name, data |-> gw.data, fqdn |-> gw.fqdn, node |-> gw.node, ids |-> i, nameId |-> n, cid |-> k]
  BY SetGwIs
<1> QED BY <1>1 DEF GwShape

LEMMA GivenIs ==
  ASSUME Gw!GatewayAssumption, NEW g \in Gateway, NEW gw, NEW c, NEW m, ChainOk(c, m), GwIdsOk(g, gw.ids, c, m),
         NEW n0 \in GwNode, NEW d
  PROVE  Given(gw.ids, c, O!Single(n0, d), m)
<1>1. DOMAIN O!Single(n0, d) = {n0} /\ IsFiniteSet({n0}) BY FS_Singleton DEF O!Single
<1>2. IsFiniteSet(GwNode) /\ GwNode \subseteq Nat
  BY DEF Gw!GatewayAssumption, Gw!IsFiniteSet, IsFiniteSet
<1>3. DOMAIN gw.ids \in SUBSET GwNode BY DEF GwIdsOk
<1>4. IsFiniteSet(DOMAIN gw.ids) BY <1>2, <1>3, FS_Subset
<1> QED BY <1>1, <1>2, <1>3, <1>4 DEF Given, ChainOk, GwIdsOk

(* What a Deploy does, its name settled, before the id of a contract is     *)
(* noted.                                                                   *)
LEMMA DeployLeaves ==
  ASSUME Gw!GatewayAssumption, GwInv, NEW g \in Gateway, NEW gw, AskedOf(g, gw),
         NEW r, NamedWell(g, gw, chain, made, r), r.ok, NEW state,
         NEW out, Follows(gw.ids, r.chain, O!Single(gw.node, Gw!NodeContract(g, gw, state)), r.made, out)
  PROVE  /\ ChainOk(out.grid, out.made) /\ GwIdsOk(g, out.ids, out.grid, out.made)
         /\ NameIdOk(g, r.id, out.grid, out.made)
         /\ \A h \in Gateway \ {g} : Spares(h, chain, made, out.grid, out.made)
                                     /\ GwKeeps(h, gws[h].nameId, chain, out.grid)
         /\ r.id \in DOMAIN r.chain => r.id \in DOMAIN out.grid /\ out.grid[r.id] = r.chain[r.id]
         /\ r.id = 0 \/ r.id = gws[g].nameId \/ r.id > made
         /\ gws[g].nameId # 0 /\ Gw!IsValidContract(gws[g].nameId) /\ gws[g].nameId \in DOMAIN out.grid
              => r.id = gws[g].nameId
<1> DEFINE d == Gw!NodeContract(g, gw, state)
           c == r.chain
           m == r.made
           e == out.grid
<1>1. GwHandOk(g, gw, chain, made) /\ ChainOk(chain, made) /\ gw.nameId = gws[g].nameId /\ gw.node \in GwNode
  BY AskedHand DEF GwInv, AskedOf
<1>2. /\ \A h \in Gateway : Spares(h, chain, made, c, m)
      /\ \A h \in Gateway : \A id : id = 0 \/ id # gw.nameId => GwKeeps(h, id, chain, c)
  BY <1>1, NamedHand
<1>3. ChainOk(c, m) /\ made \in Nat /\ m \in Nat /\ made <= m /\ DOMAIN chain \subseteq 1..made
  BY <1>1 DEF NamedWell, ChainOk
<1>4. GwHandOk(g, gw, c, m) BY <1>1, <1>2, <1>3, HandSpared
<1>5. ContractOk(d) /\ GwOf(g, d)
  BY <1>1 DEF ContractOk, ContractShape, GwOf, KindOf, Gw!NodeContract
<1> HIDE DEF d
<1>6. /\ ChainOk(e, out.made) /\ GwIdsOk(g, out.ids, e, out.made)
      /\ \A i \in DOMAIN c : ~GwOf(g, c[i]) => i \in DOMAIN e /\ e[i] = c[i]
      /\ \A h \in Gateway \ {g} : Spares(h, c, m, e, out.made)
      /\ m <= out.made /\ out.made \in Nat
  BY <1>1, <1>3, <1>4, <1>5, OutcomeRight DEF d
<1>7. \A i \in DOMAIN e : i \in DOMAIN c \/ i > m
  <2>1. \A i \in DOMAIN e \ DOMAIN c : i \in New(m, out) BY DEF Follows
  <2> QED BY <2>1, <1>3, <1>6 DEF New
<1>8. r.id \in 0..m /\ (r.id \in DOMAIN c => c[r.id].type = "name") /\ (g \in FqdnKind => r.id = 0)
  BY DEF NamedWell, NameIdOk
<1>9. r.id \in DOMAIN c => r.id \in DOMAIN e /\ e[r.id] = c[r.id] BY <1>6, <1>8 DEF GwOf
<1>10. NameIdOk(g, r.id, e, out.made)
  <2>1. r.id \in DOMAIN e => r.id \in DOMAIN c BY <1>3, <1>7, <1>8
  <2> QED BY <2>1, <1>3, <1>6, <1>8, <1>9 DEF NameIdOk
<1>11. ASSUME NEW h \in Gateway \ {g}
       PROVE  Spares(h, chain, made, e, out.made) /\ GwKeeps(h, gws[h].nameId, chain, e)
  <2> DEFINE id == gws[h].nameId
  <2>1. DOMAIN e \subseteq Nat BY <1>6 DEF ChainOk
  <2>2. Spares(h, chain, made, c, m) /\ Spares(h, c, m, e, out.made) BY <1>2, <1>6
  <2>3. GwKeeps(h, id, chain, c) BY <1>1, <1>2 DEF GwInv, NameIdsApart
  <2>4. GwHandOk(h, gws[h], c, m) BY <2>2, <1>3, HandSpared DEF GwInv
  <2>5. \A i \in DOMAIN c : GwOf(h, c[i]) \/ i = id => ~GwOf(g, c[i])
    BY <2>4, OfOne DEF GwHandOk, NameIdOk, GwOf
  <2>6. GwKeeps(h, id, c, e) BY <2>5, <1>6 DEF GwKeeps
  <2> QED BY <2>1, <2>2, <2>3, <2>6, <1>3, SparesBoth
<1>12. r.id = 0 \/ r.id = gws[g].nameId \/ r.id > made BY <1>1 DEF NamedWell
<1>13. ASSUME gws[g].nameId # 0, Gw!IsValidContract(gws[g].nameId), gws[g].nameId \in DOMAIN e
       PROVE  r.id = gws[g].nameId
  <2>1. gws[g].nameId \in DOMAIN chain /\ chain[gws[g].nameId].created
    BY <1>13 DEF Gw!IsValidContract, Gw!Exists
  <2>2. gws[g].nameId \in DOMAIN c BY <2>1, <1>3, <1>7, <1>13
  <2> QED BY <2>1, <2>2, <1>1, <1>3 DEF NamedWell
<1> QED BY <1>6, <1>9, <1>10, <1>11, <1>12, <1>13

LEMMA DeploySucceedsRight ==
  ASSUME Gw!GatewayAssumption, GwInv, NEW g \in Gateway, NEW gw, AskedOf(g, gw),
         NEW r, NamedWell(g, gw, chain, made, r), Gw!DeploySucceeds(g, gw, r)
  PROVE  GwInv' /\ Gw!NameStep /\ Gw!ReadStep
<1> DEFINE d == Gw!NodeContract(g, gw, "ok")
           new == O!Single(gw.node, d)
           out == O!Succeeded(gw.ids, r.chain, new, r.made)
           x == [gw EXCEPT !.ids = out.ids, !.nameId = r.id, !.cid = out.ids[gw.node]]
<1>1. /\ r.ok /\ O!Succeeds(gw.ids, r.chain, new)
      /\ gws' = [gws EXCEPT ![g] = x] /\ chain' = out.grid /\ made' = out.made
      /\ outcome' = [outcome EXCEPT ![g] = "ok"]
  BY SameSucceeded DEF Gw!DeploySucceeds, Gw!Ends, Gw!Single, O!Single
<1>2. Follows(gw.ids, r.chain, new, r.made, out) /\ Reached(new, out)
  <2>1. ChainOk(chain, made) /\ GwHandOk(g, gw, chain, made) /\ gw.node \in GwNode BY AskedHand DEF GwInv, AskedOf
  <2>2. GwIdsOk(g, gw.ids, r.chain, r.made) /\ ChainOk(r.chain, r.made) BY <2>1, NamedHand DEF NamedWell
  <2>3. Given(gw.ids, r.chain, new, r.made) BY <2>1, <2>2, GivenIs
  <2> HIDE DEF new
  <2> QED BY <2>3, <1>1, SucceededFollows
<1> HIDE DEF out
<1>3. /\ ChainOk(out.grid, out.made) /\ GwIdsOk(g, out.ids, out.grid, out.made)
      /\ NameIdOk(g, r.id, out.grid, out.made)
      /\ \A h \in Gateway \ {g} : Spares(h, chain, made, out.grid, out.made)
                                  /\ GwKeeps(h, gws[h].nameId, chain, out.grid)
      /\ r.id \in DOMAIN r.chain => r.id \in DOMAIN out.grid /\ out.grid[r.id] = r.chain[r.id]
      /\ r.id = 0 \/ r.id = gws[g].nameId \/ r.id > made
      /\ gws[g].nameId # 0 /\ Gw!IsValidContract(gws[g].nameId) /\ gws[g].nameId \in DOMAIN out.grid
           => r.id = gws[g].nameId
  BY <1>1, <1>2, DeployLeaves
<1>4. /\ out.ids = [n \in DOMAIN out.ids |-> out.ids[n]] /\ DOMAIN out.ids = {gw.node}
      /\ out.ids[gw.node] \in DOMAIN out.grid /\ out.grid[out.ids[gw.node]] = d
  BY <1>2 DEF Follows, Reached, O!Single
<1>x. x = SetTo(gw, out.ids, r.id, out.ids[gw.node]) BY DEF SetTo
<1> HIDE DEF x, new, d
<1>5. /\ x.name = gw.name /\ x.data = gw.data /\ x.fqdn = gw.fqdn /\ x.node = gw.node
      /\ x.ids = out.ids /\ x.nameId = r.id /\ x.cid = out.ids[gw.node] /\ GwShape(x)
  BY <1>x, SetGw DEF AskedOf
<1>6. GwHandOk(g, x, out.grid, out.made)
  <2>1. gw.node \in GwNode /\ gw.node # 0 BY DEF AskedOf, Gw!GatewayAssumption
  <2> QED BY <2>1, <1>3, <1>5 DEF GwHandOk
<1>7. OkRight(g, x, out.grid)
  <2>1. x.ids = Gw!Single(x.node, x.cid) BY <1>4, <1>5 DEF Gw!Single
  <2>2. Gw!NodeContract(g, x, "ok") = d BY <1>5 DEF d, Gw!NodeContract
  <2>3. ASSUME g \notin FqdnKind PROVE x.nameId \in DOMAIN out.grid /\ out.grid[x.nameId] = Gw!NameContract(x.name)
    BY <2>3, <1>1, <1>3, <1>5 DEF NamedWell
  <2> QED BY <2>1, <2>2, <2>3, <1>4, <1>5 DEF OkRight
<1>8. GwSpared(g) /\ NameStays(g, x, "ok") BY <1>1, <1>3, <1>5 DEF GwSpared, NameStays
<1>9. Takes(g, x, "ok") BY <1>1 DEF Takes, x
<1> QED BY <1>1, <1>3, <1>6, <1>7, <1>8, <1>9, OneStep

LEMMA DeployFailsRight ==
  ASSUME Gw!GatewayAssumption, GwInv, NEW g \in Gateway, NEW gw, AskedOf(g, gw),
         NEW r, NamedWell(g, gw, chain, made, r), Gw!DeployFails(g, gw, r)
  PROVE  GwInv' /\ Gw!NameStep /\ Gw!ReadStep
<1> DEFINE new == O!Single(gw.node, Gw!NodeContract(g, gw, "error"))
<1>0. PICK out \in O!Failures(gw.ids, r.chain, new, r.made), cancelled \in BOOLEAN : \E cid :
        /\ r.ok /\ outcome' = [outcome EXCEPT ![g] = "failed"]
        /\ gws' = [gws EXCEPT ![g] = [gw EXCEPT !.ids = out.ids, !.nameId = r.id, !.cid = cid]]
        /\ chain' = IF g \notin FqdnKind /\ cancelled THEN Gw!Without(out.grid, {r.id}) ELSE out.grid
        /\ made' = out.made
  <2>1. PICK out \in O!Failures(gw.ids, r.chain, new, r.made), cancelled \in BOOLEAN :
          LET known == g \in FqdnKind /\ gw.node \in DOMAIN out.ids
          IN  /\ gws' = [gws EXCEPT ![g] = [gw EXCEPT !.ids = out.ids, !.nameId = r.id,
                                                      !.cid = IF known THEN out.ids[gw.node] ELSE @]]
              /\ chain' = IF g \notin FqdnKind /\ cancelled THEN Gw!Without(out.grid, {r.id}) ELSE out.grid
              /\ made' = out.made
    BY SameFailures DEF Gw!DeployFails, Gw!Single, O!Single
  <2>2. r.ok /\ outcome' = [outcome EXCEPT ![g] = "failed"] BY DEF Gw!DeployFails, Gw!Ends
  <2> HIDE DEF new
  <2> QED BY <2>1, <2>2
<1>1. PICK cid :
        /\ r.ok /\ outcome' = [outcome EXCEPT ![g] = "failed"]
        /\ gws' = [gws EXCEPT ![g] = [gw EXCEPT !.ids = out.ids, !.nameId = r.id, !.cid = cid]]
        /\ chain' = IF g \notin FqdnKind /\ cancelled THEN Gw!Without(out.grid, {r.id}) ELSE out.grid
        /\ made' = out.made
  BY <1>0
<1> DEFINE x == [gw EXCEPT !.ids = out.ids, !.nameId = r.id, !.cid = cid]
<1>2. Follows(gw.ids, r.chain, new, r.made, out)
  <2>1. ChainOk(chain, made) /\ GwHandOk(g, gw, chain, made) /\ gw.node \in GwNode BY AskedHand DEF GwInv, AskedOf
  <2>2. GwIdsOk(g, gw.ids, r.chain, r.made) /\ ChainOk(r.chain, r.made) BY <2>1, NamedHand DEF NamedWell
  <2>3. Given(gw.ids, r.chain, new, r.made) BY <2>1, <2>2, GivenIs
  <2> HIDE DEF new
  <2> QED BY <2>3, FailuresFollow
<1>3. /\ ChainOk(out.grid, out.made) /\ GwIdsOk(g, out.ids, out.grid, out.made)
      /\ NameIdOk(g, r.id, out.grid, out.made)
      /\ \A h \in Gateway \ {g} : Spares(h, chain, made, out.grid, out.made)
                                  /\ GwKeeps(h, gws[h].nameId, chain, out.grid)
      /\ r.id = 0 \/ r.id = gws[g].nameId \/ r.id > made
      /\ gws[g].nameId # 0 /\ Gw!IsValidContract(gws[g].nameId) /\ gws[g].nameId \in DOMAIN out.grid
           => r.id = gws[g].nameId
  BY <1>1, <1>2, DeployLeaves
<1>x. x = SetTo(gw, out.ids, r.id, cid) BY DEF SetTo
<1> HIDE DEF x, new
<1>5. x.node = gw.node /\ x.ids = out.ids /\ x.nameId = r.id /\ GwShape(x) BY <1>x, SetGw DEF AskedOf
<1>6. GwHandOk(g, x, out.grid, out.made)
  <2>1. gw.node \in GwNode /\ gw.node # 0 BY DEF AskedOf, Gw!GatewayAssumption
  <2> QED BY <2>1, <1>3, <1>5 DEF GwHandOk
<1>7. /\ ChainOk(chain', made') /\ GwHandOk(g, x, chain', made') /\ DOMAIN chain' \subseteq DOMAIN out.grid
      /\ \A h \in Gateway \ {g} : Spares(h, chain, made, chain', made')
                                  /\ GwKeeps(h, gws[h].nameId, chain, chain')
  <2>1. CASE chain' = out.grid BY <2>1, <1>1, <1>3, <1>6
  <2>2. CASE chain' = Gw!Without(out.grid, {r.id})
    <3> DEFINE f == out.grid
    <3>1. /\ DOMAIN chain' = DOMAIN f \ {r.id} /\ \A i \in DOMAIN chain' : chain'[i] = f[i]
          /\ chain' = [i \in DOMAIN chain' |-> chain'[i]]
      BY <2>2 DEF Gw!Without
    <3>2. ChainOk(chain', made')
      <4>1. NamesOnce(chain') BY <3>1, <1>3 DEF ChainOk, NamesOnce
      <4>2. out.made \in Nat /\ DOMAIN chain' \subseteq 1..out.made /\ \A i \in DOMAIN chain' : ContractOk(chain'[i])
        BY <3>1, <1>3 DEF ChainOk
      <4> QED BY <4>1, <4>2, <3>1, <1>1 DEF ChainOk
    <3>3. GwHandOk(g, x, chain', made') BY <3>1, <1>1, <1>6 DEF GwHandOk, GwIdsOk, NameIdOk
    <3>4. ASSUME NEW h \in Gateway \ {g}
          PROVE  Spares(h, chain, made, chain', made') /\ GwKeeps(h, gws[h].nameId, chain, chain')
      <4>1. Spares(h, chain, made, f, out.made) /\ GwKeeps(h, gws[h].nameId, chain, f) BY <1>3
      <4>2. \A i \in DOMAIN chain : GwOf(h, chain[i]) \/ i = gws[h].nameId => i # r.id
        <5> SUFFICES ASSUME NEW i \in DOMAIN chain, GwOf(h, chain[i]) \/ i = gws[h].nameId, i = r.id PROVE FALSE
          OBVIOUS
        <5>1. i # 0 /\ ~(i > made) /\ made \in Nat BY DEF GwInv, ChainOk
        <5>2. i = gws[g].nameId BY <5>1, <1>3
        <5>3. CASE GwOf(h, chain[i]) BY <5>2, <5>3 DEF GwInv, GwHandOk, NameIdOk, GwOf
        <5>4. CASE i = gws[h].nameId BY <5>1, <5>2, <5>4 DEF GwInv, NameIdsApart
        <5> QED BY <5>3, <5>4
      <4>3. Spares(h, chain, made, chain', made') BY <4>1, <3>1, <1>1 DEF Spares
      <4>4. GwKeeps(h, gws[h].nameId, chain, chain') BY <4>1, <4>2, <3>1 DEF GwKeeps
      <4> QED BY <4>3, <4>4
    <3> QED BY <3>1, <3>2, <3>3, <3>4
  <2> QED BY <2>1, <2>2, <1>1
<1>8. GwSpared(g) /\ NameStays(g, x, "failed") BY <1>3, <1>5, <1>7 DEF GwSpared, NameStays
<1>9. Takes(g, x, "failed") BY <1>1 DEF x, Takes
<1>10. ChainOk(chain', made') /\ GwHandOk(g, x, chain', made') BY <1>7
<1> QED BY <1>8, <1>9, <1>10, OneStep

(* Two gateways in one step.                                                *)
LEMMA TwoStep ==
  ASSUME GwInv, NEW g \in Gateway, NEW h \in Gateway, g # h, NEW x, NEW y, NEW howG, NEW howH,
         gws' = [gws EXCEPT ![g] = x, ![h] = y], outcome' = [outcome EXCEPT ![g] = howG, ![h] = howH],
         ChainOk(chain', made'), GwHandOk(g, x, chain', made'), GwHandOk(h, y, chain', made'),
         \A k \in Gateway \ {g, h} : Spares(k, chain, made, chain', made') /\ GwKeeps(k, gws[k].nameId, chain, chain'),
         NameStays(g, x, howG), NameStays(h, y, howH), x.nameId = y.nameId => x.nameId = 0,
         howG = "ok" => OkRight(g, x, chain'), howH = "ok" => OkRight(h, y, chain'),
         {howG, howH} \cap {"synced", "loaded"} = {}
  PROVE  GwInv' /\ Gw!NameStep /\ Gw!ReadStep
<1>1. /\ gws'[g] = x /\ outcome'[g] = howG /\ gws'[h] = y /\ outcome'[h] = howH
      /\ \A k \in Gateway \ {g, h} : gws'[k] = gws[k] /\ outcome'[k] = outcome[k]
      /\ gws' = [k \in Gateway |-> gws'[k]] /\ outcome' = [k \in Gateway |-> outcome'[k]]
  BY DEF GwInv
<1>2. made \in Nat /\ DOMAIN chain \subseteq 1..made BY DEF GwInv, ChainOk
<1>3. ASSUME NEW k \in Gateway PROVE GwHandOk(k, gws'[k], chain', made')
  <2>1. CASE k \in {g, h} BY <2>1, <1>1
  <2>2. CASE k \notin {g, h}
    <3>1. GwHandOk(k, gws[k], chain, made) BY DEF GwInv
    <3>2. Spares(k, chain, made, chain', made') /\ gws'[k] = gws[k] BY <2>2, <1>1
    <3> QED BY <3>1, <3>2, <1>2, HandSpared
  <2> QED BY <2>1, <2>2
<1>4. ASSUME NEW k \in Gateway, outcome'[k] = "ok" PROVE OkRight(k, gws'[k], chain')
  <2>1. CASE k \in {g, h} BY <2>1, <1>1, <1>4
  <2>2. CASE k \notin {g, h}
    <3>1. gws'[k] = gws[k] /\ outcome[k] = "ok" BY <2>2, <1>1, <1>4
    <3>2. GwHandOk(k, gws[k], chain, made) /\ OkRight(k, gws[k], chain) BY <3>1 DEF GwInv
    <3>3. Spares(k, chain, made, chain', made') /\ GwKeeps(k, gws[k].nameId, chain, chain') BY <2>2
    <3> QED BY <3>1, <3>2, <3>3, <1>2, OkSpared
  <2> QED BY <2>1, <2>2
<1>5. NameIdsApart(gws')
  <2>1. \A k \in Gateway : gws[k].nameId \in 0..made BY DEF GwInv, GwHandOk, NameIdOk
  <2>2. \A k \in Gateway : ~(gws[k].nameId > made) BY <2>1, <1>2
  <2>3. \A k \in Gateway \ {g, h} : /\ x.nameId = gws[k].nameId => x.nameId = 0
                                    /\ y.nameId = gws[k].nameId => y.nameId = 0
    BY <2>2 DEF GwInv, NameIdsApart, NameStays
  <2>4. ASSUME NEW k \in Gateway, NEW l \in Gateway, k # l, gws'[k].nameId = gws'[l].nameId PROVE gws'[k].nameId = 0
    <3>1. CASE k \notin {g, h} /\ l \notin {g, h} BY <3>1, <2>4, <1>1 DEF GwInv, NameIdsApart
    <3>2. CASE k \in {g, h} /\ l \notin {g, h} BY <3>2, <2>3, <2>4, <1>1
    <3>3. CASE k \notin {g, h} /\ l \in {g, h} BY <3>3, <2>3, <2>4, <1>1
    <3>4. CASE k \in {g, h} /\ l \in {g, h} BY <3>4, <2>4, <1>1
    <3> QED BY <3>1, <3>2, <3>3, <3>4
  <2> QED BY <2>4 DEF NameIdsApart
<1>6. GwInv' BY <1>1, <1>3, <1>4, <1>5 DEF GwInv
<1>7. Gw!NameStep
  <2> SUFFICES ASSUME NEW k \in Gateway, gws[k].nameId # 0, Gw!IsValidContract(gws[k].nameId),
                      gws[k].nameId \in DOMAIN chain', chain'[gws[k].nameId].created
               PROVE  gws'[k].nameId = gws[k].nameId \/ outcome'[k] = "unnamed"
    BY DEF Gw!NameStep
  <2> QED BY <1>1 DEF NameStays
<1>8. Gw!ReadStep
  <2> SUFFICES ASSUME NEW k \in Gateway, outcome[k] = "ok", outcome'[k] \in {"synced", "loaded"} PROVE FALSE
    BY DEF Gw!ReadStep
  <2> QED BY <1>1
<1> QED BY <1>6, <1>7, <1>8

LEMMA NotNamedRight ==
  ASSUME Gw!GatewayAssumption, GwInv, NEW g \in Gateway, NEW gw, AskedOf(g, gw),
         NEW r \in Gw!Named(g, gw, chain, made), Gw!NotNamed(g, gw, r)
  PROVE  GwInv' /\ Gw!NameStep /\ Gw!ReadStep
<1> DEFINE x == [gw EXCEPT !.nameId = r.id]
<1>0. ChainOk(chain, made) /\ GwHandOk(g, gw, chain, made) BY AskedHand DEF GwInv
<1>1. /\ gws' = [gws EXCEPT ![g] = x] /\ outcome' = [outcome EXCEPT ![g] = "unnamed"]
      /\ chain' = r.chain /\ made' = r.made
  BY DEF Gw!NotNamed, Gw!Ends
<1>2. NamedWell(g, gw, chain, made, r) BY <1>0, NamedRight
<1>3. /\ GwHandOk(g, x, r.chain, r.made)
      /\ \A h \in Gateway : Spares(h, chain, made, r.chain, r.made)
      /\ \A h \in Gateway : \A id : id = 0 \/ id # gw.nameId => GwKeeps(h, id, chain, r.chain)
  BY <1>2, <1>0, NamedHand
<1>4. GwSpared(g) BY <1>1, <1>3 DEF GwSpared, GwInv, NameIdsApart, AskedOf
<1>5. x.nameId = r.id BY DEF AskedOf, GwShape
<1>7. Takes(g, x, "unnamed") BY <1>1 DEF Takes
<1> HIDE DEF x
<1>6. NameStays(g, x, "unnamed") BY <1>2, <1>5 DEF NameStays, NamedWell, AskedOf
<1>8. ChainOk(chain', made') /\ GwHandOk(g, x, chain', made') BY <1>1, <1>2, <1>3 DEF NamedWell, x
<1> QED BY <1>4, <1>6, <1>7, <1>8, OneStep

LEMMA DeployRight ==
  ASSUME Gw!GatewayAssumption, GwInv, NEW g \in Gateway, NEW gw, AskedOf(g, gw), Gw!Deploy(g, gw)
  PROVE  GwInv' /\ Gw!NameStep /\ Gw!ReadStep
<1>1. ChainOk(chain, made) /\ GwHandOk(g, gw, chain, made) BY AskedHand DEF GwInv
<1>2. CASE Gw!Refused(g, gw)
  <2>1. /\ gws' = [gws EXCEPT ![g] = gw] /\ outcome' = [outcome EXCEPT ![g] = "refused"]
        /\ chain' = chain /\ made' = made
    BY <1>2 DEF Gw!Refused, Gw!Ends
  <2>2. GwSpared(g) /\ NameStays(g, gw, "refused")
    BY <2>1, <1>1 DEF GwSpared, Spares, GwKeeps, NameStays, AskedOf, ChainOk
  <2>3. Takes(g, gw, "refused") BY <2>1 DEF Takes
  <2> QED BY <2>1, <2>2, <2>3, <1>1, OneStep
<1>3. ASSUME NEW r \in Gw!Named(g, gw, chain, made), Gw!NotNamed(g, gw, r)
      PROVE  GwInv' /\ Gw!NameStep /\ Gw!ReadStep
  BY <1>3, NotNamedRight
<1>4. ASSUME NEW r \in Gw!Named(g, gw, chain, made), Gw!DeploySucceeds(g, gw, r) \/ Gw!DeployFails(g, gw, r)
      PROVE  GwInv' /\ Gw!NameStep /\ Gw!ReadStep
  BY <1>1, <1>4, NamedRight, DeploySucceedsRight, DeployFailsRight
<1> QED BY <1>2, <1>3, <1>4 DEF Gw!Deploy

(* The names of the two gateways of a batch.                                *)
LEMMA NamesBoth ==
  ASSUME Gw!GatewayAssumption, GwInv, NEW g \in Gateway, NEW gw, AskedOf(g, gw), NEW h \in Gateway, NEW hw, AskedOf(h, hw),
         g # h, NEW r \in Gw!Named(g, gw, chain, made), r.ok, NEW s \in Gw!Seconds(h, hw, r)
  PROVE  /\ ChainOk(s.chain, s.made) /\ made <= s.made
         /\ GwIdsOk(g, gw.ids, s.chain, s.made) /\ NameIdOk(g, r.id, s.chain, s.made)
         /\ GwIdsOk(h, hw.ids, s.chain, s.made) /\ NameIdOk(h, s.id, s.chain, s.made)
         /\ \A k \in Gateway : Spares(k, chain, made, s.chain, s.made)
         /\ \A k \in Gateway \ {g, h} : GwKeeps(k, gws[k].nameId, chain, s.chain)
         /\ r.id = s.id => r.id = 0
         /\ r.id = 0 \/ r.id = gws[g].nameId \/ r.id > made
         /\ s.id = 0 \/ s.id = gws[h].nameId \/ s.id > made
         /\ gws[g].nameId # 0 /\ Gw!IsValidContract(gws[g].nameId) /\ gws[g].nameId \in DOMAIN s.chain
              => r.id = gws[g].nameId
         /\ s.ok /\ gws[h].nameId # 0 /\ Gw!IsValidContract(gws[h].nameId) /\ gws[h].nameId \in DOMAIN s.chain
              => s.id = gws[h].nameId
         /\ g \notin FqdnKind => r.id \in DOMAIN s.chain /\ s.chain[r.id] = Gw!NameContract(gw.name)
         /\ s.ok /\ h \notin FqdnKind => s.id \in DOMAIN s.chain /\ s.chain[s.id] = Gw!NameContract(hw.name)
<1> DEFINE c == r.chain
           m == r.made
<1>1. /\ GwHandOk(g, gw, chain, made) /\ gw.nameId = gws[g].nameId
      /\ GwHandOk(h, hw, chain, made) /\ hw.nameId = gws[h].nameId
      /\ ChainOk(chain, made) /\ made \in Nat /\ DOMAIN chain \subseteq 1..made
  BY AskedHand DEF GwInv, AskedOf, ChainOk
<1>2. NamedWell(g, gw, chain, made, r) BY <1>1, NamedRight
<1>3. ChainOk(c, m) /\ m \in Nat /\ made <= m /\ DOMAIN c \subseteq 1..m BY <1>2 DEF NamedWell, ChainOk
<1>4. /\ GwHandOk(g, [gw EXCEPT !.nameId = r.id], c, m)
      /\ \A k \in Gateway : Spares(k, chain, made, c, m)
      /\ \A k \in Gateway : \A id : id = 0 \/ id # gw.nameId => GwKeeps(k, id, chain, c)
  BY <1>1, <1>2, NamedHand
<1>5. GwHandOk(h, hw, c, m) BY <1>1, <1>4, HandSpared
<1>6. NamedWell(h, hw, c, m, s)
  <2>1. CASE Gw!Valid(h, hw) BY <2>1, <1>3, <1>5, NamedRight DEF Gw!Seconds
  <2>2. CASE ~Gw!Valid(h, hw)
    <3>1. \E i, d, n, k : r = [id |-> i, chain |-> d, made |-> n, ok |-> k]
      <4>1. CASE g \in FqdnKind BY <4>1 DEF Gw!Named
      <4>2. CASE g \notin FqdnKind BY <4>2 DEF Gw!Named
      <4> QED BY <4>1, <4>2
    <3>2. s = [r EXCEPT !.ok = FALSE, !.id = hw.nameId] BY <2>2 DEF Gw!Seconds
    <3>3. s.chain = c /\ s.made = m /\ s.id = hw.nameId /\ ~s.ok BY <3>1, <3>2
    <3>4. NameIdOk(h, hw.nameId, c, m) BY <1>5 DEF GwHandOk
    <3> QED BY <3>3, <3>4, <1>3 DEF NamedWell
  <2> QED BY <2>1, <2>2
<1>7. /\ GwHandOk(h, [hw EXCEPT !.nameId = s.id], s.chain, s.made)
      /\ \A k \in Gateway : Spares(k, c, m, s.chain, s.made)
      /\ \A k \in Gateway : \A id : id = 0 \/ id # hw.nameId => GwKeeps(k, id, c, s.chain)
      /\ GwIdsOk(h, hw.ids, s.chain, s.made)
  BY <1>3, <1>5, <1>6, NamedHand
<1>8. ChainOk(s.chain, s.made) /\ m <= s.made /\ s.made \in Nat /\ DOMAIN s.chain \subseteq Nat /\ NameIdOk(h, s.id, s.chain, s.made)
  BY <1>6 DEF NamedWell, ChainOk
<1>9. GwHandOk(g, [gw EXCEPT !.nameId = r.id], s.chain, s.made)
  <2> DEFINE x == [gw EXCEPT !.nameId = r.id]
  <2>1. GwHandOk(g, x, c, m) BY <1>4
  <2> HIDE DEF x
  <2>2. GwHandOk(g, x, s.chain, s.made) BY <2>1, <1>3, <1>7, HandSpared
  <2> QED BY <2>2 DEF x
<1>10. GwIdsOk(g, gw.ids, s.chain, s.made) /\ NameIdOk(g, r.id, s.chain, s.made)
  BY <1>9 DEF GwHandOk, AskedOf, GwShape
<1>11. \A k \in Gateway : Spares(k, chain, made, s.chain, s.made) BY <1>1, <1>4, <1>7, <1>8, SparesBoth
<1>12. ASSUME NEW k \in Gateway \ {g, h} PROVE GwKeeps(k, gws[k].nameId, chain, s.chain)
  <2> DEFINE id == gws[k].nameId
  <2>1. GwKeeps(k, id, chain, c) /\ GwKeeps(k, id, c, s.chain) BY <1>1, <1>4, <1>7 DEF GwInv, NameIdsApart
  <2>2. Spares(k, chain, made, c, m) /\ Spares(k, c, m, s.chain, s.made) BY <1>4, <1>7
  <2> QED BY <2>1, <2>2, <1>1, <1>8, SparesBoth
<1>13. /\ r.id = 0 \/ r.id = gws[g].nameId \/ r.id > made
       /\ s.id = 0 \/ s.id = gws[h].nameId \/ s.id > m
       /\ r.id \in 0..m /\ s.id \in 0..s.made /\ gws[g].nameId \in 0..made /\ gws[h].nameId \in 0..made
  BY <1>1, <1>2, <1>6 DEF NamedWell, NameIdOk, GwHandOk
<1>14. s.id = 0 \/ s.id = gws[h].nameId \/ s.id > made BY <1>1, <1>3, <1>13
<1>15. r.id = s.id => r.id = 0
  <2>1. ~(r.id > m) BY <1>3, <1>13
  <2>2. ~(gws[h].nameId > made) BY <1>1, <1>13
  <2> QED BY <2>1, <2>2, <1>13 DEF GwInv, NameIdsApart
<1>16. \A i \in 1..made : i \in DOMAIN s.chain => i \in DOMAIN c /\ i \in DOMAIN chain
                            /\ s.chain[i] = c[i] /\ c[i] = chain[i]
  <2> SUFFICES ASSUME NEW i \in 1..made, i \in DOMAIN s.chain
               PROVE  i \in DOMAIN c /\ i \in DOMAIN chain /\ s.chain[i] = c[i] /\ c[i] = chain[i]
    OBVIOUS
  <2>1. ~(i > made) /\ ~(i > m) BY <1>1, <1>3
  <2> QED BY <2>1, <1>2, <1>6 DEF NamedWell
<1>17. ASSUME gws[g].nameId # 0, Gw!IsValidContract(gws[g].nameId), gws[g].nameId \in DOMAIN s.chain
       PROVE  r.id = gws[g].nameId
  <2>1. gws[g].nameId \in 1..made BY <1>1, <1>13, <1>17
  <2> QED BY <2>1, <1>1, <1>2, <1>16, <1>17 DEF NamedWell, Gw!IsValidContract, Gw!Exists
<1>18. ASSUME s.ok, gws[h].nameId # 0, Gw!IsValidContract(gws[h].nameId), gws[h].nameId \in DOMAIN s.chain
       PROVE  s.id = gws[h].nameId
  <2>1. gws[h].nameId \in 1..made BY <1>1, <1>13, <1>18
  <2> QED BY <2>1, <1>1, <1>6, <1>16, <1>18 DEF NamedWell, Gw!IsValidContract, Gw!Exists
<1>19. ASSUME g \notin FqdnKind PROVE r.id \in DOMAIN s.chain /\ s.chain[r.id] = Gw!NameContract(gw.name)
  <2>1. r.id \in DOMAIN c /\ c[r.id] = Gw!NameContract(gw.name) BY <1>19, <1>2 DEF NamedWell
  <2>2. r.id # 0 BY <2>1, <1>3
  <2>3. r.id # hw.nameId
    <3>1. ~(hw.nameId > made) BY <1>1, <1>13
    <3> QED BY <3>1, <2>2, <1>1, <1>13 DEF GwInv, NameIdsApart
  <2> QED BY <2>1, <2>3, <1>6 DEF NamedWell
<1>20. s.ok /\ h \notin FqdnKind => s.id \in DOMAIN s.chain /\ s.chain[s.id] = Gw!NameContract(hw.name)
  BY <1>6 DEF NamedWell
<1>21. made <= s.made BY <1>1, <1>3, <1>8
<1> QED BY <1>7, <1>8, <1>10, <1>11, <1>12, <1>13, <1>14, <1>15, <1>17, <1>18, <1>19, <1>20, <1>21

SetName(gw, id) == [gw EXCEPT !.nameId = id]
LEMMA SetNameIs ==
  ASSUME NEW gw, GwShape(gw), NEW n, NEW x, x = SetName(gw, n)
  PROVE  x.node = gw.node /\ x.ids = gw.ids /\ x.nameId = n /\ GwShape(x)
<1>1. x = [name |-> gw.name, data |-> gw.data, fqdn |-> gw.fqdn, node |-> gw.node, ids |-> gw.ids, nameId |-> n,
           cid |-> gw.cid]
  BY DEF GwShape, SetName
<1> QED BY <1>1 DEF GwShape

(* One contract of a batch, or none.                                        *)
OneOr(done, k, node, id) == IF k \in done THEN Gw!Single(node, id) ELSE Gw!Empty
OneOrShape(done, k, node, id, x) ==
  /\ x = [n \in DOMAIN x |-> x[n]]
  /\ k \in done => x = Gw!Single(node, id)
  /\ DOMAIN x = IF k \in done THEN {node} ELSE {}
  /\ \A n \in DOMAIN x : x[n] = id
LEMMA OneOrIs ==
  ASSUME NEW done, NEW k, NEW node, NEW id
  PROVE  OneOrShape(done, k, node, id, OneOr(done, k, node, id))
<1>1. CASE k \in done BY <1>1 DEF OneOr, OneOrShape, Gw!Single
<1>2. CASE k \notin done BY <1>2 DEF OneOr, OneOrShape, Gw!Empty
<1> QED BY <1>1, <1>2

LEMMA BatchRight ==
  ASSUME Gw!GatewayAssumption, GwInv, NEW g \in Gateway, NEW gw, AskedOf(g, gw), NEW h \in Gateway, NEW hw, AskedOf(h, hw),
         g # h, Gw!BatchDeploy(g, gw, h, hw)
  PROVE  GwInv' /\ Gw!NameStep /\ Gw!ReadStep
<1>1. PICK r \in Gw!Named(g, gw, chain, made) :
        \/ Gw!NotNamed(g, gw, r)
        \/ /\ r.ok
           /\ \E s \in Gw!Seconds(h, hw, r) :
               \/ Gw!BatchUnnamed(g, gw, h, hw, r, s)
               \/ \E done \in SUBSET {g, h} : Gw!BatchEnds(g, gw, h, hw, r, s, done)
  BY DEF Gw!BatchDeploy
<1>2. CASE Gw!NotNamed(g, gw, r) BY <1>2, NotNamedRight
<1>3. ASSUME r.ok, NEW s \in Gw!Seconds(h, hw, r), Gw!BatchUnnamed(g, gw, h, hw, r, s)
      PROVE  GwInv' /\ Gw!NameStep /\ Gw!ReadStep
  <2> DEFINE x == SetName(gw, r.id)
             y == SetName(hw, s.id)
  <2>0. /\ gws' = [gws EXCEPT ![g] = x, ![h] = y] /\ chain' = s.chain /\ made' = s.made
        /\ outcome' = [outcome EXCEPT ![g] = "unnamed", ![h] = "unnamed"]
    BY <1>3 DEF Gw!BatchUnnamed, SetName
  <2>1. /\ x.node = gw.node /\ x.ids = gw.ids /\ x.nameId = r.id /\ GwShape(x)
        /\ y.node = hw.node /\ y.ids = hw.ids /\ y.nameId = s.id /\ GwShape(y)
    BY SetNameIs DEF AskedOf
  <2> HIDE DEF x, y
  <2>2. /\ ChainOk(s.chain, s.made) /\ made <= s.made
        /\ GwIdsOk(g, gw.ids, s.chain, s.made) /\ NameIdOk(g, r.id, s.chain, s.made)
        /\ GwIdsOk(h, hw.ids, s.chain, s.made) /\ NameIdOk(h, s.id, s.chain, s.made)
        /\ \A k \in Gateway : Spares(k, chain, made, s.chain, s.made)
        /\ \A k \in Gateway \ {g, h} : GwKeeps(k, gws[k].nameId, chain, s.chain)
        /\ r.id = s.id => r.id = 0
        /\ r.id = 0 \/ r.id = gws[g].nameId \/ r.id > made
        /\ s.id = 0 \/ s.id = gws[h].nameId \/ s.id > made
    BY <1>3, NamesBoth
  <2>3. gw.node \in GwNode \ {0} /\ hw.node \in GwNode \ {0} BY DEF AskedOf, Gw!GatewayAssumption
  <2>4. GwHandOk(g, x, chain', made') /\ GwHandOk(h, y, chain', made') BY <2>0, <2>1, <2>2, <2>3 DEF GwHandOk
  <2>5. NameStays(g, x, "unnamed") /\ NameStays(h, y, "unnamed") BY <2>1, <2>2 DEF NameStays
  <2>7. \A k \in Gateway \ {g, h} : Spares(k, chain, made, chain', made') /\ GwKeeps(k, gws[k].nameId, chain, chain')
    BY <2>0, <2>2
  <2>8. ChainOk(chain', made') /\ (x.nameId = y.nameId => x.nameId = 0) BY <2>0, <2>1, <2>2
  <2> QED BY <2>0, <2>4, <2>5, <2>7, <2>8, TwoStep
<1>4. ASSUME r.ok, NEW s \in Gw!Seconds(h, hw, r), NEW done \in SUBSET {g, h}, Gw!BatchEnds(g, gw, h, hw, r, s, done)
      PROVE  GwInv' /\ Gw!NameStep /\ Gw!ReadStep
  <2> DEFINE dg == Gw!NodeContract(g, gw, "ok")
             dh == Gw!NodeContract(h, hw, "ok")
             c == s.chain
             m == s.made
             cg == m + 1
             ch == m + 2
             x == SetTo(gw, OneOr(done, g, gw.node, cg), r.id, IF g \in done THEN cg ELSE gw.cid)
             y == SetTo(hw, OneOr(done, h, hw.node, ch), s.id, IF h \in done THEN ch ELSE hw.cid)
             howG == IF g \in done THEN "ok" ELSE "failed"
             howH == IF h \in done THEN "ok" ELSE "failed"
  <2>a. /\ s.ok /\ gws' = [gws EXCEPT ![g] = x, ![h] = y]
        /\ chain' = Gw!Over(Gw!Over(OneOr(done, g, cg, dg), OneOr(done, h, ch, dh)), c) /\ made' = m + 2
        /\ outcome' = [outcome EXCEPT ![g] = howG, ![h] = howH]
    <3> HIDE DEF dg, dh, c, m
    <3> QED BY <1>4 DEF Gw!BatchEnds, OneOr, SetTo, dg, dh, c, m
  <2>b. /\ x = SetTo(gw, OneOr(done, g, gw.node, cg), r.id, IF g \in done THEN cg ELSE gw.cid)
        /\ y = SetTo(hw, OneOr(done, h, hw.node, ch), s.id, IF h \in done THEN ch ELSE hw.cid)
    OBVIOUS
  <2> HIDE DEF x, y
  <2>1. /\ x.name = gw.name /\ x.data = gw.data /\ x.fqdn = gw.fqdn /\ x.node = gw.node /\ x.nameId = r.id
        /\ x.ids = OneOr(done, g, gw.node, cg) /\ x.cid = (IF g \in done THEN cg ELSE gw.cid) /\ GwShape(x)
    BY <2>b, SetGw DEF AskedOf
  <2>2. /\ y.name = hw.name /\ y.data = hw.data /\ y.fqdn = hw.fqdn /\ y.node = hw.node /\ y.nameId = s.id
        /\ y.ids = OneOr(done, h, hw.node, ch) /\ y.cid = (IF h \in done THEN ch ELSE hw.cid) /\ GwShape(y)
    BY <2>b, SetGw DEF AskedOf
  <2>3. /\ ChainOk(c, m) /\ made <= m
        /\ NameIdOk(g, r.id, c, m) /\ NameIdOk(h, s.id, c, m)
        /\ \A k \in Gateway : Spares(k, chain, made, c, m)
        /\ \A k \in Gateway \ {g, h} : GwKeeps(k, gws[k].nameId, chain, c)
        /\ r.id = s.id => r.id = 0
        /\ r.id = 0 \/ r.id = gws[g].nameId \/ r.id > made
        /\ s.id = 0 \/ s.id = gws[h].nameId \/ s.id > made
        /\ gws[g].nameId # 0 /\ Gw!IsValidContract(gws[g].nameId) /\ gws[g].nameId \in DOMAIN c
             => r.id = gws[g].nameId
        /\ gws[h].nameId # 0 /\ Gw!IsValidContract(gws[h].nameId) /\ gws[h].nameId \in DOMAIN c
             => s.id = gws[h].nameId
        /\ g \notin FqdnKind => r.id \in DOMAIN c /\ c[r.id] = Gw!NameContract(gw.name)
        /\ h \notin FqdnKind => s.id \in DOMAIN c /\ c[s.id] = Gw!NameContract(hw.name)
    BY <1>4, <2>a, NamesBoth
  <2>4. gw.node \in GwNode \ {0} /\ hw.node \in GwNode \ {0} BY DEF AskedOf, Gw!GatewayAssumption
  <2>5. ContractOk(dg) /\ GwOf(g, dg) /\ ContractOk(dh) /\ GwOf(h, dh)
    BY <2>4 DEF ContractOk, ContractShape, GwOf, KindOf, Gw!NodeContract
  <2>6. /\ made \in Nat /\ m \in Nat /\ DOMAIN c \subseteq 1..m /\ cg > m /\ ch > m /\ cg # ch
        /\ cg \in 1..(m + 2) /\ ch \in 1..(m + 2) /\ \A i \in 0..m : i \in 0..(m + 2) /\ ~(i > m)
        /\ \A i \in 0..made : i \in 0..m
    BY <2>3 DEF GwInv, ChainOk
  <2>7. /\ DOMAIN chain' = DOMAIN c \cup (IF g \in done THEN {cg} ELSE {}) \cup (IF h \in done THEN {ch} ELSE {})
        /\ \A i \in DOMAIN c : chain'[i] = c[i]
        /\ g \in done => chain'[cg] = dg
        /\ h \in done => chain'[ch] = dh
        /\ chain' = [i \in DOMAIN chain' |-> chain'[i]]
    <3> DEFINE o == OneOr(done, g, cg, dg)
               q == OneOr(done, h, ch, dh)
    <3>1. /\ DOMAIN o = (IF g \in done THEN {cg} ELSE {}) /\ DOMAIN q = (IF h \in done THEN {ch} ELSE {})
          /\ (\A i \in DOMAIN o : o[i] = dg) /\ (\A i \in DOMAIN q : q[i] = dh)
      <4> HIDE DEF dg, dh, cg, ch
      <4> QED BY OneOrIs DEF OneOrShape
    <3>2. chain' = Gw!Over(Gw!Over(o, q), c) BY <2>a
    <3>3. cg \notin DOMAIN c /\ ch \notin DOMAIN c /\ cg # ch BY <2>6
    <3> HIDE DEF o, q, dg, dh, cg, ch, c
    <3>4. DOMAIN chain' = DOMAIN o \cup DOMAIN q \cup DOMAIN c /\ chain' = [i \in DOMAIN chain' |-> chain'[i]]
      BY <3>2 DEF Gw!Over
    <3>5. \A i \in DOMAIN c : chain'[i] = c[i] BY <3>1, <3>2, <3>3, <3>4 DEF Gw!Over
    <3>6. g \in done => chain'[cg] = dg BY <3>1, <3>2, <3>4 DEF Gw!Over
    <3>7. h \in done => chain'[ch] = dh BY <3>1, <3>2, <3>3, <3>4 DEF Gw!Over
    <3> QED BY <3>1, <3>4, <3>5, <3>6, <3>7
  <2> HIDE DEF dg, dh, cg, ch
  <2>8. \A i \in DOMAIN chain' : i \in DOMAIN c \/ (i = cg /\ chain'[i] = dg /\ g \in done) \/ (i = ch /\ chain'[i] = dh /\ h \in done)
    BY <2>7
  <2>9. ChainOk(chain', made')
    <3>1. DOMAIN chain' \subseteq 1..(m + 2) BY <2>6, <2>8
    <3>2. \A i \in DOMAIN chain' : ContractOk(chain'[i]) BY <2>3, <2>5, <2>7, <2>8 DEF ChainOk
    <3>3. dg.type # "name" /\ dh.type # "name" BY <2>5 DEF GwOf
    <3>4. \A i \in DOMAIN chain' : chain'[i].type = "name" => i \in DOMAIN c /\ chain'[i] = c[i] BY <3>3, <2>7, <2>8
    <3>5. NamesOnce(chain') BY <3>4, <2>3 DEF ChainOk, NamesOnce
    <3>6. m + 2 \in Nat BY <2>6
    <3> QED BY <2>a, <2>7, <3>1, <3>2, <3>5, <3>6 DEF ChainOk
  <2>10. NameIdOk(g, r.id, chain', made') /\ NameIdOk(h, s.id, chain', made')
    <3>1. \A i \in 0..m : i \in DOMAIN chain' => i \in DOMAIN c BY <2>6, <2>8
    <3> QED BY <2>a, <2>3, <2>6, <2>7, <3>1 DEF NameIdOk
  <2>11. GwIdsOk(g, x.ids, chain', made')
    <3>1. /\ x.ids = [n \in DOMAIN x.ids |-> x.ids[n]] /\ DOMAIN x.ids = IF g \in done THEN {gw.node} ELSE {}
          /\ \A n \in DOMAIN x.ids : x.ids[n] = cg
      <4>1. OneOrShape(done, g, gw.node, cg, x.ids) BY <2>1, OneOrIs
      <4> QED BY <4>1 DEF OneOrShape
    <3> QED BY <2>a, <2>4, <2>5, <2>6, <2>7, <3>1 DEF GwIdsOk
  <2>12. GwIdsOk(h, y.ids, chain', made')
    <3>1. /\ y.ids = [n \in DOMAIN y.ids |-> y.ids[n]] /\ DOMAIN y.ids = IF h \in done THEN {hw.node} ELSE {}
          /\ \A n \in DOMAIN y.ids : y.ids[n] = ch
      <4>1. OneOrShape(done, h, hw.node, ch, y.ids) BY <2>2, OneOrIs
      <4> QED BY <4>1 DEF OneOrShape
    <3> QED BY <2>a, <2>4, <2>5, <2>6, <2>7, <3>1 DEF GwIdsOk
  <2>13. GwHandOk(g, x, chain', made') /\ GwHandOk(h, y, chain', made')
    BY <2>1, <2>2, <2>4, <2>10, <2>11, <2>12 DEF GwHandOk
  <2>14. ASSUME NEW k \in Gateway \ {g, h}
         PROVE  Spares(k, chain, made, chain', made') /\ GwKeeps(k, gws[k].nameId, chain, chain')
    <3>1. ~GwOf(k, dg) /\ ~GwOf(k, dh) BY <2>5, OfOne
    <3>2. m <= made' /\ made' \in Nat BY <2>a, <2>6
    <3>3. Spares(k, c, m, chain', made') BY <3>1, <3>2, <2>6, <2>7, <2>8 DEF Spares
    <3>4. GwKeeps(k, gws[k].nameId, c, chain') BY <2>7 DEF GwKeeps
    <3>5. DOMAIN chain' \subseteq Nat /\ DOMAIN chain \subseteq 1..made BY <2>9 DEF ChainOk, GwInv
    <3> QED BY <3>3, <3>4, <3>5, <2>3, <2>6, SparesBoth
  <2>15. \A k \in {g, h} : gws[k].nameId \in DOMAIN chain' => gws[k].nameId \in DOMAIN c
    <3>1. \A k \in {g, h} : gws[k].nameId \in 0..m BY <2>6 DEF GwInv, GwHandOk, NameIdOk
    <3> QED BY <3>1, <2>6, <2>8
  <2>16. NameStays(g, x, howG) /\ NameStays(h, y, howH) BY <2>1, <2>2, <2>3, <2>15 DEF NameStays
  <2>17. ASSUME howG = "ok" PROVE OkRight(g, x, chain')
    <3>1. g \in done BY <2>17
    <3>0. OneOrShape(done, g, gw.node, cg, x.ids) BY <2>1, OneOrIs
    <3>2. x.ids = Gw!Single(x.node, x.cid) /\ x.cid = cg BY <3>0, <3>1, <2>1 DEF OneOrShape
    <3>3. Gw!NodeContract(g, x, "ok") = dg BY <2>1 DEF dg, Gw!NodeContract
    <3> QED BY <3>1, <3>2, <3>3, <2>1, <2>3, <2>7 DEF OkRight
  <2>18. ASSUME howH = "ok" PROVE OkRight(h, y, chain')
    <3>1. h \in done BY <2>18
    <3>0. OneOrShape(done, h, hw.node, ch, y.ids) BY <2>2, OneOrIs
    <3>2. y.ids = Gw!Single(y.node, y.cid) /\ y.cid = ch BY <3>0, <3>1, <2>2 DEF OneOrShape
    <3>3. Gw!NodeContract(h, y, "ok") = dh BY <2>2 DEF dh, Gw!NodeContract
    <3> QED BY <3>1, <3>2, <3>3, <2>2, <2>3, <2>7 DEF OkRight
  <2>19. {howG, howH} \cap {"synced", "loaded"} = {} OBVIOUS
  <2>20. x.nameId = y.nameId => x.nameId = 0 BY <2>1, <2>2, <2>3
  <2> HIDE DEF howG, howH
  <2> QED BY <2>a, <2>9, <2>13, <2>14, <2>16, <2>17, <2>18, <2>19, <2>20, TwoStep
<1> QED BY <1>1, <1>2, <1>3, <1>4

LEMMA CancelRight ==
  ASSUME Gw!GatewayAssumption, GwInv, NEW g \in Gateway, NEW named \in BOOLEAN, Gw!Cancel(g, named)
  PROVE  GwInv' /\ Gw!NameStep /\ Gw!ReadStep
<1> DEFINE gw == gws[g]
           id == IF gw.node \in DOMAIN gw.ids THEN gw.ids[gw.node] ELSE 0
           both == g \notin FqdnKind /\ named
           lost == {id} \cup (IF both THEN {gw.nameId} ELSE {})
           ids == Gw!Without(gw.ids, {gw.node})
           nid == IF both THEN 0 ELSE gw.nameId
           x == SetTo(gw, ids, nid, 0)
           how == IF both \/ g \in FqdnKind \/ gw.nameId = 0 THEN "cancelled" ELSE "failed"
<1>1. GwHandOk(g, gw, chain, made) /\ ChainOk(chain, made) BY DEF GwInv
<1>2. /\ gw.node # 0 /\ chain' = Gw!Without(chain, lost) /\ made' = made
      /\ outcome' = [outcome EXCEPT ![g] = how]
      /\ gws' = [gws EXCEPT ![g].cid = 0, ![g].ids = Gw!Without(@, {gw.node}), ![g].nameId = IF both THEN 0 ELSE @]
  BY DEF Gw!Cancel, Gw!Ends
<1>3. gws' = [gws EXCEPT ![g] = x]
  <2>1. gw = [name |-> gw.name, data |-> gw.data, fqdn |-> gw.fqdn, node |-> gw.node, ids |-> gw.ids,
              nameId |-> gw.nameId, cid |-> gw.cid] /\ gws = [k \in Gateway |-> gws[k]]
    BY DEF GwInv, GwHandOk, GwShape
  <2>2. x = [name |-> gw.name, data |-> gw.data, fqdn |-> gw.fqdn, node |-> gw.node, ids |-> ids,
             nameId |-> nid, cid |-> 0]
    <3>1. GwShape(gw) BY <1>1 DEF GwHandOk
    <3> HIDE DEF gw, ids, nid
    <3> QED BY <3>1, SetGwIs
  <2>3. gws'[g] = x /\ (\A k \in Gateway \ {g} : gws'[k] = gws[k]) /\ gws' = [k \in Gateway |-> gws'[k]]
    BY <1>2, <2>1, <2>2
  <2> HIDE DEF x
  <2> QED BY <2>1, <2>3
<1>a. x = SetTo(gw, ids, nid, 0) OBVIOUS
<1> HIDE DEF x
<1>4. x.node = gw.node /\ x.ids = ids /\ x.nameId = nid /\ GwShape(x) BY <1>a, <1>1, SetGw DEF GwHandOk
<1>5. /\ DOMAIN chain' = DOMAIN chain \ lost /\ \A i \in DOMAIN chain' : chain'[i] = chain[i]
      /\ chain' = [i \in DOMAIN chain' |-> chain'[i]]
  BY <1>2 DEF Gw!Without
<1>6. ChainOk(chain', made')
  <2>1. NamesOnce(chain') BY <1>1, <1>5 DEF ChainOk, NamesOnce
  <2> QED BY <2>1, <1>1, <1>2, <1>5 DEF ChainOk
<1>7. GwHandOk(g, x, chain', made')
  <2>1. DOMAIN ids = DOMAIN gw.ids \ {gw.node} /\ (\A n \in DOMAIN ids : ids[n] = gw.ids[n])
        /\ ids = [n \in DOMAIN ids |-> ids[n]]
    BY DEF Gw!Without
  <2> HIDE DEF ids, lost
  <2>a. GwIdsOk(g, gw.ids, chain, made) /\ NameIdOk(g, gw.nameId, chain, made) BY <1>1 DEF GwHandOk
  <2>b. \A i \in DOMAIN chain' : i \in DOMAIN chain /\ chain'[i] = chain[i] BY <1>5
  <2>2. GwIdsOk(g, ids, chain', made') BY <2>1, <2>a, <2>b, <1>2 DEF GwIdsOk
  <2>c. nid \in {0, gw.nameId} /\ 0 \notin DOMAIN chain /\ 0 \in 0..made BY <1>1 DEF ChainOk
  <2>3. NameIdOk(g, nid, chain', made') BY <2>a, <2>b, <2>c, <1>2 DEF NameIdOk
  <2> QED BY <2>2, <2>3, <1>1, <1>2, <1>4 DEF GwHandOk
<1>8. GwSpared(g)
  <2>1. \A i \in lost : i \in DOMAIN chain => (GwOf(g, chain[i]) \/ (i = gw.nameId /\ chain[i].type = "name" /\ i # 0))
    BY <1>1 DEF GwHandOk, GwIdsOk, NameIdOk, ChainOk
  <2> SUFFICES ASSUME NEW h \in Gateway \ {g}
               PROVE  Spares(h, chain, made, chain', made') /\ GwKeeps(h, gws[h].nameId, chain, chain')
    BY DEF GwSpared
  <2>2. Spares(h, chain, made, chain', made') BY <1>1, <1>2, <1>5 DEF Spares, ChainOk
  <2>3. \A i \in DOMAIN chain : GwOf(h, chain[i]) => i \notin lost
    BY <2>1, OfOne DEF GwOf
  <2>4. \A i \in DOMAIN chain : i = gws[h].nameId => i \notin lost
    <3> SUFFICES ASSUME NEW i \in DOMAIN chain, i = gws[h].nameId, i \in lost PROVE FALSE OBVIOUS
    <3>1. ~GwOf(g, chain[i]) BY DEF GwInv, GwHandOk, NameIdOk, GwOf
    <3>2. i = gw.nameId /\ i # 0 BY <2>1, <3>1
    <3> QED BY <3>2 DEF GwInv, NameIdsApart
  <2> HIDE DEF lost
  <2> QED BY <2>2, <2>3, <2>4, <1>5 DEF GwKeeps
<1>9. NameStays(g, x, how) BY <1>4, <1>5 DEF NameStays
<1>10. Takes(g, x, how) BY <1>2, <1>3 DEF Takes
<1>11. how # "ok" /\ how \notin {"synced", "loaded"} OBVIOUS
<1> HIDE DEF how
<1> QED BY <1>6, <1>7, <1>8, <1>9, <1>10, <1>11, OneStep

LEMMA SyncRight ==
  ASSUME Gw!GatewayAssumption, GwInv, NEW g \in Gateway, Gw!Sync(g)
  PROVE  GwInv' /\ Gw!NameStep /\ Gw!ReadStep
<1> DEFINE gw == gws[g]
           ids == Gw!DeleteInvalidContracts(gw.ids)
           nid == IF g \notin FqdnKind /\ Gw!IsValidContract(gw.nameId) THEN gw.nameId ELSE 0
           cid == IF nid = 0 /\ ids = Gw!Empty THEN 0 ELSE gw.cid
           wl == chain[ids[gw.node]].wl
           up == gw.node \in DOMAIN ids /\ wl.name = gw.name /\ wl.state = "ok"
           now == SetTo(gw, ids, nid, cid)
           x == IF up THEN Gw!FromWorkload(now, wl) ELSE Gw!Blank(now)
<1>1. GwHandOk(g, gw, chain, made) /\ ChainOk(chain, made) BY DEF GwInv
<1>2. /\ gw.node # 0 /\ chain' = chain /\ made' = made
      /\ outcome' = [outcome EXCEPT ![g] = "synced"] /\ gws' = [gws EXCEPT ![g] = x]
  BY DEF Gw!Sync, Gw!Ends, SetTo
<1>3. x = [name |-> IF up THEN wl.name ELSE Gw!NoName, data |-> IF up THEN wl.data ELSE "none",
           fqdn |-> IF up THEN wl.fqdn ELSE Gw!NoDomain, node |-> gw.node, ids |-> ids, nameId |-> nid, cid |-> cid]
  <2>1. now = [name |-> gw.name, data |-> gw.data, fqdn |-> gw.fqdn, node |-> gw.node, ids |-> ids,
               nameId |-> nid, cid |-> cid]
    BY <1>1, SetGwIs DEF GwHandOk
  <2> HIDE DEF ids, nid, cid, now, wl
  <2> QED BY <2>1 DEF Gw!FromWorkload, Gw!Blank
<1>4. /\ DOMAIN ids = {n \in DOMAIN gw.ids : Gw!IsValidContract(gw.ids[n])}
      /\ \A n \in DOMAIN ids : ids[n] = gw.ids[n]
      /\ ids = [n \in DOMAIN ids |-> ids[n]]
  BY DEF Gw!DeleteInvalidContracts
<1> HIDE DEF x, ids
<1>5. GwHandOk(g, x, chain, made)
  <2>1. GwShape(x) /\ x.node = gw.node /\ x.ids = ids /\ x.nameId = nid BY <1>3 DEF GwShape
  <2>2. GwIdsOk(g, ids, chain, made) BY <1>1, <1>4 DEF GwHandOk, GwIdsOk
  <2>3. NameIdOk(g, nid, chain, made) BY <1>1 DEF GwHandOk, NameIdOk, ChainOk
  <2> QED BY <2>1, <2>2, <2>3, <1>1, <1>2 DEF GwHandOk
<1>6. GwSpared(g) BY <1>1, <1>2 DEF GwSpared, Spares, GwKeeps, ChainOk
<1>7. NameStays(g, x, "synced") BY <1>1, <1>3 DEF NameStays, GwHandOk, NameIdOk
<1>8. Takes(g, x, "synced") BY <1>2 DEF Takes
<1>9. GwInv' /\ Gw!NameStep
  BY <1>1, <1>2, <1>5, <1>6, <1>7, <1>8, OneStep
<1>10. ASSUME outcome[g] = "ok"
       PROVE  \A f \in DOMAIN Gw!NewGateway :
                x[f] = IF f = "fqdn" /\ g \notin FqdnKind THEN Gw!Domain(gw.name, gw.node) ELSE gw[f]
  <2>1. OkRight(g, gw, chain) BY <1>10 DEF GwInv
  <2> DEFINE d == Gw!NodeContract(g, gw, "ok")
  <2>2. /\ gw.ids = [n \in DOMAIN gw.ids |-> gw.ids[n]] /\ DOMAIN gw.ids = {gw.node} /\ gw.ids[gw.node] = gw.cid
        /\ gw.cid \in DOMAIN chain /\ chain[gw.cid] = d
    BY <2>1 DEF OkRight, Gw!Single
  <2>3. /\ d.created /\ d.wl.name = gw.name /\ d.wl.data = gw.data /\ d.wl.state = "ok"
        /\ d.wl.fqdn = IF g \in FqdnKind THEN gw.fqdn ELSE Gw!Domain(gw.name, gw.node)
    BY DEF Gw!NodeContract
  <2> HIDE DEF d
  <2>4. DOMAIN ids = {gw.node} /\ ids[gw.node] = gw.cid /\ ids = gw.ids
    BY <2>2, <2>3, <1>4 DEF Gw!IsValidContract, Gw!Exists
  <2>5. up /\ wl = d.wl BY <2>2, <2>3, <2>4
  <2>6. nid = gw.nameId
    <3>1. CASE g \in FqdnKind BY <3>1, <1>1 DEF GwHandOk, NameIdOk
    <3>2. CASE g \notin FqdnKind
      BY <3>2, <2>1 DEF OkRight, Gw!NameContract, Gw!IsValidContract, Gw!Exists
    <3> QED BY <3>1, <3>2
  <2>7. ids # Gw!Empty
    <3>1. DOMAIN Gw!Empty = {} BY DEF Gw!Empty
    <3> QED BY <3>1, <2>4
  <2>8. cid = gw.cid BY <2>7
  <2> HIDE DEF up, wl, nid, cid
  <2>9. x = [name |-> gw.name, data |-> gw.data, fqdn |-> d.wl.fqdn, node |-> gw.node, ids |-> gw.ids,
             nameId |-> gw.nameId, cid |-> gw.cid]
    BY <1>3, <2>3, <2>4, <2>5, <2>6, <2>8
  <2>10. DOMAIN Gw!NewGateway = {"name", "data", "fqdn", "node", "ids", "nameId", "cid"} BY DEF Gw!NewGateway
  <2> QED BY <2>3, <2>9, <2>10
<1>11. Gw!ReadStep
  <2> SUFFICES ASSUME NEW k \in Gateway, outcome[k] = "ok", outcome'[k] \in {"synced", "loaded"},
                      NEW f \in DOMAIN Gw!NewGateway
               PROVE  gws'[k][f] = IF f = "fqdn" /\ k \notin FqdnKind THEN Gw!Domain(gws[k].name, gws[k].node) ELSE gws[k][f]
    BY DEF Gw!ReadStep
  <2>1. k = g BY <1>2 DEF GwInv
  <2>2. gws'[g] = x BY <1>2 DEF GwInv
  <2> QED BY <2>1, <2>2, <1>10
<1> QED BY <1>9, <1>11

(* NewGateway...FromZosWorkload, field by field.                            *)
LEMMA FromWorkloadIs ==
  ASSUME NEW gw, GwShape(gw), NEW x, NEW y, NEW z
  PROVE  [gw EXCEPT !.name = x, !.data = y, !.fqdn = z] =
           [name |-> x, data |-> y, fqdn |-> z, node |-> gw.node, ids |-> gw.ids, nameId |-> gw.nameId, cid |-> gw.cid]
<1> DEFINE e == [gw EXCEPT !.name = x, !.data = y, !.fqdn = z]
           r == [name |-> x, data |-> y, fqdn |-> z, node |-> gw.node, ids |-> gw.ids, nameId |-> gw.nameId, cid |-> gw.cid]
           at(f) == IF f = "fqdn" THEN z ELSE IF f = "data" THEN y ELSE IF f = "name" THEN x ELSE gw[f]
<1>1. DOMAIN gw = {"name", "data", "fqdn", "node", "ids", "nameId", "cid"} BY DEF GwShape
<1>2. e = [f \in DOMAIN gw |-> at(f)] OBVIOUS
<1>3. r = [f \in DOMAIN gw |-> at(f)] BY <1>1
<1> QED BY <1>2, <1>3

LoadTo(gw, wl, node, cid, ids, nid) ==
  [Gw!FromWorkload(gw, wl) EXCEPT !.node = node, !.cid = cid, !.ids = ids, !.nameId = nid]
LEMMA LoadedIs ==
  ASSUME NEW gw, GwShape(gw), NEW wl, NEW node, NEW cid, NEW ids, NEW nid
  PROVE  LoadTo(gw, wl, node, cid, ids, nid) =
           [name |-> wl.name, data |-> wl.data, fqdn |-> wl.fqdn, node |-> node, ids |-> ids, nameId |-> nid, cid |-> cid]
<1> DEFINE w == Gw!FromWorkload(gw, wl)
           e == [w EXCEPT !.node = node, !.cid = cid, !.ids = ids, !.nameId = nid]
           r == [name |-> wl.name, data |-> wl.data, fqdn |-> wl.fqdn, node |-> node, ids |-> ids, nameId |-> nid, cid |-> cid]
           at(f) == IF f = "nameId" THEN nid ELSE IF f = "ids" THEN ids ELSE IF f = "cid" THEN cid
                    ELSE IF f = "node" THEN node ELSE w[f]
<1>1. w = [name |-> wl.name, data |-> wl.data, fqdn |-> wl.fqdn, node |-> gw.node, ids |-> gw.ids,
           nameId |-> gw.nameId, cid |-> gw.cid]
  BY FromWorkloadIs DEF Gw!FromWorkload
<1>2. /\ DOMAIN w = {"name", "data", "fqdn", "node", "ids", "nameId", "cid"}
      /\ w.name = wl.name /\ w.data = wl.data /\ w.fqdn = wl.fqdn
  BY <1>1
<1> HIDE DEF w
<1>3. e = [f \in DOMAIN w |-> at(f)] OBVIOUS
<1>4. r = [f \in DOMAIN w |-> at(f)] BY <1>2
<1> HIDE DEF e, r, at
<1>5. e = r BY <1>3, <1>4
<1> QED BY <1>5 DEF e, r, w, LoadTo

LEMMA LoadRight ==
  ASSUME Gw!GatewayAssumption, GwInv, NEW g \in Gateway, NEW name, Gw!Load(g, name)
  PROVE  GwInv' /\ Gw!NameStep /\ Gw!ReadStep
<1> DEFINE gw == gws[g]
           d == Gw!NodeContract(g, gw, "ok")
           named == CHOOSE i \in DOMAIN chain : chain[i].type = "name" /\ chain[i].name = name
           nid == IF g \in FqdnKind THEN 0 ELSE named
           kind == IF g \in FqdnKind THEN "fqdn" ELSE "name"
           loaded(c, id) == LoadTo(Gw!NewGateway, c.wl, c.node, id, Gw!Single(c.node, id), nid)
<1>1. GwHandOk(g, gw, chain, made) /\ ChainOk(chain, made) BY DEF GwInv
<1>2. PICK id \in DOMAIN chain :
        /\ chain[id].type = "node" /\ chain[id].project = Project[g] /\ chain[id].name = name
        /\ chain[id].wl.type = kind
        /\ g \notin FqdnKind => Gw!Registered(chain, name)
        /\ gws' = [gws EXCEPT ![g] = loaded(chain[id], id)]
  BY DEF Gw!Load, LoadTo
<1> DEFINE c == chain[id]
           x == loaded(c, id)
<1>3. /\ gws[g] = Gw!NewGateway \/ (outcome[g] = "ok" /\ gw.name = name)
      /\ chain' = chain /\ made' = made /\ outcome' = [outcome EXCEPT ![g] = "loaded"]
  BY DEF Gw!Load, Gw!Ends
<1>4. GwOf(g, c) BY <1>2 DEF GwOf, KindOf
<1>5. outcome[g] = "ok" /\ gw.name = name
  <2>1. gw.node # 0 BY <1>1, <1>4 DEF GwHandOk
  <2>2. gws[g] # Gw!NewGateway BY <2>1 DEF Gw!NewGateway
  <2> QED BY <2>2, <1>3
<1>6. OkRight(g, gw, chain) BY <1>5 DEF GwInv
<1>7. x = [name |-> c.wl.name, data |-> c.wl.data, fqdn |-> c.wl.fqdn, node |-> c.node,
           ids |-> Gw!Single(c.node, id), nameId |-> nid, cid |-> id]
  <2> HIDE DEF c, nid
  <2>1. GwShape(Gw!NewGateway) BY DEF Gw!NewGateway, GwShape
  <2> QED BY <2>1, LoadedIs
<1>8. nid = gw.nameId
  <2>1. CASE g \in FqdnKind BY <2>1, <1>1 DEF GwHandOk, NameIdOk
  <2>2. CASE g \notin FqdnKind
    <3>1. /\ gw.nameId \in DOMAIN chain
          /\ chain[gw.nameId].type = "name" /\ chain[gw.nameId].name = name
      BY <2>2, <1>5, <1>6 DEF OkRight, Gw!NameContract
    <3>2. \A i \in DOMAIN chain : chain[i].type = "name" /\ chain[i].name = name => i = gw.nameId
      BY <3>1, <1>1 DEF ChainOk, NamesOnce
    <3> QED BY <2>2, <3>1, <3>2
  <2> QED BY <2>1, <2>2
<1> HIDE DEF nid
<1>9. GwShape(x) /\ x.node = c.node /\ x.ids = Gw!Single(c.node, id) /\ x.nameId = gw.nameId BY <1>7, <1>8 DEF GwShape
<1>a. x = loaded(c, id) OBVIOUS
<1> HIDE DEF x, c, loaded
<1>10. GwHandOk(g, x, chain, made)
  <2>1. c.node \in GwNode BY <1>1, <1>2 DEF ChainOk, ContractOk, c
  <2>2. c.node # 0 BY <2>1 DEF Gw!GatewayAssumption
  <2>3. DOMAIN x.ids = {c.node} /\ x.ids[c.node] = id /\ x.ids = [n \in DOMAIN x.ids |-> x.ids[n]]
    BY <1>9 DEF Gw!Single
  <2>4. id \in 1..made /\ GwOf(g, chain[id]) BY <1>1, <1>4 DEF ChainOk, c
  <2>5. GwIdsOk(g, x.ids, chain, made) BY <2>1, <2>3, <2>4 DEF GwIdsOk
  <2> QED BY <2>1, <2>2, <2>5, <1>1, <1>9 DEF GwHandOk
<1>11. GwSpared(g) BY <1>1, <1>3 DEF GwSpared, Spares, GwKeeps, ChainOk
<1>12. NameStays(g, x, "loaded") BY <1>9 DEF NameStays
<1>13. Takes(g, x, "loaded") BY <1>2, <1>3, <1>a DEF Takes, c
<1>14. GwInv' /\ Gw!NameStep
  BY <1>1, <1>3, <1>10, <1>11, <1>12, <1>13, OneStep
<1>15. ASSUME Gw!Forgotten(g) = {}
       PROVE  \A f \in DOMAIN Gw!NewGateway :
                x[f] = IF f = "fqdn" /\ g \notin FqdnKind THEN Gw!Domain(gw.name, gw.node) ELSE gw[f]
  <2>1. id = gw.cid BY <1>2, <1>5, <1>15 DEF Gw!Forgotten, Gw!OfGateway
  <2>2. gw.ids = Gw!Single(gw.node, gw.cid) /\ c = d BY <1>6, <2>1 DEF OkRight, c
  <2>3. /\ d.wl.name = gw.name /\ d.wl.data = gw.data /\ d.node = gw.node
        /\ d.wl.fqdn = IF g \in FqdnKind THEN gw.fqdn ELSE Gw!Domain(gw.name, gw.node)
    BY DEF Gw!NodeContract
  <2> HIDE DEF d
  <2>9. x = [name |-> gw.name, data |-> gw.data, fqdn |-> d.wl.fqdn, node |-> gw.node, ids |-> gw.ids,
             nameId |-> gw.nameId, cid |-> gw.cid]
    BY <1>7, <1>8, <2>1, <2>2, <2>3
  <2>10. DOMAIN Gw!NewGateway = {"name", "data", "fqdn", "node", "ids", "nameId", "cid"} BY DEF Gw!NewGateway
  <2> QED BY <2>3, <2>9, <2>10
<1>16. Gw!ReadStep
  <2> SUFFICES ASSUME NEW k \in Gateway, outcome[k] = "ok",
                      outcome'[k] = "synced" \/ (outcome'[k] = "loaded" /\ Gw!Forgotten(k) = {}),
                      NEW f \in DOMAIN Gw!NewGateway
               PROVE  gws'[k][f] = IF f = "fqdn" /\ k \notin FqdnKind THEN Gw!Domain(gws[k].name, gws[k].node) ELSE gws[k][f]
    BY DEF Gw!ReadStep
  <2>1. k = g /\ outcome'[k] = "loaded" BY <1>3 DEF GwInv
  <2>2. gws'[g] = x BY <1>13 DEF GwInv, Takes
  <2> QED BY <2>1, <2>2, <1>15
<1> QED BY <1>14, <1>16

(* A step that takes contracts, or their state, from the chain.             *)
LEMMA ShrinkRight ==
  ASSUME GwInv, gws' = gws, made' = made, DOMAIN chain' \subseteq DOMAIN chain, chain' = [i \in DOMAIN chain' |-> chain'[i]],
         \A i \in DOMAIN chain' : /\ ContractOk(chain'[i]) /\ chain'[i].type = chain[i].type /\ chain'[i].name = chain[i].name
                                  /\ \A g \in Gateway : GwOf(g, chain'[i]) <=> GwOf(g, chain[i]),
         outcome' = [g \in Gateway |-> outcome'[g]],
         \A g \in Gateway : /\ outcome'[g] = "ok" => outcome[g] = "ok" /\ OkRight(g, gws[g], chain')
                            /\ outcome'[g] \in {"gone", "stale", outcome[g]}
  PROVE  GwInv' /\ Gw!NameStep /\ Gw!ReadStep
<1>1. ChainOk(chain', made')
  <2>1. NamesOnce(chain') BY DEF GwInv, ChainOk, NamesOnce
  <2> QED BY <2>1 DEF GwInv, ChainOk
<1>2. ASSUME NEW g \in Gateway PROVE GwHandOk(g, gws[g], chain', made')
  <2>1. GwHandOk(g, gws[g], chain, made) BY DEF GwInv
  <2>2. GwIdsOk(g, gws[g].ids, chain', made') BY <2>1 DEF GwHandOk, GwIdsOk
  <2>3. NameIdOk(g, gws[g].nameId, chain', made') BY <2>1 DEF GwHandOk, NameIdOk
  <2> QED BY <2>1, <2>2, <2>3 DEF GwHandOk
<1>3. GwInv' BY <1>1, <1>2 DEF GwInv
<1>4. Gw!NameStep BY DEF Gw!NameStep
<1>5. Gw!ReadStep
  <2> SUFFICES ASSUME NEW k \in Gateway, outcome[k] = "ok", outcome'[k] \in {"synced", "loaded"} PROVE FALSE
    BY DEF Gw!ReadStep
  <2> QED OBVIOUS
<1> QED BY <1>3, <1>4, <1>5

LEMMA ProjectRight ==
  ASSUME Gw!GatewayAssumption, GwInv, NEW p, NEW none \in BOOLEAN, Gw!CancelByProjectName(p, none)
  PROVE  GwInv' /\ Gw!NameStep /\ Gw!ReadStep
<1> DEFINE lost == Gw!ListContractsOfProjectName(p, none)
<1>1. /\ DOMAIN chain' = DOMAIN chain \ lost /\ (\A i \in DOMAIN chain' : chain'[i] = chain[i])
      /\ chain' = [i \in DOMAIN chain' |-> chain'[i]] /\ gws' = gws /\ made' = made
      /\ outcome' = [g \in Gateway |->
                  IF Project[g] = p \/ (g \notin FqdnKind /\ gws[g].nameId \notin DOMAIN chain') THEN "gone" ELSE outcome[g]]
  BY DEF Gw!CancelByProjectName, Gw!Without
<1>2. \A i \in lost : \/ chain[i].type = "node" /\ chain[i].project = p
                      \/ chain[i].type = "name"
  BY DEF Gw!ListContractsOfProjectName, Gw!NodeContractsOf, Gw!NameContractsOf
<1> HIDE DEF lost
<1>3. ASSUME NEW g \in Gateway, outcome'[g] = "ok" PROVE outcome[g] = "ok" /\ OkRight(g, gws[g], chain')
  <2>1. outcome[g] = "ok" /\ Project[g] # p /\ (g \in FqdnKind \/ gws[g].nameId \in DOMAIN chain') BY <1>1, <1>3
  <2>2. OkRight(g, gws[g], chain) BY <2>1 DEF GwInv
  <2>3. gws[g].cid \in DOMAIN chain' /\ chain'[gws[g].cid] = chain[gws[g].cid]
    BY <2>1, <2>2, <1>1, <1>2 DEF OkRight, Gw!NodeContract
  <2> QED BY <2>1, <2>2, <2>3, <1>1 DEF OkRight
<1>4. \A g \in Gateway : outcome'[g] \in {"gone", "stale", outcome[g]} BY <1>1
<1>5. \A i \in DOMAIN chain' : ContractOk(chain'[i]) BY <1>1 DEF GwInv, ChainOk
<1>6. outcome' = [g \in Gateway |-> outcome'[g]] BY <1>1
<1> QED BY <1>1, <1>3, <1>4, <1>5, <1>6, ShrinkRight

LEMMA Flip ==
  ASSUME NEW c, ContractShape(c), NEW v \in BOOLEAN, NEW e, e = [c EXCEPT !.created = v]
  PROVE  /\ ContractShape(e) /\ e.type = c.type /\ e.node = c.node /\ e.name = c.name /\ e.project = c.project
         /\ e.wl = c.wl /\ e.created = v
<1>1. e = [type |-> c.type, node |-> c.node, name |-> c.name, project |-> c.project, created |-> v, wl |-> c.wl]
  BY DEF ContractShape
<1> QED BY <1>1 DEF ContractShape

LEMMA ChainEventRight ==
  ASSUME GwInv, NEW id \in DOMAIN chain, Gw!GracePeriod(id) \/ Gw!ContractEnds(id),
         outcome' = [g \in Gateway |-> "stale"], gws' = gws, made' = made
  PROVE  GwInv' /\ Gw!NameStep /\ Gw!ReadStep
<1>0. PICK no \in BOOLEAN : no = FALSE OBVIOUS
<1>1. /\ DOMAIN chain' \subseteq DOMAIN chain /\ chain' = [i \in DOMAIN chain' |-> chain'[i]]
      /\ \A i \in DOMAIN chain' : chain'[i] = chain[i] \/ chain'[i] = [chain[i] EXCEPT !.created = no]
  <2>1. chain = [i \in DOMAIN chain |-> chain[i]] BY DEF GwInv, ChainOk
  <2>2. CASE Gw!GracePeriod(id)
    <3>1. chain' = [chain EXCEPT ![id] = [chain[id] EXCEPT !.created = no]] BY <1>0, <2>2 DEF Gw!GracePeriod
    <3> QED BY <2>1, <3>1
  <2>3. CASE Gw!ContractEnds(id) BY <2>3 DEF Gw!ContractEnds, Gw!Without
  <2> QED BY <2>2, <2>3
<1>2. ASSUME NEW i \in DOMAIN chain'
      PROVE  /\ ContractOk(chain'[i]) /\ chain'[i].type = chain[i].type /\ chain'[i].name = chain[i].name
             /\ \A g \in Gateway : GwOf(g, chain'[i]) <=> GwOf(g, chain[i])
  <2> DEFINE c == chain[i]
  <2>1. ContractOk(c) BY <1>1 DEF GwInv, ChainOk
  <2>2. CASE chain'[i] = c BY <2>1, <2>2
  <2>3. CASE chain'[i] = [c EXCEPT !.created = no]
    <3>1. /\ ContractShape(chain'[i]) /\ chain'[i].type = c.type /\ chain'[i].node = c.node /\ chain'[i].name = c.name
          /\ chain'[i].project = c.project /\ chain'[i].wl = c.wl /\ chain'[i].created = no
      <4> HIDE DEF c
      <4> QED BY <2>1, <2>3, Flip DEF ContractOk
    <3> QED BY <2>1, <3>1 DEF ContractOk, GwOf
  <2> QED BY <2>2, <2>3, <1>1
<1>3. \A g \in Gateway : outcome'[g] = "stale" OBVIOUS
<1>4. outcome' = [g \in Gateway |-> outcome'[g]] BY <1>3
<1> QED BY <1>1, <1>2, <1>3, <1>4, ShrinkRight

LEMMA GwInitRight == ASSUME Gw!GatewayAssumption, Gw!Init PROVE GwInv
<1>1. /\ gws = [g \in Gateway |-> Gw!NewGateway] /\ chain = Gw!Empty /\ made = 0
      /\ outcome = [g \in Gateway |-> "new"]
  BY DEF Gw!Init
<1>2. DOMAIN Gw!Empty = {} /\ Gw!Empty = [i \in DOMAIN Gw!Empty |-> Gw!Empty[i]] BY DEF Gw!Empty
<1>3. ChainOk(chain, made) BY <1>1, <1>2 DEF ChainOk, NamesOnce
<1>4. ASSUME NEW g \in Gateway PROVE GwHandOk(g, gws[g], chain, made)
  <2>1. gws[g] = Gw!NewGateway BY <1>1
  <2>2. /\ GwShape(Gw!NewGateway) /\ Gw!NewGateway.ids = Gw!Empty /\ Gw!NewGateway.nameId = 0
        /\ Gw!NewGateway.node = 0
    BY DEF Gw!NewGateway, GwShape
  <2> QED BY <1>1, <1>2, <2>1, <2>2 DEF GwHandOk, GwIdsOk, NameIdOk
<1>5. NameIdsApart(gws) BY <1>1 DEF NameIdsApart, Gw!NewGateway
<1> QED BY <1>1, <1>3, <1>4, <1>5 DEF GwInv

LEMMA GwNextRight ==
  ASSUME Gw!GatewayAssumption, GwInv, Gw!Next PROVE GwInv' /\ Gw!NameStep /\ Gw!ReadStep
<1> DEFINE Goal == GwInv' /\ Gw!NameStep /\ Gw!ReadStep
<1>1. ASSUME NEW g \in Gateway, NEW name, NEW data, NEW fqdn, NEW node \in GwNode
      PROVE  AskedOf(g, Gw!Asked(g, name, data, fqdn, node))
  <2> DEFINE gw == gws[g]
  <2>1. GwShape(gw) BY DEF GwInv, GwHandOk
  <2>2. Gw!Asked(g, name, data, fqdn, node) =
          [name |-> name, data |-> data, fqdn |-> IF g \in FqdnKind THEN fqdn ELSE gw.fqdn, node |-> node,
           ids |-> gw.ids, nameId |-> gw.nameId, cid |-> gw.cid]
    <3>1. Gw!Asked(g, name, data, fqdn, node) =
            [gw EXCEPT !.name = name, !.data = data, !.fqdn = IF g \in FqdnKind THEN fqdn ELSE gw.fqdn, !.node = node]
      BY DEF Gw!Asked
    <3> HIDE DEF gw
    <3> QED BY <2>1, <3>1 DEF GwShape
  <2> QED BY <2>2 DEF AskedOf, GwShape
<1>2. ASSUME NEW g \in Gateway, NEW name \in GwName, NEW data \in GwData, NEW fqdn, NEW node \in GwNode,
             Gw!Deploy(g, Gw!Asked(g, name, data, fqdn, node))
      PROVE  Goal
  BY <1>1, <1>2, DeployRight
<1>3. ASSUME NEW g \in Gateway, NEW h \in Gateway, NEW name, NEW other, NEW node \in GwNode, NEW place \in GwNode, g # h,
             Gw!BatchDeploy(g, Gw!Asked(g, name, "x", "domain", node), h, Gw!Asked(h, other, "x", "domain", place))
      PROVE  Goal
  BY <1>1, <1>3, BatchRight
<1>4. ASSUME NEW g \in Gateway, (\E named \in BOOLEAN : Gw!Cancel(g, named)) \/ Gw!Sync(g) PROVE Goal
  BY <1>4, CancelRight, SyncRight
<1>5. ASSUME NEW g \in Gateway, NEW name, Gw!Load(g, name) PROVE Goal BY <1>5, LoadRight
<1>6. ASSUME NEW p, NEW none \in BOOLEAN, Gw!CancelByProjectName(p, none) PROVE Goal BY <1>6, ProjectRight
<1>7. ASSUME NEW id \in DOMAIN chain, Gw!GracePeriod(id) \/ Gw!ContractEnds(id), outcome' = [g \in Gateway |-> "stale"],
             gws' = gws, made' = made
      PROVE  Goal
  BY <1>7, ChainEventRight
<1> HIDE DEF Goal
<1>8. Goal BY <1>2, <1>3, <1>4, <1>5, <1>6, <1>7 DEF Gw!Next, Gw!Call
<1> QED BY <1>8 DEF Goal

LEMMA GwInvHasItsName == ASSUME GwInv PROVE Gw!HasItsName
<1> SUFFICES ASSUME NEW g \in Gateway, outcome[g] = "ok"
             PROVE  /\ g \notin FqdnKind =>
                         Gw!IsValidContract(gws[g].nameId) /\ chain[gws[g].nameId] = Gw!NameContract(gws[g].name)
                    /\ {id \in DOMAIN chain : chain[id].type = "node" /\ \E n \in DOMAIN gws[g].ids : gws[g].ids[n] = id}
                         = {gws[g].cid}
                    /\ chain[gws[g].cid].node = gws[g].node /\ chain[gws[g].cid].wl.name = gws[g].name
  BY DEF Gw!HasItsName
<1>1. OkRight(g, gws[g], chain) BY DEF GwInv
<1>2. g \notin FqdnKind => Gw!IsValidContract(gws[g].nameId)
  BY <1>1 DEF OkRight, Gw!IsValidContract, Gw!Exists, Gw!NameContract
<1>3. DOMAIN gws[g].ids = {gws[g].node} /\ gws[g].ids[gws[g].node] = gws[g].cid BY <1>1 DEF OkRight, Gw!Single
<1>4. /\ gws[g].cid \in DOMAIN chain /\ chain[gws[g].cid].type = "node"
      /\ chain[gws[g].cid].node = gws[g].node /\ chain[gws[g].cid].wl.name = gws[g].name
  BY <1>1 DEF OkRight, Gw!NodeContract
<1> QED BY <1>1, <1>2, <1>3, <1>4 DEF OkRight

(***************************************************************************)
(* Clusters.                                                               *)
(***************************************************************************)

MemberOk(m) ==
  /\ m = [name |-> m.name, node |-> m.node, disk |-> m.disk, pub4 |-> m.pub4, pub6 |-> m.pub6, ip |-> m.ip]
  /\ m.node \in ClusterNode
IsList(s) == Len(s) \in Nat /\ s = [i \in 1..Len(s) |-> s[i]]
ClusterShape(k) ==
  /\ k = [master |-> k.master, workers |-> k.workers, token |-> k.token, entry |-> k.entry, ids |-> k.ids]
  /\ IsList(k.workers) /\ \A i \in 1..Len(k.workers) : MemberOk(k.workers[i])

LEMMA ListIs == ASSUME NEW n \in Nat, NEW s, s = [i \in 1..n |-> s[i]] PROVE Len(s) = n /\ IsList(s) /\ DOMAIN s = 1..n
<1>1. s \in Seq({s[i] : i \in 1..n}) OBVIOUS
<1>2. DOMAIN s = 1..n OBVIOUS
<1>3. Len(s) = n BY <1>1, <1>2
<1> QED BY <1>2, <1>3 DEF IsList

LEMMA ListHas == ASSUME NEW s, IsList(s) PROVE DOMAIN s = 1..Len(s) /\ Len(s) \in Nat
BY DEF IsList

LEMMA Assigning ==
  ASSUME NEW k, IsList(k.workers), NEW net
  PROVE  \E f : /\ f = [i \in K8s!Places(k) |-> K8s!AssignAt(IF i = 0 THEN [k |-> k, ok |-> TRUE] ELSE f[i - 1], i, net)]
                /\ K8s!AssignNodesIPs(k, net) = f[Len(k.workers)]
<1> DEFINE first == [k |-> k, ok |-> TRUE]
           L == Len(k.workers)
           Up(f, m) == f = [i \in 0..m |-> K8s!AssignAt(IF i = 0 THEN first ELSE f[i - 1], i, net)]
           upTo[i \in K8s!Places(k)] == K8s!AssignAt(IF i = 0 THEN first ELSE upTo[i - 1], i, net)
<1>1. L \in Nat /\ K8s!Places(k) = 0..L BY DEF IsList, K8s!Places
<1>2. K8s!AssignNodesIPs(k, net) = upTo[L] BY DEF K8s!AssignNodesIPs
<1>3. upTo = CHOOSE f : f = [i \in K8s!Places(k) |-> K8s!AssignAt(IF i = 0 THEN first ELSE f[i - 1], i, net)] BY DEF upTo
<1>4. \E f : Up(f, L)
  <2> DEFINE Bad == {m \in 0..L : ~\E f : Up(f, m)}
  <2> SUFFICES ASSUME ~\E f : Up(f, L) PROVE FALSE OBVIOUS
  <2>1. L \in Bad
    <3>1. L \in 0..L BY <1>1
    <3> HIDE DEF Up
    <3> QED BY <3>1
  <2>2. Bad \in SUBSET Nat BY <1>1
  <2>3. PICK m \in Bad : \A p \in Bad : m <= p
    <3> HIDE DEF Bad
    <3> QED BY <2>1, <2>2, Lowest
  <2>4. m \in 0..L /\ ~\E f : Up(f, m) BY <2>3
  <2>5. CASE m = 0
    <3> DEFINE f == [i \in 0..0 |-> K8s!AssignAt(first, i, net)]
    <3>1. \A i \in 0..0 : i = 0 OBVIOUS
    <3>2. f = [i \in 0..0 |-> K8s!AssignAt(IF i = 0 THEN first ELSE f[i - 1], i, net)]
      <4> HIDE DEF first
      <4> QED BY <3>1
    <3>3. Up(f, 0) BY <3>2
    <3> QED BY <2>4, <2>5, <3>3
  <2>6. CASE m # 0
    <3>1. m - 1 \in 0..L /\ m - 1 \notin Bad
      <4>1. m - 1 \in 0..L /\ ~(m <= m - 1) BY <1>1, <2>4, <2>6
      <4> HIDE DEF Bad
      <4> QED BY <2>3, <4>1
    <3>2. PICK g : Up(g, m - 1) BY <3>1
    <3> DEFINE f == [i \in 0..m |-> IF i = m THEN K8s!AssignAt(g[m - 1], m, net) ELSE g[i]]
               E(i) == K8s!AssignAt(IF i = 0 THEN first ELSE f[i - 1], i, net)
    <3>3. ASSUME NEW i \in 0..m PROVE f[i] = E(i)
      <4> HIDE DEF first
      <4>1. CASE i = m
        <5>1. f[i - 1] = g[m - 1] BY <2>4, <2>6, <4>1
        <5> QED BY <2>6, <4>1, <5>1
      <4>2. CASE i # m
        <5>1. i \in 0..(m - 1) /\ f[i] = g[i] BY <2>4, <4>2
        <5>2. g[i] = K8s!AssignAt(IF i = 0 THEN first ELSE g[i - 1], i, net) BY <3>2, <5>1
        <5>3. i # 0 => f[i - 1] = g[i - 1] BY <2>4, <4>2
        <5> QED BY <5>1, <5>2, <5>3
      <4> QED BY <4>1, <4>2
    <3>4. f = [i \in 0..m |-> f[i]] OBVIOUS
    <3> HIDE DEF f, first
    <3>5. f = [i \in 0..m |-> E(i)]
      <4>1. \A i \in 0..m : f[i] = E(i) BY <3>3
      <4> HIDE DEF E
      <4> QED BY <3>4, <4>1
    <3>6. Up(f, m) BY <3>5
    <3> QED BY <2>4, <3>6
  <2> QED BY <2>5, <2>6
<1>5. Up(upTo, L)
  <2>1. \E f : f = [i \in K8s!Places(k) |-> K8s!AssignAt(IF i = 0 THEN first ELSE f[i - 1], i, net)] BY <1>1, <1>4
  <2> HIDE DEF upTo, first
  <2> QED BY <1>1, <1>3, <2>1
<1> QED BY <1>1, <1>2, <1>5

Full(k) == ClusterShape(k) /\ MemberOk(k.master)

LEMMA MembersAt ==
  ASSUME NEW k, Full(k)
  PROVE  /\ K8s!Places(k) = 0..Len(k.workers) /\ Len(k.workers) \in Nat
         /\ \A i \in K8s!Places(k) : MemberOk(K8s!MemberAt(k, i))
         /\ K8s!Members(k) = {K8s!MemberAt(k, i) : i \in K8s!Places(k)}
         /\ K8s!NodesOf(k) = {K8s!MemberAt(k, i).node : i \in K8s!Places(k)}
<1>1. /\ K8s!Places(k) = 0..Len(k.workers) /\ Len(k.workers) \in Nat
      /\ DOMAIN k.workers = 1..Len(k.workers)
  BY ListHas DEF Full, ClusterShape, IsList, K8s!Places
<1>2. \A i \in K8s!Places(k) : i = 0 \/ i \in 1..Len(k.workers) BY <1>1
<1>3. \A i \in K8s!Places(k) : MemberOk(K8s!MemberAt(k, i))
  BY <1>2 DEF Full, ClusterShape, K8s!MemberAt
<1>4. K8s!Members(k) = {K8s!MemberAt(k, i) : i \in K8s!Places(k)}
  <2>1. K8s!Members(k) = {k.master} \cup {k.workers[i] : i \in 1..Len(k.workers)}
    BY <1>1 DEF K8s!Members, K8s!Range
  <2>2. \A i \in 1..Len(k.workers) : i \in K8s!Places(k) /\ K8s!MemberAt(k, i) = k.workers[i]
    BY <1>1 DEF K8s!MemberAt
  <2>3. 0 \in K8s!Places(k) /\ K8s!MemberAt(k, 0) = k.master BY <1>1 DEF K8s!MemberAt
  <2>4. \A m \in K8s!Members(k) : \E i \in K8s!Places(k) : m = K8s!MemberAt(k, i) BY <2>1, <2>2, <2>3
  <2>5. \A i \in K8s!Places(k) : K8s!MemberAt(k, i) \in K8s!Members(k) BY <1>2, <2>1 DEF K8s!MemberAt
  <2> QED BY <2>4, <2>5
<1>5. K8s!NodesOf(k) = {K8s!MemberAt(k, i).node : i \in K8s!Places(k)} BY <1>4 DEF K8s!NodesOf
<1> QED BY <1>1, <1>3, <1>4, <1>5

(* y is k, but for addresses.                                               *)
SameBut(k, y) ==
  /\ y = [master |-> y.master, workers |-> y.workers, token |-> k.token, entry |-> k.entry, ids |-> k.ids]
  /\ IsList(y.workers) /\ Len(y.workers) = Len(k.workers)
  /\ \A i \in K8s!Places(k) : K8s!MemberAt(y, i) = [K8s!MemberAt(k, i) EXCEPT !.ip = K8s!MemberAt(y, i).ip]

LEMMA SameButIs ==
  ASSUME NEW k, Full(k), NEW y, SameBut(k, y)
  PROVE  /\ Full(y) /\ K8s!Places(y) = K8s!Places(k)
         /\ y.token = k.token /\ y.entry = k.entry /\ y.ids = k.ids
         /\ \A i \in K8s!Places(k) : /\ K8s!MemberAt(y, i).name = K8s!MemberAt(k, i).name
                                     /\ K8s!MemberAt(y, i).node = K8s!MemberAt(k, i).node
         /\ y.master.name = k.master.name /\ y.master.node = k.master.node
         /\ K8s!NodesOf(y) = K8s!NodesOf(k)
<1>1. K8s!Places(y) = K8s!Places(k) BY DEF SameBut, K8s!Places
<1>2. \A i \in K8s!Places(k) : /\ MemberOk(K8s!MemberAt(y, i))
                              /\ K8s!MemberAt(y, i).name = K8s!MemberAt(k, i).name
                              /\ K8s!MemberAt(y, i).node = K8s!MemberAt(k, i).node
  <2> SUFFICES ASSUME NEW i \in K8s!Places(k)
               PROVE  /\ MemberOk(K8s!MemberAt(y, i)) /\ K8s!MemberAt(y, i).name = K8s!MemberAt(k, i).name
                      /\ K8s!MemberAt(y, i).node = K8s!MemberAt(k, i).node
    OBVIOUS
  <2> DEFINE m == K8s!MemberAt(k, i)
             o == K8s!MemberAt(y, i)
  <2>1. MemberOk(m) BY MembersAt
  <2>2. o = [m EXCEPT !.ip = o.ip] BY DEF SameBut
  <2> HIDE DEF m, o
  <2>3. MemberOk(o) /\ o.name = m.name /\ o.node = m.node BY <2>1, <2>2 DEF MemberOk
  <2> QED BY <2>3 DEF m, o
<1>3. 0 \in K8s!Places(k) /\ \A i \in 1..Len(k.workers) : i \in K8s!Places(k) /\ i # 0 BY MembersAt
<1>4. y.master = K8s!MemberAt(y, 0) /\ k.master = K8s!MemberAt(k, 0) BY DEF K8s!MemberAt
<1>5. \A i \in 1..Len(k.workers) : y.workers[i] = K8s!MemberAt(y, i) BY <1>3 DEF K8s!MemberAt
<1>6. y.token = k.token /\ y.entry = k.entry /\ y.ids = k.ids BY DEF SameBut
<1>7. Full(y)
  <2>1. y = [master |-> y.master, workers |-> y.workers, token |-> y.token, entry |-> y.entry, ids |-> y.ids]
    BY <1>6 DEF SameBut
  <2> QED BY <1>2, <1>3, <1>4, <1>5, <2>1 DEF Full, ClusterShape, SameBut
<1>8. K8s!NodesOf(y) = K8s!NodesOf(k)
  <2>1. K8s!NodesOf(y) = {K8s!MemberAt(y, i).node : i \in K8s!Places(y)} BY <1>7, MembersAt
  <2>2. K8s!NodesOf(k) = {K8s!MemberAt(k, i).node : i \in K8s!Places(k)} BY MembersAt
  <2>3. \A i \in K8s!Places(k) : K8s!MemberAt(y, i).node = K8s!MemberAt(k, i).node BY <1>2
  <2> QED BY <1>1, <2>1, <2>2, <2>3
<1> QED BY <1>1, <1>2, <1>3, <1>4, <1>6, <1>7, <1>8

LEMMA SameButSelf == ASSUME NEW k, Full(k) PROVE SameBut(k, k)
<1>1. \A i \in K8s!Places(k) : K8s!MemberAt(k, i) = [K8s!MemberAt(k, i) EXCEPT !.ip = K8s!MemberAt(k, i).ip]
  <2>1. \A m : MemberOk(m) => m = [m EXCEPT !.ip = m.ip] BY DEF MemberOk
  <2> QED BY <2>1, MembersAt
<1> QED BY <1>1 DEF SameBut, Full, ClusterShape

LEMMA SameButThen ==
  ASSUME NEW k, Full(k), NEW x, SameBut(k, x), NEW y, SameBut(x, y) PROVE SameBut(k, y)
<1>1. \A m, o, q : MemberOk(m) /\ o = [m EXCEPT !.ip = o.ip] /\ q = [o EXCEPT !.ip = q.ip] => q = [m EXCEPT !.ip = q.ip]
  BY DEF MemberOk
<1>2. \A i \in K8s!Places(k) : K8s!MemberAt(y, i) = [K8s!MemberAt(k, i) EXCEPT !.ip = K8s!MemberAt(y, i).ip]
  BY <1>1, MembersAt, SameButIs DEF SameBut
<1> QED BY <1>2, SameButIs DEF SameBut

LEMMA WithIpIs ==
  ASSUME NEW k, Full(k), NEW i \in K8s!Places(k), NEW ip
  PROVE  /\ SameBut(k, K8s!WithIp(k, i, ip))
         /\ K8s!MemberAt(K8s!WithIp(k, i, ip), i).ip = ip
         /\ \A j \in K8s!Places(k) \ {i} : K8s!MemberAt(K8s!WithIp(k, i, ip), j) = K8s!MemberAt(k, j)
<1> DEFINE y == K8s!WithIp(k, i, ip)
           ReadAt(j) == K8s!MemberAt(k, j)
<1>1. /\ k = [master |-> k.master, workers |-> k.workers, token |-> k.token, entry |-> k.entry, ids |-> k.ids]
      /\ IsList(k.workers)
  BY DEF Full, ClusterShape
<1>2. Len(k.workers) \in Nat /\ DOMAIN k.workers = 1..Len(k.workers) /\ K8s!Places(k) = 0..Len(k.workers)
  BY <1>1, ListHas DEF K8s!Places
<1>3. \A m : MemberOk(m) => [m EXCEPT !.ip = ip].ip = ip /\ m = [m EXCEPT !.ip = m.ip] BY DEF MemberOk
<1>4. \A j \in K8s!Places(k) : MemberOk(ReadAt(j)) BY MembersAt
<1>5. CASE i = 0
  <2>1. y = [master |-> [k.master EXCEPT !.ip = ip], workers |-> k.workers, token |-> k.token, entry |-> k.entry, ids |-> k.ids]
    BY <1>1, <1>5 DEF K8s!WithIp
  <2>2. K8s!MemberAt(y, 0) = [ReadAt(0) EXCEPT !.ip = ip] BY <2>1 DEF K8s!MemberAt
  <2>3. \A j \in K8s!Places(k) \ {0} : K8s!MemberAt(y, j) = ReadAt(j) BY <2>1 DEF K8s!MemberAt
  <2>4. y = [master |-> y.master, workers |-> y.workers, token |-> k.token, entry |-> k.entry, ids |-> k.ids]
    BY <2>1
  <2>5. y.workers = k.workers BY <2>1
  <2> HIDE DEF y, ReadAt
  <2>6. \A j \in K8s!Places(k) : K8s!MemberAt(y, j) = [ReadAt(j) EXCEPT !.ip = K8s!MemberAt(y, j).ip]
    BY <1>3, <1>4, <1>5, <2>2, <2>3
  <2> QED BY <1>1, <1>3, <1>4, <1>5, <2>2, <2>3, <2>4, <2>5, <2>6 DEF SameBut, ReadAt, y
<1>6. CASE i # 0
  <2> DEFINE ws == [k.workers EXCEPT ![i].ip = ip]
  <2>1. y = [master |-> k.master, workers |-> ws, token |-> k.token, entry |-> k.entry, ids |-> k.ids]
    BY <1>1, <1>6 DEF K8s!WithIp
  <2>2. i \in 1..Len(k.workers) BY <1>2, <1>6
  <2>3. /\ ws = [j \in 1..Len(k.workers) |-> ws[j]]
        /\ ws[i] = [k.workers[i] EXCEPT !.ip = ip] /\ \A j \in 1..Len(k.workers) : j # i => ws[j] = k.workers[j]
    BY <1>2, <2>2
  <2> HIDE DEF ws
  <2>4. IsList(ws) /\ Len(ws) = Len(k.workers) BY <1>2, <2>3, ListIs
  <2>5. y.workers = ws /\ y.master = k.master BY <2>1
  <2>6. y = [master |-> y.master, workers |-> y.workers, token |-> k.token, entry |-> k.entry, ids |-> k.ids]
    BY <2>1
  <2>7. \A j \in K8s!Places(k) : j = 0 \/ j \in 1..Len(k.workers) BY <1>2
  <2> HIDE DEF y
  <2>8. K8s!MemberAt(y, i) = [ReadAt(i) EXCEPT !.ip = ip] BY <1>6, <2>3, <2>5 DEF K8s!MemberAt
  <2>9. \A j \in K8s!Places(k) \ {i} : K8s!MemberAt(y, j) = ReadAt(j) BY <2>3, <2>5, <2>7 DEF K8s!MemberAt
  <2> HIDE DEF ReadAt
  <2>10. \A j \in K8s!Places(k) : K8s!MemberAt(y, j) = [ReadAt(j) EXCEPT !.ip = K8s!MemberAt(y, j).ip]
    BY <1>3, <1>4, <2>8, <2>9
  <2> QED BY <1>3, <1>4, <2>4, <2>5, <2>6, <2>8, <2>9, <2>10 DEF SameBut, ReadAt, y
<1> QED BY <1>5, <1>6

(* Of the members that keep their addresses no two have one.                *)
Parted(k, net) ==
  \A a, b \in K8s!Places(k) :
    a # b /\ K8s!Keeps(K8s!MemberAt(k, a), net) /\ K8s!Keeps(K8s!MemberAt(k, b), net) =>
      K8s!MemberAt(k, a).ip # K8s!MemberAt(k, b).ip

(* The members up to place i have addresses they keep.                      *)
Settled(k, net, i) == \A j \in K8s!Places(k) : j <= i => K8s!Keeps(K8s!MemberAt(k, j), net)
Stage(k, net, r, i) ==
  /\ r = [k |-> r.k, ok |-> r.ok] /\ r.ok \in BOOLEAN /\ SameBut(k, r.k)
  /\ r.ok => Settled(r.k, net, i) /\ (Parted(k, net) => Parted(r.k, net))

LEMMA FreeHost ==
  ASSUME K8s!ClusterAssumption, NEW k, Full(k), NEW n, NEW net, K8s!Free(k, n, net) # {}
  PROVE  /\ n \in net /\ K8s!Least(K8s!Free(k, n, net)) \in Nat
         /\ \A m \in K8s!Members(k) : m.node = n => m.ip # <<n, K8s!Least(K8s!Free(k, n, net))>>
<1> DEFINE F == K8s!Free(k, n, net)
           h == K8s!Least(F)
<1>1. n \in net /\ F = (2..LastHost) \ K8s!UsedIPs(k, n) BY DEF K8s!Free, K8s!HasRange
<1>2. F \in SUBSET Nat BY <1>1 DEF K8s!ClusterAssumption
<1>3. PICK o \in F : \A p \in F : o <= p
  <2>1. F # {} OBVIOUS
  <2> HIDE DEF F
  <2> QED BY <1>2, <2>1, Lowest
<1>4. h \in F
  <2> HIDE DEF F
  <2> QED BY <1>3 DEF K8s!Least
<1>5. h \in Nat /\ h \notin K8s!UsedIPs(k, n)
  <2> HIDE DEF h, F
  <2> QED BY <1>1, <1>2, <1>4
<1> HIDE DEF h, F
<1>6. ASSUME NEW m \in K8s!Members(k), m.node = n, m.ip = <<n, h>> PROVE FALSE
  <2>1. h >= 2
    <3> USE <1>1, <1>4 DEF K8s!ClusterAssumption
    <3> QED OBVIOUS
  <2>2. m.ip # K8s!NoAddress /\ m.ip[2] = h BY <1>6, <2>1, <1>5 DEF K8s!NoAddress
  <2>3. h \in K8s!UsedIPs(k, n) BY <1>6, <2>2 DEF K8s!UsedIPs
  <2> QED BY <1>5, <2>3
<1> QED BY <1>1, <1>5, <1>6 DEF h, F

LEMMA AssignStep ==
  ASSUME K8s!ClusterAssumption, NEW k, Full(k), NEW net \in SUBSET ClusterNode, NEW i \in K8s!Places(k),
         NEW r, Stage(k, net, r, i - 1)
  PROVE  Stage(k, net, K8s!AssignAt(r, i, net), i)
<1> DEFINE m == K8s!MemberAt(r.k, i)
           ReadAt(j) == K8s!MemberAt(r.k, j)
           s == K8s!AssignAt(r, i, net)
           h == K8s!Least(K8s!Free(r.k, m.node, net))
           y == K8s!WithIp(r.k, i, <<m.node, h>>)
<1>1. /\ Full(r.k) /\ K8s!Places(r.k) = K8s!Places(k) /\ SameBut(k, r.k) /\ i \in Nat
      /\ K8s!Places(k) \subseteq Nat /\ MemberOk(m) /\ m \in K8s!Members(r.k)
      /\ \A j \in K8s!Places(k) : MemberOk(ReadAt(j)) /\ ReadAt(j) \in K8s!Members(r.k)
  <2>1. Full(r.k) /\ K8s!Places(r.k) = K8s!Places(k) /\ SameBut(k, r.k) BY SameButIs DEF Stage
  <2>2. K8s!Places(k) \subseteq Nat BY MembersAt
  <2>3. \A j \in K8s!Places(k) : MemberOk(ReadAt(j)) /\ ReadAt(j) \in K8s!Members(r.k) BY <2>1, MembersAt
  <2> QED BY <2>1, <2>2, <2>3
<1>2. CASE ~r.ok \/ ~K8s!Assignable(r.k, m, net)
  <2>1. s = [k |-> r.k, ok |-> FALSE] BY <1>2 DEF K8s!AssignAt
  <2> QED BY <1>1, <2>1 DEF Stage
<1>3. CASE r.ok /\ K8s!Keeps(m, net)
  <2>1. s = r BY <1>3 DEF K8s!AssignAt, K8s!Assignable
  <2>2. \A j \in K8s!Places(k) : j <= i => j = i \/ j <= i - 1 BY <1>1
  <2>3. Settled(r.k, net, i) BY <1>1, <1>3, <2>2 DEF Stage, Settled
  <2> QED BY <1>1, <2>1, <2>3 DEF Stage
<1>4. CASE r.ok /\ K8s!Free(r.k, m.node, net) # {} /\ ~K8s!Keeps(m, net)
  <2>1. s = [k |-> y, ok |-> TRUE] BY <1>4 DEF K8s!AssignAt, K8s!Assignable
  <2>2. /\ m.node \in net /\ h \in Nat
        /\ \A o \in K8s!Members(r.k) : o.node = m.node => o.ip # <<m.node, h>>
    BY <1>1, <1>4, FreeHost
  <2>3. /\ SameBut(r.k, y) /\ K8s!MemberAt(y, i).ip = <<m.node, h>>
        /\ \A j \in K8s!Places(k) \ {i} : K8s!MemberAt(y, j) = ReadAt(j)
    BY <1>1, WithIpIs
  <2>4. K8s!MemberAt(y, i).node = m.node /\ SameBut(k, y) /\ K8s!Places(y) = K8s!Places(k)
    BY <1>1, <2>3, SameButIs, SameButThen
  <2> HIDE DEF y, h, m
  <2>5. K8s!Keeps(K8s!MemberAt(y, i), net)
    <3>1. m.node # 0 BY <2>2 DEF K8s!ClusterAssumption
    <3>2. <<m.node, h>> # K8s!NoAddress BY <3>1 DEF K8s!NoAddress
    <3> QED BY <2>2, <2>3, <2>4, <3>2 DEF K8s!Keeps, K8s!HasRange
  <2>6. Settled(y, net, i)
    <3>1. \A j \in K8s!Places(k) : j <= i => j = i \/ (j # i /\ j <= i - 1) BY <1>1
    <3>2. \A j \in K8s!Places(k) : j <= i - 1 => K8s!Keeps(ReadAt(j), net) BY <1>1, <1>4 DEF Stage, Settled
    <3> QED BY <1>4, <2>3, <2>4, <2>5, <3>1, <3>2 DEF Settled
  <2>7. ASSUME Parted(r.k, net) PROVE Parted(y, net)
    <3> SUFFICES ASSUME NEW a \in K8s!Places(k), NEW b \in K8s!Places(k), a # b,
                        K8s!Keeps(K8s!MemberAt(y, a), net), K8s!Keeps(K8s!MemberAt(y, b), net),
                        K8s!MemberAt(y, a).ip = K8s!MemberAt(y, b).ip
                 PROVE  FALSE
      BY <2>4 DEF Parted
    <3>1. ASSUME NEW j \in K8s!Places(k) \ {i}, K8s!Keeps(ReadAt(j), net), ReadAt(j).ip = <<m.node, h>> PROVE FALSE
      <4>1. ReadAt(j).node = m.node BY <3>1 DEF K8s!Keeps
      <4> QED BY <1>1, <2>2, <3>1, <4>1
    <3>2. CASE a = i BY <2>3, <3>1, <3>2
    <3>3. CASE b = i BY <2>3, <3>1, <3>3
    <3>4. CASE a # i /\ b # i
      <4>1. K8s!MemberAt(y, a) = ReadAt(a) /\ K8s!MemberAt(y, b) = ReadAt(b) BY <2>3, <3>4
      <4> QED BY <1>1, <2>7, <4>1 DEF Parted
    <3> QED BY <3>2, <3>3, <3>4
  <2>8. r.ok = TRUE BY <1>4 DEF Stage
  <2> HIDE DEF s
  <2>9. s.k = y /\ s.ok = TRUE /\ s = [k |-> s.k, ok |-> s.ok] BY <2>1
  <2>10. Stage(k, net, s, i) BY <1>1, <1>4, <2>4, <2>6, <2>7, <2>9 DEF Stage
  <2> QED BY <2>10 DEF s
<1> QED BY <1>2, <1>3, <1>4 DEF K8s!Assignable

(* assignNodesIPs: members keep all but their addresses; when it succeeds   *)
(* each has one on its node, and no two the same if none were before.       *)
LEMMA AssignRight ==
  ASSUME K8s!ClusterAssumption, NEW k, Full(k), NEW net \in SUBSET ClusterNode
  PROVE  Stage(k, net, K8s!AssignNodesIPs(k, net), Len(k.workers))
<1> DEFINE first == [k |-> k, ok |-> TRUE]
           L == Len(k.workers)
<1>1. PICK f : /\ f = [i \in K8s!Places(k) |-> K8s!AssignAt(IF i = 0 THEN [k |-> k, ok |-> TRUE] ELSE f[i - 1], i, net)]
               /\ K8s!AssignNodesIPs(k, net) = f[L]
  <2>1. IsList(k.workers) BY DEF Full, ClusterShape
  <2> QED BY <2>1, Assigning
<1>2. K8s!Places(k) = 0..L /\ L \in Nat BY MembersAt
<1>3. Stage(k, net, first, 0 - 1)
  <2>1. first.ok = TRUE /\ first.k = k /\ first = [k |-> first.k, ok |-> first.ok] OBVIOUS
  <2>2. SameBut(k, k) BY SameButSelf
  <2>3. \A j \in 0..L : ~(j <= 0 - 1) BY <1>2
  <2> HIDE DEF first
  <2> QED BY <1>2, <2>1, <2>2, <2>3 DEF Stage, Settled
<1>4. f[0] = K8s!AssignAt(first, 0, net) /\ \A i \in 1..L : f[i] = K8s!AssignAt(f[i - 1], i, net)
  <2>1. \A i \in 0..L : f[i] = K8s!AssignAt(IF i = 0 THEN first ELSE f[i - 1], i, net) BY <1>1, <1>2
  <2>2. 0 \in 0..L /\ \A i \in 1..L : i \in 0..L /\ i # 0 BY <1>2
  <2> HIDE DEF first
  <2> QED BY <2>1, <2>2
<1> HIDE DEF first
<1> DEFINE Bad == {i \in 0..L : ~Stage(k, net, f[i], i)}
<1>5. Bad = {}
  <2> SUFFICES ASSUME Bad # {} PROVE FALSE OBVIOUS
  <2>1. Bad \in SUBSET Nat BY <1>2
  <2>2. PICK i \in Bad : \A p \in Bad : i <= p
    <3> HIDE DEF Bad
    <3> QED BY <2>1, Lowest
  <2>3. i \in 0..L /\ ~Stage(k, net, f[i], i) BY <2>2
  <2>4. CASE i = 0 BY <1>2, <1>3, <1>4, <2>3, <2>4, AssignStep
  <2>5. CASE i # 0
    <3>1. i \in 1..L /\ i - 1 \in 0..L /\ ~(i <= i - 1) BY <1>2, <2>3, <2>5
    <3>2. i - 1 \notin Bad
      <4> HIDE DEF Bad
      <4> QED BY <2>2, <3>1
    <3>3. Stage(k, net, f[i - 1], i - 1) BY <3>1, <3>2
    <3>4. Stage(k, net, K8s!AssignAt(f[i - 1], i, net), i) BY <1>2, <3>1, <3>3, AssignStep
    <3> QED BY <1>4, <2>3, <3>1, <3>4
  <2> QED BY <2>4, <2>5
<1>6. L \in 0..L BY <1>2
<1>7. Stage(k, net, f[L], L) BY <1>5, <1>6
<1> QED BY <1>1, <1>7

MachineOk(d, w) ==
  /\ w = [name |-> w.name, disk |-> w.disk, pub4 |-> w.pub4, pub6 |-> w.pub6, ip |-> w.ip, url |-> w.url,
          token |-> w.token, entry |-> w.entry]
  /\ w.url = K8s!NoAddress => w.name = d.name

(* The machines of a deployment have addresses of their own in its subnet.  *)
OnItsOwn(d) ==
  \A w \in d.machines : w.ip # K8s!NoAddress /\ w.ip[1] = d.node /\ \A v \in d.machines : v.ip = w.ip => v = w
DeploymentOk(d, lost) ==
  /\ d.name \in Cluster /\ d.node \in ClusterNode
  /\ IsFiniteSet(d.machines) /\ \A w \in d.machines : MachineOk(d, w)
  /\ d.name \notin lost => OnItsOwn(d)
GridOk(g, m, lost) ==
  /\ m \in Nat /\ DOMAIN g \subseteq 1..m /\ g = [id \in DOMAIN g |-> g[id]]
  /\ \A id \in DOMAIN g : DeploymentOk(g[id], lost)

(* The contracts a cluster has: its own, one a node.                        *)
IdsOk(c, ids, g, m) ==
  /\ ids = [n \in DOMAIN ids |-> ids[n]] /\ DOMAIN ids \subseteq ClusterNode
  /\ \A n \in DOMAIN ids : ids[n] \in 1..m
  /\ \A n, o \in DOMAIN ids : n # o => ids[n] # ids[o]
  /\ \A n \in DOMAIN ids : ids[n] \in DOMAIN g => g[ids[n]].name = c

(* They are all there are, each on its node.                                *)
WholeIds(c, ids, g) ==
  /\ \A n \in DOMAIN ids : ids[n] \in DOMAIN g => g[ids[n]].node = n
  /\ \A id \in DOMAIN g : g[id].name = c => \E n \in DOMAIN ids : ids[n] = id

(* What a cluster is when it was deployed without error.                    *)
InOrder(k, g, net) ==
  /\ k.master # K8s!Nobody /\ K8s!Valid(k) /\ \A m \in K8s!Members(k) : K8s!Keeps(m, net)
  /\ DOMAIN k.ids = K8s!NodesOf(k)
  /\ \A n \in DOMAIN k.ids : k.ids[n] \in DOMAIN g /\ g[k.ids[n]] = K8s!Deployments(k, "ok")[n]

(* A call has left the contracts of d alone.                                *)
Spared(d, g, m, h, p) ==
  /\ m \in Nat /\ p \in Nat /\ m <= p
  /\ \A id \in DOMAIN g : g[id].name = d => id \in DOMAIN h /\ h[id] = g[id]
  /\ \A id \in DOMAIN h : h[id].name = d => id \in DOMAIN g /\ h[id] = g[id]
  /\ \A id \in DOMAIN h : id \in 1..m => id \in DOMAIN g /\ h[id].name = g[id].name

LEMMA SparedKeeps ==
  ASSUME NEW d, NEW g, NEW m, NEW h, NEW p, Spared(d, g, m, h, p), NEW k, IdsOk(d, k.ids, g, m), NEW net
  PROVE  /\ IdsOk(d, k.ids, h, p)
         /\ WholeIds(d, k.ids, g) => WholeIds(d, k.ids, h)
         /\ InOrder(k, g, net) => InOrder(k, h, net)
<1>1. IdsOk(d, k.ids, h, p)
  <2>1. \A n \in DOMAIN k.ids : k.ids[n] \in 1..p BY DEF IdsOk, Spared
  <2>2. \A n \in DOMAIN k.ids : k.ids[n] \in DOMAIN h => h[k.ids[n]].name = d
    BY DEF IdsOk, Spared
  <2> QED BY <2>1, <2>2 DEF IdsOk
<1>2. WholeIds(d, k.ids, g) => WholeIds(d, k.ids, h)
  <2> SUFFICES ASSUME WholeIds(d, k.ids, g) PROVE WholeIds(d, k.ids, h) OBVIOUS
  <2>1. \A n \in DOMAIN k.ids : k.ids[n] \in DOMAIN h => h[k.ids[n]].node = n
    BY <1>1 DEF IdsOk, WholeIds, Spared
  <2>2. \A id \in DOMAIN h : h[id].name = d => \E n \in DOMAIN k.ids : k.ids[n] = id
    BY DEF WholeIds, Spared
  <2> QED BY <2>1, <2>2 DEF WholeIds
<1>3. InOrder(k, g, net) => InOrder(k, h, net)
  <2> SUFFICES ASSUME InOrder(k, g, net) PROVE InOrder(k, h, net) OBVIOUS
  <2>1. \A n \in DOMAIN k.ids : k.ids[n] \in DOMAIN g /\ g[k.ids[n]].name = d BY DEF InOrder, IdsOk
  <2>2. \A n \in DOMAIN k.ids : k.ids[n] \in DOMAIN h /\ h[k.ids[n]] = g[k.ids[n]] BY <2>1 DEF Spared
  <2> QED BY <2>2 DEF InOrder
<1> QED BY <1>1, <1>2, <1>3

(* What is asked of a call for cluster c: on each node its deployment.      *)
StuckOk(c, stuck, lost) ==
  /\ DOMAIN stuck \subseteq ClusterNode
  /\ \A n \in DOMAIN stuck : DeploymentOk(stuck[n], lost) /\ stuck[n].name = c /\ stuck[n].node = n

LEMMA IdsGiven ==
  ASSUME K8s!ClusterAssumption, NEW c, NEW ids, NEW g, NEW m, NEW lost, NEW stuck,
         GridOk(g, m, lost), IdsOk(c, ids, g, m), StuckOk(c, stuck, lost)
  PROVE  Given(ids, g, stuck, m)
<1>1. ClusterNode \subseteq Nat /\ IsFiniteSet(ClusterNode) BY DEF K8s!ClusterAssumption, K8s!IsFiniteSet, IsFiniteSet
<1>2. DOMAIN ids \in SUBSET ClusterNode /\ DOMAIN stuck \in SUBSET ClusterNode BY DEF IdsOk, StuckOk
<1>3. IsFiniteSet(DOMAIN ids) /\ IsFiniteSet(DOMAIN stuck) BY <1>1, <1>2, FS_Subset
<1> QED BY <1>1, <1>2, <1>3 DEF Given, GridOk, IdsOk

LEMMA EndedRight ==
  ASSUME NEW c, NEW ids, NEW g, NEW m, NEW lost, NEW stuck, NEW out,
         GridOk(g, m, lost), IdsOk(c, ids, g, m), c \notin lost => WholeIds(c, ids, g), StuckOk(c, stuck, lost),
         Follows(ids, g, stuck, m, out)
  PROVE  /\ GridOk(out.grid, out.made, lost) /\ IdsOk(c, out.ids, out.grid, out.made)
         /\ c \notin lost => WholeIds(c, out.ids, out.grid)
         /\ \A d : d # c => Spared(d, g, m, out.grid, out.made)
<1>1. /\ m \in Nat /\ out.made \in Nat /\ m <= out.made /\ DOMAIN g \subseteq 1..m
      /\ \A i \in New(m, out) : i \in 1..out.made /\ i \notin 1..m
      /\ \A i \in 1..m : i \in 1..out.made
  BY DEF GridOk, Follows, New
<1>2. /\ \A n \in DOMAIN out.ids : (n \in DOMAIN ids /\ out.ids[n] = ids[n]) \/ out.ids[n] \in New(m, out)
      /\ \A n, o \in DOMAIN out.ids : n # o => out.ids[n] # out.ids[o]
      /\ out.ids = [n \in DOMAIN out.ids |-> out.ids[n]] /\ DOMAIN out.ids \subseteq DOMAIN ids \cup DOMAIN stuck
      /\ out.grid = [i \in DOMAIN out.grid |-> out.grid[i]]
  BY DEF Follows
<1>3. \A i \in DOMAIN out.grid \ DOMAIN g : i \in New(m, out) /\ \E n \in DOMAIN out.ids : i = out.ids[n]
  BY DEF Follows
<1>4. \A i \in DOMAIN g : (\A n \in DOMAIN ids : ids[n] # i) => i \in DOMAIN out.grid /\ out.grid[i] = g[i]
  BY DEF Follows
<1>5. \A n \in DOMAIN ids : ids[n] \in DOMAIN out.grid => n \in DOMAIN out.ids /\ out.ids[n] = ids[n]
  BY DEF Follows
<1>6. \A n \in DOMAIN out.ids : out.ids[n] \in DOMAIN out.grid =>
        \/ n \in DOMAIN stuck /\ out.grid[out.ids[n]] = stuck[n]
        \/ n \in DOMAIN ids /\ ids[n] \in DOMAIN g /\ out.grid[out.ids[n]] = g[ids[n]]
  BY DEF Follows
<1>7. \A i \in DOMAIN out.grid : (i \in DOMAIN g /\ out.grid[i] = g[i] /\ \A n \in DOMAIN ids : ids[n] # i)
                                 \/ \E n \in DOMAIN out.ids : i = out.ids[n]
  BY <1>3, <1>4, <1>5
<1>8. \A n \in DOMAIN out.ids : out.ids[n] \in DOMAIN out.grid =>
         DeploymentOk(out.grid[out.ids[n]], lost) /\ out.grid[out.ids[n]].name = c
         /\ (c \notin lost => out.grid[out.ids[n]].node = n)
  BY <1>6 DEF StuckOk, IdsOk, GridOk, WholeIds
<1>9. GridOk(out.grid, out.made, lost)
  <2>1. DOMAIN out.grid \subseteq 1..out.made BY <1>1, <1>3
  <2>2. \A i \in DOMAIN out.grid : DeploymentOk(out.grid[i], lost) BY <1>7, <1>8 DEF GridOk
  <2> QED BY <1>1, <1>2, <2>1, <2>2 DEF GridOk
<1>10. IdsOk(c, out.ids, out.grid, out.made)
  <2>1. \A n \in DOMAIN out.ids : out.ids[n] \in 1..out.made BY <1>1, <1>2 DEF IdsOk
  <2>2. DOMAIN out.ids \subseteq ClusterNode BY <1>2 DEF IdsOk, StuckOk
  <2> QED BY <1>2, <1>8, <2>1, <2>2 DEF IdsOk
<1>11. ASSUME c \notin lost PROVE WholeIds(c, out.ids, out.grid)
  <2>1. ASSUME NEW id \in DOMAIN out.grid, out.grid[id].name = c PROVE \E n \in DOMAIN out.ids : out.ids[n] = id
    <3>1. CASE id \in DOMAIN g /\ out.grid[id] = g[id] /\ \A n \in DOMAIN ids : ids[n] # id
      BY <1>11, <2>1, <3>1 DEF WholeIds
    <3> QED BY <1>7, <3>1
  <2> QED BY <1>8, <1>11, <2>1 DEF WholeIds
<1>12. ASSUME NEW d, d # c PROVE Spared(d, g, m, out.grid, out.made)
  <2>1. \A id \in DOMAIN g : g[id].name = d => id \in DOMAIN out.grid /\ out.grid[id] = g[id]
    BY <1>4, <1>12 DEF IdsOk
  <2>2. \A id \in DOMAIN out.grid : out.grid[id].name = d => id \in DOMAIN g /\ out.grid[id] = g[id]
    BY <1>7, <1>8, <1>12
  <2>3. ASSUME NEW id \in DOMAIN out.grid, id \in 1..m PROVE id \in DOMAIN g /\ out.grid[id].name = g[id].name
    <3>1. id \in DOMAIN g BY <1>1, <1>3, <2>3
    <3>2. CASE \E n \in DOMAIN out.ids : id = out.ids[n]
      <4>1. PICK n \in DOMAIN out.ids : id = out.ids[n] BY <3>2
      <4>2. n \in DOMAIN ids /\ ids[n] = id BY <1>1, <1>2, <2>3, <4>1
      <4> QED BY <1>8, <3>1, <4>1, <4>2 DEF IdsOk
    <3> QED BY <1>7, <3>1, <3>2
  <2> QED BY <1>1, <2>1, <2>2, <2>3 DEF Spared
<1> QED BY <1>9, <1>10, <1>11, <1>12

HandOk(c, k, g, m) ==
  /\ ClusterShape(k) /\ (k.master = K8s!Nobody \/ (MemberOk(k.master) /\ k.master.name = c))
  /\ IdsOk(c, k.ids, g, m)
Whole(c, k, g) == K8s!Apart(k) /\ WholeIds(c, k.ids, g)

(* y has the members of k, and its token.                                   *)
Alike(k, y) == y.master = k.master /\ y.workers = k.workers /\ y.token = k.token

LEMMA AlikeIs ==
  ASSUME NEW k, NEW y, Alike(k, y)
  PROVE  /\ K8s!Members(y) = K8s!Members(k) /\ K8s!NodesOf(y) = K8s!NodesOf(k) /\ K8s!Places(y) = K8s!Places(k)
         /\ K8s!Apart(y) = K8s!Apart(k) /\ K8s!Valid(y) = K8s!Valid(k)
         /\ \A i : K8s!MemberAt(y, i) = K8s!MemberAt(k, i)
         /\ y.entry = k.entry => \A s : K8s!Deployments(y, s) = K8s!Deployments(k, s)
<1>1. K8s!Members(y) = K8s!Members(k) BY DEF Alike, K8s!Members
<1>2. K8s!NodesOf(y) = K8s!NodesOf(k) BY <1>1 DEF K8s!NodesOf
<1>3. K8s!Apart(y) = K8s!Apart(k) BY <1>1 DEF K8s!Apart
<1>4. K8s!Valid(y) = K8s!Valid(k) BY DEF Alike, K8s!Valid
<1>5. K8s!Places(y) = K8s!Places(k) /\ \A i : K8s!MemberAt(y, i) = K8s!MemberAt(k, i)
  BY DEF Alike, K8s!Places, K8s!MemberAt
<1>6. ASSUME y.entry = k.entry, NEW s PROVE K8s!Deployments(y, s) = K8s!Deployments(k, s)
  <2>1. \A m, url : K8s!Machine(y, m, url) = K8s!Machine(k, m, url) BY <1>6 DEF Alike, K8s!Machine
  <2>2. \A n : K8s!MachinesOn(y, n) = K8s!MachinesOn(k, n) BY <2>1 DEF Alike, K8s!MachinesOn
  <2> QED BY <1>2, <2>2 DEF Alike, K8s!Deployments
<1> QED BY <1>1, <1>2, <1>3, <1>4, <1>5, <1>6

LEMMA NamesTell ==
  ASSUME NEW k, Full(k), K8s!Valid(k)
  PROVE  /\ \A a, b \in K8s!Members(k) : a.name = b.name => a = b
         /\ \A i, j \in K8s!Places(k) : i # j => K8s!MemberAt(k, i).name # K8s!MemberAt(k, j).name
         /\ \A m \in K8s!Range(k.workers) : m.name # k.master.name
<1>1. DOMAIN k.workers = 1..Len(k.workers) /\ Len(k.workers) \in Nat BY ListHas DEF Full, ClusterShape
<1>2. /\ \A i, j \in 1..Len(k.workers) : i # j => k.workers[i].name # k.workers[j].name
      /\ \A i \in 1..Len(k.workers) : k.workers[i].name # k.master.name
  BY <1>1 DEF K8s!Valid
<1>3. \A i \in K8s!Places(k) : i = 0 \/ i \in 1..Len(k.workers) BY <1>1 DEF K8s!Places
<1>4. \A i, j \in K8s!Places(k) : i # j => K8s!MemberAt(k, i).name # K8s!MemberAt(k, j).name
  BY <1>2, <1>3 DEF K8s!MemberAt
<1>5. \A m \in K8s!Range(k.workers) : m.name # k.master.name BY <1>1, <1>2 DEF K8s!Range
<1>6. \A a, b \in K8s!Members(k) : a.name = b.name => a = b BY <1>4, MembersAt
<1> QED BY <1>4, <1>5, <1>6

LEMMA Addressed ==
  ASSUME K8s!ClusterAssumption, NEW k, Full(k), NEW net \in SUBSET ClusterNode,
         NEW r, r = K8s!AssignNodesIPs(k, net)
  PROVE  /\ SameBut(k, r.k) /\ r.ok \in BOOLEAN
         /\ K8s!Valid(k) => K8s!Valid(r.k)
         /\ r.ok => \A m \in K8s!Members(r.k) : K8s!Keeps(m, net)
         /\ r.ok /\ K8s!Valid(k) /\ K8s!Apart(k) => K8s!Apart(r.k)
<1>1. Stage(k, net, r, Len(k.workers)) BY AssignRight
<1>2. SameBut(k, r.k) /\ r.ok \in BOOLEAN BY <1>1 DEF Stage
<1>3. /\ Full(r.k) /\ K8s!Places(r.k) = K8s!Places(k) /\ r.k.token = k.token /\ r.k.master.name = k.master.name
      /\ \A i \in K8s!Places(k) : K8s!MemberAt(r.k, i).name = K8s!MemberAt(k, i).name
  BY <1>2, SameButIs
<1>4. K8s!Places(k) = 0..Len(k.workers) /\ Len(k.workers) \in Nat BY MembersAt
<1>5. ASSUME r.ok, NEW m \in K8s!Members(r.k) PROVE K8s!Keeps(m, net)
  <2>1. PICK i \in K8s!Places(k) : m = K8s!MemberAt(r.k, i) BY <1>3, MembersAt
  <2>2. i <= Len(k.workers) BY <1>4, <2>1
  <2> QED BY <1>1, <1>3, <1>5, <2>1, <2>2 DEF Stage, Settled
<1>6. ASSUME K8s!Valid(k) PROVE K8s!Valid(r.k)
  <2>1. DOMAIN r.k.workers = 1..Len(k.workers) /\ DOMAIN k.workers = 1..Len(k.workers)
    BY <1>2, ListHas DEF SameBut, Full, ClusterShape
  <2>2. \A i \in 1..Len(k.workers) : i # 0 /\ i \in K8s!Places(k) BY <1>4
  <2>3. \A i \in 1..Len(k.workers) : r.k.workers[i].name = k.workers[i].name BY <1>3, <2>2 DEF K8s!MemberAt
  <2> QED BY <1>3, <1>6, <2>1, <2>3 DEF K8s!Valid
<1>7. ASSUME r.ok, K8s!Valid(k), K8s!Apart(k) PROVE K8s!Apart(r.k)
  <2>1. Parted(k, net)
    <3>1. \A i, j \in K8s!Places(k) : i # j => K8s!MemberAt(k, i).name # K8s!MemberAt(k, j).name BY <1>7, NamesTell
    <3>2. \A i \in K8s!Places(k) : K8s!MemberAt(k, i) \in K8s!Members(k) BY MembersAt
    <3> QED BY <1>7, <3>1, <3>2 DEF Parted, K8s!Apart, K8s!Keeps
  <2>2. Parted(r.k, net) BY <1>1, <1>7, <2>1 DEF Stage
  <2> SUFFICES ASSUME NEW a \in K8s!Members(r.k), NEW b \in K8s!Members(r.k), a.name # b.name, a.ip = b.ip PROVE FALSE
    BY DEF K8s!Apart
  <2>3. PICK i \in K8s!Places(k) : a = K8s!MemberAt(r.k, i) BY <1>3, MembersAt
  <2>4. PICK j \in K8s!Places(k) : b = K8s!MemberAt(r.k, j) BY <1>3, MembersAt
  <2>5. i # j BY <2>3, <2>4
  <2> QED BY <1>3, <1>5, <1>7, <2>2, <2>3, <2>4, <2>5 DEF Parted
<1> QED BY <1>2, <1>5, <1>6, <1>7

LEMMA ImageFinite == ASSUME NEW S, IsFiniteSet(S), NEW f PROVE IsFiniteSet({f[x] : x \in S})
<1> DEFINE g == [x \in S |-> f[x]]
           T == {f[x] : x \in S}
<1>1. g \in Surjection(S, T) BY DEF Surjection
<1> HIDE DEF g, T
<1>2. IsFiniteSet(T) BY <1>1, FS_Surjection
<1> QED BY <1>2 DEF T

LEMMA MachinesFinite == ASSUME NEW k, Full(k), NEW n PROVE IsFiniteSet(K8s!MachinesOn(k, n))
<1> DEFINE L == Len(k.workers)
           f == [i \in 0..L |-> IF i = 0 THEN K8s!Machine(k, k.master, K8s!NoAddress)
                               ELSE K8s!Machine(k, k.workers[i], k.master.ip)]
           T == {f[i] : i \in 0..L}
<1>1. DOMAIN k.workers = 1..L /\ L \in Nat BY ListHas DEF Full, ClusterShape
<1>2. IsFiniteSet(0..L) BY <1>1, FS_Interval
<1>3. IsFiniteSet(T)
  <2> HIDE DEF f
  <2> QED BY <1>2, ImageFinite
<1>4. 0 \in 0..L /\ f[0] = K8s!Machine(k, k.master, K8s!NoAddress) BY <1>1
<1>5. \A i \in 1..L : i \in 0..L /\ f[i] = K8s!Machine(k, k.workers[i], k.master.ip) BY <1>1
<1>6. \A w \in K8s!MachinesOn(k, n) : \/ w = K8s!Machine(k, k.master, K8s!NoAddress)
                                     \/ \E i \in 1..L : w = K8s!Machine(k, k.workers[i], k.master.ip)
  BY <1>1 DEF K8s!MachinesOn, K8s!Range
<1> HIDE DEF f, L
<1>7. K8s!MachinesOn(k, n) \in SUBSET T BY <1>4, <1>5, <1>6
<1> QED BY <1>3, <1>7, FS_Subset

LEMMA DeploymentsRight ==
  ASSUME NEW c \in Cluster, NEW k, Full(k), K8s!Valid(k), k.master.name = c, NEW net,
         \A m \in K8s!Members(k) : K8s!Keeps(m, net), NEW lost, c \notin lost => K8s!Apart(k), NEW state
  PROVE  StuckOk(c, K8s!Deployments(k, state), lost) /\ DOMAIN K8s!Deployments(k, state) = K8s!NodesOf(k)
<1> DEFINE new == K8s!Deployments(k, state)
<1>1. DOMAIN new = K8s!NodesOf(k) /\ K8s!NodesOf(k) \subseteq ClusterNode
  <2>1. \A i \in K8s!Places(k) : K8s!MemberAt(k, i).node \in ClusterNode BY MembersAt DEF MemberOk
  <2> QED BY <2>1, MembersAt DEF K8s!Deployments
<1>2. SUFFICES ASSUME NEW n \in K8s!NodesOf(k)
               PROVE  DeploymentOk(new[n], lost) /\ new[n].name = c /\ new[n].node = n
  BY <1>1 DEF StuckOk
<1>3. new[n] = [name |-> k.master.name, node |-> n, state |-> state, machines |-> K8s!MachinesOn(k, n)]
  BY DEF K8s!Deployments
<1> HIDE DEF new
<1>4. new[n].name = c /\ new[n].node = n /\ new[n].machines = K8s!MachinesOn(k, n) BY <1>3
<1>5. /\ k.master \in K8s!Members(k) /\ k.master.ip # K8s!NoAddress
      /\ \A m \in K8s!Range(k.workers) : m \in K8s!Members(k)
  BY DEF K8s!Members, K8s!Keeps
<1> DEFINE M(m, url) == K8s!Machine(k, m, url)
<1>6. \A w \in new[n].machines :
        \/ k.master.node = n /\ w = M(k.master, K8s!NoAddress)
        \/ \E m \in K8s!Range(k.workers) : m.node = n /\ w = M(m, k.master.ip)
  BY <1>4 DEF K8s!MachinesOn
<1>7. \A m, url : /\ M(m, url).ip = m.ip /\ M(m, url).name = m.name /\ M(m, url).url = url
                  /\ M(m, url) = [name |-> M(m, url).name, disk |-> M(m, url).disk, pub4 |-> M(m, url).pub4,
                                  pub6 |-> M(m, url).pub6, ip |-> M(m, url).ip, url |-> M(m, url).url,
                                  token |-> M(m, url).token, entry |-> M(m, url).entry]
  BY DEF K8s!Machine
<1> HIDE DEF M
<1>8. \A w \in new[n].machines : MachineOk(new[n], w)
  BY <1>4, <1>5, <1>6, <1>7 DEF MachineOk
<1>9. \A w \in new[n].machines : \E m \in K8s!Members(k) : w.ip = m.ip /\ m.node = n /\ w.name = m.name
  BY <1>5, <1>6, <1>7
<1>10. ASSUME c \notin lost PROVE OnItsOwn(new[n])
  <2>1. ASSUME NEW v \in new[n].machines, NEW w \in new[n].machines, v.ip = w.ip PROVE v = w
    <3>1. v.name = w.name
      <4>1. PICK a \in K8s!Members(k) : v.ip = a.ip /\ v.name = a.name BY <1>9
      <4>2. PICK b \in K8s!Members(k) : w.ip = b.ip /\ w.name = b.name BY <1>9
      <4> QED BY <1>10, <2>1, <4>1, <4>2 DEF K8s!Apart, K8s!Keeps
    <3>2. \A a, b \in K8s!Members(k) : a.name = b.name => a = b BY NamesTell
    <3>3. \A m \in K8s!Range(k.workers) : m.name # k.master.name BY NamesTell
    <3> QED BY <1>5, <1>6, <1>7, <3>1, <3>2, <3>3
  <2>2. \A w \in new[n].machines : w.ip # K8s!NoAddress /\ w.ip[1] = n BY <1>9 DEF K8s!Keeps
  <2> QED BY <1>4, <2>1, <2>2 DEF OnItsOwn
<1>11. IsFiniteSet(new[n].machines) BY <1>4, MachinesFinite
<1> QED BY <1>1, <1>2, <1>4, <1>8, <1>10, <1>11 DEF DeploymentOk

(* What a caller asks for: the members of before keep their addresses.      *)
LEMMA AskedRight ==
  ASSUME K8s!ClusterAssumption, NEW c, NEW k, NEW g, NEW m, HandOk(c, k, g, m), NEW a \in Asks,
         NEW y, y = K8s!Asked(k, K8s!AskFor(c, a))
  PROVE  /\ HandOk(c, y, g, m) /\ y.ids = k.ids /\ y.master.name = c /\ Full(y)
         /\ K8s!Apart(k) => K8s!Apart(y)
<1> DEFINE ask == K8s!AskFor(c, a)
           had(x) == {o \in K8s!Members(k) : o.name = x.name}
           ip(x) == IF had(x) # {} THEN (CHOOSE o \in had(x) : TRUE).ip ELSE x.ip
           with(x) == IF had(x) # {} THEN [x EXCEPT !.ip = (CHOOSE o \in had(x) : TRUE).ip] ELSE x
           ws == [i \in DOMAIN ask.workers |-> with(ask.workers[i])]
           MasterIn(x) == MemberOk(x) /\ x.ip = K8s!NoAddress
<1>1. y = [master |-> with(ask.master), workers |-> ws, token |-> ask.token, entry |-> ask.entry, ids |-> k.ids]
  BY Zenon DEF K8s!Asked
<1>2. /\ a = [master |-> a.master, workers |-> a.workers, token |-> a.token, entry |-> a.entry]
      /\ a.master \in K8s!Member /\ a.workers \in Seq(K8s!Member)
  BY DEF K8s!ClusterAssumption
<1>3. ask.master = [a.master EXCEPT !.name = c] /\ ask.workers = a.workers BY <1>2 DEF K8s!AskFor
<1> HIDE DEF ask
<1>4. \A x \in K8s!Member : MasterIn(x) /\ MasterIn([x EXCEPT !.name = c]) /\ [x EXCEPT !.name = c].name = c
  BY DEF K8s!Member, MemberOk
<1>5. MasterIn(ask.master) /\ ask.master.name = c BY <1>2, <1>3, <1>4
<1>6. /\ Len(ask.workers) \in Nat /\ DOMAIN ask.workers = 1..Len(ask.workers)
      /\ \A i \in 1..Len(ask.workers) : MasterIn(ask.workers[i])
  <2>1. a.workers \in Seq(K8s!Member) BY <1>2
  <2> DEFINE w == a.workers
  <2> HIDE DEF w
  <2>2. w \in Seq(K8s!Member) => Len(w) \in Nat /\ DOMAIN w = 1..Len(w) /\ \A i \in 1..Len(w) : w[i] \in K8s!Member
    OBVIOUS
  <2> HIDE DEF MasterIn
  <2> QED BY <1>3, <1>4, <2>1, <2>2 DEF w
<1>7. \A x : MasterIn(x) => MemberOk(with(x)) /\ with(x).name = x.name /\ with(x).ip = ip(x)
  <2> HIDE DEF had
  <2> QED BY DEF MemberOk
<1> HIDE DEF with
<1>8. ws = [i \in 1..Len(ask.workers) |-> ws[i]] /\ \A i \in 1..Len(ask.workers) : ws[i] = with(ask.workers[i])
  BY <1>6
<1> HIDE DEF ws
<1>9. IsList(ws) /\ Len(ws) = Len(ask.workers) /\ DOMAIN ws = 1..Len(ask.workers) BY <1>6, <1>8, ListIs
<1>10. ClusterShape(y) /\ MemberOk(y.master) /\ y.master.name = c /\ y.ids = k.ids
  <2>1. y.workers = ws /\ y.master = with(ask.master) /\ y.ids = k.ids BY <1>1
  <2>2. y = [master |-> y.master, workers |-> y.workers, token |-> y.token, entry |-> y.entry, ids |-> y.ids]
    BY <1>1
  <2>3. MemberOk(with(ask.master)) /\ with(ask.master).name = c BY <1>5, <1>7
  <2>4. \A i \in 1..Len(ws) : MemberOk(ws[i]) BY <1>6, <1>7, <1>8, <1>9
  <2>5. ClusterShape(y) BY <1>9, <2>1, <2>2, <2>4 DEF ClusterShape
  <2> QED BY <2>1, <2>3, <2>5
<1>11. HandOk(c, y, g, m) BY <1>10 DEF HandOk
<1>12. ASSUME K8s!Apart(k) PROVE K8s!Apart(y)
  <2>1. \A b \in K8s!Members(y) : \E x : MasterIn(x) /\ b = with(x)
    <3>1. y.workers = ws /\ y.master = with(ask.master) BY <1>1
    <3> QED BY <1>5, <1>6, <1>8, <1>9, <3>1 DEF K8s!Members, K8s!Range
  <2>2. \A x : MasterIn(x) => ip(x) = K8s!NoAddress \/ \E o \in K8s!Members(k) : o.name = x.name /\ ip(x) = o.ip
    OBVIOUS
  <2> SUFFICES ASSUME NEW b \in K8s!Members(y), NEW d \in K8s!Members(y), b.name # d.name, b.ip = d.ip
               PROVE  b.ip = K8s!NoAddress
    BY DEF K8s!Apart
  <2> HIDE DEF ip, MasterIn
  <2>3. PICK x : MasterIn(x) /\ b = with(x) BY <2>1
  <2>4. PICK z : MasterIn(z) /\ d = with(z) BY <2>1
  <2>5. b.name = x.name /\ b.ip = ip(x) /\ d.name = z.name /\ d.ip = ip(z) BY <1>7, <2>3, <2>4
  <2> QED BY <1>12, <2>2, <2>3, <2>4, <2>5 DEF K8s!Apart
<1> QED BY <1>10, <1>11, <1>12 DEF Full

(* Prepared: what is gone from the grid is forgotten.                       *)
LEMMA PreparedRight ==
  ASSUME NEW c, NEW k, HandOk(c, k, deployments, made), NEW p, p = K8s!Prepared(k)
  PROVE  /\ HandOk(c, p, deployments, made) /\ Alike(k, p)
         /\ \A n \in DOMAIN p.ids : p.ids[n] \in DOMAIN deployments
         /\ \A n \in DOMAIN p.ids : n \in DOMAIN k.ids /\ p.ids[n] = k.ids[n]
         /\ \A n \in DOMAIN k.ids : k.ids[n] \in DOMAIN deployments => n \in DOMAIN p.ids
         /\ \A lost : (c \notin lost => Whole(c, k, deployments)) => (c \notin lost => Whole(c, p, deployments))
<1> DEFINE S == {n \in DOMAIN k.ids : ~K8s!Gone(k.ids[n])}
           ids == [n \in S |-> k.ids[n]]
<1>1. k = [master |-> k.master, workers |-> k.workers, token |-> k.token, entry |-> k.entry, ids |-> k.ids]
  BY DEF HandOk, ClusterShape
<1>2. \E e : p = [master |-> k.master, workers |-> k.workers, token |-> k.token, entry |-> e, ids |-> ids]
  <2>1. K8s!Invalidated(k) = [k EXCEPT !.ids = ids] BY DEF K8s!Invalidated, K8s!Restrict
  <2> HIDE DEF ids
  <2>2. K8s!Invalidated(k) = [master |-> k.master, workers |-> k.workers, token |-> k.token, entry |-> k.entry, ids |-> ids]
    BY <1>1, <2>1
  <2>3. K8s!Prepared(k) = [K8s!Invalidated(k) EXCEPT !.entry = IF @ = "" THEN "zinit" ELSE @] BY DEF K8s!Prepared
  <2> DEFINE e == IF k.entry = "" THEN "zinit" ELSE k.entry
             i == K8s!Invalidated(k)
  <2>4. i.entry = k.entry BY <2>2
  <2>5. p = [i EXCEPT !.entry = e] BY <2>3, <2>4
  <2> HIDE DEF e, i
  <2>6. i = [master |-> k.master, workers |-> k.workers, token |-> k.token, entry |-> k.entry, ids |-> ids]
    BY <2>2 DEF i
  <2>7. p = [master |-> k.master, workers |-> k.workers, token |-> k.token, entry |-> e, ids |-> ids] BY <2>5, <2>6
  <2> QED BY <2>7
<1>3. PICK e : p = [master |-> k.master, workers |-> k.workers, token |-> k.token, entry |-> e, ids |-> ids] BY <1>2
<1>4. /\ p.ids = ids /\ p.master = k.master /\ p.workers = k.workers /\ p.token = k.token
      /\ p = [master |-> p.master, workers |-> p.workers, token |-> p.token, entry |-> p.entry, ids |-> p.ids]
  <2> HIDE DEF ids
  <2> QED BY <1>3
<1>5. DOMAIN ids = S /\ \A n \in S : n \in DOMAIN k.ids /\ ids[n] = k.ids[n] /\ k.ids[n] \in DOMAIN deployments
  BY DEF K8s!Gone
<1>6. \A n \in DOMAIN k.ids : k.ids[n] \in DOMAIN deployments => n \in S BY DEF K8s!Gone
<1>7. ids = [n \in DOMAIN ids |-> ids[n]] OBVIOUS
<1> HIDE DEF ids, S
<1>8. IdsOk(c, p.ids, deployments, made) BY <1>4, <1>5, <1>7 DEF HandOk, IdsOk
<1>9. HandOk(c, p, deployments, made) BY <1>4, <1>8 DEF HandOk, ClusterShape
<1>10. Alike(k, p) BY <1>4 DEF Alike
<1>11. K8s!Apart(p) = K8s!Apart(k) BY <1>10, AlikeIs
<1>12. WholeIds(c, k.ids, deployments) => WholeIds(c, p.ids, deployments) BY <1>4, <1>5, <1>6 DEF WholeIds
<1>13. Whole(c, k, deployments) => Whole(c, p, deployments) BY <1>11, <1>12 DEF Whole
<1> QED BY <1>4, <1>5, <1>6, <1>9, <1>10, <1>13

LEMMA SameK8sFailures ==
  \A ids, g, stuck, m : K8s!Failures(ids, g, stuck, m) = O!Failures(ids, g, stuck, m)
BY DEF K8s!Failures, O!Failures, K8s!Left, O!Left, K8s!Fresh, O!Fresh, K8s!Cardinality, O!Cardinality,
       K8s!IsFiniteSet, O!IsFiniteSet
LEMMA SameK8sSucceeded ==
  \A ids, g, new, m : K8s!Succeeded(ids, g, new, m) = O!Succeeded(ids, g, new, m)
BY DEF K8s!Succeeded, O!Succeeded, K8s!Fresh, O!Fresh, K8s!Cardinality, O!Cardinality,
       K8s!IsFiniteSet, O!IsFiniteSet
LEMMA SameK8sLeft ==
  \A ids, g, new, m, K, R, L, U : K8s!Left(ids, g, new, m, K, R, L, U) = O!Left(ids, g, new, m, K, R, L, U)
BY DEF K8s!Left, O!Left, K8s!Fresh, O!Fresh, K8s!Cardinality, O!Cardinality,
       K8s!IsFiniteSet, O!IsFiniteSet

(* How a call for cluster c may end, from what it was called with.          *)
LostBy(c, r, lost) == IF r.status = "refused" /\ ~K8s!Apart(r.k) THEN lost \cup {c} ELSE lost
Leaves(c, r, net, g, m, lost) ==
  /\ GridOk(r.grid, r.made, LostBy(c, r, lost)) /\ HandOk(c, r.k, r.grid, r.made)
  /\ c \notin LostBy(c, r, lost) => Whole(c, r.k, r.grid)
  /\ r.status \in {"panic", "refused", "failed"} \/ (r.status = "ok" /\ InOrder(r.k, r.grid, net))
  /\ \A d : d # c => Spared(d, g, m, r.grid, r.made)

LEMMA SparedSelf == ASSUME NEW g, NEW m, NEW lost, GridOk(g, m, lost), NEW d PROVE Spared(d, g, m, g, m)
BY DEF GridOk, Spared

LEMMA MoreLost ==
  ASSUME NEW g, NEW m, NEW lost, GridOk(g, m, lost), NEW more, lost \subseteq more PROVE GridOk(g, m, more)
BY DEF GridOk, DeploymentOk

(* A call that ends before anything is sent.                                *)
LEMMA StoppedRight ==
  ASSUME NEW c, NEW k, NEW g, NEW m, NEW lost, GridOk(g, m, lost), HandOk(c, k, g, m),
         c \notin lost => WholeIds(c, k.ids, g), NEW net,
         NEW r, r.k = k, r.grid = g, r.made = m,
         r.status = "refused" \/ (r.status = "panic" /\ (c \notin lost => K8s!Apart(k)))
  PROVE  Leaves(c, r, net, g, m, lost)
<1>1. lost \subseteq LostBy(c, r, lost) BY DEF LostBy
<1>2. GridOk(g, m, LostBy(c, r, lost)) BY <1>1, MoreLost
<1>3. c \notin LostBy(c, r, lost) => c \notin lost /\ K8s!Apart(k) BY DEF LostBy
<1>4. \A d : Spared(d, g, m, g, m) BY SparedSelf
<1>5. r.status \in {"panic", "refused", "failed"} OBVIOUS
<1> QED BY <1>2, <1>3, <1>4, <1>5 DEF Leaves, Whole

(* A call that came to Deployer.Deploy, or to the making of contracts alone. *)
LEMMA SentRight ==
  ASSUME K8s!ClusterAssumption, NEW c \in Cluster, NEW k, NEW g, NEW m, NEW lost, GridOk(g, m, lost),
         Full(k), HandOk(c, k, g, m), c \notin lost => Whole(c, k, g), K8s!Valid(k), k.master.name = c,
         NEW net, \A x \in K8s!Members(k) : K8s!Keeps(x, net),
         NEW state, NEW out, Follows(k.ids, g, K8s!Deployments(k, state), m, out),
         NEW r, r.k = [k EXCEPT !.ids = out.ids], r.grid = out.grid, r.made = out.made,
         r.status = "failed" \/ (r.status = "ok" /\ state = "ok" /\ Reached(K8s!Deployments(k, state), out))
  PROVE  Leaves(c, r, net, g, m, lost)
<1> DEFINE new == K8s!Deployments(k, state)
<1>1. StuckOk(c, new, lost) /\ DOMAIN new = K8s!NodesOf(k) BY DeploymentsRight DEF Whole
<1> HIDE DEF new
<1>2. IdsOk(c, k.ids, g, m) /\ (c \notin lost => WholeIds(c, k.ids, g)) BY DEF HandOk, Whole
<1>3. /\ GridOk(out.grid, out.made, lost) /\ IdsOk(c, out.ids, out.grid, out.made)
      /\ c \notin lost => WholeIds(c, out.ids, out.grid)
      /\ \A d : d # c => Spared(d, g, m, out.grid, out.made)
  BY <1>1, <1>2, EndedRight DEF new
<1>4. /\ k = [master |-> k.master, workers |-> k.workers, token |-> k.token, entry |-> k.entry, ids |-> k.ids]
      /\ IsList(k.workers) /\ \A i \in 1..Len(k.workers) : MemberOk(k.workers[i])
      /\ MemberOk(k.master)
  BY DEF Full, ClusterShape
<1>5. r.k = [master |-> k.master, workers |-> k.workers, token |-> k.token, entry |-> k.entry, ids |-> out.ids]
  BY <1>4
<1>6. /\ r.k.master = k.master /\ r.k.workers = k.workers /\ r.k.token = k.token /\ r.k.entry = k.entry
      /\ r.k.ids = out.ids
      /\ r.k = [master |-> r.k.master, workers |-> r.k.workers, token |-> r.k.token, entry |-> r.k.entry, ids |-> r.k.ids]
  BY <1>5
<1>7. Alike(k, r.k) /\ r.k.entry = k.entry BY <1>6 DEF Alike
<1>8. HandOk(c, r.k, r.grid, r.made)
  <2>1. ClusterShape(r.k) BY <1>4, <1>6 DEF ClusterShape
  <2> QED BY <1>3, <1>4, <1>6, <2>1 DEF HandOk
<1>9. LostBy(c, r, lost) = lost BY DEF LostBy
<1>10. c \notin lost => Whole(c, r.k, r.grid)
  <2>1. K8s!Apart(r.k) = K8s!Apart(k) BY <1>7, AlikeIs
  <2> QED BY <1>3, <1>6, <2>1 DEF Whole
<1>11. ASSUME r.status = "ok" PROVE InOrder(r.k, r.grid, net)
  <2>1. state = "ok" /\ Reached(new, out) BY <1>11 DEF new
  <2>2. /\ K8s!Members(r.k) = K8s!Members(k) /\ K8s!NodesOf(r.k) = K8s!NodesOf(k)
        /\ K8s!Valid(r.k) = K8s!Valid(k) /\ K8s!Deployments(r.k, "ok") = new
    BY <1>7, <2>1, AlikeIs DEF new
  <2>3. r.k.master # K8s!Nobody
    <3>1. k.master.node # 0 BY <1>4 DEF MemberOk, K8s!ClusterAssumption
    <3>2. K8s!Nobody.node = 0 BY DEF K8s!Nobody
    <3> QED BY <1>6, <3>1, <3>2
  <2>4. DOMAIN r.k.ids = K8s!NodesOf(r.k) BY <1>1, <1>6, <2>1, <2>2 DEF Reached
  <2>5. \A n \in DOMAIN r.k.ids : r.k.ids[n] \in DOMAIN r.grid /\ r.grid[r.k.ids[n]] = new[n]
    BY <1>1, <1>6, <2>1, <2>2, <2>4 DEF Reached
  <2> QED BY <2>2, <2>3, <2>4, <2>5 DEF InOrder
<1> QED BY <1>3, <1>8, <1>9, <1>10, <1>11 DEF Leaves

LEMMA DeployLeavesRight ==
  ASSUME K8s!ClusterAssumption, NEW c \in Cluster, NEW k, GridOk(deployments, made, split),
         HandOk(c, k, deployments, made), c \notin split => Whole(c, k, deployments),
         NEW net \in SUBSET ClusterNode, NEW r \in K8s!DeployOutcomes(k, net)
  PROVE  Leaves(c, r, net, deployments, made, split)
<1> DEFINE p == K8s!Prepared(k)
           a == K8s!AssignNodesIPs(p, net)
           new(s) == K8s!Deployments(a.k, s)
           ok == K8s!Succeeded(p.ids, deployments, new("ok"), made)
           fail == K8s!Failures(p.ids, deployments, new("error"), made)
           half == K8s!Half(p.ids, new("ok"))
<1>1. \/ K8s!Panics(k) /\ r = K8s!Panicked(k)
      \/ ~K8s!Panics(k) /\ r = K8s!Refused(p)
      \/ ~K8s!Panics(k) /\ r = K8s!Refused(a.k)
      \/ ~K8s!Panics(k) /\ K8s!Valid(p) /\ a.ok /\ \E out \in half \cup fail : r = K8s!Ended(a.k, out, "failed")
      \/ ~K8s!Panics(k) /\ K8s!Valid(p) /\ a.ok /\ r = K8s!Ended(a.k, ok, "ok")
  <2> DEFINE E == K8s!DeployOutcomes(k, net)
  <2>1. E = IF K8s!Panics(k) THEN {K8s!Panicked(k)}
            ELSE IF ~K8s!Valid(p) THEN {K8s!Refused(p)}
            ELSE IF ~a.ok THEN {K8s!Refused(a.k)}
            ELSE IF K8s!Misplaced(p) THEN {K8s!Ended(a.k, out, "failed") : out \in half}
            ELSE {K8s!Ended(a.k, ok, "ok")}
                 \cup (IF breaks < ClusterFaults
                       THEN {K8s!Refused(p)} \cup {K8s!Ended(a.k, out, "failed") : out \in fail} ELSE {})
    BY Zenon DEF K8s!DeployOutcomes
  <2>2. r \in E OBVIOUS
  <2> HIDE DEF E, p, a, ok, fail, half
  <2> QED BY <2>1, <2>2
<1>2. /\ HandOk(c, p, deployments, made) /\ Alike(k, p)
      /\ \A n \in DOMAIN p.ids : p.ids[n] \in DOMAIN deployments
      /\ c \notin split => Whole(c, p, deployments)
  BY PreparedRight
<1>3. CASE K8s!Panics(k) /\ r = K8s!Panicked(k)
  <2>1. r.k = k /\ r.grid = deployments /\ r.made = made /\ r.status = "panic"
    BY <1>3 DEF K8s!Panicked, K8s!Result
  <2> QED BY <2>1, StoppedRight DEF Whole
<1>4. CASE ~K8s!Panics(k) /\ r = K8s!Refused(p)
  <2>1. r.k = p /\ r.grid = deployments /\ r.made = made /\ r.status = "refused"
    BY <1>4 DEF K8s!Refused, K8s!Result
  <2> HIDE DEF p
  <2> QED BY <1>2, <2>1, StoppedRight DEF Whole
<1>5. ASSUME ~K8s!Panics(k) PROVE Full(p) /\ p.master.name = c
  <2>1. p.master # K8s!Nobody BY <1>2, <1>5 DEF Alike, K8s!Panics
  <2> HIDE DEF p
  <2> QED BY <1>2, <2>1 DEF HandOk, Full
<1> HIDE DEF p
<1>6. ASSUME ~K8s!Panics(k)
      PROVE  /\ SameBut(p, a.k) /\ Full(a.k) /\ a.k.ids = p.ids /\ a.k.master.name = c
             /\ K8s!Valid(p) => K8s!Valid(a.k)
             /\ a.ok => \A m \in K8s!Members(a.k) : K8s!Keeps(m, net)
             /\ a.ok /\ K8s!Valid(p) /\ K8s!Apart(p) => K8s!Apart(a.k)
             /\ HandOk(c, a.k, deployments, made)
  <2>1. Full(p) /\ p.master.name = c BY <1>5, <1>6
  <2>2. /\ SameBut(p, a.k) /\ (K8s!Valid(p) => K8s!Valid(a.k))
        /\ a.ok => \A m \in K8s!Members(a.k) : K8s!Keeps(m, net)
        /\ a.ok /\ K8s!Valid(p) /\ K8s!Apart(p) => K8s!Apart(a.k)
    BY <2>1, Addressed
  <2> HIDE DEF a
  <2>3. Full(a.k) /\ a.k.ids = p.ids /\ a.k.master.name = c BY <2>1, <2>2, SameButIs
  <2> QED BY <1>2, <2>2, <2>3 DEF HandOk, Full
<1> HIDE DEF a
<1>7. CASE ~K8s!Panics(k) /\ r = K8s!Refused(a.k)
  <2>1. r.k = a.k /\ r.grid = deployments /\ r.made = made /\ r.status = "refused"
    BY <1>7 DEF K8s!Refused, K8s!Result
  <2>2. c \notin split => WholeIds(c, a.k.ids, deployments) BY <1>2, <1>6, <1>7 DEF Whole
  <2> QED BY <1>6, <1>7, <2>1, <2>2, StoppedRight
<1>8. ASSUME ~K8s!Panics(k), K8s!Valid(p), a.ok, NEW s
      PROVE  Given(p.ids, deployments, new(s), made) /\ (c \notin split => Whole(c, a.k, deployments))
  <2>1. c \notin split => Whole(c, a.k, deployments) BY <1>2, <1>6, <1>8 DEF Whole
  <2>2. StuckOk(c, new(s), split) BY <1>6, <1>8, <2>1, DeploymentsRight DEF Whole
  <2>3. IdsOk(c, p.ids, deployments, made) BY <1>2 DEF HandOk
  <2> QED BY <2>1, <2>2, <2>3, IdsGiven
<1>9. CASE ~K8s!Panics(k) /\ K8s!Valid(p) /\ a.ok /\ \E out \in half \cup fail : r = K8s!Ended(a.k, out, "failed")
  <2>1. PICK out \in half \cup fail : r = K8s!Ended(a.k, out, "failed") BY <1>9
  <2>2. r.k = [a.k EXCEPT !.ids = out.ids] /\ r.grid = out.grid /\ r.made = out.made /\ r.status = "failed"
    BY <2>1 DEF K8s!Ended, K8s!Result
  <2>3. PICK s \in {"ok", "error"} : Follows(a.k.ids, deployments, new(s), made, out)
    <3>1. CASE out \in half
      <4> DEFINE left(L) == O!Left(p.ids, deployments, new("ok"), made, {}, {}, L, {})
      <4>1. half = {left(L) : L \in SUBSET (DOMAIN new("ok") \ DOMAIN p.ids)} BY SameK8sLeft DEF K8s!Half
      <4>2. PICK L \in SUBSET (DOMAIN new("ok") \ DOMAIN p.ids) : out = left(L)
        <5> HIDE DEF left, half, new
        <5> QED BY <3>1, <4>1
      <4>3. Given(p.ids, deployments, new("ok"), made) BY <1>8, <1>9
      <4> HIDE DEF new
      <4>4. Follows(p.ids, deployments, new("ok"), made, out) BY <4>2, <4>3, LeftFollows
      <4> QED BY <1>6, <1>9, <4>4
    <3>2. CASE out \in fail
      <4>1. out \in O!Failures(p.ids, deployments, new("error"), made) BY <3>2, SameK8sFailures
      <4>2. Given(p.ids, deployments, new("error"), made) BY <1>8, <1>9
      <4> HIDE DEF new
      <4>3. Follows(p.ids, deployments, new("error"), made, out) BY <4>1, <4>2, FailuresFollow
      <4> QED BY <1>6, <1>9, <4>3
    <3> QED BY <3>1, <3>2
  <2>4. c \notin split => Whole(c, a.k, deployments) BY <1>8, <1>9
  <2> QED BY <1>6, <1>9, <2>2, <2>3, <2>4, SentRight
<1>10. CASE ~K8s!Panics(k) /\ K8s!Valid(p) /\ a.ok /\ r = K8s!Ended(a.k, ok, "ok")
  <2>1. r.k = [a.k EXCEPT !.ids = ok.ids] /\ r.grid = ok.grid /\ r.made = ok.made /\ r.status = "ok"
    BY <1>10 DEF K8s!Ended, K8s!Result
  <2>2. ok = O!Succeeded(p.ids, deployments, new("ok"), made) BY SameK8sSucceeded
  <2>3. Given(p.ids, deployments, new("ok"), made) BY <1>8, <1>10
  <2>4. O!Succeeds(p.ids, deployments, new("ok")) BY <1>2 DEF O!Succeeds
  <2>5. Follows(p.ids, deployments, new("ok"), made, ok) /\ Reached(new("ok"), ok)
    <3> HIDE DEF new, ok
    <3> QED BY <2>2, <2>3, <2>4, SucceededFollows
  <2>6. c \notin split => Whole(c, a.k, deployments) BY <1>8, <1>10
  <2> HIDE DEF ok
  <2> QED BY <1>6, <1>10, <2>1, <2>5, <2>6, SentRight
<1> HIDE DEF half, fail, ok
<1> QED BY <1>1, <1>3, <1>4, <1>7, <1>9, <1>10

LEMMA DeployShape ==
  ASSUME NEW k, NEW net, NEW r \in K8s!DeployOutcomes(k, net)
  PROVE  r = K8s!Result(r.k, r.grid, r.made, r.tracked, r.status)
<1> DEFINE p == K8s!Prepared(k)
           a == K8s!AssignNodesIPs(p, net)
           new(s) == K8s!Deployments(a.k, s)
           ok == K8s!Succeeded(p.ids, deployments, new("ok"), made)
           fail == K8s!Failures(p.ids, deployments, new("error"), made)
           half == K8s!Half(p.ids, new("ok"))
           E == K8s!DeployOutcomes(k, net)
<1>1. E = IF K8s!Panics(k) THEN {K8s!Panicked(k)}
          ELSE IF ~K8s!Valid(p) THEN {K8s!Refused(p)}
          ELSE IF ~a.ok THEN {K8s!Refused(a.k)}
          ELSE IF K8s!Misplaced(p) THEN {K8s!Ended(a.k, out, "failed") : out \in half}
          ELSE {K8s!Ended(a.k, ok, "ok")}
               \cup (IF breaks < ClusterFaults
                     THEN {K8s!Refused(p)} \cup {K8s!Ended(a.k, out, "failed") : out \in fail} ELSE {})
  BY Zenon DEF K8s!DeployOutcomes
<1>2. r \in E OBVIOUS
<1> HIDE DEF E, p, a, ok, fail, half
<1>3. r \in {K8s!Panicked(k), K8s!Refused(p), K8s!Refused(a.k)} \/ \E out, s : r = K8s!Ended(a.k, out, s)
  BY <1>1, <1>2
<1>4. \E k1, g1, m1, t1, s1 : r = K8s!Result(k1, g1, m1, t1, s1)
  BY <1>3 DEF K8s!Panicked, K8s!Refused, K8s!Ended
<1> QED BY <1>4 DEF K8s!Result

(* A cluster as it stands between two calls.                                *)
Stands(c, k, g, m, net, s, lost) ==
  /\ HandOk(c, k, g, m) /\ (s # "panic" => net \subseteq ClusterNode)
  /\ c \notin lost => Whole(c, k, g)
  /\ c \notin lost /\ s \in {"ok", "synced", "loaded"} => DOMAIN k.ids \subseteq K8s!NodesOf(k)
  /\ s = "ok" => InOrder(k, g, net)
ClusterStands(c) == Stands(c, clusters[c], deployments, made, nets[c], outcome[c], split)
K8sInv ==
  /\ GridOk(deployments, made, split)
  /\ clusters = [c \in Cluster |-> clusters[c]] /\ nets = [c \in Cluster |-> nets[c]]
  /\ outcome = [c \in Cluster |-> outcome[c]]
  /\ \A c \in Cluster : ClusterStands(c)

LEMMA StandsStill ==
  ASSUME NEW c, NEW k, NEW g, NEW m, NEW net, NEW s, NEW lost, Stands(c, k, g, m, net, s, lost),
         NEW h, NEW p, Spared(c, g, m, h, p), NEW more, lost \subseteq more
  PROVE  Stands(c, k, h, p, net, s, more)
<1>1. IdsOk(c, k.ids, g, m) BY DEF Stands, HandOk
<1>2. /\ IdsOk(c, k.ids, h, p) /\ (WholeIds(c, k.ids, g) => WholeIds(c, k.ids, h))
      /\ InOrder(k, g, net) => InOrder(k, h, net)
  BY <1>1, SparedKeeps
<1> QED BY <1>2 DEF Stands, HandOk, Whole

(* A step of one cluster.                                                   *)
Moved(c, y, s) ==
  /\ clusters' = [clusters EXCEPT ![c] = y] /\ outcome' = [outcome EXCEPT ![c] = s]
  /\ nets' = [d \in Cluster |-> nets'[d]] /\ \A d \in Cluster \ {c} : nets'[d] = nets[d]
  /\ split \subseteq split' /\ split' \subseteq split \cup {c}
  /\ GridOk(deployments', made', split')
  /\ \A d : d # c => Spared(d, deployments, made, deployments', made')
  /\ Stands(c, y, deployments', made', nets'[c], s, split')

LEMMA OneMoves ==
  ASSUME K8sInv, NEW c \in Cluster, NEW y, NEW s, Moved(c, y, s)
  PROVE  /\ K8sInv' /\ outcome'[c] = s /\ clusters'[c] = y
         /\ \A d \in Cluster \ {c} : clusters'[d] = clusters[d] /\ outcome'[d] = outcome[d]
         /\ s # "cancelled" \/ s = outcome[c] => K8s!CancelStep
         /\ s \notin {"synced", "loaded"} \/ s = outcome[c] => K8s!ReadStep
<1>1. /\ clusters' = [d \in Cluster |-> clusters'[d]] /\ outcome' = [d \in Cluster |-> outcome'[d]]
      /\ outcome'[c] = s /\ clusters'[c] = y
      /\ \A d \in Cluster \ {c} : clusters'[d] = clusters[d] /\ outcome'[d] = outcome[d]
  BY DEF K8sInv, Moved
<1>2. ASSUME NEW d \in Cluster PROVE ClusterStands(d)'
  <2>1. CASE d = c BY <1>1, <2>1 DEF Moved, ClusterStands
  <2>2. CASE d # c
    <3>1. Stands(d, clusters[d], deployments, made, nets[d], outcome[d], split) BY DEF K8sInv, ClusterStands
    <3>2. Spared(d, deployments, made, deployments', made') /\ split \subseteq split' BY <2>2 DEF Moved
    <3>3. Stands(d, clusters[d], deployments', made', nets[d], outcome[d], split') BY <3>1, <3>2, StandsStill
    <3> QED BY <1>1, <2>2, <3>3 DEF Moved, ClusterStands
  <2> QED BY <2>1, <2>2
<1>3. K8sInv' BY <1>1, <1>2 DEF K8sInv, Moved
<1>4. ASSUME s # "cancelled" \/ s = outcome[c] PROVE K8s!CancelStep
  <2> SUFFICES ASSUME NEW d \in Cluster, outcome[d] \in {"ok", "synced", "loaded"}, outcome'[d] = "cancelled" PROVE FALSE
    BY DEF K8s!CancelStep
  <2> QED BY <1>1, <1>4
<1>5. ASSUME s \notin {"synced", "loaded"} \/ s = outcome[c] PROVE K8s!ReadStep
  <2> SUFFICES ASSUME NEW d \in Cluster, outcome[d] = "ok", outcome'[d] \in {"synced", "loaded"} PROVE FALSE
    BY DEF K8s!ReadStep
  <2> QED BY <1>1, <1>5
<1> QED BY <1>1, <1>3, <1>4, <1>5

(* The network a call leaves: that of c may change.                         *)
NetsLeft(c, net, r) ==
  /\ nets' = [d \in Cluster |-> nets'[d]] /\ \A d \in Cluster \ {c} : nets'[d] = nets[d]
  /\ (r.status # "panic" => nets'[c] \subseteq ClusterNode) /\ (r.status = "ok" => nets'[c] = net)

LEMMA TakenRight ==
  ASSUME K8sInv, NEW c \in Cluster, NEW r, K8s!Take(c, r), NEW net, Leaves(c, r, net, deployments, made, split),
         NetsLeft(c, net, r)
  PROVE  K8sInv' /\ K8s!CancelStep /\ K8s!ReadStep
<1>1. /\ clusters' = [clusters EXCEPT ![c] = r.k] /\ outcome' = [outcome EXCEPT ![c] = r.status]
      /\ deployments' = r.grid /\ made' = r.made /\ split' = LostBy(c, r, split)
  BY DEF K8s!Take, LostBy
<1>2. split \subseteq split' /\ split' \subseteq split \cup {c} BY <1>1 DEF LostBy
<1>3. r.status \notin {"cancelled", "synced", "loaded"} BY DEF Leaves
<1>4. Stands(c, r.k, r.grid, r.made, nets'[c], r.status, split')
  <2>1. r.status = "ok" => DOMAIN r.k.ids = K8s!NodesOf(r.k) /\ InOrder(r.k, r.grid, nets'[c])
    BY DEF Leaves, NetsLeft, InOrder
  <2> QED BY <1>1, <1>3, <2>1 DEF Leaves, NetsLeft, Stands
<1>5. Moved(c, r.k, r.status) BY <1>1, <1>2, <1>4 DEF Moved, Leaves, NetsLeft
<1> QED BY <1>3, <1>5, OneMoves

LEMMA HandOf ==
  ASSUME K8sInv, NEW c \in Cluster
  PROVE  /\ HandOk(c, clusters[c], deployments, made) /\ (outcome[c] # "panic" => nets[c] \in SUBSET ClusterNode)
         /\ c \notin split => Whole(c, clusters[c], deployments)
         /\ c \notin split /\ outcome[c] \in {"ok", "synced", "loaded"} => DOMAIN clusters[c].ids \subseteq K8s!NodesOf(clusters[c])
         /\ outcome[c] = "ok" => InOrder(clusters[c], deployments, nets[c])
         /\ GridOk(deployments, made, split) /\ nets = [d \in Cluster |-> nets[d]]
BY DEF K8sInv, ClusterStands, Stands

LEMMA ClusterDeployRight ==
  ASSUME K8s!ClusterAssumption, K8sInv, NEW c \in Cluster, outcome[c] # "panic", NEW a \in Asks, K8s!Deploy(c, K8s!AskFor(c, a))
  PROVE  K8sInv' /\ K8s!CancelStep /\ K8s!ReadStep
<1> DEFINE k == K8s!Asked(clusters[c], K8s!AskFor(c, a))
<1>1. PICK r \in K8s!DeployOutcomes(k, nets[c]) : K8s!Take(c, r) BY DEF K8s!Deploy
<1>2. nets' = nets BY DEF K8s!Deploy
<1>3. HandOk(c, k, deployments, made) /\ (c \notin split => Whole(c, k, deployments))
  BY HandOf, AskedRight DEF Whole
<1> HIDE DEF k
<1>4. Leaves(c, r, nets[c], deployments, made, split) BY <1>1, <1>3, HandOf, DeployLeavesRight
<1>5. NetsLeft(c, nets[c], r) BY <1>2, HandOf DEF NetsLeft
<1> QED BY <1>1, <1>4, <1>5, TakenRight

LEMMA NetworkOnIs ==
  ASSUME K8s!ClusterAssumption, NEW S, S \subseteq ClusterNode PROVE K8s!NetworkOn(S) \in SUBSET ClusterNode
BY DEF K8s!NetworkOn, K8s!ClusterAssumption

LEMMA DeployClusterRight ==
  ASSUME K8s!ClusterAssumption, K8sInv, NEW c \in Cluster, outcome[c] # "panic", NEW a \in Asks, K8s!DeployCluster(c, K8s!AskFor(c, a))
  PROVE  K8sInv' /\ K8s!CancelStep /\ K8s!ReadStep
<1> DEFINE ask == K8s!AskFor(c, a)
           on == {ask.master.node} \cup {m.node : m \in K8s!Range(ask.workers)}
           net == K8s!NetworkOn(on)
           k == K8s!Asked(K8s!NoCluster, ask)
<1>1. PICK r \in K8s!DeployOutcomes(k, net) :
        K8s!Take(c, r) /\ nets' = [nets EXCEPT ![c] = IF r.status = "ok" THEN net ELSE {}]
  BY DEF K8s!DeployCluster
<1>2. clusters[c] = K8s!NoCluster BY DEF K8s!DeployCluster
<1>3. HandOk(c, k, deployments, made) /\ (c \notin split => Whole(c, k, deployments))
  BY <1>2, HandOf, AskedRight DEF Whole
<1>4. net \in SUBSET ClusterNode
  <2>1. /\ a = [master |-> a.master, workers |-> a.workers, token |-> a.token, entry |-> a.entry]
        /\ a.master \in K8s!Member /\ a.workers \in Seq(K8s!Member)
    BY DEF K8s!ClusterAssumption
  <2>2. ask.master = [a.master EXCEPT !.name = c] /\ ask.workers = a.workers BY <2>1 DEF K8s!AskFor
  <2>3. \A m \in K8s!Member : m.node \in ClusterNode /\ [m EXCEPT !.name = c].node \in ClusterNode BY DEF K8s!Member
  <2>4. K8s!Range(a.workers) \subseteq K8s!Member
    <3> DEFINE w == a.workers
    <3> HIDE DEF w
    <3>1. w \in Seq(K8s!Member) => \A i \in DOMAIN w : w[i] \in K8s!Member OBVIOUS
    <3> QED BY <2>1, <3>1 DEF K8s!Range, w
  <2>5. ask.master.node \in ClusterNode BY <2>1, <2>2, <2>3
  <2> HIDE DEF ask
  <2>6. on \subseteq ClusterNode BY <2>2, <2>3, <2>4, <2>5
  <2> HIDE DEF on
  <2> QED BY <2>6, NetworkOnIs
<1> HIDE DEF k, net
<1>5. Leaves(c, r, net, deployments, made, split) BY <1>1, <1>3, <1>4, HandOf, DeployLeavesRight
<1>6. NetsLeft(c, net, r) BY <1>1, <1>4, HandOf DEF NetsLeft
<1> QED BY <1>1, <1>5, <1>6, TakenRight

LEMMA AddWorkerRight ==
  ASSUME K8s!ClusterAssumption, K8sInv, NEW c \in Cluster, outcome[c] # "panic", NEW n \in ClusterNode, K8s!AddWorker(c, n)
  PROVE  K8sInv' /\ K8s!CancelStep /\ K8s!ReadStep
<1> DEFINE x == clusters[c]
           w == K8s!NewWorker(x, n)
           net == K8s!NetworkOn(nets[c] \cup {n})
           k == [x EXCEPT !.workers = Append(@, w)]
           ws == Append(x.workers, w)
<1>1. PICK r \in K8s!DeployOutcomes(k, net) : K8s!Take(c, r) BY DEF K8s!AddWorker
<1>2. nets' = [nets EXCEPT ![c] = net] BY DEF K8s!AddWorker
<1>3. net \in SUBSET ClusterNode
  <2>1. nets[c] \cup {n} \subseteq ClusterNode BY HandOf
  <2> QED BY <2>1, NetworkOnIs
<1>4. MemberOk(w) /\ w.ip = K8s!NoAddress 
  <2> DEFINE v == K8s!WorkerName(Len(x.workers))
  <2>1. w = [K8s!Nobody EXCEPT !.name = v, !.node = n, !.disk = 1] BY DEF K8s!NewWorker
  <2> HIDE DEF v, w
  <2>2. w = [name |-> v, node |-> n, disk |-> 1, pub4 |-> FALSE, pub6 |-> FALSE, ip |-> K8s!NoAddress]
    BY <2>1 DEF K8s!Nobody
  <2> QED BY <2>2 DEF MemberOk
<1>5. HandOk(c, x, deployments, made) BY HandOf
<1>6. /\ x = [master |-> x.master, workers |-> x.workers, token |-> x.token, entry |-> x.entry, ids |-> x.ids]
      /\ IsList(x.workers) /\ \A i \in 1..Len(x.workers) : MemberOk(x.workers[i])
  BY <1>5 DEF HandOk, ClusterShape
<1> HIDE DEF x, w
<1>7. k = [master |-> x.master, workers |-> ws, token |-> x.token, entry |-> x.entry, ids |-> x.ids]
  <2>1. k = [x EXCEPT !.workers = ws] OBVIOUS
  <2> HIDE DEF ws
  <2> QED BY <1>6, <2>1
<1>8. /\ IsList(ws) /\ \A i \in 1..Len(ws) : MemberOk(ws[i])
      /\ \A i \in 1..Len(ws) : ws[i] = w \/ \E j \in 1..Len(x.workers) : ws[i] = x.workers[j]
  <2> DEFINE s == x.workers
             L == Len(s)
  <2>1. L \in Nat /\ s = [i \in 1..L |-> s[i]] BY <1>6 DEF IsList
  <2> DEFINE T == {s[i] : i \in 1..L} \cup {w}
  <2>2. s \in Seq(T) /\ w \in T BY <2>1
  <2> HIDE DEF s, T
  <2>3. /\ Append(s, w) \in Seq(T) /\ Len(Append(s, w)) = Len(s) + 1 /\ Len(s) \in Nat
        /\ Append(s, w)[Len(s) + 1] = w /\ \A i \in 1..Len(s) : Append(s, w)[i] = s[i]
    BY <2>2
  <2> DEFINE q == Append(s, w)
  <2> HIDE DEF L, q
  <2>4. IsList(q)
    <3>1. q \in Seq(T) => Len(q) \in Nat /\ q = [i \in 1..Len(q) |-> q[i]] OBVIOUS
    <3> QED BY <2>3, <3>1 DEF IsList, q
  <2>5. \A i \in 1..(L + 1) : i = L + 1 \/ i \in 1..L BY <2>1
  <2>6. Len(q) = L + 1 BY <2>3 DEF L, q
  <2>7. \A i \in 1..(L + 1) : q[i] = w \/ (i \in 1..L /\ q[i] = s[i]) BY <2>3, <2>5 DEF L, q
  <2>8. ws = q BY DEF q, s
  <2>9. \A i \in 1..L : MemberOk(s[i]) BY <1>6 DEF L, s
  <2>10. \A i \in 1..L : s[i] = x.workers[i] /\ i \in 1..Len(x.workers) BY DEF L, s
  <2> HIDE DEF ws, s
  <2> QED BY <1>4, <2>4, <2>6, <2>7, <2>8, <2>9, <2>10
<1> HIDE DEF ws
<1>9. /\ k.workers = ws /\ k.master = x.master /\ k.ids = x.ids
      /\ k = [master |-> k.master, workers |-> k.workers, token |-> k.token, entry |-> k.entry, ids |-> k.ids]
  BY <1>7
<1> HIDE DEF k
<1>10. HandOk(c, k, deployments, made) BY <1>5, <1>8, <1>9 DEF HandOk, ClusterShape
<1>11. K8s!Apart(x) => K8s!Apart(k)
  <2>1. DOMAIN ws = 1..Len(ws) /\ DOMAIN x.workers = 1..Len(x.workers) BY <1>6, <1>8, ListHas
  <2>2. \A m \in K8s!Members(k) : m = w \/ m \in K8s!Members(x) BY <1>8, <1>9, <2>1 DEF K8s!Members, K8s!Range
  <2> QED BY <1>4, <2>2 DEF K8s!Apart
<1>12. c \notin split => Whole(c, k, deployments) BY <1>9, <1>11, HandOf DEF Whole, x
<1> HIDE DEF net
<1>13. Leaves(c, r, net, deployments, made, split) BY <1>1, <1>3, <1>10, <1>12, HandOf, DeployLeavesRight
<1>14. NetsLeft(c, net, r) BY <1>2, <1>3, HandOf DEF NetsLeft
<1> QED BY <1>1, <1>13, <1>14, TakenRight

LEMMA K8sCounts == \A S : K8s!Cardinality(S) = Cardinality(S)
BY DEF K8s!Cardinality, Cardinality, K8s!IsFiniteSet, IsFiniteSet

(* The places of I in order are numbered from 1.                            *)
Before(I, i) == {h \in I : h < i}

LEMMA RankIs ==
  ASSUME NEW L \in Nat, NEW I, I \subseteq 1..L
  PROVE  /\ IsFiniteSet(I) /\ Cardinality(I) \in Nat
         /\ \A i \in I : Cardinality(Before(I, i)) + 1 \in 1..Cardinality(I)
         /\ \A j \in 1..Cardinality(I) : \E i \in I : Cardinality(Before(I, i)) = j - 1
<1>1. IsFiniteSet(I) /\ I \subseteq Nat
  <2>1. IsFiniteSet(1..L) /\ I \in SUBSET (1..L) BY FS_Interval
  <2>2. IsFiniteSet(I) BY <2>1, FS_Subset
  <2> QED BY <2>2
<1>2. /\ Cardinality(I) \in Nat
      /\ \A n \in I : O!Fresh(I, n, 0) \in (0 + 1)..(0 + Cardinality(I))
      /\ \A n, m \in I : n # m => O!Fresh(I, n, 0) # O!Fresh(I, m, 0)
  BY <1>1, FreshIs
<1> DEFINE F(n) == O!Fresh(I, n, 0)
<1>3. ASSUME NEW i \in I PROVE Cardinality(Before(I, i)) \in Nat /\ F(i) = Cardinality(Before(I, i)) + 1
  <2> DEFINE B == {m \in I : m <= i}
  <2>1. F(i) = 0 + Cardinality(B) BY OutcomeCounts DEF O!Fresh
  <2>2. i \in B /\ B \subseteq I BY <1>1
  <2>3. Before(I, i) = B \ {i}
    <3>1. \A h \in I : h < i <=> (h <= i /\ h # i) BY <1>1
    <3> QED BY <3>1 DEF Before
  <2> HIDE DEF B
  <2>4. IsFiniteSet(B) BY <1>1, <2>2, FS_Subset
  <2>5. IsFiniteSet(Before(I, i)) /\ Cardinality(Before(I, i)) = Cardinality(B) - 1
    BY <2>2, <2>3, <2>4, FS_RemoveElement
  <2>6. Cardinality(Before(I, i)) \in Nat /\ Cardinality(B) \in Nat BY <2>4, <2>5, FS_CardinalityType
  <2> HIDE DEF F
  <2> QED BY <2>1, <2>5, <2>6
<1> HIDE DEF F
<1>4. \A i \in I : F(i) \in 1..Cardinality(I) BY <1>2 DEF F
<1>5. \A i, j \in I : F(i) = F(j) => i = j BY <1>2 DEF F
<1> DEFINE f == [i \in I |-> F(i)]
           T == 1..Cardinality(I)
<1>6. f \in Injection(I, T)
  <2>1. f \in [I -> T] BY <1>4
  <2> QED BY <1>5, <2>1 DEF Injection, IsInjective
<1>7. IsFiniteSet(T) /\ Cardinality(T) = Cardinality(I)
  <2> DEFINE n == Cardinality(I)
  <2> HIDE DEF n
  <2>1. n \in Nat BY <1>2 DEF n
  <2>2. IsFiniteSet(1..n) /\ Cardinality(1..n) = n BY <2>1, FS_Interval
  <2> QED BY <2>2 DEF n
<1>8. f \in Surjection(I, T)
  <2> HIDE DEF f, T
  <2> QED BY <1>6, <1>7, FS_Injection
<1>9. \A j \in T : \E i \in I : F(i) = j BY <1>8 DEF Surjection
<1>10. ASSUME NEW j \in 1..Cardinality(I) PROVE \E i \in I : Cardinality(Before(I, i)) = j - 1
  <2>1. PICK i \in I : F(i) = j BY <1>9
  <2>2. Cardinality(Before(I, i)) \in Nat /\ F(i) = Cardinality(Before(I, i)) + 1 BY <1>3
  <2> QED BY <2>1, <2>2
<1> QED BY <1>1, <1>2, <1>3, <1>4, <1>10

(* The elements of s at the places in I, in order.                          *)
Those(s, I, q) ==
  /\ IsList(q) /\ Len(q) = Cardinality(I)
  /\ \A j \in 1..Len(q) : \E i \in I : q[j] = s[i] /\ Cardinality(Before(I, i)) = j - 1
  /\ \A i \in I : \E j \in 1..Len(q) : q[j] = s[i]

LEMMA OnlyAtIs ==
  ASSUME NEW s, NEW L \in Nat, NEW I, I \subseteq 1..L PROVE Those(s, I, K8s!OnlyAt(s, I))
<1> DEFINE q == K8s!OnlyAt(s, I)
           at(j) == CHOOSE i \in I : Cardinality(Before(I, i)) = j - 1
<1>1. q = [j \in 1..Cardinality(I) |-> s[at(j)]]
  BY Zenon DEF K8s!OnlyAt, Before, K8s!Cardinality, Cardinality, K8s!IsFiniteSet, IsFiniteSet
<1>2. /\ Cardinality(I) \in Nat /\ \A i \in I : Cardinality(Before(I, i)) + 1 \in 1..Cardinality(I)
      /\ \A j \in 1..Cardinality(I) : \E i \in I : Cardinality(Before(I, i)) = j - 1
  BY RankIs
<1>3. \A j \in 1..Cardinality(I) : at(j) \in I /\ Cardinality(Before(I, at(j))) = j - 1 BY <1>2
<1>4. IsFiniteSet(I) BY RankIs
<1>5. \A i \in I : Cardinality(Before(I, i)) \in Nat
  <2> SUFFICES ASSUME NEW i \in I PROVE Cardinality(Before(I, i)) \in Nat OBVIOUS
  <2>1. IsFiniteSet(Before(I, i))
    <3>1. Before(I, i) \subseteq I BY DEF Before
    <3> QED BY <1>4, <3>1, FS_Subset
  <2> QED BY <2>1, FS_CardinalityType
<1>6. \A i, j \in I : Cardinality(Before(I, i)) = Cardinality(Before(I, j)) => i = j
  <2>1. ASSUME NEW i \in I, NEW j \in I, i < j PROVE Cardinality(Before(I, i)) # Cardinality(Before(I, j))
    <3>1. i \in Before(I, j) /\ i \notin Before(I, i) BY <2>1 DEF Before
    <3>2. \A h \in Before(I, i) : h \in Before(I, j) BY <2>1 DEF Before
    <3>3. Before(I, j) \subseteq I BY DEF Before
    <3>4. IsFiniteSet(Before(I, j)) BY <1>4, <3>3, FS_Subset
    <3>5. Before(I, i) \in SUBSET Before(I, j) BY <3>2
    <3>6. Cardinality(Before(I, i)) = Cardinality(Before(I, j)) => Before(I, i) = Before(I, j)
      BY <3>4, <3>5, FS_Subset
    <3> QED BY <3>1, <3>6
  <2>2. \A i, j \in I : i # j => i < j \/ j < i OBVIOUS
  <2> QED BY <2>1, <2>2
<1> HIDE DEF at, q
<1>7. q = [j \in 1..Cardinality(I) |-> q[j]] /\ \A j \in 1..Cardinality(I) : q[j] = s[at(j)] BY <1>1
<1>8. IsList(q) /\ Len(q) = Cardinality(I) BY <1>2, <1>7, ListIs
<1>9. ASSUME NEW i \in I PROVE \E j \in 1..Len(q) : q[j] = s[i]
  <2> DEFINE j == Cardinality(Before(I, i)) + 1
  <2>1. j \in 1..Cardinality(I) /\ Cardinality(Before(I, i)) = j - 1 BY <1>2, <1>5
  <2> HIDE DEF j
  <2>2. at(j) = i BY <1>3, <1>6, <2>1
  <2> QED BY <1>7, <1>8, <2>1, <2>2
<1>10. Those(s, I, q) BY <1>3, <1>7, <1>8, <1>9 DEF Those
<1> QED BY <1>10 DEF q

(* All of a list is the list.                                               *)
LEMMA OnlyAtAll ==
  ASSUME NEW s, IsList(s) PROVE K8s!OnlyAt(s, 1..Len(s)) = s
<1> DEFINE L == Len(s)
           q == K8s!OnlyAt(s, 1..L)
<1>1. L \in Nat /\ s = [i \in 1..L |-> s[i]] BY DEF IsList
<1>2. \A i \in 1..L : Before(1..L, i) = 1..(i - 1) BY <1>1 DEF Before
<1>3. \A i \in 1..L : Cardinality(Before(1..L, i)) = i - 1
  <2> SUFFICES ASSUME NEW i \in 1..L PROVE Cardinality(Before(1..L, i)) = i - 1 OBVIOUS
  <2>1. 1 \in Int /\ i - 1 \in Int /\ i >= 1 /\ i \in Int BY <1>1
  <2>2. Cardinality(1..(i - 1)) = IF 1 > i - 1 THEN 0 ELSE (i - 1) - 1 + 1 BY <2>1, FS_Interval
  <2> QED BY <1>2, <2>1, <2>2
<1>4. Cardinality(1..L) = L
  <2> HIDE DEF L
  <2> QED BY <1>1, FS_Interval
<1>5. /\ IsList(q) /\ Len(q) = Cardinality(1..L)
      /\ \A j \in 1..Len(q) : \E i \in 1..L : q[j] = s[i] /\ Cardinality(Before(1..L, i)) = j - 1
  <2>1. L \in Nat BY <1>1
  <2> HIDE DEF L
  <2>2. Those(s, 1..L, K8s!OnlyAt(s, 1..L)) BY <2>1, OnlyAtIs
  <2> QED BY <2>2 DEF Those, L
<1> HIDE DEF L, q
<1>6. \A j \in 1..L : q[j] = s[j]
  <2> SUFFICES ASSUME NEW j \in 1..L PROVE q[j] = s[j] OBVIOUS
  <2>1. PICK i \in 1..L : q[j] = s[i] /\ Cardinality(Before(1..L, i)) = j - 1 BY <1>4, <1>5
  <2>2. i - 1 = j - 1 /\ i \in Int /\ j \in Int BY <1>1, <1>3, <2>1
  <2>3. i = j BY <2>2
  <2> QED BY <2>1, <2>3
<1>7. q = [j \in 1..L |-> q[j]] BY <1>4, <1>5 DEF IsList
<1>8. q = s BY <1>1, <1>6, <1>7
<1> QED BY <1>8 DEF q, L

(* The orders of a finite set.                                              *)
LEMMA SetToSeqsIs ==
  ASSUME NEW S, IsFiniteSet(S), NEW s \in K8s!SetToSeqs(S)
  PROVE  /\ IsList(s) /\ Len(s) = Cardinality(S) /\ \A i \in 1..Len(s) : s[i] \in S
         /\ \A x \in S : \E i \in 1..Len(s) : s[i] = x
<1> DEFINE D == 1..Cardinality(S)
<1>1. s \in [D -> S] /\ \A i, j \in D : i # j => s[i] # s[j] BY K8sCounts DEF K8s!SetToSeqs
<1>2. Cardinality(S) \in Nat BY FS_CardinalityType
<1>3. IsList(s) /\ Len(s) = Cardinality(S)
  <2>1. s = [i \in 1..Cardinality(S) |-> s[i]] BY <1>1
  <2> QED BY <1>2, <2>1, ListIs
<1>4. Cardinality(D) = Cardinality(S) /\ IsFiniteSet(D)
  <2> DEFINE n == Cardinality(S)
  <2> HIDE DEF n
  <2>1. n \in Nat BY <1>2 DEF n
  <2>2. IsFiniteSet(1..n) /\ Cardinality(1..n) = n BY <2>1, FS_Interval
  <2> QED BY <2>2 DEF n
<1>5. s \in Injection(D, S) BY <1>1 DEF Injection, IsInjective
<1>6. s \in Surjection(D, S)
  <2> HIDE DEF D
  <2> QED BY <1>4, <1>5, FS_Injection
<1>7. \A x \in S : \E i \in D : s[i] = x BY <1>6 DEF Surjection
<1> QED BY <1>1, <1>3, <1>7

LEMMA NoOrder == K8s!SetToSeqs({}) = {<<>>} /\ \A s : IsList(s) => s \o <<>> = s
<1>1. \A s \in K8s!SetToSeqs({}) : s = <<>>
  <2> SUFFICES ASSUME NEW s \in K8s!SetToSeqs({}) PROVE s = <<>> OBVIOUS
  <2>1. IsFiniteSet({}) /\ Cardinality({}) = 0 BY FS_EmptySet
  <2>2. IsList(s) /\ Len(s) = 0 BY <2>1, SetToSeqsIs
  <2> QED BY <2>2 DEF IsList
<1>2. <<>> \in K8s!SetToSeqs({})
  <2>1. K8s!Cardinality({}) = 0 BY K8sCounts, FS_EmptySet
  <2> QED BY <2>1 DEF K8s!SetToSeqs
<1>3. \A s : IsList(s) => s \o <<>> = s
  <2> SUFFICES ASSUME NEW s, IsList(s) PROVE s \o <<>> = s OBVIOUS
  <2>1. s \in Seq({s[i] : i \in 1..Len(s)}) BY DEF IsList
  <2> QED BY <2>1
<1> QED BY <1>1, <1>2, <1>3

LEMMA DeleteWorkerRight ==
  ASSUME K8s!ClusterAssumption, K8sInv, NEW c \in Cluster, outcome[c] # "panic", NEW i, K8s!DeleteWorker(c, i)
  PROVE  K8sInv' /\ K8s!CancelStep /\ K8s!ReadStep
<1> DEFINE x == clusters[c]
           I == {j \in DOMAIN x.workers : x.workers[j] # x.workers[i]}
           ws == K8s!OnlyAt(x.workers, I)
           k == [x EXCEPT !.workers = ws]
           net == K8s!NetworkOn(K8s!NodesOf(k))
           out == nets[c] \ K8s!NodesOf(k)
           forget(r) == [r EXCEPT !.tracked = [n \in ClusterNode |-> IF n \in out THEN {} ELSE @[n]]]
<1>1. PICK r \in K8s!DeployOutcomes(k, net) : K8s!Take(c, forget(r))
  BY Zenon DEF K8s!DeleteWorker
<1>2. nets' = [nets EXCEPT ![c] = net]
  BY Zenon DEF K8s!DeleteWorker
<1>3. HandOk(c, x, deployments, made) BY HandOf
<1>4. /\ x = [master |-> x.master, workers |-> x.workers, token |-> x.token, entry |-> x.entry, ids |-> x.ids]
      /\ IsList(x.workers) /\ \A j \in 1..Len(x.workers) : MemberOk(x.workers[j])
      /\ DOMAIN x.workers = 1..Len(x.workers) /\ Len(x.workers) \in Nat
  BY <1>3, ListHas DEF HandOk, ClusterShape
<1> HIDE DEF x
<1>5. Those(x.workers, I, ws)
  <2>1. I \subseteq 1..Len(x.workers) BY <1>4
  <2> HIDE DEF I
  <2> QED BY <1>4, <2>1, OnlyAtIs
<1>6. IsList(ws) /\ \A j \in 1..Len(ws) : \E h \in 1..Len(x.workers) : ws[j] = x.workers[h]
  <2>1. I \subseteq 1..Len(x.workers) BY <1>4
  <2> HIDE DEF I, ws
  <2> QED BY <1>5, <2>1 DEF Those
<1> HIDE DEF ws, I
<1>7. /\ k.workers = ws /\ k.master = x.master /\ k.ids = x.ids
      /\ k = [master |-> k.master, workers |-> k.workers, token |-> k.token, entry |-> k.entry, ids |-> k.ids]
  BY <1>4
<1> HIDE DEF k
<1>8. HandOk(c, k, deployments, made) BY <1>3, <1>4, <1>6, <1>7 DEF HandOk, ClusterShape
<1>9. \A m \in K8s!Members(k) : m \in K8s!Members(x)
  <2>1. DOMAIN ws = 1..Len(ws) BY <1>6, ListHas
  <2> QED BY <1>4, <1>6, <1>7, <2>1 DEF K8s!Members, K8s!Range
<1>10. c \notin split => Whole(c, k, deployments)
  <2>1. K8s!Apart(x) => K8s!Apart(k) BY <1>9 DEF K8s!Apart
  <2> QED BY <1>7, <2>1, HandOf DEF Whole, x
<1>11. ASSUME k.master = K8s!Nobody PROVE r.status = "panic" /\ Leaves(c, r, net, deployments, made, split)
  <2>1. K8s!Panics(k) BY <1>11 DEF K8s!Panics
  <2>2. K8s!DeployOutcomes(k, net) = {K8s!Panicked(k)}
    <3> HIDE DEF net
    <3> QED BY <2>1 DEF K8s!DeployOutcomes
  <2>3. r = K8s!Panicked(k) BY <1>1, <2>2
  <2>4. r.k = k /\ r.grid = deployments /\ r.made = made /\ r.status = "panic" BY <2>3 DEF K8s!Panicked, K8s!Result
  <2> HIDE DEF net
  <2>5. Leaves(c, r, net, deployments, made, split) BY <1>8, <1>10, <2>4, HandOf, StoppedRight DEF Whole
  <2> QED BY <2>4, <2>5
<1>12. ASSUME k.master # K8s!Nobody PROVE net \in SUBSET ClusterNode /\ Leaves(c, r, net, deployments, made, split)
  <2>1. Full(k) BY <1>8, <1>12 DEF HandOk, Full
  <2>2. K8s!NodesOf(k) \subseteq ClusterNode BY <2>1, MembersAt DEF MemberOk
  <2>3. net \in SUBSET ClusterNode BY <2>2, NetworkOnIs
  <2> HIDE DEF net
  <2> QED BY <1>1, <1>8, <1>10, <2>3, HandOf, DeployLeavesRight
<1> HIDE DEF net, out
<1>13. /\ forget(r).k = r.k /\ forget(r).grid = r.grid /\ forget(r).made = r.made /\ forget(r).status = r.status
  <2>1. r = K8s!Result(r.k, r.grid, r.made, r.tracked, r.status) BY <1>1, DeployShape
  <2> QED BY <2>1 DEF K8s!Result
<1>14. Leaves(c, forget(r), net, deployments, made, split)
  <2>1. Leaves(c, r, net, deployments, made, split) BY <1>11, <1>12
  <2> DEFINE f == forget(r)
  <2> HIDE DEF f
  <2>2. f.k = r.k /\ f.grid = r.grid /\ f.made = r.made /\ f.status = r.status BY <1>13 DEF f
  <2>3. Leaves(c, f, net, deployments, made, split) BY <2>1, <2>2 DEF Leaves, LostBy
  <2> QED BY <2>3 DEF f
<1>15. NetsLeft(c, net, forget(r))
  <2>1. r.status # "panic" => net \in SUBSET ClusterNode BY <1>11, <1>12
  <2>2. nets = [d \in Cluster |-> nets[d]] BY HandOf
  <2>3. nets' = [d \in Cluster |-> nets'[d]] /\ nets'[c] = net /\ \A d \in Cluster \ {c} : nets'[d] = nets[d]
    BY <1>2, <2>2
  <2> HIDE DEF forget
  <2> QED BY <1>13, <2>1, <2>3 DEF NetsLeft
<1> HIDE DEF forget
<1> QED BY <1>1, <1>14, <1>15, TakenRight

(* Cancelling takes the contracts of the cluster's nodes away.              *)
LEMMA ClusterCancelRight ==
  ASSUME K8s!ClusterAssumption, K8sInv, NEW c \in Cluster, outcome[c] # "panic", K8s!Cancel(c)
  PROVE  K8sInv' /\ K8s!CancelStep /\ K8s!ReadStep
<1> DEFINE k == clusters[c]
           these == DOMAIN k.ids \cap K8s!NodesOf(k)
           left == K8s!Without(k.ids, these)
           gone == {k.ids[n] : n \in these}
           y == [k EXCEPT !.ids = left]
           g == K8s!Without(deployments, gone)
<1>1. /\ deployments' = g /\ clusters' = [clusters EXCEPT ![c].ids = K8s!Without(@, these)]
      /\ outcome' = [outcome EXCEPT ![c] = "cancelled"] /\ made' = made /\ nets' = nets /\ split' = split
  BY DEF K8s!Cancel
<1>2. clusters' = [clusters EXCEPT ![c] = y] BY <1>1
<1>3. /\ HandOk(c, k, deployments, made) /\ nets[c] \subseteq ClusterNode /\ GridOk(deployments, made, split)
      /\ c \notin split => Whole(c, k, deployments)
      /\ c \notin split /\ outcome[c] \in {"ok", "synced", "loaded"} => DOMAIN k.ids \subseteq K8s!NodesOf(k)
      /\ nets = [d \in Cluster |-> nets[d]]
  BY HandOf
<1>4. /\ k = [master |-> k.master, workers |-> k.workers, token |-> k.token, entry |-> k.entry, ids |-> k.ids]
      /\ IdsOk(c, k.ids, deployments, made)
  BY <1>3 DEF HandOk, ClusterShape
<1> HIDE DEF k
<1>5. /\ y.ids = left /\ y.master = k.master /\ y.workers = k.workers /\ y.token = k.token
      /\ y = [master |-> y.master, workers |-> y.workers, token |-> y.token, entry |-> y.entry, ids |-> y.ids]
  BY <1>4
<1> HIDE DEF y
<1>6. /\ left = [n \in DOMAIN left |-> left[n]] /\ DOMAIN left = DOMAIN k.ids \ these
      /\ \A n \in DOMAIN left : left[n] = k.ids[n] /\ n \in DOMAIN k.ids
  BY DEF K8s!Without
<1>7. /\ DOMAIN g = DOMAIN deployments \ gone /\ g = [id \in DOMAIN g |-> g[id]]
      /\ \A id \in DOMAIN g : g[id] = deployments[id] /\ id \in DOMAIN deployments
  BY DEF K8s!Without
<1>8. \A id \in gone : \E n \in these : id = k.ids[n] /\ n \in DOMAIN k.ids OBVIOUS
<1>9. \A n \in DOMAIN k.ids : k.ids[n] \in gone => n \in these BY <1>4, <1>8 DEF IdsOk
<1> HIDE DEF left, g, gone, these
<1>10. GridOk(g, made, split) BY <1>3, <1>7 DEF GridOk
<1>11. IdsOk(c, left, g, made) BY <1>4, <1>6, <1>7 DEF IdsOk
<1>12. HandOk(c, y, g, made) BY <1>3, <1>5, <1>11 DEF HandOk, ClusterShape
<1>13. ASSUME c \notin split PROVE Whole(c, y, g)
  <2>1. Whole(c, k, deployments) BY <1>3, <1>13
  <2>2. K8s!Apart(y) = K8s!Apart(k)
    <3>1. Alike(k, y) BY <1>5 DEF Alike
    <3> QED BY <3>1, AlikeIs
  <2>3. ASSUME NEW id \in DOMAIN g, g[id].name = c PROVE \E n \in DOMAIN left : left[n] = id
    <3>1. PICK n \in DOMAIN k.ids : k.ids[n] = id BY <1>7, <2>1, <2>3 DEF Whole, WholeIds
    <3>2. n \notin these BY <1>7, <2>3, <3>1 DEF gone
    <3> QED BY <1>6, <3>1, <3>2
  <2>4. WholeIds(c, left, g) BY <1>6, <1>7, <2>1, <2>3 DEF Whole, WholeIds
  <2> QED BY <1>5, <2>1, <2>2, <2>4 DEF Whole
<1>14. \A d : d # c => Spared(d, deployments, made, g, made)
  <2> SUFFICES ASSUME NEW d, d # c PROVE Spared(d, deployments, made, g, made) OBVIOUS
  <2>1. \A id \in DOMAIN deployments : deployments[id].name = d => id \notin gone BY <1>4, <1>8 DEF IdsOk
  <2> QED BY <1>3, <1>7, <2>1 DEF Spared, GridOk
<1>15. Stands(c, y, g, made, nets[c], "cancelled", split) BY <1>3, <1>12, <1>13 DEF Stands
<1>16. Moved(c, y, "cancelled") BY <1>1, <1>2, <1>3, <1>10, <1>14, <1>15 DEF Moved
<1>17. /\ K8sInv' /\ K8s!ReadStep
       /\ \A d \in Cluster \ {c} : outcome'[d] = outcome[d]
  BY <1>16, OneMoves
<1>18. K8s!CancelStep
  <2> SUFFICES ASSUME NEW d \in Cluster \ split, outcome[d] \in {"ok", "synced", "loaded"}, outcome'[d] = "cancelled"
               PROVE  (K8s!ContractsOf(d))' = {}
    BY DEF K8s!CancelStep
  <2>1. d = c BY <1>17
  <2>2. DOMAIN k.ids \subseteq K8s!NodesOf(k) /\ Whole(c, k, deployments) BY <1>3, <2>1
  <2>3. DOMAIN left = {} BY <1>6, <2>2 DEF these
  <2>4. WholeIds(c, left, g) BY <1>5, <1>13, <2>1 DEF Whole
  <2> QED BY <1>1, <2>1, <2>3, <2>4 DEF WholeIds, K8s!ContractsOf
<1> QED BY <1>17, <1>18

(* The contract of a deployment ends on the chain.                          *)
LEMMA ClusterEndsRight ==
  ASSUME K8sInv, NEW id \in DOMAIN deployments, K8s!ContractEnds(id)
  PROVE  K8sInv' /\ K8s!CancelStep /\ K8s!ReadStep
<1> DEFINE c == deployments[id].name
           g == K8s!Without(deployments, {id})
           s == IF outcome[c] = "panic" THEN outcome[c] ELSE "stale"
<1>1. /\ deployments' = g /\ outcome' = [outcome EXCEPT ![c] = s]
      /\ clusters' = clusters /\ made' = made /\ nets' = nets /\ split' = split
  BY DEF K8s!ContractEnds
<1>2. c \in Cluster BY DEF K8sInv, GridOk, DeploymentOk
<1>3. /\ DOMAIN g = DOMAIN deployments \ {id} /\ g = [i \in DOMAIN g |-> g[i]]
      /\ \A i \in DOMAIN g : g[i] = deployments[i] /\ i \in DOMAIN deployments
  BY DEF K8s!Without
<1> HIDE DEF c, g
<1>4. /\ HandOk(c, clusters[c], deployments, made) /\ GridOk(deployments, made, split)
      /\ c \notin split => Whole(c, clusters[c], deployments)
      /\ nets = [d \in Cluster |-> nets[d]]
  BY <1>2, HandOf
<1>5. GridOk(g, made, split) BY <1>3, <1>4 DEF GridOk
<1>6. HandOk(c, clusters[c], g, made) BY <1>3, <1>4 DEF HandOk, IdsOk
<1>7. c \notin split => Whole(c, clusters[c], g) BY <1>3, <1>4 DEF Whole, WholeIds
<1>8. \A d : d # c => Spared(d, deployments, made, g, made) BY <1>3, <1>4 DEF Spared, GridOk, c
<1>9. clusters' = [clusters EXCEPT ![c] = clusters[c]] BY <1>1, <1>2 DEF K8sInv
<1>10. (s # "panic" => nets[c] \subseteq ClusterNode) /\ s \in {"panic", "stale"} BY <1>2, HandOf
<1> HIDE DEF s
<1>11. Stands(c, clusters[c], g, made, nets[c], s, split) BY <1>6, <1>7, <1>10 DEF Stands
<1>12. Moved(c, clusters[c], s) BY <1>1, <1>4, <1>5, <1>8, <1>9, <1>11 DEF Moved
<1> QED BY <1>2, <1>10, <1>12, OneMoves

(* r has the elements of p and of q.                                        *)
OfBoth(p, q, r) ==
  /\ IsList(r)
  /\ \A i \in 1..Len(r) : (\E j \in 1..Len(p) : r[i] = p[j]) \/ (\E j \in 1..Len(q) : r[i] = q[j])
LEMMA Joining == ASSUME NEW p, IsList(p), NEW q, IsList(q) PROVE OfBoth(p, q, p \o q)
<1> DEFINE T == {p[i] : i \in 1..Len(p)} \cup {q[i] : i \in 1..Len(q)}
           r == p \o q
<1>1. p \in Seq(T) /\ q \in Seq(T)
  <2>1. Len(p) \in Nat /\ p = [i \in 1..Len(p) |-> p[i]] /\ Len(q) \in Nat /\ q = [i \in 1..Len(q) |-> q[i]] BY DEF IsList
  <2>2. (\A i \in 1..Len(p) : p[i] \in T) /\ (\A i \in 1..Len(q) : q[i] \in T) OBVIOUS
  <2> HIDE DEF T
  <2>3. p \in [1..Len(p) -> T] /\ q \in [1..Len(q) -> T] BY <2>1, <2>2
  <2> QED BY <2>1, <2>3
<1> HIDE DEF T
<1>2. r \in Seq(T) BY <1>1
<1> HIDE DEF r
<1>3. IsList(r) /\ \A i \in 1..Len(r) : r[i] \in T
  <2>1. r \in Seq(T) => Len(r) \in Nat /\ r = [i \in 1..Len(r) |-> r[i]] /\ \A i \in 1..Len(r) : r[i] \in T
    OBVIOUS
  <2> QED BY <1>2, <2>1 DEF IsList
<1> QED BY <1>3 DEF T, r, OfBoth

(* The contracts are all on the grid, each on its node.                     *)
Here(ids) == \A n \in DOMAIN ids : ids[n] \in DOMAIN deployments /\ deployments[ids[n]].node = n
ReadAt(w) == K8s!FromWorkload(w[1], w[2])

LEMMA ReadIs ==
  ASSUME K8s!ClusterAssumption, GridOk(deployments, made, split), NEW c, NEW ids, IdsOk(c, ids, deployments, made),
         Here(ids), NEW R, R = K8s!ReadFrom(ids)
  PROVE  /\ IsFiniteSet(R)
         /\ \A w \in R : w = <<w[1], w[2]>> /\ w[2] \in DOMAIN ids /\ w[1] \in deployments[ids[w[2]]].machines
         /\ \A n \in DOMAIN ids : \A v \in deployments[ids[n]].machines : <<v, n>> \in R
         /\ \A w \in R : MemberOk(ReadAt(w)) /\ (w[1].url = K8s!NoAddress => w[1].name = c)
         /\ c \notin split => \A v, w \in R : v[1].ip = w[1].ip => v = w
<1> DEFINE On(n) == {<<w, deployments[ids[n]].node>> : w \in deployments[ids[n]].machines}
           Is(w) == w = <<w[1], w[2]>> /\ w[2] \in DOMAIN ids /\ w[1] \in deployments[ids[w[2]]].machines
<1>1. R = UNION {On(n) : n \in DOMAIN ids} BY DEF K8s!ReadFrom
<1>2. \A n \in DOMAIN ids : On(n) = {<<w, n>> : w \in deployments[ids[n]].machines} BY DEF Here
<1>3. \A w \in R : Is(w)
  <2> SUFFICES ASSUME NEW w \in R PROVE Is(w) OBVIOUS
  <2>1. PICK n \in DOMAIN ids : w \in On(n) BY <1>1
  <2>2. PICK v \in deployments[ids[n]].machines : w = <<v, n>> BY <1>2, <2>1
  <2> QED BY <2>2
<1>4. \A n \in DOMAIN ids : \A v \in deployments[ids[n]].machines : <<v, n>> \in R
  <2>1. \A n \in DOMAIN ids : \A v \in deployments[ids[n]].machines : <<v, n>> \in On(n) BY <1>2
  <2> HIDE DEF On
  <2> QED BY <1>1, <2>1
<1>5. \A n \in DOMAIN ids : DeploymentOk(deployments[ids[n]], split) /\ deployments[ids[n]].name = c
                            /\ deployments[ids[n]].node = n
  BY DEF Here, IdsOk, GridOk
<1>6. \A w \in R : MemberOk(ReadAt(w))
  <2>1. \A w \in R : w[2] \in ClusterNode BY <1>3 DEF IdsOk
  <2>2. \A v, n : n \in ClusterNode => MemberOk(K8s!FromWorkload(v, n)) BY DEF K8s!FromWorkload, MemberOk
  <2> QED BY <2>1, <2>2 DEF ReadAt
<1>7. \A w \in R : w[1].url = K8s!NoAddress => w[1].name = c
  BY <1>3, <1>5 DEF DeploymentOk, MachineOk
<1>8. ASSUME c \notin split, NEW v \in R, NEW w \in R, v[1].ip = w[1].ip PROVE v = w
  <2>1. Is(v) /\ Is(w) BY <1>3
  <2>2. OnItsOwn(deployments[ids[v[2]]]) /\ OnItsOwn(deployments[ids[w[2]]]) BY <1>5, <1>8, <2>1 DEF DeploymentOk
  <2>3. v[1].ip[1] = v[2] /\ w[1].ip[1] = w[2] BY <1>5, <2>1, <2>2 DEF OnItsOwn
  <2>4. v[2] = w[2] BY <1>8, <2>3
  <2>5. v[1] = w[1] BY <1>8, <2>1, <2>2, <2>4 DEF OnItsOwn
  <2> QED BY <2>1, <2>4, <2>5
<1>9. IsFiniteSet(R)
  <2>1. IsFiniteSet(DOMAIN ids)
    <3>1. IsFiniteSet(ClusterNode) /\ DOMAIN ids \in SUBSET ClusterNode
      BY DEF K8s!ClusterAssumption, K8s!IsFiniteSet, IsFiniteSet, IdsOk
    <3> QED BY <3>1, FS_Subset
  <2>2. ASSUME NEW n \in DOMAIN ids PROVE IsFiniteSet(On(n))
    <3> DEFINE S == deployments[ids[n]].machines
               f == [v \in S |-> <<v, n>>]
    <3>1. IsFiniteSet(S) BY <1>5 DEF DeploymentOk
    <3>2. On(n) = {f[v] : v \in S} BY <1>2
    <3> HIDE DEF f, S, On
    <3> QED BY <3>1, <3>2, ImageFinite
  <2> DEFINE on == [n \in DOMAIN ids |-> On(n)]
             F == {on[n] : n \in DOMAIN ids}
  <2>3. IsFiniteSet(F)
    <3> HIDE DEF on
    <3> QED BY <2>1, ImageFinite
  <2>4. \A S \in F : IsFiniteSet(S) BY <2>2
  <2>5. R = UNION F BY <1>1
  <2> HIDE DEF F
  <2> QED BY <2>3, <2>4, <2>5, FS_UNION
<1> QED BY <1>3, <1>4, <1>6, <1>7, <1>8, <1>9

LEMMA AtIs == \A w : ReadAt(w).name = w[1].name /\ ReadAt(w).node = w[2] /\ ReadAt(w).ip = w[1].ip
BY DEF ReadAt, K8s!FromWorkload

(* Members that were read from machines with addresses of their own.        *)
LEMMA ReadApart ==
  ASSUME NEW R, \A v, w \in R : v[1].ip = w[1].ip => v = w, NEW y,
         \A m \in K8s!Members(y) : m = K8s!Nobody \/ \E w \in R : m = ReadAt(w)
  PROVE  K8s!Apart(y)
<1> SUFFICES ASSUME NEW a \in K8s!Members(y), NEW b \in K8s!Members(y), a.name # b.name, a.ip = b.ip
             PROVE  a.ip = K8s!NoAddress
  BY DEF K8s!Apart
<1>1. K8s!Nobody.ip = K8s!NoAddress BY DEF K8s!Nobody
<1>2. CASE a = K8s!Nobody \/ b = K8s!Nobody BY <1>1, <1>2
<1>3. CASE a # K8s!Nobody /\ b # K8s!Nobody
  <2>1. PICK v \in R : a = ReadAt(v) BY <1>3
  <2>2. PICK w \in R : b = ReadAt(w) BY <1>3
  <2>3. v[1].ip = w[1].ip BY <2>1, <2>2, AtIs
  <2>4. v = w BY <2>3
  <2> QED BY <2>1, <2>2, <2>4
<1> QED BY <1>2, <1>3

(* The machines of a cluster in order are its members.                      *)
OfMaster(k) == <<K8s!Machine(k, k.master, K8s!NoAddress), k.master.node>>
OfWorker(k, m) == <<K8s!Machine(k, m, k.master.ip), m.node>>

LEMMA OrderRead ==
  ASSUME GridOk(deployments, made, split), NEW c, NEW k, Full(k), IdsOk(c, k.ids, deployments, made),
         NEW net, InOrder(k, deployments, net)
  PROVE  /\ Here(k.ids)
         /\ K8s!ReadFrom(k.ids) = {OfMaster(k)} \cup {OfWorker(k, m) : m \in K8s!Range(k.workers)}
<1> DEFINE new == K8s!Deployments(k, "ok")
           R == K8s!ReadFrom(k.ids)
<1>1. /\ DOMAIN k.ids = K8s!NodesOf(k)
      /\ \A n \in DOMAIN k.ids : k.ids[n] \in DOMAIN deployments /\ deployments[k.ids[n]] = new[n]
  BY DEF InOrder
<1>2. \A n \in K8s!NodesOf(k) : new[n].node = n /\ new[n].machines = K8s!MachinesOn(k, n) BY DEF K8s!Deployments
<1> HIDE DEF new
<1>3. Here(k.ids) BY <1>1, <1>2 DEF Here
<1>4. R = UNION {{<<w, n>> : w \in K8s!MachinesOn(k, n)} : n \in K8s!NodesOf(k)}
  BY <1>1, <1>2 DEF K8s!ReadFrom
<1>5. k.master.node \in K8s!NodesOf(k) /\ \A m \in K8s!Range(k.workers) : m.node \in K8s!NodesOf(k)
  BY DEF K8s!NodesOf, K8s!Members
<1>6. \A n : /\ n = k.master.node => K8s!Machine(k, k.master, K8s!NoAddress) \in K8s!MachinesOn(k, n)
             /\ \A m \in K8s!Range(k.workers) : m.node = n => K8s!Machine(k, m, k.master.ip) \in K8s!MachinesOn(k, n)
             /\ \A w \in K8s!MachinesOn(k, n) :
                  \/ n = k.master.node /\ w = K8s!Machine(k, k.master, K8s!NoAddress)
                  \/ \E m \in K8s!Range(k.workers) : m.node = n /\ w = K8s!Machine(k, m, k.master.ip)
  BY DEF K8s!MachinesOn
<1> HIDE DEF R
<1>7. OfMaster(k) \in R /\ \A m \in K8s!Range(k.workers) : OfWorker(k, m) \in R
  BY <1>4, <1>5, <1>6 DEF OfMaster, OfWorker
<1>8. \A w \in R : w = OfMaster(k) \/ \E m \in K8s!Range(k.workers) : w = OfWorker(k, m)
  BY <1>4, <1>6 DEF OfMaster, OfWorker
<1>9. R = {OfMaster(k)} \cup {OfWorker(k, m) : m \in K8s!Range(k.workers)} BY <1>7, <1>8
<1> QED BY <1>3, <1>9 DEF R

LEMMA PrivateIs ==
  ASSUME NEW a, NEW n, NEW d, NEW p, NEW q, NEW i
  PROVE  K8s!Private([name |-> a, node |-> n, disk |-> d, pub4 |-> p, pub6 |-> q, ip |-> i]) =
           [name |-> a, node |-> n, disk |-> d, pub4 |-> FALSE, pub6 |-> FALSE, ip |-> i]
<1> DEFINE m == [name |-> a, node |-> n, disk |-> d, pub4 |-> p, pub6 |-> q, ip |-> i]
<1>1. PICK v \in BOOLEAN : v = FALSE OBVIOUS
<1> DEFINE at(f) == IF f = "pub4" THEN v ELSE IF f = "pub6" THEN v ELSE m[f]
           r == [name |-> a, node |-> n, disk |-> d, pub4 |-> v, pub6 |-> v, ip |-> i]
<1>2. K8s!Private(m) = [m EXCEPT !.pub4 = v, !.pub6 = v] BY Zenon, <1>1 DEF K8s!Private
<1>3. [m EXCEPT !.pub4 = v, !.pub6 = v] = [f \in DOMAIN m |-> at(f)] OBVIOUS
<1>4. r = [f \in DOMAIN m |-> at(f)] OBVIOUS
<1>5. r = [name |-> a, node |-> n, disk |-> d, pub4 |-> FALSE, pub6 |-> FALSE, ip |-> i] BY Zenon, <1>1
<1> QED BY Zenon, <1>2, <1>3, <1>4, <1>5

LEMMA SameMember ==
  ASSUME NEW k, NEW m, MemberOk(m), NEW url
  PROVE  /\ K8s!Private(ReadAt(<<K8s!Machine(k, m, url), m.node>>)) = K8s!Private(m)
         /\ ReadAt(<<K8s!Machine(k, m, url), m.node>>).name = m.name /\ ReadAt(<<K8s!Machine(k, m, url), m.node>>).node = m.node
<1> DEFINE a == ReadAt(<<K8s!Machine(k, m, url), m.node>>)
<1>1. a = [name |-> m.name, node |-> m.node, disk |-> m.disk, pub4 |-> m.pub4 \/ m.pub6, pub6 |-> m.pub4 \/ m.pub6, ip |-> m.ip]
  BY DEF ReadAt, K8s!FromWorkload, K8s!Machine
<1> DEFINE p == m.pub4 \/ m.pub6
<1>2. a = [name |-> m.name, node |-> m.node, disk |-> m.disk, pub4 |-> p, pub6 |-> p, ip |-> m.ip] BY <1>1
<1>3. m = [name |-> m.name, node |-> m.node, disk |-> m.disk, pub4 |-> m.pub4, pub6 |-> m.pub6, ip |-> m.ip]
  BY DEF MemberOk
<1> HIDE DEF a, p
<1> DEFINE bare == [name |-> m.name, node |-> m.node, disk |-> m.disk, pub4 |-> FALSE, pub6 |-> FALSE, ip |-> m.ip]
<1>4. K8s!Private(a) = bare
  <2>1. K8s!Private([name |-> m.name, node |-> m.node, disk |-> m.disk, pub4 |-> p, pub6 |-> p, ip |-> m.ip]) = bare
    BY PrivateIs
  <2> HIDE DEF bare
  <2> QED BY <1>2, <2>1
<1>5. K8s!Private(m) = bare
  <2>1. K8s!Private([name |-> m.name, node |-> m.node, disk |-> m.disk, pub4 |-> m.pub4, pub6 |-> m.pub6, ip |-> m.ip]) = bare
    BY PrivateIs
  <2> HIDE DEF bare
  <2> QED BY <1>3, <2>1
<1>6. a.name = m.name /\ a.node = m.node BY <1>2
<1> QED BY <1>4, <1>5, <1>6 DEF a

(* The workers UpdateFromRemote leaves are machines that were read.         *)
LEMMA RemoteIs ==
  ASSUME NEW k, ClusterShape(k), NEW R, IsFiniteSet(R), NEW ws \in K8s!RemoteWorkers(k, R)
  PROVE  IsList(ws) /\ \A i \in 1..Len(ws) : \E w \in R : ws[i] = ReadAt(w)
<1> DEFINE of(m) == {w \in R : w[1].name = m.name}
           I == {i \in DOMAIN k.workers : of(k.workers[i]) # {}}
           known == K8s!OnlyAt(k.workers, I)
           rest == {w \in R : \A m \in K8s!Members(k) : m.name # w[1].name}
           S == {ReadAt(w) : w \in rest}
           at == [i \in DOMAIN known |-> ReadAt(CHOOSE w \in of(known[i]) : TRUE)]
<1>1. PICK s \in K8s!SetToSeqs(S) : ws = at \o s
  <2>1. K8s!RemoteWorkers(k, R) = {at \o s : s \in K8s!SetToSeqs(S)} BY Zenon DEF K8s!RemoteWorkers, ReadAt
  <2> HIDE DEF at, S
  <2> QED BY <2>1
<1>2. DOMAIN k.workers = 1..Len(k.workers) /\ Len(k.workers) \in Nat BY ListHas DEF ClusterShape
<1>3. I \subseteq 1..Len(k.workers) /\ \A i \in I : of(k.workers[i]) # {} BY <1>2
<1> HIDE DEF I, of
<1>4. Those(k.workers, I, known) BY <1>2, <1>3, OnlyAtIs
<1> HIDE DEF known
<1>5. /\ IsList(known) /\ DOMAIN known = 1..Len(known) /\ Len(known) \in Nat
      /\ \A j \in 1..Len(known) : of(known[j]) # {}
  BY <1>3, <1>4, ListHas DEF Those
<1>6. at = [j \in 1..Len(known) |-> at[j]] /\ \A j \in 1..Len(known) : \E w \in R : at[j] = ReadAt(w)
  <2> DEFINE pick(j) == CHOOSE w \in of(known[j]) : TRUE
  <2>1. \A j \in 1..Len(known) : pick(j) \in R BY <1>5 DEF of
  <2>2. at = [j \in 1..Len(known) |-> ReadAt(pick(j))] BY <1>5
  <2> HIDE DEF pick, at
  <2> QED BY <2>1, <2>2
<1> HIDE DEF at
<1>7. IsList(at) /\ Len(at) = Len(known) BY <1>5, <1>6, ListIs
<1>8. IsFiniteSet(S)
  <2> DEFINE f == [w \in rest |-> ReadAt(w)]
  <2>1. IsFiniteSet(rest)
    <3>1. rest \in SUBSET R OBVIOUS
    <3> QED BY <3>1, FS_Subset
  <2>2. S = {f[w] : w \in rest} OBVIOUS
  <2> HIDE DEF f, S, rest
  <2> QED BY <2>1, <2>2, ImageFinite
<1>9. IsList(s) /\ \A i \in 1..Len(s) : s[i] \in S
  <2> HIDE DEF S
  <2> QED BY <1>8, SetToSeqsIs
<1>10. \A i \in 1..Len(s) : \E w \in R : s[i] = ReadAt(w) BY <1>9
<1>11. OfBoth(at, s, ws) BY <1>1, <1>7, <1>9, Joining
<1> QED BY <1>6, <1>7, <1>10, <1>11 DEF OfBoth

(* Those of a cluster in order are its own, in their order.                 *)
LEMMA RemoteSame ==
  ASSUME NEW k, Full(k), K8s!Valid(k), NEW R,
         R = {OfMaster(k)} \cup {OfWorker(k, m) : m \in K8s!Range(k.workers)}, NEW ws \in K8s!RemoteWorkers(k, R)
  PROVE  /\ IsList(ws) /\ Len(ws) = Len(k.workers)
         /\ \A i \in 1..Len(ws) : ws[i] = ReadAt(OfWorker(k, k.workers[i]))
<1> DEFINE of(m) == {w \in R : w[1].name = m.name}
           I == {i \in DOMAIN k.workers : of(k.workers[i]) # {}}
           known == K8s!OnlyAt(k.workers, I)
           rest == {w \in R : \A m \in K8s!Members(k) : m.name # w[1].name}
           S == {ReadAt(w) : w \in rest}
           at == [i \in DOMAIN known |-> ReadAt(CHOOSE w \in of(known[i]) : TRUE)]
           L == Len(k.workers)
<1>1. PICK s \in K8s!SetToSeqs(S) : ws = at \o s
  <2>1. K8s!RemoteWorkers(k, R) = {at \o s : s \in K8s!SetToSeqs(S)} BY Zenon DEF K8s!RemoteWorkers, ReadAt
  <2> HIDE DEF at, S
  <2> QED BY <2>1
<1>2. DOMAIN k.workers = 1..L /\ L \in Nat /\ IsList(k.workers) BY ListHas DEF Full, ClusterShape
<1>3. \A m : OfWorker(k, m)[1].name = m.name /\ OfMaster(k)[1].name = k.master.name
  BY DEF OfWorker, OfMaster, K8s!Machine
<1>4. \A m \in K8s!Range(k.workers) : of(m) = {OfWorker(k, m)}
  <2>1. \A a, b \in K8s!Range(k.workers) : a.name = b.name => a = b BY NamesTell DEF K8s!Members
  <2>2. \A m \in K8s!Range(k.workers) : m.name # k.master.name BY NamesTell
  <2> SUFFICES ASSUME NEW m \in K8s!Range(k.workers) PROVE of(m) = {OfWorker(k, m)} OBVIOUS
  <2>3. OfWorker(k, m) \in of(m) BY <1>3
  <2>4. ASSUME NEW w \in R, w[1].name = m.name PROVE w = OfWorker(k, m)
    <3>1. w # OfMaster(k) BY <1>3, <2>2, <2>4
    <3>2. PICK o \in K8s!Range(k.workers) : w = OfWorker(k, o) BY <2>4, <3>1
    <3> QED BY <1>3, <2>1, <2>4, <3>2
  <2> QED BY <2>3, <2>4
<1>5. \A i \in 1..L : k.workers[i] \in K8s!Range(k.workers) BY <1>2 DEF K8s!Range
<1>6. I = 1..L
  <2> HIDE DEF of
  <2> QED BY <1>2, <1>4, <1>5
<1>7. known = k.workers
  <2>1. K8s!OnlyAt(k.workers, 1..L) = k.workers BY <1>2, OnlyAtAll
  <2> HIDE DEF I
  <2> QED BY <1>6, <2>1
<1>8. rest = {}
  <2>1. k.master \in K8s!Members(k) /\ \A m \in K8s!Range(k.workers) : m \in K8s!Members(k) BY DEF K8s!Members
  <2>2. \A w \in R : \E m \in K8s!Members(k) : m.name = w[1].name BY <1>3, <2>1
  <2> QED BY <2>2
<1>9. s = <<>>
  <2>1. S = {} BY <1>8
  <2> HIDE DEF S
  <2> QED BY <2>1, NoOrder
<1> HIDE DEF known, of, I, rest, S
<1>10. at = [i \in 1..L |-> at[i]] /\ \A i \in 1..L : at[i] = ReadAt(OfWorker(k, k.workers[i]))
  <2>1. \A x : (CHOOSE w \in {x} : TRUE) = x OBVIOUS
  <2>2. \A i \in 1..L : of(k.workers[i]) = {OfWorker(k, k.workers[i])} BY <1>4, <1>5
  <2> DEFINE pick(i) == CHOOSE w \in of(k.workers[i]) : TRUE
  <2>3. at = [i \in 1..L |-> ReadAt(pick(i))] BY <1>2, <1>7
  <2>4. \A i \in 1..L : pick(i) = OfWorker(k, k.workers[i]) BY <2>1, <2>2
  <2> HIDE DEF at, pick
  <2> QED BY <2>3, <2>4
<1> HIDE DEF at
<1>11. IsList(at) /\ Len(at) = L BY <1>2, <1>10, ListIs
<1>12. ws = at BY <1>1, <1>9, <1>11, NoOrder
<1> QED BY <1>10, <1>11, <1>12

(* A cluster that has the members of k, but for public addresses.           *)
LooksLike(k, y) ==
  /\ K8s!Private(y.master) = K8s!Private(k.master) /\ y.token = k.token /\ y.ids = k.ids
  /\ {K8s!Private(m) : m \in K8s!Range(y.workers)} = {K8s!Private(m) : m \in K8s!Range(k.workers)}

LEMMA LooksNodes ==
  ASSUME NEW k, Full(k), NEW y, LooksLike(k, y), MemberOk(y.master), \A m \in K8s!Range(y.workers) : MemberOk(m)
  PROVE  K8s!NodesOf(y) = K8s!NodesOf(k)
<1>1. \A m : MemberOk(m) => K8s!Private(m).node = m.node
  <2> SUFFICES ASSUME NEW m, MemberOk(m) PROVE K8s!Private(m).node = m.node OBVIOUS
  <2> DEFINE bare == [name |-> m.name, node |-> m.node, disk |-> m.disk, pub4 |-> FALSE, pub6 |-> FALSE, ip |-> m.ip]
  <2>1. K8s!Private([name |-> m.name, node |-> m.node, disk |-> m.disk, pub4 |-> m.pub4, pub6 |-> m.pub6, ip |-> m.ip]) = bare
    BY PrivateIs
  <2>2. K8s!Private(m) = bare
    <3> HIDE DEF bare
    <3> QED BY <2>1 DEF MemberOk
  <2> QED BY <2>2
<1>2. \A m \in K8s!Range(k.workers) : MemberOk(m)
  <2>1. DOMAIN k.workers = 1..Len(k.workers) BY ListHas DEF Full, ClusterShape
  <2> QED BY <2>1 DEF Full, ClusterShape, K8s!Range
<1>3. y.master.node = k.master.node BY <1>1 DEF LooksLike, Full
<1>4. {m.node : m \in K8s!Range(y.workers)} = {m.node : m \in K8s!Range(k.workers)}
  <2>1. \A m \in K8s!Range(y.workers) : \E o \in K8s!Range(k.workers) : K8s!Private(m) = K8s!Private(o) BY DEF LooksLike
  <2>2. \A m \in K8s!Range(k.workers) : \E o \in K8s!Range(y.workers) : K8s!Private(m) = K8s!Private(o) BY DEF LooksLike
  <2>3. \A m \in K8s!Range(y.workers) : \E o \in K8s!Range(k.workers) : m.node = o.node BY <1>1, <1>2, <2>1
  <2>4. \A m \in K8s!Range(k.workers) : \E o \in K8s!Range(y.workers) : m.node = o.node BY <1>1, <1>2, <2>2
  <2> QED BY <2>3, <2>4
<1>5. \A z : K8s!NodesOf(z) = {z.master.node} \cup {m.node : m \in K8s!Range(z.workers)}
  BY DEF K8s!NodesOf, K8s!Members
<1> QED BY <1>3, <1>4, <1>5

(* A step that reads cluster c back as y.                                   *)
ReadAs(c, y, s) ==
  /\ clusters' = [clusters EXCEPT ![c] = y] /\ outcome' = [outcome EXCEPT ![c] = s]
  /\ deployments' = deployments /\ made' = made /\ nets' = nets /\ split' = split

LEMMA ReadingRight ==
  ASSUME K8sInv, NEW c \in Cluster, outcome[c] # "panic", NEW y, NEW s, ReadAs(c, y, s),
         HandOk(c, y, deployments, made), c \notin split => Whole(c, y, deployments),
         s \in {"read", "synced", "loaded"},
         s # "read" /\ c \notin split =>
                       /\ outcome[c] = "ok" /\ LooksLike(clusters[c], y)
                       /\ y.master # K8s!Nobody /\ (s = "synced" => K8s!NamesOf(y) = K8s!NamesOf(clusters[c]))
  PROVE  K8sInv' /\ K8s!CancelStep /\ K8s!ReadStep
<1> DEFINE k == clusters[c]
<1>1. /\ HandOk(c, k, deployments, made) /\ nets[c] \subseteq ClusterNode /\ GridOk(deployments, made, split)
      /\ outcome[c] = "ok" => InOrder(k, deployments, nets[c])
      /\ nets = [d \in Cluster |-> nets[d]]
  BY HandOf
<1>2. s # "read" /\ c \notin split => DOMAIN y.ids \subseteq K8s!NodesOf(y)
  <2> SUFFICES ASSUME s # "read", c \notin split PROVE DOMAIN y.ids \subseteq K8s!NodesOf(y) OBVIOUS
  <2> HIDE DEF k
  <2>1. InOrder(k, deployments, nets[c]) /\ LooksLike(k, y) /\ y.master # K8s!Nobody BY <1>1 DEF k
  <2>2. Full(k) BY <1>1, <2>1 DEF Full, HandOk, InOrder
  <2>3. MemberOk(y.master) /\ ClusterShape(y) BY <2>1 DEF HandOk
  <2>4. \A m \in K8s!Range(y.workers) : MemberOk(m)
    <3>1. DOMAIN y.workers = 1..Len(y.workers) BY <2>3, ListHas DEF ClusterShape
    <3> QED BY <2>3, <3>1 DEF ClusterShape, K8s!Range
  <2>5. K8s!NodesOf(y) = K8s!NodesOf(k) BY <2>1, <2>2, <2>3, <2>4, LooksNodes
  <2> QED BY <2>1, <2>5 DEF InOrder, LooksLike
<1>3. Stands(c, y, deployments, made, nets[c], s, split) BY <1>1, <1>2 DEF Stands
<1>4. \A d : Spared(d, deployments, made, deployments, made) BY <1>1, SparedSelf
<1>5. Moved(c, y, s) BY <1>1, <1>3, <1>4 DEF Moved, ReadAs
<1>6. /\ K8sInv' /\ K8s!CancelStep /\ outcome'[c] = s /\ clusters'[c] = y
      /\ \A d \in Cluster \ {c} : outcome'[d] = outcome[d]
  BY <1>5, OneMoves
<1>7. K8s!ReadStep
  <2> SUFFICES ASSUME NEW d \in Cluster \ split, outcome[d] = "ok", outcome'[d] \in {"synced", "loaded"}
               PROVE  LET a == clusters[d] b == clusters'[d]
                      IN  /\ K8s!Private(b.master) = K8s!Private(a.master) /\ b.token = a.token /\ b.ids = a.ids
                          /\ {K8s!Private(m) : m \in K8s!Range(b.workers)} = {K8s!Private(m) : m \in K8s!Range(a.workers)}
                          /\ outcome'[d] = "synced" => K8s!NamesOf(b) = K8s!NamesOf(a)
    BY Zenon DEF K8s!ReadStep
  <2>1. d = c BY <1>6
  <2>2. s # "read" BY <1>6, <2>1
  <2>3. LooksLike(k, y) /\ (s = "synced" => K8s!NamesOf(y) = K8s!NamesOf(k)) BY <2>1, <2>2
  <2> HIDE DEF k
  <2>4. clusters'[d] = y /\ clusters[d] = k /\ outcome'[d] = s BY <1>6, <2>1 DEF k
  <2> QED BY <2>3, <2>4 DEF LooksLike
<1> QED BY <1>6, <1>7

SetBack(k, a, ws, t) == [k EXCEPT !.workers = ws, !.token = t, !.master = a]
LEMMA SetBackIs ==
  ASSUME NEW k, k = [master |-> k.master, workers |-> k.workers, token |-> k.token, entry |-> k.entry, ids |-> k.ids],
         NEW a, NEW ws, NEW t
  PROVE  SetBack(k, a, ws, t) = [master |-> a, workers |-> ws, token |-> t, entry |-> k.entry, ids |-> k.ids]
<1> DEFINE at(f) == IF f = "master" THEN a ELSE IF f = "token" THEN t ELSE IF f = "workers" THEN ws ELSE k[f]
           r == [master |-> a, workers |-> ws, token |-> t, entry |-> k.entry, ids |-> k.ids]
<1>1. DOMAIN k = {"master", "workers", "token", "entry", "ids"} OBVIOUS
<1>2. SetBack(k, a, ws, t) = [f \in DOMAIN k |-> at(f)] BY DEF SetBack
<1>3. r = [f \in DOMAIN k |-> at(f)] BY <1>1
<1> QED BY <1>2, <1>3

LEMMA ClusterSyncRight ==
  ASSUME K8s!ClusterAssumption, K8sInv, NEW c \in Cluster, outcome[c] # "panic", K8s!UpdateFromRemote(c)
  PROVE  K8sInv' /\ K8s!CancelStep /\ K8s!ReadStep
<1> DEFINE k == clusters[c]
           R == K8s!ReadFrom(k.ids)
           ms == {w \in R : w[1].name = k.master.name}
           seen == {w[1].token : w \in R} \ {k.token}
           one == CHOOSE w \in ms : TRUE
           master == IF ms = {} THEN K8s!Nobody ELSE ReadAt(one)
           Back(ws, t) == [k EXCEPT !.workers = ws, !.token = t, !.master = master]
           s == IF outcome[c] = "ok" THEN "synced" ELSE "read"
<1>1. /\ HandOk(c, k, deployments, made) /\ nets[c] \subseteq ClusterNode /\ GridOk(deployments, made, split)
      /\ c \notin split => Whole(c, k, deployments)
      /\ outcome[c] = "ok" => InOrder(k, deployments, nets[c])
      /\ nets = [d \in Cluster |-> nets[d]]
  BY HandOf
<1>2. /\ k.master # K8s!Nobody /\ ~K8s!Misplaced(k)
      /\ deployments' = deployments /\ made' = made /\ nets' = nets /\ split' = split
  BY DEF K8s!UpdateFromRemote
<1>3. \/ outcome' = [outcome EXCEPT ![c] = "panic"] /\ clusters' = clusters
      \/ /\ outcome' = [outcome EXCEPT ![c] = s]
         /\ ms = {} => R = {}
         /\ \E ws \in K8s!RemoteWorkers(k, R), t \in IF seen = {} THEN {k.token} ELSE seen :
              clusters' = [clusters EXCEPT ![c].workers = ws, ![c].token = t, ![c].master = master]
  BY Zenon DEF K8s!UpdateFromRemote, ReadAt
<1>4. Here(k.ids) BY <1>2 DEF K8s!Misplaced, K8s!Has, Here
<1>5. Full(k) /\ k.master.name = c /\ IdsOk(c, k.ids, deployments, made) BY <1>1, <1>2 DEF HandOk, Full
<1>6. DOMAIN clusters = Cluster /\ clusters = [d \in Cluster |-> clusters[d]] BY DEF K8sInv
<1>7. CASE outcome' = [outcome EXCEPT ![c] = "panic"] /\ clusters' = clusters
  <2>1. Stands(c, k, deployments, made, nets[c], "panic", split) BY <1>1 DEF Stands
  <2>2. \A d : Spared(d, deployments, made, deployments, made) BY <1>1, SparedSelf
  <2>3. clusters' = [clusters EXCEPT ![c] = k] BY <1>6, <1>7
  <2>4. Moved(c, k, "panic") BY <1>1, <1>2, <1>7, <2>1, <2>2, <2>3 DEF Moved
  <2> HIDE DEF k
  <2> QED BY <2>4, OneMoves
<1>8. CASE /\ outcome' = [outcome EXCEPT ![c] = s] /\ (ms = {} => R = {})
           /\ \E ws \in K8s!RemoteWorkers(k, R), t \in IF seen = {} THEN {k.token} ELSE seen :
                clusters' = [clusters EXCEPT ![c].workers = ws, ![c].token = t, ![c].master = master]
  <2>1. PICK ws \in K8s!RemoteWorkers(k, R), t \in IF seen = {} THEN {k.token} ELSE seen :
           clusters' = [clusters EXCEPT ![c].workers = ws, ![c].token = t, ![c].master = master]
    BY <1>8
  <2> DEFINE y == Back(ws, t)
  <2>2. clusters' = [clusters EXCEPT ![c] = y] BY <1>6, <2>1
  <2>3. k = [master |-> k.master, workers |-> k.workers, token |-> k.token, entry |-> k.entry, ids |-> k.ids]
    BY <1>5 DEF Full, ClusterShape
  <2> HIDE DEF k, master, one
  <2>4. y = [master |-> master, workers |-> ws, token |-> t, entry |-> k.entry, ids |-> k.ids]
    <3>1. y = SetBack(k, master, ws, t) BY DEF SetBack
    <3> HIDE DEF y
    <3> QED BY <2>3, <3>1, SetBackIs
  <2> HIDE DEF y
  <2>5. /\ y.master = master /\ y.workers = ws /\ y.ids = k.ids /\ y.token = t
        /\ y = [master |-> y.master, workers |-> y.workers, token |-> y.token, entry |-> y.entry, ids |-> y.ids]
    BY <2>4
  <2>6. /\ IsFiniteSet(R) /\ \A w \in R : MemberOk(ReadAt(w))
        /\ c \notin split => \A v, w \in R : v[1].ip = w[1].ip => v = w
    <3> HIDE DEF R
    <3>1. R = K8s!ReadFrom(k.ids) BY DEF R
    <3> QED BY <1>1, <1>4, <1>5, <3>1, ReadIs
  <2> HIDE DEF R
  <2>7. IsList(ws) /\ \A i \in 1..Len(ws) : \E w \in R : ws[i] = ReadAt(w)
    BY <1>5, <2>1, <2>6, RemoteIs DEF Full
  <2>8. master = K8s!Nobody \/ (master = ReadAt(one) /\ one \in R /\ one[1].name = c) BY <1>5 DEF master, one
  <2>9. HandOk(c, y, deployments, made)
    <3>1. ClusterShape(y) BY <2>5, <2>6, <2>7 DEF ClusterShape
    <3>2. master = K8s!Nobody \/ (MemberOk(master) /\ master.name = c) BY <2>6, <2>8, AtIs
    <3> QED BY <1>5, <2>5, <3>1, <3>2 DEF HandOk
  <2>10. c \notin split => Whole(c, y, deployments)
    <3>1. \A m \in K8s!Members(y) : m = K8s!Nobody \/ \E w \in R : m = ReadAt(w)
      <4>1. DOMAIN ws = 1..Len(ws) BY <2>7, ListHas
      <4> QED BY <2>5, <2>7, <2>8, <4>1 DEF K8s!Members, K8s!Range
    <3>2. c \notin split => K8s!Apart(y) BY <2>6, <3>1, ReadApart
    <3> QED BY <1>1, <2>5, <3>2 DEF Whole
  <2>11. ASSUME s # "read"
         PROVE  /\ outcome[c] = "ok" /\ LooksLike(k, y) /\ y.master # K8s!Nobody
                /\ K8s!NamesOf(y) = K8s!NamesOf(k)
    <3>1. outcome[c] = "ok" /\ InOrder(k, deployments, nets[c]) /\ K8s!Valid(k) BY <1>1, <2>11 DEF InOrder
    <3>2. R = {OfMaster(k)} \cup {OfWorker(k, m) : m \in K8s!Range(k.workers)}
      BY <1>1, <1>5, <3>1, OrderRead DEF R
    <3>3. /\ Len(ws) = Len(k.workers) /\ \A i \in 1..Len(ws) : ws[i] = ReadAt(OfWorker(k, k.workers[i]))
      BY <1>5, <2>1, <3>1, <3>2, RemoteSame
    <3>4. \A m : OfWorker(k, m)[1].name = m.name /\ OfMaster(k)[1].name = k.master.name
                 /\ OfWorker(k, m)[1].token = k.token /\ OfMaster(k)[1].token = k.token
      BY DEF OfWorker, OfMaster, K8s!Machine
    <3>5. ms = {OfMaster(k)}
      <4>1. \A m \in K8s!Range(k.workers) : m.name # k.master.name BY <1>5, <3>1, NamesTell
      <4> QED BY <3>2, <3>4, <4>1
    <3>6. one = OfMaster(k) /\ master = ReadAt(OfMaster(k))
      <4>1. \A x : (CHOOSE w \in {x} : TRUE) = x OBVIOUS
      <4> HIDE DEF ms
      <4>2. one = OfMaster(k) BY <3>5, <4>1 DEF one
      <4> QED BY <3>5, <4>2 DEF master
    <3>7. t = k.token
      <4>1. seen = {} BY <3>2, <3>4
      <4> QED BY <2>1, <4>1
    <3>8. \A m : MemberOk(m) => K8s!Private(ReadAt(OfWorker(k, m))) = K8s!Private(m) /\ ReadAt(OfWorker(k, m)).name = m.name
      BY SameMember DEF OfWorker
    <3>9. K8s!Private(master) = K8s!Private(k.master) /\ master.node = k.master.node
      BY <1>5, <3>6, SameMember DEF OfMaster, Full
    <3>10. /\ DOMAIN ws = 1..Len(ws) /\ DOMAIN k.workers = 1..Len(k.workers)
           /\ \A i \in 1..Len(k.workers) : MemberOk(k.workers[i])
      BY <1>5, <2>7, ListHas DEF Full, ClusterShape
    <3>11. \A i \in 1..Len(ws) : K8s!Private(ws[i]) = K8s!Private(k.workers[i]) /\ ws[i].name = k.workers[i].name
      BY <3>3, <3>8, <3>10
    <3>12. {K8s!Private(m) : m \in K8s!Range(ws)} = {K8s!Private(m) : m \in K8s!Range(k.workers)}
      BY <3>3, <3>10, <3>11 DEF K8s!Range
    <3>13. K8s!NamesOf(y) = K8s!NamesOf(k) BY <2>5, <3>3, <3>10, <3>11 DEF K8s!NamesOf
    <3>14. master # K8s!Nobody
      <4>1. k.master.node # 0 BY <1>5 DEF Full, MemberOk, K8s!ClusterAssumption
      <4>2. K8s!Nobody.node = 0 BY DEF K8s!Nobody
      <4> QED BY <3>9, <4>1, <4>2
    <3> QED BY <2>5, <3>1, <3>7, <3>9, <3>12, <3>13, <3>14 DEF LooksLike
  <2>12. s \in {"read", "synced"} OBVIOUS
  <2>13. outcome' = [outcome EXCEPT ![c] = s] BY <1>8
  <2> HIDE DEF s
  <2>14. ReadAs(c, y, s) BY <1>2, <2>2, <2>13 DEF ReadAs
  <2> QED BY <2>9, <2>10, <2>11, <2>12, <2>14, ReadingRight DEF k
<1> QED BY <1>3, <1>7, <1>8

Contracts(c) == {id \in DOMAIN deployments : deployments[id].name = c}

LEMMA LoadingRight ==
  ASSUME K8s!ClusterAssumption, K8sInv, NEW c \in Cluster, outcome[c] # "panic",
         NEW ns, ns \subseteq ClusterNode, \A id \in Contracts(c) : deployments[id].node \in ns,
         NEW known, NEW y \in K8s!Loads(c, ns, known),
         NEW s, s = (IF outcome[c] = "ok" THEN "loaded" ELSE "read"), ReadAs(c, y, s)
  PROVE  K8sInv' /\ K8s!CancelStep /\ K8s!ReadStep
<1> DEFINE k == clusters[c]
           All == {ids \in [ns -> UNION K8s!Range(known)] : \A n \in ns : ids[n] \in K8s!Found(c, n, known)}
<1>1. PICK ids \in All : y \in K8s!LoadedAs(c, ids)
  <2>1. K8s!Loads(c, ns, known) = UNION {K8s!LoadedAs(c, ids) : ids \in All} BY Zenon DEF K8s!Loads
  <2> HIDE DEF All
  <2> QED BY <2>1
<1>2. ids = [n \in ns |-> ids[n]] /\ DOMAIN ids = ns /\ \A n \in ns : ids[n] \in K8s!Found(c, n, known) OBVIOUS
<1>3. \A n \in ns : ids[n] \in Contracts(c) /\ deployments[ids[n]].node = n
  BY <1>2 DEF K8s!Found, K8s!Has, Contracts
<1> DEFINE R == K8s!ReadFrom(ids)
           ms == {w \in R : w[1].url = K8s!NoAddress}
           S == {ReadAt(w) : w \in R \ ms}
           Is(m, ws) == [master |-> ReadAt(m), workers |-> ws, token |-> m[1].token, entry |-> "", ids |-> ids]
<1>4. PICK m \in ms, ws \in K8s!SetToSeqs(S) : y = Is(m, ws)
  <2>1. K8s!LoadedAs(c, ids) = {Is(m, ws) : m \in ms, ws \in K8s!SetToSeqs(S)} BY DEF K8s!LoadedAs, ReadAt
  <2> HIDE DEF ms, S, Is
  <2> QED BY <1>1, <2>1
<1>5. /\ y.master = ReadAt(m) /\ y.workers = ws /\ y.token = m[1].token /\ y.ids = ids
      /\ y = [master |-> y.master, workers |-> y.workers, token |-> y.token, entry |-> y.entry, ids |-> y.ids]
  BY <1>4
<1>6. /\ HandOk(c, k, deployments, made) /\ GridOk(deployments, made, split)
      /\ c \notin split => Whole(c, k, deployments)
      /\ outcome[c] = "ok" => InOrder(k, deployments, nets[c])
  BY HandOf
<1>7. IdsOk(c, ids, deployments, made) /\ Here(ids)
  <2>1. \A n \in ns : ids[n] \in 1..made BY <1>3, <1>6 DEF GridOk, Contracts
  <2> QED BY <1>2, <1>3, <2>1 DEF IdsOk, Here, Contracts
<1>8. /\ IsFiniteSet(R) /\ \A w \in R : MemberOk(ReadAt(w)) /\ (w[1].url = K8s!NoAddress => w[1].name = c)
      /\ c \notin split => \A v, w \in R : v[1].ip = w[1].ip => v = w
  <2> HIDE DEF R
  <2>1. R = K8s!ReadFrom(ids) BY DEF R
  <2> QED BY <1>6, <1>7, <2>1, ReadIs
<1> HIDE DEF R
<1>9. IsFiniteSet(S)
  <2> DEFINE rest == R \ ms
             f == [w \in rest |-> ReadAt(w)]
  <2>1. IsFiniteSet(rest)
    <3>1. rest \in SUBSET R OBVIOUS
    <3> QED BY <1>8, <3>1, FS_Subset
  <2>2. S = {f[w] : w \in rest} OBVIOUS
  <2> HIDE DEF f, S, rest
  <2> QED BY <2>1, <2>2, ImageFinite
<1>10. /\ IsList(ws) /\ DOMAIN ws = 1..Len(ws) /\ (\A i \in 1..Len(ws) : ws[i] \in S)
       /\ \A x \in S : \E i \in 1..Len(ws) : ws[i] = x
  <2> HIDE DEF S
  <2> QED BY <1>9, SetToSeqsIs, ListHas
<1>11. \A i \in 1..Len(ws) : \E w \in R : ws[i] = ReadAt(w) BY <1>10
<1>12. HandOk(c, y, deployments, made)
  <2>1. m \in R /\ m[1].name = c BY <1>4, <1>8
  <2>2. MemberOk(ReadAt(m)) /\ ReadAt(m).name = c BY <1>8, <2>1, AtIs
  <2>3. ClusterShape(y) BY <1>5, <1>8, <1>10, <1>11 DEF ClusterShape
  <2> QED BY <1>5, <1>7, <2>2, <2>3 DEF HandOk
<1>13. ASSUME c \notin split, NEW id \in Contracts(c) PROVE ids[deployments[id].node] = id /\ id \in {k.ids[n] : n \in DOMAIN k.ids}
  <2> DEFINE n == deployments[id].node
  <2>1. n \in ns BY <1>13
  <2>2. ids[n] \in Contracts(c) /\ deployments[ids[n]].node = n BY <1>3, <2>1
  <2>3. WholeIds(c, k.ids, deployments) BY <1>6, <1>13 DEF Whole
  <2> HIDE DEF k
  <2>4. PICK a \in DOMAIN k.ids : k.ids[a] = id BY <1>13, <2>3 DEF WholeIds, Contracts
  <2>5. PICK b \in DOMAIN k.ids : k.ids[b] = ids[n] BY <2>2, <2>3 DEF WholeIds, Contracts
  <2>6. a = n /\ b = n BY <1>13, <2>2, <2>3, <2>4, <2>5 DEF WholeIds, Contracts
  <2> QED BY <2>4, <2>5, <2>6
<1>14. ASSUME c \notin split PROVE Whole(c, y, deployments)
  <2>1. WholeIds(c, ids, deployments) BY <1>2, <1>3, <1>13, <1>14 DEF WholeIds, Contracts
  <2>2. \A o \in K8s!Members(y) : \E w \in R : o = ReadAt(w)
    <3>1. m \in R BY <1>4
    <3> QED BY <1>5, <1>10, <1>11, <3>1 DEF K8s!Members, K8s!Range
  <2>3. K8s!Apart(y) BY <1>8, <1>14, <2>2, ReadApart
  <2> QED BY <1>5, <2>1, <2>3 DEF Whole
<1>15. ASSUME s # "read", c \notin split PROVE outcome[c] = "ok" /\ LooksLike(k, y) /\ y.master # K8s!Nobody
  <2>1. outcome[c] = "ok" /\ InOrder(k, deployments, nets[c]) BY <1>6, <1>15
  <2> HIDE DEF k
  <2>2. Full(k) /\ IdsOk(c, k.ids, deployments, made) /\ k.master.name = c BY <1>6, <2>1 DEF Full, HandOk, InOrder
  <2>3. \A n \in DOMAIN k.ids : k.ids[n] \in Contracts(c) /\ deployments[k.ids[n]].node = n
    <3>1. Here(k.ids) BY <1>6, <2>1, <2>2, OrderRead
    <3> QED BY <2>2, <3>1 DEF Here, IdsOk, Contracts
  <2>4. ids = k.ids
    <3>1. \A n \in DOMAIN k.ids : n \in ns /\ ids[n] = k.ids[n] BY <1>13, <1>15, <2>3
    <3>2. \A n \in ns : n \in DOMAIN k.ids
      <4> SUFFICES ASSUME NEW n \in ns PROVE n \in DOMAIN k.ids OBVIOUS
      <4>1. PICK o \in DOMAIN k.ids : k.ids[o] = ids[n] BY <1>3, <1>13, <1>15 DEF k
      <4> QED BY <1>3, <2>3, <4>1
    <3>3. k.ids = [n \in DOMAIN k.ids |-> k.ids[n]] BY <2>2 DEF IdsOk
    <3>4. DOMAIN k.ids = ns BY <3>1, <3>2
    <3> QED BY <1>2, <3>1, <3>3, <3>4
  <2>5. R = {OfMaster(k)} \cup {OfWorker(k, o) : o \in K8s!Range(k.workers)}
    BY <1>6, <2>1, <2>2, <2>4, OrderRead DEF R
  <2>6. \A o : /\ OfWorker(k, o)[1].url = k.master.ip /\ OfMaster(k)[1].url = K8s!NoAddress
               /\ OfMaster(k)[1].token = k.token
    BY DEF OfWorker, OfMaster, K8s!Machine
  <2>7. k.master.ip # K8s!NoAddress BY <2>1 DEF InOrder, K8s!Members, K8s!Keeps
  <2>8. m = OfMaster(k) /\ R \ ms = {OfWorker(k, o) : o \in K8s!Range(k.workers)}
    BY <1>4, <2>5, <2>6, <2>7
  <2>9. \A o : MemberOk(o) => K8s!Private(ReadAt(OfWorker(k, o))) = K8s!Private(o) BY SameMember DEF OfWorker
  <2>10. K8s!Private(ReadAt(m)) = K8s!Private(k.master) /\ ReadAt(m).node = k.master.node
    BY <2>2, <2>8, SameMember DEF OfMaster, Full
  <2>11. /\ \A o \in K8s!Range(k.workers) : MemberOk(o)
         /\ K8s!Range(ws) = {ReadAt(OfWorker(k, o)) : o \in K8s!Range(k.workers)}
    <3>1. DOMAIN k.workers = 1..Len(k.workers) BY <2>2, ListHas DEF Full, ClusterShape
    <3>2. \A o \in K8s!Range(k.workers) : MemberOk(o) BY <2>2, <3>1 DEF Full, ClusterShape, K8s!Range
    <3>3. S = {ReadAt(OfWorker(k, o)) : o \in K8s!Range(k.workers)} BY <2>8
    <3>4. K8s!Range(ws) = S BY <1>10 DEF K8s!Range
    <3> QED BY <3>2, <3>3, <3>4
  <2>12. {K8s!Private(o) : o \in K8s!Range(ws)} = {K8s!Private(o) : o \in K8s!Range(k.workers)} BY <2>9, <2>11
  <2>13. ReadAt(m) # K8s!Nobody
    <3>1. k.master.node # 0 BY <2>2 DEF Full, MemberOk, K8s!ClusterAssumption
    <3>2. K8s!Nobody.node = 0 BY DEF K8s!Nobody
    <3> QED BY <2>10, <3>1, <3>2
  <2> QED BY <1>5, <2>1, <2>4, <2>6, <2>8, <2>10, <2>12, <2>13 DEF LooksLike
<1>16. s \in {"read", "loaded"} OBVIOUS
<1> QED BY <1>12, <1>14, <1>15, <1>16, ReadingRight

LEMMA ClusterLoadRight ==
  ASSUME K8s!ClusterAssumption, K8sInv, NEW c \in Cluster, outcome[c] # "panic", K8s!Load(c)
  PROVE  K8sInv' /\ K8s!CancelStep /\ K8s!ReadStep
<1> DEFINE ns == {deployments[id].node : id \in K8s!ContractsOf(c)}
           s == IF outcome[c] = "ok" THEN "loaded" ELSE "read"
<1>1. PICK y \in K8s!Loads(c, ns, recorded) : clusters' = [clusters EXCEPT ![c] = y] BY DEF K8s!Load
<1>2. ReadAs(c, y, s) BY <1>1 DEF K8s!Load, ReadAs
<1>3. K8s!ContractsOf(c) = Contracts(c) BY DEF K8s!ContractsOf, Contracts
<1>4. ns \subseteq ClusterNode BY <1>3 DEF Contracts, K8sInv, GridOk, DeploymentOk
<1>5. \A id \in Contracts(c) : deployments[id].node \in ns BY <1>3
<1> HIDE DEF ns, s
<1>6. s = (IF outcome[c] = "ok" THEN "loaded" ELSE "read") BY DEF s
<1> QED BY <1>1, <1>2, <1>4, <1>5, <1>6, LoadingRight

LEMMA ClusterGetRight ==
  ASSUME K8s!ClusterAssumption, K8sInv, NEW c \in Cluster, outcome[c] # "panic", K8s!Get(c)
  PROVE  K8sInv' /\ K8s!CancelStep /\ K8s!ReadStep
<1> DEFINE known == [n \in ClusterNode |-> recorded[n] \cup {id \in K8s!ContractsOf(c) : deployments[id].node = n}]
           ns == {deployments[id].node : id \in K8s!ContractsOf(c)} \cup nets[c]
           s == IF outcome[c] = "ok" THEN "loaded" ELSE "read"
<1>1. /\ \/ (\E y \in K8s!Loads(c, ns, known) : clusters' = [clusters EXCEPT ![c] = y])
            /\ outcome' = [outcome EXCEPT ![c] = s]
         \/ clusters' = clusters /\ outcome' = outcome
      /\ deployments' = deployments /\ nets' = nets /\ made' = made /\ split' = split
  BY Zenon DEF K8s!Get
<1>2. CASE (\E y \in K8s!Loads(c, ns, known) : clusters' = [clusters EXCEPT ![c] = y])
           /\ outcome' = [outcome EXCEPT ![c] = s]
  <2>1. PICK y \in K8s!Loads(c, ns, known) : clusters' = [clusters EXCEPT ![c] = y] BY <1>2
  <2>2. ReadAs(c, y, s) BY <1>1, <1>2, <2>1 DEF ReadAs
  <2>3. K8s!ContractsOf(c) = Contracts(c) BY DEF K8s!ContractsOf, Contracts
  <2>4. \A id \in Contracts(c) : deployments[id].node \in ClusterNode BY DEF Contracts, K8sInv, GridOk, DeploymentOk
  <2>5. nets[c] \subseteq ClusterNode BY HandOf
  <2>6. ns \subseteq ClusterNode BY <2>3, <2>4, <2>5
  <2>7. \A id \in Contracts(c) : deployments[id].node \in ns BY <2>3
  <2> HIDE DEF ns, s, known
  <2>8. s = (IF outcome[c] = "ok" THEN "loaded" ELSE "read") BY DEF s
  <2> QED BY <2>1, <2>2, <2>6, <2>7, <2>8, LoadingRight
<1>3. CASE clusters' = clusters /\ outcome' = outcome
  <2>1. Moved(c, clusters[c], outcome[c])
    <3>1. \A d : Spared(d, deployments, made, deployments, made) BY HandOf, SparedSelf
    <3>2. Stands(c, clusters[c], deployments, made, nets[c], outcome[c], split) BY DEF K8sInv, ClusterStands
    <3>3. clusters' = [clusters EXCEPT ![c] = clusters[c]] /\ outcome' = [outcome EXCEPT ![c] = outcome[c]]
      BY <1>3 DEF K8sInv
    <3> QED BY <1>1, <3>1, <3>2, <3>3 DEF Moved, K8sInv
  <2> QED BY <2>1, OneMoves
<1> QED BY <1>1, <1>2, <1>3

(* A step of the clusters of D.                                             *)
LEMMA ManyMove ==
  ASSUME K8sInv, NEW D, D \subseteq Cluster,
         clusters' = [d \in Cluster |-> clusters'[d]], outcome' = [d \in Cluster |-> outcome'[d]],
         nets' = nets, split \subseteq split',
         GridOk(deployments', made', split'),
         \A d \in Cluster \ D : /\ clusters'[d] = clusters[d] /\ outcome'[d] = outcome[d]
                                /\ Spared(d, deployments, made, deployments', made'),
         \A d \in D : /\ Stands(d, clusters'[d], deployments', made', nets[d], outcome'[d], split')
                      /\ outcome'[d] \in {"refused", "batched", "failed"}
  PROVE  K8sInv' /\ K8s!CancelStep /\ K8s!ReadStep
<1>1. ASSUME NEW d \in Cluster PROVE ClusterStands(d)'
  <2>1. CASE d \in D BY <2>1 DEF ClusterStands
  <2>2. CASE d \notin D
    <3>1. Stands(d, clusters[d], deployments, made, nets[d], outcome[d], split) BY DEF K8sInv, ClusterStands
    <3>2. Spared(d, deployments, made, deployments', made') BY <2>2
    <3>3. Stands(d, clusters[d], deployments', made', nets[d], outcome[d], split') BY <3>1, <3>2, StandsStill
    <3> QED BY <2>2, <3>3 DEF ClusterStands
  <2> QED BY <2>1, <2>2
<1>2. K8sInv' BY <1>1 DEF K8sInv
<1>3. K8s!CancelStep
  <2> SUFFICES ASSUME NEW d \in Cluster, outcome[d] \in {"ok", "synced", "loaded"}, outcome'[d] = "cancelled" PROVE FALSE
    BY DEF K8s!CancelStep
  <2> QED OBVIOUS
<1>4. K8s!ReadStep
  <2> SUFFICES ASSUME NEW d \in Cluster, outcome[d] = "ok", outcome'[d] \in {"synced", "loaded"} PROVE FALSE
    BY DEF K8s!ReadStep
  <2> QED OBVIOUS
<1> QED BY <1>2, <1>3, <1>4

(* A cluster on its way to a batch: without contracts.                      *)
Bare(c, y, g, m, lost) ==
  /\ HandOk(c, y, g, m) /\ Full(y) /\ DOMAIN y.ids = {} /\ y.master.name = c
  /\ c \notin lost => WholeIds(c, y.ids, g)

LEMMA BareRight ==
  ASSUME K8s!ClusterAssumption, K8sInv, NEW c \in Cluster, outcome[c] # "panic", DOMAIN clusters[c].ids = {},
         NEW a \in Asks, NEW y, y = K8s!Asked(clusters[c], K8s!AskFor(c, a)), NEW p, p = K8s!Prepared(y),
         NEW r, r = K8s!AssignNodesIPs(p, nets[c])
  PROVE  /\ \A x \in {y, p, r.k} : Bare(c, x, deployments, made, split)
         /\ c \notin split => K8s!Apart(y)
         /\ K8s!Valid(y) /\ r.ok =>
              /\ K8s!Valid(r.k) /\ \A m \in K8s!Members(r.k) : K8s!Keeps(m, nets[c])
              /\ c \notin split => K8s!Apart(r.k)
<1>1. /\ HandOk(c, clusters[c], deployments, made) /\ nets[c] \in SUBSET ClusterNode
      /\ c \notin split => Whole(c, clusters[c], deployments)
  BY HandOf
<1>2. HandOk(c, y, deployments, made) /\ y.ids = clusters[c].ids /\ y.master.name = c /\ Full(y)
      /\ (c \notin split => Whole(c, y, deployments))
  BY <1>1, AskedRight DEF Whole
<1>3. /\ HandOk(c, p, deployments, made) /\ Alike(y, p) /\ DOMAIN p.ids = {}
      /\ c \notin split => Whole(c, p, deployments)
  BY <1>2, PreparedRight
<1>4. Full(p) /\ p.master.name = c BY <1>2, <1>3 DEF Full, Alike, HandOk
<1>5. K8s!Valid(p) = K8s!Valid(y) BY <1>3, AlikeIs
<1>6. /\ SameBut(p, r.k) /\ (K8s!Valid(p) => K8s!Valid(r.k))
      /\ r.ok => \A m \in K8s!Members(r.k) : K8s!Keeps(m, nets[c])
      /\ r.ok /\ K8s!Valid(p) /\ K8s!Apart(p) => K8s!Apart(r.k)
  BY <1>1, <1>4, Addressed
<1>7. Full(r.k) /\ r.k.ids = p.ids /\ r.k.master.name = c BY <1>4, <1>6, SameButIs
<1>8. HandOk(c, r.k, deployments, made) BY <1>3, <1>7 DEF HandOk, Full
<1>9. Bare(c, y, deployments, made, split) BY <1>2 DEF Bare, Whole
<1>10. Bare(c, p, deployments, made, split) BY <1>3, <1>4 DEF Bare, Whole
<1>11. Bare(c, r.k, deployments, made, split) BY <1>3, <1>7, <1>8 DEF Bare, Whole
<1> QED BY <1>2, <1>3, <1>5, <1>6, <1>9, <1>10, <1>11 DEF Whole

LEMMA BatchRefusedRight ==
  ASSUME K8sInv, NEW asked, DOMAIN asked \subseteq Cluster, NEW gen,
         \A d \in DOMAIN asked : /\ outcome[d] # "panic"
                                 /\ \A x \in {asked[d], K8s!Prepared(asked[d]), gen[d].k} : Bare(d, x, deployments, made, split),
         K8s!BatchRefused(asked, gen), nets' = nets
  PROVE  K8sInv' /\ K8s!CancelStep /\ K8s!ReadStep
<1> DEFINE D == DOMAIN asked
           left(c, before, d) == IF d \in before \/ (d = c /\ K8s!Valid(asked[c])) THEN gen[d].k
                                 ELSE IF d = c THEN K8s!Prepared(asked[c]) ELSE asked[d]
<1>1. PICK c \in D : \E before \in SUBSET (D \ {c}) :
        /\ clusters' = [d \in Cluster |-> IF d \in D THEN left(c, before, d) ELSE clusters[d]]
        /\ outcome' = [d \in Cluster |-> IF d \in D THEN "refused" ELSE outcome[d]]
        /\ split' = split \cup {d \in D : ~K8s!Apart(left(c, before, d))}
        /\ deployments' = deployments /\ made' = made
  BY Zenon DEF K8s!BatchRefused
<1>2. PICK before \in SUBSET (D \ {c}) :
        /\ clusters' = [d \in Cluster |-> IF d \in D THEN left(c, before, d) ELSE clusters[d]]
        /\ outcome' = [d \in Cluster |-> IF d \in D THEN "refused" ELSE outcome[d]]
        /\ split' = split \cup {d \in D : ~K8s!Apart(left(c, before, d))}
        /\ deployments' = deployments /\ made' = made
  BY <1>1
<1>3. \A d \in D : left(c, before, d) \in {asked[d], K8s!Prepared(asked[d]), gen[d].k} OBVIOUS
<1> HIDE DEF left
<1>4. /\ GridOk(deployments', made', split')
      /\ \A d : Spared(d, deployments, made, deployments', made')
  BY <1>2, HandOf, MoreLost, SparedSelf DEF K8sInv
<1>5. ASSUME NEW d \in D
      PROVE  Stands(d, clusters'[d], deployments', made', nets[d], outcome'[d], split') /\ outcome'[d] = "refused"
  <2> DEFINE x == left(c, before, d)
  <2>1. clusters'[d] = x /\ outcome'[d] = "refused" /\ d \in Cluster BY <1>2
  <2>2. Bare(d, x, deployments, made, split) BY <1>3
  <2>3. d \notin split' => d \notin split /\ K8s!Apart(x) BY <1>2
  <2>4. nets[d] \subseteq ClusterNode BY <2>1, HandOf
  <2> HIDE DEF x
  <2> QED BY <1>2, <2>1, <2>2, <2>3, <2>4 DEF Stands, Bare, Whole
<1>6. clusters' = [d \in Cluster |-> clusters'[d]] /\ outcome' = [d \in Cluster |-> outcome'[d]] BY <1>2
<1>7. \A d \in Cluster \ D : clusters'[d] = clusters[d] /\ outcome'[d] = outcome[d] BY <1>2
<1>8. split \subseteq split' BY <1>2
<1> HIDE DEF D
<1>9. D \subseteq Cluster BY DEF D
<1> QED BY <1>4, <1>5, <1>6, <1>7, <1>8, <1>9, ManyMove

(* The last in a set of places.                                             *)
LEMMA Highest == ASSUME NEW L \in Nat, NEW S, S \subseteq 0..L, S # {} PROVE \E i \in S : \A j \in S : j <= i
<1> DEFINE T == {L - i : i \in S}
<1>1. T \in SUBSET Nat /\ T # {}
  <2>1. \A i \in S : L - i \in Nat OBVIOUS
  <2>2. PICK i \in S : TRUE OBVIOUS
  <2>3. L - i \in T OBVIOUS
  <2> QED BY <2>1, <2>3
<1> HIDE DEF T
<1>2. PICK o \in T : \A p \in T : o <= p BY <1>1, Lowest
<1>3. PICK i \in S : o = L - i BY DEF T
<1>4. ASSUME NEW j \in S PROVE j <= i
  <2>1. L - j \in T BY DEF T
  <2>2. L - i <= L - j BY <1>2, <1>3, <2>1
  <2>3. i \in Int /\ j \in Int OBVIOUS
  <2> QED BY <2>2, <2>3
<1> QED BY <1>4

(* What is written for a cluster is a contract of one of its nodes, under   *)
(* the node of its master, if one of them was found.                        *)
WrittenAs(c, k, number, done, ids) ==
  \/ ids = K8s!NoIds /\ \A n \in K8s!NodesOf(k) : <<c, n>> \notin done
  \/ \E n \in K8s!NodesOf(k) : <<c, n>> \in done /\ ids = K8s!Single(k.master.node, number[<<c, n>>])

LEMMA WrittenIs ==
  ASSUME NEW c, NEW k, Full(k), NEW number, NEW done
  PROVE  WrittenAs(c, k, number, done, K8s!Written(c, k, number, done))
<1> DEFINE found == {i \in K8s!Places(k) : <<c, K8s!MemberAt(k, i).node>> \in done}
           last == CHOOSE i \in found : \A j \in found : j <= i
<1>1. K8s!Written(c, k, number, done) =
        IF found = {} THEN K8s!NoIds ELSE K8s!Single(k.master.node, number[<<c, K8s!MemberAt(k, last).node>>])
  BY Zenon DEF K8s!Written
<1>2. /\ K8s!Places(k) = 0..Len(k.workers) /\ Len(k.workers) \in Nat
      /\ K8s!NodesOf(k) = {K8s!MemberAt(k, i).node : i \in K8s!Places(k)}
  BY MembersAt
<1>3. CASE found = {} BY <1>1, <1>2, <1>3 DEF WrittenAs
<1>4. CASE found # {}
  <2>1. last \in found
    <3>1. found \subseteq 0..Len(k.workers) BY <1>2
    <3> HIDE DEF found
    <3> QED BY <1>2, <1>4, <3>1, Highest
  <2>2. last \in K8s!Places(k) /\ <<c, K8s!MemberAt(k, last).node>> \in done BY <2>1
  <2> HIDE DEF last, found
  <2> DEFINE n == K8s!MemberAt(k, last).node
  <2>3. n \in K8s!NodesOf(k) /\ <<c, n>> \in done BY <1>2, <2>2
  <2>4. K8s!Written(c, k, number, done) = K8s!Single(k.master.node, number[<<c, n>>]) BY <1>1, <1>4
  <2> QED BY <2>3, <2>4 DEF WrittenAs
<1> QED BY <1>3, <1>4

LEMMA OneNode ==
  ASSUME NEW S, IsFiniteSet(S), ~(K8s!Cardinality(S) > 1), NEW a \in S, NEW b \in S PROVE a = b
<1> SUFFICES ASSUME a # b PROVE FALSE OBVIOUS
<1>1. IsFiniteSet({a}) /\ Cardinality({a}) = 1 BY FS_Singleton
<1>2. IsFiniteSet({a} \cup {b}) /\ Cardinality({a} \cup {b}) = 2 BY <1>1, FS_AddElement
<1>3. {a} \cup {b} \in SUBSET S OBVIOUS
<1>4. Cardinality({a} \cup {b}) <= Cardinality(S) /\ Cardinality(S) \in Nat BY <1>3, FS_Subset, FS_CardinalityType
<1> QED BY <1>2, <1>4, K8sCounts

(* The clusters of a batch that is sent.                                    *)
Batch(gen, g, m, lost) ==
  /\ DOMAIN gen \subseteq Cluster
  /\ \A d \in DOMAIN gen :
       /\ Bare(d, gen[d].k, g, m, lost) /\ K8s!Valid(gen[d].k)
       /\ \E net : \A x \in K8s!Members(gen[d].k) : K8s!Keeps(x, net)
       /\ d \notin lost => K8s!Apart(gen[d].k)

LEMMA SentIs ==
  ASSUME K8s!ClusterAssumption, NEW gen, NEW g, NEW m, NEW lost, Batch(gen, g, m, lost)
  PROVE  /\ \A d \in DOMAIN gen : K8s!NodesOf(gen[d].k) \subseteq ClusterNode
         /\ \A d, n : <<d, n>> \in K8s!Sent(gen) <=> d \in DOMAIN gen /\ n \in K8s!NodesOf(gen[d].k)
         /\ \A s \in K8s!Sent(gen) : s = <<s[1], s[2]>> /\ s[1] \in DOMAIN gen /\ s[2] \in K8s!NodesOf(gen[s[1]].k)
         /\ IsFiniteSet(ClusterNode) => \A d \in DOMAIN gen : IsFiniteSet(K8s!NodesOf(gen[d].k))
<1>1. ASSUME NEW d \in DOMAIN gen PROVE K8s!NodesOf(gen[d].k) \in SUBSET ClusterNode
  <2>1. Full(gen[d].k) BY DEF Batch, Bare
  <2> QED BY <2>1, MembersAt DEF MemberOk
<1>2. IsFiniteSet(ClusterNode) => \A d \in DOMAIN gen : IsFiniteSet(K8s!NodesOf(gen[d].k))
  BY <1>1, FS_Subset
<1> QED BY <1>1, <1>2 DEF K8s!Sent

(* The contracts of a batch have numbers of their own, above those before.  *)
Numbers(number, S, m, p) ==
  /\ m \in Nat /\ p \in Nat /\ m <= p
  /\ \A s \in S : number[s] \in (m + 1)..p
  /\ \A s, t \in S : number[s] = number[t] => s = t

LEMMA NumbersAre ==
  ASSUME K8s!ClusterAssumption, NEW gen, NEW g, NEW m \in Nat, NEW lost, Batch(gen, g, m, lost),
         NEW p, p = m + K8s!Cardinality(K8s!Sent(gen)),
         NEW number \in K8s!Bijection(K8s!Sent(gen), (m + 1)..p)
  PROVE  Numbers(number, K8s!Sent(gen), m, p) /\ DOMAIN number = K8s!Sent(gen)
<1> DEFINE S == K8s!Sent(gen)
<1>1. IsFiniteSet(S) /\ Cardinality(S) \in Nat
  <2>1. IsFiniteSet(Cluster) /\ IsFiniteSet(ClusterNode) BY DEF K8s!ClusterAssumption, K8s!IsFiniteSet, IsFiniteSet
  <2>2. IsFiniteSet(Cluster \X ClusterNode) BY <2>1, FS_Product
  <2>3. S \subseteq Cluster \X ClusterNode
    <3>1. DOMAIN gen \subseteq Cluster BY DEF Batch
    <3> HIDE DEF S
    <3>2. \A s \in S : s = <<s[1], s[2]>> /\ s[1] \in Cluster /\ s[2] \in ClusterNode BY <3>1, SentIs DEF S
    <3> QED BY <3>2
  <2>4. IsFiniteSet(S) BY <2>2, <2>3, FS_Subset
  <2> QED BY <2>4, FS_CardinalityType
<1>2. p \in Nat /\ m <= p
  <2> DEFINE z == Cardinality(S)
  <2>1. p = m + z BY K8sCounts
  <2>2. z \in Nat BY <1>1
  <2> HIDE DEF z
  <2> QED BY <2>1, <2>2
<1>3. number \in [S -> (m + 1)..p] /\ \A s, t \in DOMAIN number : number[s] = number[t] => s = t
  BY DEF K8s!Bijection, K8s!Injection, K8s!IsInjective
<1> QED BY <1>2, <1>3 DEF Numbers

(* What the nodes have once the contracts of done were sent.                *)
NumberOf(number, done, id) == CHOOSE s \in done : number[s] = id
SentAs(gen, number, done, state) ==
  [id \in {number[s] : s \in done} |->
     K8s!Deployments(gen[NumberOf(number, done, id)[1]].k, state)[NumberOf(number, done, id)[2]]]
Sends(gen, number, done, g, h) ==
  /\ \A s \in done : number[s] \in DOMAIN h /\ h[number[s]].name = s[1] /\ h[number[s]].node = s[2]
  /\ \A id \in DOMAIN h : (id \in DOMAIN g /\ h[id] = g[id]) \/ \E s \in done : id = number[s]

LEMMA SendsRight ==
  ASSUME K8s!ClusterAssumption, NEW gen, NEW g, NEW m, NEW lost, Batch(gen, g, m, lost), GridOk(g, m, lost),
         NEW number, NEW p, Numbers(number, K8s!Sent(gen), m, p), NEW done, done \subseteq K8s!Sent(gen),
         NEW state, NEW h, h = K8s!Over(SentAs(gen, number, done, state), g)
  PROVE  /\ GridOk(h, p, lost) /\ Sends(gen, number, done, g, h)
         /\ \A d : d \notin DOMAIN gen => Spared(d, g, m, h, p)
<1> DEFINE new == SentAs(gen, number, done, state)
           Fresh(id) == \E s \in done : id = number[s]
<1>1. /\ m \in Nat /\ p \in Nat /\ m <= p /\ DOMAIN g \subseteq 1..m
      /\ \A s \in done : number[s] \in (m + 1)..p
      /\ \A s, t \in done : number[s] = number[t] => s = t
  BY DEF Numbers, GridOk
<1>2. \A s \in done : s[1] \in DOMAIN gen /\ s[2] \in K8s!NodesOf(gen[s[1]].k) BY SentIs
<1>3. ASSUME NEW s \in done
      PROVE  LET e == K8s!Deployments(gen[s[1]].k, state)[s[2]]
             IN  new[number[s]] = e /\ e.name = s[1] /\ e.node = s[2] /\ DeploymentOk(e, lost)
  <2> DEFINE d == s[1]
             k == gen[d].k
             E == K8s!Deployments(k, state)
  <2>1. NumberOf(number, done, number[s]) = s
    <3>1. \E t \in done : number[t] = number[s] OBVIOUS
    <3>2. \A t \in done : number[t] = number[s] => t = s BY <1>1
    <3> QED BY <3>1, <3>2 DEF NumberOf
  <2>2. new[number[s]] = E[s[2]] BY <2>1 DEF SentAs
  <2>3. d \in DOMAIN gen /\ s[2] \in K8s!NodesOf(k) BY <1>2
  <2>4. /\ Full(k) /\ K8s!Valid(k) /\ k.master.name = d /\ d \in Cluster /\ (d \notin lost => K8s!Apart(k))
        /\ \E net : \A x \in K8s!Members(k) : K8s!Keeps(x, net)
    BY <2>3 DEF Batch, Bare
  <2> HIDE DEF k, E, d, new
  <2>5. StuckOk(d, E, lost) /\ DOMAIN E = K8s!NodesOf(k) BY <2>4, DeploymentsRight DEF E
  <2>6. E[s[2]].name = d /\ E[s[2]].node = s[2] /\ DeploymentOk(E[s[2]], lost) BY <2>3, <2>5 DEF StuckOk
  <2> QED BY <2>2, <2>6 DEF E, k, d
<1>4. DOMAIN new = {number[s] : s \in done} BY DEF SentAs
<1>5. /\ DOMAIN h = DOMAIN new \cup DOMAIN g /\ h = [id \in DOMAIN h |-> h[id]]
      /\ \A id \in DOMAIN h : h[id] = IF id \in DOMAIN new THEN new[id] ELSE g[id]
  <2> HIDE DEF new
  <2>1. h = [x \in DOMAIN new \cup DOMAIN g |-> IF x \in DOMAIN new THEN new[x] ELSE g[x]] BY DEF new, K8s!Over
  <2> QED BY <2>1
<1> HIDE DEF new
<1>6. \A id \in DOMAIN g : id \notin DOMAIN new /\ id \in DOMAIN h /\ h[id] = g[id] /\ id <= m
  <2> SUFFICES ASSUME NEW id \in DOMAIN g PROVE id \notin DOMAIN new /\ id \in DOMAIN h /\ h[id] = g[id] /\ id <= m OBVIOUS
  <2>1. id \in 1..m BY <1>1
  <2>2. ~Fresh(id) BY <1>1, <2>1
  <2>3. id \notin DOMAIN new BY <1>4, <2>2
  <2>4. id \in DOMAIN h /\ h[id] = g[id] BY <1>5, <2>3
  <2>5. id <= m BY <1>1, <2>1
  <2> QED BY <2>3, <2>4, <2>5
<1>7. \A s \in done : number[s] \in DOMAIN h /\ h[number[s]] = new[number[s]] BY <1>4, <1>5
<1>8. \A id \in DOMAIN h : (id \in DOMAIN g /\ h[id] = g[id]) \/ Fresh(id) BY <1>4, <1>5, <1>6
<1>9. Sends(gen, number, done, g, h) BY <1>3, <1>7, <1>8 DEF Sends
<1>10. GridOk(h, p, lost)
  <2>1. \A id \in DOMAIN h : DeploymentOk(h[id], lost) BY <1>3, <1>7, <1>8 DEF GridOk
  <2>2. \A id \in DOMAIN h : id \in 1..p
    <3> SUFFICES ASSUME NEW id \in DOMAIN h PROVE id \in 1..p OBVIOUS
    <3>1. id \in 1..m \/ id \in (m + 1)..p BY <1>1, <1>8
    <3> QED BY <1>1, <3>1
  <2> QED BY <1>1, <1>5, <2>1, <2>2 DEF GridOk
<1>11. ASSUME NEW d, d \notin DOMAIN gen PROVE Spared(d, g, m, h, p)
  <2>1. \A id \in DOMAIN h : h[id].name = d => id \in DOMAIN g /\ h[id] = g[id]
    BY <1>2, <1>3, <1>7, <1>8, <1>11
  <2>2. \A id \in DOMAIN h : id \in 1..m => id \in DOMAIN g /\ h[id].name = g[id].name
    <3> SUFFICES ASSUME NEW id \in DOMAIN h, id \in 1..m, id \notin DOMAIN g PROVE FALSE BY <1>6
    <3>1. PICK s \in done : id = number[s] BY <1>8
    <3>2. id \in (m + 1)..p BY <1>1, <3>1
    <3> QED BY <1>1, <3>2
  <2> QED BY <1>1, <1>6, <2>1, <2>2 DEF Spared
<1> QED BY <1>9, <1>10, <1>11

(* A cluster of the batch, when it is over.                                 *)
LEMMA BatchedRight ==
  ASSUME K8s!ClusterAssumption, NEW gen, NEW g, NEW m, NEW lost, Batch(gen, g, m, lost), GridOk(g, m, lost),
         NEW number, NEW p, Numbers(number, K8s!Sent(gen), m, p), NEW done, done \subseteq K8s!Sent(gen),
         NEW h, Sends(gen, number, done, g, h),
         NEW d \in DOMAIN gen, NEW k, k = gen[d].k, NEW ids, ids = K8s!Written(d, k, number, done),
         NEW y, y = [k EXCEPT !.ids = ids]
  PROVE  /\ HandOk(d, y, h, p)
         /\ d \notin lost /\ ~(K8s!Cardinality(K8s!NodesOf(k)) > 1) => Whole(d, y, h)
<1>1. /\ Bare(d, k, g, m, lost) /\ Full(k) /\ k.master.name = d /\ DOMAIN k.ids = {} /\ MemberOk(k.master)
      /\ d \notin lost => K8s!Apart(k) /\ WholeIds(d, k.ids, g)
  BY DEF Batch, Bare, Full
<1>2. /\ k = [master |-> k.master, workers |-> k.workers, token |-> k.token, entry |-> k.entry, ids |-> k.ids]
      /\ IsList(k.workers) /\ \A i \in 1..Len(k.workers) : MemberOk(k.workers[i])
  BY <1>1 DEF Full, ClusterShape
<1>3. y = [master |-> k.master, workers |-> k.workers, token |-> k.token, entry |-> k.entry, ids |-> ids] BY <1>2
<1>4. /\ y.master = k.master /\ y.workers = k.workers /\ y.token = k.token /\ y.ids = ids
      /\ y = [master |-> y.master, workers |-> y.workers, token |-> y.token, entry |-> y.entry, ids |-> y.ids]
  BY <1>3
<1> DEFINE a == k.master.node
<1>5. a \in ClusterNode BY <1>1 DEF MemberOk
<1>6. K8s!Apart(y) = K8s!Apart(k)
  <2>1. Alike(k, y) BY <1>4 DEF Alike
  <2> QED BY <2>1, AlikeIs
<1>7. \/ ids = K8s!NoIds /\ \A n \in K8s!NodesOf(k) : <<d, n>> \notin done
      \/ \E n \in K8s!NodesOf(k) : <<d, n>> \in done /\ ids = K8s!Single(a, number[<<d, n>>])
  <2>1. WrittenAs(d, k, number, done, ids) BY <1>1, WrittenIs
  <2> QED BY <2>1 DEF WrittenAs
<1>8. K8s!NoIds = [n \in DOMAIN K8s!NoIds |-> K8s!NoIds[n]] /\ DOMAIN K8s!NoIds = {} BY DEF K8s!NoIds
<1>9. ASSUME NEW v PROVE LET w == K8s!Single(a, v) IN DOMAIN w = {a} /\ w[a] = v /\ w = [n \in DOMAIN w |-> w[n]]
  BY DEF K8s!Single
<1>10. \A n : <<d, n>> \in done => /\ number[<<d, n>>] \in DOMAIN h /\ number[<<d, n>>] \in 1..p
                                   /\ h[number[<<d, n>>]].name = d /\ h[number[<<d, n>>]].node = n
  <2> SUFFICES ASSUME NEW n, <<d, n>> \in done
               PROVE  /\ number[<<d, n>>] \in DOMAIN h /\ number[<<d, n>>] \in 1..p
                      /\ h[number[<<d, n>>]].name = d /\ h[number[<<d, n>>]].node = n
    OBVIOUS
  <2>1. number[<<d, n>>] \in (m + 1)..p /\ m \in Nat /\ p \in Nat BY DEF Numbers
  <2>2. number[<<d, n>>] \in 1..p BY <2>1
  <2>3. <<d, n>>[1] = d /\ <<d, n>>[2] = n OBVIOUS
  <2> QED BY <2>2, <2>3 DEF Sends
<1>11. IdsOk(d, ids, h, p)
  <2>1. CASE ids = K8s!NoIds BY <1>8, <2>1 DEF IdsOk
  <2>2. CASE \E n \in K8s!NodesOf(k) : <<d, n>> \in done /\ ids = K8s!Single(a, number[<<d, n>>])
    <3>1. PICK n \in K8s!NodesOf(k) : <<d, n>> \in done /\ ids = K8s!Single(a, number[<<d, n>>]) BY <2>2
    <3> DEFINE v == number[<<d, n>>]
    <3>2. v \in 1..p /\ h[v].name = d BY <1>10, <3>1
    <3>3. ids = K8s!Single(a, v) BY <3>1
    <3> HIDE DEF v, a
    <3>4. DOMAIN ids = {a} /\ ids[a] = v /\ ids = [x \in DOMAIN ids |-> ids[x]] BY <1>9, <3>3
    <3> QED BY <1>5, <3>2, <3>4 DEF IdsOk
  <2> QED BY <1>7, <2>1, <2>2
<1>12. HandOk(d, y, h, p)
  <2>1. ClusterShape(y) BY <1>2, <1>4 DEF ClusterShape
  <2> QED BY <1>1, <1>4, <1>11, <2>1 DEF HandOk
<1>13. ASSUME d \notin lost, ~(K8s!Cardinality(K8s!NodesOf(k)) > 1) PROVE Whole(d, y, h)
  <2>1. \A n \in K8s!NodesOf(k) : n = a
    <3>1. IsFiniteSet(ClusterNode) BY DEF K8s!ClusterAssumption, K8s!IsFiniteSet, IsFiniteSet
    <3>2. IsFiniteSet(K8s!NodesOf(k)) BY <3>1, SentIs
    <3>3. a \in K8s!NodesOf(k) BY DEF K8s!NodesOf, K8s!Members
    <3> QED BY <1>13, <3>2, <3>3, OneNode
  <2>2. \A id \in DOMAIN h : h[id].name = d => \E n \in K8s!NodesOf(k) : <<d, n>> \in done /\ id = number[<<d, n>>]
    <3> SUFFICES ASSUME NEW id \in DOMAIN h, h[id].name = d
                 PROVE  \E n \in K8s!NodesOf(k) : <<d, n>> \in done /\ id = number[<<d, n>>]
      OBVIOUS
    <3>1. ~(id \in DOMAIN g /\ h[id] = g[id]) BY <1>1, <1>13 DEF WholeIds
    <3>2. PICK s \in done : id = number[s] BY <3>1 DEF Sends
    <3>3. s = <<s[1], s[2]>> /\ s[2] \in K8s!NodesOf(gen[s[1]].k) BY SentIs
    <3>4. s[1] = d BY <3>2 DEF Sends
    <3> QED BY <3>2, <3>3, <3>4
  <2>3. WholeIds(d, ids, h)
    <3>1. CASE ids = K8s!NoIds /\ \A n \in K8s!NodesOf(k) : <<d, n>> \notin done
      <4>1. DOMAIN ids = {} BY <1>8, <3>1
      <4>2. \A id \in DOMAIN h : h[id].name # d BY <2>2, <3>1
      <4> QED BY <4>1, <4>2 DEF WholeIds
    <3>2. CASE \E n \in K8s!NodesOf(k) : <<d, n>> \in done /\ ids = K8s!Single(a, number[<<d, n>>])
      <4>1. PICK n \in K8s!NodesOf(k) : <<d, n>> \in done /\ ids = K8s!Single(a, number[<<d, n>>]) BY <3>2
      <4>2. n = a BY <2>1
      <4>3. DOMAIN ids = {a} /\ ids[a] = number[<<d, a>>] BY <1>9, <4>1, <4>2
      <4>4. h[ids[a]].node = a BY <1>10, <4>1, <4>2, <4>3
      <4>5. \A id \in DOMAIN h : h[id].name = d => id = ids[a] BY <2>1, <2>2, <4>3
      <4> QED BY <4>3, <4>4, <4>5 DEF WholeIds
    <3> QED BY <1>7, <3>1, <3>2
  <2> QED BY <1>1, <1>4, <1>6, <1>13, <2>3 DEF Whole
<1> QED BY <1>12, <1>13

LEMMA BatchGrows ==
  ASSUME NEW gen, NEW g, NEW m, NEW lost, Batch(gen, g, m, lost), NEW more, lost \subseteq more
  PROVE  Batch(gen, g, m, more)
BY DEF Batch, Bare

LEMMA BatchEndsRight ==
  ASSUME K8s!ClusterAssumption, K8sInv, NEW gen, Batch(gen, deployments, made, split),
         \A d \in DOMAIN gen : outcome[d] # "panic",
         NEW number, Numbers(number, K8s!Sent(gen), made, made'), NEW done, done \subseteq K8s!Sent(gen), NEW state,
         K8s!BatchEnds(gen, number, done, state), nets' = nets
  PROVE  K8sInv' /\ K8s!CancelStep /\ K8s!ReadStep
<1> DEFINE D == DOMAIN gen
           ids(d) == K8s!Written(d, gen[d].k, number, done)
           y(d) == [gen[d].k EXCEPT !.ids = ids(d)]
           over == K8s!Over(SentAs(gen, number, done, state), deployments)
           how == IF done = DOMAIN number /\ state = "ok" THEN "batched" ELSE "failed"
           wide == {d \in D : K8s!Cardinality(K8s!NodesOf(gen[d].k)) > 1}
<1>1. /\ deployments' = over
      /\ clusters' = [d \in Cluster |-> IF d \in D THEN y(d) ELSE clusters[d]]
      /\ outcome' = [d \in Cluster |-> IF d \notin D THEN outcome[d] ELSE how]
      /\ split' = split \cup wide
  BY Zenon DEF K8s!BatchEnds, SentAs, NumberOf
<1>2. how \in {"refused", "batched", "failed"} OBVIOUS
<1>3. D \subseteq Cluster BY DEF Batch
<1> HIDE DEF y, ids, over, how, D
<1>4. split \subseteq split' /\ \A d \in D : d \notin split' => d \notin split /\ ~(K8s!Cardinality(K8s!NodesOf(gen[d].k)) > 1)
  BY <1>1
<1>5. GridOk(deployments, made, split') BY <1>4, MoreLost DEF K8sInv
<1>6. Batch(gen, deployments, made, split') BY <1>4, BatchGrows
<1>7. /\ GridOk(deployments', made', split') /\ Sends(gen, number, done, deployments, deployments')
      /\ \A d : d \notin D => Spared(d, deployments, made, deployments', made')
  BY <1>1, <1>5, <1>6, SendsRight DEF over, D
<1>8. ASSUME NEW d \in D
      PROVE  Stands(d, clusters'[d], deployments', made', nets[d], outcome'[d], split') /\ outcome'[d] = how
  <2>1. clusters'[d] = y(d) /\ outcome'[d] = how /\ d \in Cluster BY <1>1, <1>3
  <2>2. /\ HandOk(d, y(d), deployments', made')
        /\ d \notin split' /\ ~(K8s!Cardinality(K8s!NodesOf(gen[d].k)) > 1) => Whole(d, y(d), deployments')
    BY <1>5, <1>6, <1>7, BatchedRight DEF y, ids, D
  <2>3. nets[d] \subseteq ClusterNode BY <2>1, HandOf DEF D
  <2> QED BY <1>2, <1>4, <2>1, <2>2, <2>3 DEF Stands
<1>9. /\ clusters' = [d \in Cluster |-> clusters'[d]] /\ outcome' = [d \in Cluster |-> outcome'[d]]
      /\ \A d \in Cluster \ D : clusters'[d] = clusters[d] /\ outcome'[d] = outcome[d]
  BY <1>1
<1> QED BY <1>2, <1>3, <1>4, <1>7, <1>8, <1>9, ManyMove

LEMMA BatchDeployRight ==
  ASSUME K8s!ClusterAssumption, K8sInv, NEW S, S \subseteq Cluster, \A d \in S : outcome[d] # "panic",
         NEW asks \in [S -> Asks], K8s!BatchDeploy([c \in S |-> K8s!AskFor(c, asks[c])])
  PROVE  K8sInv' /\ K8s!CancelStep /\ K8s!ReadStep
<1> DEFINE for == [c \in S |-> K8s!AskFor(c, asks[c])]
           asked == [c \in DOMAIN for |-> K8s!Asked(clusters[c], for[c])]
           gen == [c \in DOMAIN for |-> K8s!AssignNodesIPs(K8s!Prepared(asked[c]), nets[c])]
<1>1. /\ \A c \in DOMAIN for : DOMAIN clusters[c].ids = {}
      /\ \/ K8s!BatchRefused(asked, gen)
         \/ /\ \A c \in DOMAIN for : K8s!Valid(asked[c]) /\ gen[c].ok
            /\ made' = made + K8s!Cardinality(K8s!Sent(gen)) /\ made' <= ClusterIds
            /\ \E number \in K8s!Bijection(K8s!Sent(gen), (made + 1)..made') :
                 \E done \in SUBSET K8s!Sent(gen), state \in {"ok", "error"} : K8s!BatchEnds(gen, number, done, state)
      /\ nets' = nets
  BY Zenon DEF K8s!BatchDeploy
<1>2. /\ DOMAIN for = S /\ DOMAIN asked = S /\ DOMAIN gen = S
      /\ \A c \in S : /\ asked[c] = K8s!Asked(clusters[c], K8s!AskFor(c, asks[c])) /\ asks[c] \in Asks
                      /\ gen[c] = K8s!AssignNodesIPs(K8s!Prepared(asked[c]), nets[c])
  OBVIOUS
<1> HIDE DEF gen, asked, for
<1>3. \A c \in S :
        /\ \A x \in {asked[c], K8s!Prepared(asked[c]), gen[c].k} : Bare(c, x, deployments, made, split)
        /\ K8s!Valid(asked[c]) /\ gen[c].ok =>
              /\ K8s!Valid(gen[c].k) /\ \A m \in K8s!Members(gen[c].k) : K8s!Keeps(m, nets[c])
              /\ c \notin split => K8s!Apart(gen[c].k)
  <2> SUFFICES ASSUME NEW c \in S
               PROVE  /\ \A x \in {asked[c], K8s!Prepared(asked[c]), gen[c].k} : Bare(c, x, deployments, made, split)
                      /\ K8s!Valid(asked[c]) /\ gen[c].ok =>
                            /\ K8s!Valid(gen[c].k) /\ \A m \in K8s!Members(gen[c].k) : K8s!Keeps(m, nets[c])
                            /\ c \notin split => K8s!Apart(gen[c].k)
    OBVIOUS
  <2> DEFINE y == asked[c]
             p == K8s!Prepared(y)
             r == gen[c]
  <2>1. c \in Cluster /\ outcome[c] # "panic" /\ DOMAIN clusters[c].ids = {} /\ asks[c] \in Asks BY <1>1, <1>2
  <2>2. y = K8s!Asked(clusters[c], K8s!AskFor(c, asks[c])) /\ r = K8s!AssignNodesIPs(p, nets[c]) BY <1>2
  <2> HIDE DEF y, r
  <2>3. p = K8s!Prepared(y) OBVIOUS
  <2> HIDE DEF p
  <2>4. /\ \A x \in {y, p, r.k} : Bare(c, x, deployments, made, split)
        /\ K8s!Valid(y) /\ r.ok =>
              /\ K8s!Valid(r.k) /\ \A m \in K8s!Members(r.k) : K8s!Keeps(m, nets[c])
              /\ c \notin split => K8s!Apart(r.k)
    BY <2>1, <2>2, <2>3, BareRight
  <2> QED BY <2>4 DEF y, p, r
<1>4. CASE K8s!BatchRefused(asked, gen) BY <1>1, <1>2, <1>3, <1>4, BatchRefusedRight
<1>5. CASE /\ \A c \in S : K8s!Valid(asked[c]) /\ gen[c].ok
           /\ made' = made + K8s!Cardinality(K8s!Sent(gen))
           /\ \E number \in K8s!Bijection(K8s!Sent(gen), (made + 1)..made') :
                \E done \in SUBSET K8s!Sent(gen), state \in {"ok", "error"} : K8s!BatchEnds(gen, number, done, state)
  <2>1. Batch(gen, deployments, made, split) BY <1>2, <1>3, <1>5 DEF Batch
  <2>2. made \in Nat BY DEF K8sInv, GridOk
  <2>3. PICK number \in K8s!Bijection(K8s!Sent(gen), (made + 1)..made') :
          \E done \in SUBSET K8s!Sent(gen), state \in {"ok", "error"} : K8s!BatchEnds(gen, number, done, state)
    BY <1>5
  <2>4. PICK done \in SUBSET K8s!Sent(gen), state \in {"ok", "error"} : K8s!BatchEnds(gen, number, done, state)
    BY <2>3
  <2>5. Numbers(number, K8s!Sent(gen), made, made') BY <1>5, <2>1, <2>2, <2>3, NumbersAre
  <2> QED BY <1>1, <1>2, <2>1, <2>4, <2>5, BatchEndsRight
<1> QED BY <1>1, <1>2, <1>4, <1>5

LEMMA NoList == IsList(<<>>) /\ Len(<<>>) = 0 /\ DOMAIN <<>> = {}
<1> DEFINE e == <<>>
<1>1. e \in Seq({}) /\ Len(e) = 0 OBVIOUS
<1> HIDE DEF e
<1>2. e \in Seq({}) => e = [i \in 1..Len(e) |-> e[i]] /\ DOMAIN e = 1..Len(e) OBVIOUS
<1>3. IsList(e) /\ Len(e) = 0 /\ DOMAIN e = {} BY <1>1, <1>2 DEF IsList
<1> QED BY <1>3 DEF e

LEMMA K8sInitRight == ASSUME K8s!ClusterAssumption, K8s!Init PROVE K8sInv
<1>1. /\ clusters = [c \in Cluster |-> K8s!NoCluster] /\ deployments = K8s!NoIds /\ made = 0 /\ split = {}
      /\ nets \in [Cluster -> {{}, ClusterNode \ HiddenNode, ClusterNode}]
      /\ outcome = [c \in Cluster |-> "new"]
  BY DEF K8s!Init
<1>2. DOMAIN K8s!NoIds = {} /\ K8s!NoIds = [n \in DOMAIN K8s!NoIds |-> K8s!NoIds[n]] BY DEF K8s!NoIds
<1>3. GridOk(deployments, made, split) BY <1>1, <1>2 DEF GridOk
<1> DEFINE k == K8s!NoCluster
<1>4. /\ k = [master |-> K8s!Nobody, workers |-> <<>>, token |-> "", entry |-> "", ids |-> K8s!NoIds]
      /\ k.master = K8s!Nobody /\ k.workers = <<>> /\ k.ids = K8s!NoIds
      /\ k = [master |-> k.master, workers |-> k.workers, token |-> k.token, entry |-> k.entry, ids |-> k.ids]
  BY DEF K8s!NoCluster
<1> HIDE DEF k
<1>5. \A c \in Cluster : HandOk(c, k, deployments, made)
  <2>1. IsList(k.workers) /\ Len(k.workers) = 0 BY <1>4, NoList
  <2>2. \A i \in 1..Len(k.workers) : MemberOk(k.workers[i]) BY <2>1
  <2>3. ClusterShape(k) BY <1>4, <2>1, <2>2 DEF ClusterShape
  <2> QED BY <1>2, <1>4, <2>3 DEF HandOk, IdsOk
<1>6. \A c \in Cluster : Whole(c, k, deployments)
  <2>1. K8s!Members(k) = {K8s!Nobody} BY <1>4, NoList DEF K8s!Members, K8s!Range
  <2> QED BY <1>1, <1>2, <1>4, <2>1 DEF Whole, WholeIds, K8s!Apart
<1>7. \A c \in Cluster : Stands(c, k, deployments, made, nets[c], outcome[c], split)
  BY <1>1, <1>5, <1>6 DEF Stands
<1> QED BY <1>1, <1>3, <1>7 DEF K8sInv, ClusterStands, k

LEMMA K8sNextRight ==
  ASSUME K8s!ClusterAssumption, K8sInv, K8s!Next PROVE K8sInv' /\ K8s!CancelStep /\ K8s!ReadStep
<1> DEFINE Q == \A c \in Cluster : outcome[c] # "panic"
<1>1. \/ \E c \in Cluster :
           \/ \E a \in Asks : Q /\ (K8s!Deploy(c, K8s!AskFor(c, a)) \/ K8s!DeployCluster(c, K8s!AskFor(c, a)))
           \/ Q /\ (K8s!Cancel(c) \/ K8s!UpdateFromRemote(c) \/ K8s!Load(c) \/ K8s!Get(c))
           \/ \E n \in ClusterNode : Q /\ K8s!AddWorker(c, n)
           \/ \E i \in DOMAIN clusters[c].workers : Q /\ K8s!DeleteWorker(c, i)
      \/ \E S \in (SUBSET Cluster) \ {{}} : \E asks \in [S -> Asks] :
           Q /\ K8s!BatchDeploy([c \in S |-> K8s!AskFor(c, asks[c])])
      \/ \E id \in DOMAIN deployments : K8s!ContractEnds(id)
  BY DEF K8s!Next, K8s!Call
<1>2. ASSUME NEW c \in Cluster, NEW a \in Asks, Q, K8s!Deploy(c, K8s!AskFor(c, a)) \/ K8s!DeployCluster(c, K8s!AskFor(c, a))
      PROVE  K8sInv' /\ K8s!CancelStep /\ K8s!ReadStep
  BY <1>2, ClusterDeployRight, DeployClusterRight
<1>3. ASSUME NEW c \in Cluster, Q, K8s!Cancel(c) \/ K8s!UpdateFromRemote(c) \/ K8s!Load(c) \/ K8s!Get(c)
      PROVE  K8sInv' /\ K8s!CancelStep /\ K8s!ReadStep
  BY <1>3, ClusterCancelRight, ClusterSyncRight, ClusterLoadRight, ClusterGetRight
<1>4. ASSUME NEW c \in Cluster, NEW n \in ClusterNode, Q, K8s!AddWorker(c, n) PROVE K8sInv' /\ K8s!CancelStep /\ K8s!ReadStep
  BY <1>4, AddWorkerRight
<1>5. ASSUME NEW c \in Cluster, NEW i \in DOMAIN clusters[c].workers, Q, K8s!DeleteWorker(c, i)
      PROVE  K8sInv' /\ K8s!CancelStep /\ K8s!ReadStep
  BY <1>5, DeleteWorkerRight
<1>6. ASSUME NEW S \in SUBSET Cluster, NEW asks \in [S -> Asks], Q, K8s!BatchDeploy([c \in S |-> K8s!AskFor(c, asks[c])])
      PROVE  K8sInv' /\ K8s!CancelStep /\ K8s!ReadStep
  BY <1>6, BatchDeployRight
<1>7. ASSUME NEW id \in DOMAIN deployments, K8s!ContractEnds(id) PROVE K8sInv' /\ K8s!CancelStep /\ K8s!ReadStep
  BY <1>7, ClusterEndsRight
<1> QED BY <1>1, <1>2, <1>3, <1>4, <1>5, <1>6, <1>7

LEMMA K8sInvJoined == ASSUME K8sInv PROVE K8s!Joined
<1> SUFFICES ASSUME NEW c \in Cluster \ split, outcome[c] = "ok"
             PROVE  /\ \A p, q \in K8s!MachinesOf(c) : p # q => p[2].ip # q[2].ip
                    /\ \A p \in K8s!MachinesOf(c) : /\ p[2].ip[1] = p[1] /\ p[1] \in nets[c]
                                                    /\ p[2].token = clusters[c].token
                    /\ \E m \in K8s!MachinesOf(c) : /\ m[2].url = K8s!NoAddress
                                                    /\ \A w \in K8s!MachinesOf(c) \ {m} : w[2].url = m[2].ip
  BY DEF K8s!Joined
<1> DEFINE k == clusters[c]
           all == K8s!MachinesOf(c)
           Of(id, p) == id \in DOMAIN deployments /\ deployments[id].name = c /\ p[1] = deployments[id].node
                        /\ p[2] \in deployments[id].machines /\ p = <<p[1], p[2]>>
           On(p) == p[1] \in K8s!NodesOf(k) /\ p[2] \in K8s!MachinesOn(k, p[1])
<1>1. /\ Whole(c, k, deployments) /\ InOrder(k, deployments, nets[c]) /\ GridOk(deployments, made, split)
  BY HandOf
<1>2. \A p : p \in all <=> \E id \in DOMAIN deployments : Of(id, p)
  BY DEF K8s!MachinesOf, K8s!ContractsOf
<1>3. \A id \in DOMAIN deployments : deployments[id].name = c => OnItsOwn(deployments[id])
  BY <1>1 DEF GridOk, DeploymentOk
<1> HIDE DEF k, all
<1>4. \A n \in K8s!NodesOf(k) : /\ n \in DOMAIN k.ids /\ k.ids[n] \in DOMAIN deployments
                                /\ deployments[k.ids[n]].name = k.master.name /\ deployments[k.ids[n]].node = n
                                /\ deployments[k.ids[n]].machines = K8s!MachinesOn(k, n)
  <2> SUFFICES ASSUME NEW n \in K8s!NodesOf(k)
               PROVE  /\ n \in DOMAIN k.ids /\ k.ids[n] \in DOMAIN deployments
                      /\ deployments[k.ids[n]].name = k.master.name /\ deployments[k.ids[n]].node = n
                      /\ deployments[k.ids[n]].machines = K8s!MachinesOn(k, n)
    OBVIOUS
  <2>1. /\ n \in DOMAIN k.ids /\ k.ids[n] \in DOMAIN deployments
        /\ deployments[k.ids[n]] = K8s!Deployments(k, "ok")[n]
    BY <1>1 DEF InOrder
  <2> DEFINE ms == K8s!MachinesOn(k, n)
             d == [name |-> k.master.name, node |-> n, state |-> "ok", machines |-> ms]
  <2>2. K8s!Deployments(k, "ok")[n] = d BY Zenon DEF K8s!Deployments
  <2> HIDE DEF ms
  <2>3. d.name = k.master.name /\ d.node = n /\ d.machines = ms OBVIOUS
  <2> HIDE DEF d
  <2> QED BY <2>1, <2>2, <2>3 DEF ms
<1>5. \A id \in DOMAIN deployments : deployments[id].name = c =>
        deployments[id].node \in K8s!NodesOf(k) /\ k.ids[deployments[id].node] = id
  BY <1>1 DEF Whole, WholeIds, InOrder
<1>6. \A p \in all : On(p)
  BY <1>2, <1>4, <1>5
<1>7. ASSUME NEW p \in all, NEW q \in all, p[2].ip = q[2].ip PROVE p = q
  <2>1. PICK i \in DOMAIN deployments : Of(i, p) BY <1>2
  <2>2. PICK j \in DOMAIN deployments : Of(j, q) BY <1>2
  <2>3. p[2].ip[1] = p[1] /\ q[2].ip[1] = q[1] BY <1>3, <2>1, <2>2 DEF OnItsOwn
  <2>4. p[1] = q[1] BY <1>7, <2>3
  <2>5. i = j BY <1>5, <2>1, <2>2, <2>4
  <2>6. p[2] = q[2] BY <1>3, <1>7, <2>1, <2>2, <2>5 DEF OnItsOwn
  <2> QED BY <2>1, <2>2, <2>4, <2>6
<1>8. ASSUME NEW p \in all PROVE p[2].ip[1] = p[1] /\ p[1] \in nets[c] /\ p[2].token = k.token
  <2>1. PICK i \in DOMAIN deployments : Of(i, p) BY <1>2
  <2>2. p[2].ip[1] = p[1] BY <1>3, <2>1 DEF OnItsOwn
  <2>3. p[1] \in nets[c] BY <1>1, <1>6 DEF InOrder, K8s!NodesOf, K8s!Keeps, K8s!HasRange
  <2>4. p[2].token = k.token BY <1>6 DEF K8s!MachinesOn, K8s!Machine
  <2> QED BY <2>2, <2>3, <2>4
<1>9. \E m \in all : m[2].url = K8s!NoAddress /\ \A w \in all \ {m} : w[2].url = m[2].ip
  <2> DEFINE a == k.master.node
             v == K8s!Machine(k, k.master, K8s!NoAddress)
             m == <<a, v>>
  <2>1. v.url = K8s!NoAddress /\ v.ip = k.master.ip BY DEF K8s!Machine
  <2>2. a \in K8s!NodesOf(k) BY DEF K8s!NodesOf, K8s!Members
  <2>3. v \in K8s!MachinesOn(k, a) BY DEF K8s!MachinesOn
  <2>4. deployments[k.ids[a]].name = c
    <3>1. HandOk(c, k, deployments, made) /\ k.master # K8s!Nobody BY <1>1, HandOf DEF InOrder, k
    <3>2. k.master.name = c BY <3>1 DEF HandOk
    <3> QED BY <1>4, <2>2, <3>2
  <2>5. m \in all
    <3> HIDE DEF a, v
    <3>1. Of(k.ids[a], m) BY <1>4, <2>2, <2>3, <2>4
    <3> QED BY <1>2, <1>4, <2>2, <3>1
  <2>6. \A w \in all : w[2].url = v.ip \/ (w[2] = v /\ w[1] = a)
    <3> SUFFICES ASSUME NEW w \in all PROVE w[2].url = v.ip \/ (w[2] = v /\ w[1] = a) OBVIOUS
    <3>1. w[2] \in K8s!MachinesOn(k, w[1]) BY <1>6
    <3>2. (\E x : w[2] = K8s!Machine(k, x, k.master.ip)) \/ (w[2] = v /\ w[1] = a) BY <3>1 DEF K8s!MachinesOn
    <3>3. \A x : K8s!Machine(k, x, k.master.ip).url = k.master.ip BY DEF K8s!Machine
    <3> HIDE DEF v
    <3> QED BY <2>1, <3>2, <3>3
  <2>7. \A w \in all : w = <<w[1], w[2]>> BY <1>2
  <2> HIDE DEF v, a
  <2>8. \A w \in all \ {m} : w[2].url = m[2].ip BY <2>6, <2>7
  <2> QED BY <2>1, <2>5, <2>8
<1> QED BY <1>7, <1>8, <1>9 DEF k, all

(***************************************************************************)
(* The three deployers, as the run has them.                               *)
(***************************************************************************)

(* What the caller holds of each, its contracts and the grid, as they stand *)
(* between two calls: the inductive invariant of the run.                   *)
MCInv ==
  /\ part \in {"net", "gw", "k8s"}
  /\ part = "net" => NetInv
  /\ part = "gw" => GwInv
  /\ part = "k8s" => K8sInv

(* What the constants are: no more than the modules assume of them.         *)
DeployersAssumption == NetAssumption /\ Gw!GatewayAssumption /\ K8s!ClusterAssumption

(* What a step of each may not do.                                          *)
DeployedStep ==
  /\ part = "net" => LoadStep
  /\ part = "gw" => Gw!NameStep /\ Gw!ReadStep
  /\ part = "k8s" => K8s!CancelStep /\ K8s!ReadStep

LEMMA MCInitRight == ASSUME DeployersAssumption, MCInit PROVE MCInv
<1>1. CASE part = "net" BY <1>1, NetInit DEF MCInit, MCInv, DeployersAssumption
<1>2. CASE part = "gw" /\ Gw!Init BY <1>2, GwInitRight DEF MCInv, DeployersAssumption
<1>3. CASE part = "k8s" /\ K8s!Init BY <1>3, K8sInitRight DEF MCInv, DeployersAssumption
<1> QED BY <1>1, <1>2, <1>3 DEF MCInit

LEMMA MCNextRight == ASSUME DeployersAssumption, MCInv, MCNext PROVE MCInv' /\ DeployedStep
<1>1. CASE part = "net" /\ Next /\ UNCHANGED <<part, gwOnly, k8sOnly, others>>
  <2>1. StepRight BY <1>1, NetNext DEF MCInv, DeployersAssumption
  <2> QED BY <1>1, <2>1 DEF MCInv, DeployedStep, StepRight
<1>2. CASE part = "gw" /\ Gw!Next /\ UNCHANGED <<vars, part, k8sOnly>>
  <2>1. GwInv' /\ Gw!NameStep /\ Gw!ReadStep BY <1>2, GwNextRight DEF MCInv, DeployersAssumption
  <2> QED BY <1>2, <2>1 DEF MCInv, DeployedStep
<1>3. CASE part = "k8s" /\ K8s!Next /\ UNCHANGED <<vars, part, gwOnly>>
  <2>1. K8sInv' /\ K8s!CancelStep /\ K8s!ReadStep BY <1>3, K8sNextRight DEF MCInv, DeployersAssumption
  <2> QED BY <1>3, <2>1 DEF MCInv, DeployedStep
<1> QED BY <1>1, <1>2, <1>3 DEF MCNext

LEMMA MCStill == ASSUME DeployersAssumption, MCInv, UNCHANGED mcVars PROVE MCInv'
<1>1. /\ UNCHANGED vars /\ part' = part /\ gws' = gws /\ chain' = chain /\ clusters' = clusters /\ nets' = nets
      /\ split' = split /\ deployments' = deployments /\ recorded' = recorded /\ made' = made /\ outcome' = outcome
  BY DEF mcVars, gwOnly, k8sOnly, others
<1>2. ASSUME NetInv PROVE NetInv' BY <1>1, <1>2, NetNext DEF StepRight, DeployersAssumption
<1>3. ASSUME GwInv PROVE GwInv' BY <1>1, <1>3 DEF GwInv
<1>4. ASSUME K8sInv PROVE K8sInv' BY <1>1, <1>4 DEF K8sInv, ClusterStands
<1> QED BY <1>1, <1>2, <1>3, <1>4 DEF MCInv

(* Whichever deployer is called, however its calls end, its invariant holds. *)
THEOREM DeployersInvariance == DeployersAssumption => (MCSpec => []MCInv)
<1> SUFFICES ASSUME DeployersAssumption PROVE MCSpec => []MCInv OBVIOUS
<1>1. MCInit => MCInv BY MCInitRight
<1>2. MCInv /\ [MCNext]_mcVars => MCInv' BY MCNextRight, MCStill
<1> QED BY <1>1, <1>2, PTL DEF MCSpec

(* A gateway that was deployed without an error has its contracts, with its *)
(* name or its domain on its node; a cluster has machines with addresses of *)
(* their own in the subnets of their nodes, whose workers know the master.  *)
THEOREM RunDeployed == DeployersAssumption => (MCSpec => []DeployedRight)
<1> SUFFICES ASSUME DeployersAssumption PROVE MCSpec => []DeployedRight OBVIOUS
<1>1. MCInv => DeployedRight BY GwInvHasItsName, K8sInvJoined DEF MCInv, DeployedRight
<1> QED BY <1>1, DeployersInvariance, PTL

(* A name contract stays with its gateway until that is cancelled, whatever *)
(* fails or is deployed beside it; a cluster that is in order, or was read  *)
(* back, is cancelled as a whole.                                           *)
THEOREM RunHeld == DeployersAssumption => (MCSpec => HeldUntilCancelled)
<1> SUFFICES ASSUME DeployersAssumption PROVE MCSpec => HeldUntilCancelled OBVIOUS
<1> DEFINE Step == CASE part = "gw" -> Gw!NameStep [] part = "k8s" -> K8s!CancelStep [] OTHER -> TRUE
<1>1. MCInv /\ [MCNext]_mcVars => [Step]_mcVars
  <2> SUFFICES ASSUME MCInv, MCNext PROVE Step OBVIOUS
  <2>1. MCInv /\ DeployedStep BY MCNextRight
  <2> QED BY <2>1 DEF MCInv, DeployedStep
<1> QED BY <1>1, DeployersInvariance, PTL DEF MCSpec, HeldUntilCancelled

(* What was deployed without an error reads back as it was asked for: the   *)
(* network, the gateway, and the cluster, by its name or by its contracts.  *)
THEOREM RunReadsBack == DeployersAssumption => (MCSpec => ReadsBack)
<1> SUFFICES ASSUME DeployersAssumption PROVE MCSpec => ReadsBack OBVIOUS
<1> DEFINE Step == CASE part = "net" -> LoadStep
                     [] part = "gw" -> Gw!ReadStep [] part = "k8s" -> K8s!ReadStep
<1>1. MCInv /\ [MCNext]_mcVars => [Step]_mcVars
  <2> SUFFICES ASSUME MCInv, MCNext PROVE Step OBVIOUS
  <2>1. MCInv /\ DeployedStep BY MCNextRight
  <2> QED BY <2>1 DEF MCInv, DeployedStep
<1> QED BY <1>1, DeployersInvariance, PTL DEF MCSpec, ReadsBack
=============================================================================
