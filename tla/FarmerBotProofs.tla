--------------------------- MODULE FarmerBotProofs ---------------------------
(* Theorems about FarmerBot, for any farm, handlers and requests; the last *)
(* two, for poweron requests alone.                                        *)
EXTENDS FarmerBot, FiniteSetTheorems, SequenceTheorems, TLAPS

(***************************************************************************)
(* state.nodes: what updateNode, deleteNode and the loop's sweep do to the *)
(* records of a node.                                                      *)
(***************************************************************************)

LEMMA Least ==
  ASSUME NEW S \in SUBSET Nat, S # {} PROVE \E m \in S : \A n \in S : m <= n
<1>1. PICK m \in S : \A n \in S : ~(<<n, m>> \in OpToRel(<, Nat))
  BY NatLessThanWellFounded, WFMin
<1>2. \A n \in S : n < m => <<n, m>> \in OpToRel(<, Nat) BY DEF OpToRel
<1>3. \A n \in S : ~(n < m) BY <1>1, <1>2
<1>4. \A n \in S : m <= n BY <1>3
<1> QED BY <1>4

LEMMA FirstIs ==
  ASSUME NEW s \in Seq(View), NEW n \in Ids(s)
  PROVE  First(s, n) \in 1..Len(s) /\ s[First(s, n)].id = n
<1> DEFINE S == {i \in DOMAIN s : s[i].id = n}
<1>1. DOMAIN s = 1..Len(s) /\ Len(s) \in Nat BY LenProperties
<1>2. S \in SUBSET Nat /\ S # {} BY <1>1 DEF Ids
<1>3. PICK m \in S : \A i \in S : m <= i BY <1>2, Least
<1>4. \A j \in 1..(m - 1) : s[j].id # n BY <1>1, <1>3
<1>5. \E i \in DOMAIN s : s[i].id = n /\ \A j \in 1..(i - 1) : s[j].id # n BY <1>3, <1>4
<1> QED BY <1>1, <1>5 DEF First

LEMMA CopiesType ==
  ASSUME NEW s \in Seq(View), NEW n
  PROVE  /\ IsFiniteSet({i \in DOMAIN s : s[i].id = n}) /\ Copies(s, n) \in Nat
         /\ n \notin Ids(s) => Copies(s, n) = 0
<1> DEFINE S == {i \in DOMAIN s : s[i].id = n}
<1>1. DOMAIN s = 1..Len(s) /\ Len(s) \in Nat BY LenProperties
<1>2. IsFiniteSet(1..Len(s)) BY <1>1, FS_Interval
<1>3. IsFiniteSet(S) BY <1>1, <1>2, FS_Subset
<1>4. Cardinality(S) \in Nat BY <1>3, FS_CardinalityType
<1>5. n \notin Ids(s) => S = {} BY DEF Ids
<1> QED BY <1>3, <1>4, <1>5, FS_EmptySet DEF Copies

(* A list that holds no node, and none of them more often, than another.   *)
Within(t, s) ==
  /\ t \in Seq(View) /\ Ids(t) \subseteq Ids(s)
  /\ \A n \in Node : Copies(t, n) <= Copies(s, n)

(* A list of some of its records, none of them more often.                 *)
Entries(s) == {s[i] : i \in DOMAIN s}
Fewer(t, s) == Within(t, s) /\ Entries(t) \subseteq Entries(s)

LEMMA WithinItself == ASSUME NEW s \in Seq(View) PROVE Within(s, s)
<1>1. \A n \in Node : Copies(s, n) \in Nat BY CopiesType
<1> QED BY <1>1 DEF Within

LEMMA WithinTrans ==
  ASSUME NEW s \in Seq(View), NEW t, NEW u, Within(t, s), Within(u, t) PROVE Within(u, s)
<1>1. \A n \in Node : Copies(s, n) \in Nat /\ Copies(t, n) \in Nat /\ Copies(u, n) \in Nat
  BY CopiesType DEF Within
<1> QED BY <1>1 DEF Within

LEMMA FewerItself == ASSUME NEW s \in Seq(View) PROVE Fewer(s, s)
  BY WithinItself DEF Fewer

LEMMA FewerTrans ==
  ASSUME NEW s \in Seq(View), NEW t, NEW u, Fewer(t, s), Fewer(u, t) PROVE Fewer(u, s)
  BY WithinTrans DEF Fewer

LEMMA UpdateWithin ==
  ASSUME NEW s \in Seq(View), NEW v \in View PROVE Within(updateNode(s, v), s)
<1>1. CASE v.id \notin Ids(s) BY <1>1, WithinItself DEF updateNode
<1>2. CASE v.id \in Ids(s)
  <2> DEFINE k == First(s, v.id)
             t == [s EXCEPT ![k] = v]
  <2>1. k \in 1..Len(s) /\ s[k].id = v.id BY <1>2, FirstIs
  <2> HIDE DEF k
  <2>2. /\ t \in Seq(View) /\ Len(t) = Len(s)
        /\ \A i \in 1..Len(s) : t[i] = IF i = k THEN v ELSE s[i]
    BY <2>1, ExceptSeq
  <2>3. DOMAIN t = 1..Len(s) /\ DOMAIN s = 1..Len(s) BY <2>2, LenProperties
  <2>4. \A i \in 1..Len(s) : t[i].id = s[i].id BY <2>1, <2>2
  <2> HIDE DEF t
  <2>5. Ids(t) = Ids(s) BY <2>3, <2>4 DEF Ids
  <2>6. ASSUME NEW n \in Node PROVE Copies(t, n) <= Copies(s, n)
    <3>1. {i \in DOMAIN t : t[i].id = n} = {i \in DOMAIN s : s[i].id = n} BY <2>3, <2>4
    <3>2. Copies(t, n) = Copies(s, n) BY <3>1 DEF Copies
    <3>3. Copies(s, n) \in Nat BY CopiesType
    <3> QED BY <3>2, <3>3
  <2>7. updateNode(s, v) = t BY <1>2 DEF updateNode, k, t
  <2> QED BY <2>2, <2>5, <2>6, <2>7 DEF Within
<1> QED BY <1>1, <1>2

LEMMA RemoveFewer ==
  ASSUME NEW s \in Seq(View), NEW k \in 1..Len(s) PROVE Fewer(RemoveAt(s, k), s)
<1> DEFINE l == SubSeq(s, 1, k - 1)
           r == SubSeq(s, k + 1, Len(s))
           t == l \o r
<1>0. Len(s) \in Nat /\ DOMAIN s = 1..Len(s) /\ \A i \in 1..Len(s) : s[i] \in View
  BY LenProperties, ElementOfSeq
<1>1. l \in Seq(View) /\ Len(l) = k - 1 /\ \A i \in 1..(k - 1) : l[i] = s[i]
  <2>1. /\ l \in Seq(View) /\ Len(l) = IF 1 <= k - 1 THEN (k - 1) - 1 + 1 ELSE 0
        /\ \A i \in 1..((k - 1) - 1 + 1) : l[i] = s[1 + i - 1]
    BY <1>0, SubSeqProperties
  <2> HIDE DEF l
  <2> QED BY <2>1
<1>2. /\ r \in Seq(View) /\ Len(r) = Len(s) - k
      /\ \A i \in 1..(Len(s) - k) : r[i] = s[k + i]
  <2>1. /\ r \in Seq(View) /\ Len(r) = IF k + 1 <= Len(s) THEN Len(s) - (k + 1) + 1 ELSE 0
        /\ \A i \in 1..(Len(s) - (k + 1) + 1) : r[i] = s[k + 1 + i - 1]
    BY <1>0, SubSeqProperties
  <2> HIDE DEF r
  <2>2. Len(s) - (k + 1) + 1 = Len(s) - k /\ Len(r) = Len(s) - k
    <3>1. k \in Nat /\ k <= Len(s) /\ Len(s) \in Nat BY <1>0
    <3>2. Len(s) - (k + 1) + 1 = Len(s) - k BY <1>0, <3>1
    <3>3. CASE k + 1 <= Len(s) BY <1>0, <2>1, <3>2, <3>3
    <3>4. CASE ~(k + 1 <= Len(s))
      <4>1. Len(s) - k = 0 BY <3>1, <3>4
      <4>2. Len(r) = 0 BY <2>1, <3>4
      <4> QED BY <3>2, <4>1, <4>2
    <3> QED BY <3>2, <3>3, <3>4
  <2>3. \A i \in 1..(Len(s) - k) : r[i] = s[k + 1 + i - 1] BY <2>1, <2>2
  <2>4. \A i \in 1..(Len(s) - k) : k + 1 + i - 1 = k + i BY <1>0
  <2> QED BY <2>1, <2>2, <2>3, <2>4
<1> HIDE DEF l, r
<1>3. /\ t \in Seq(View) /\ Len(t) = Len(s) - 1
      /\ \A i \in 1..(Len(s) - 1) : t[i] = IF i < k THEN s[i] ELSE s[i + 1]
  <2>1. /\ t \in Seq(View) /\ Len(t) = Len(l) + Len(r)
        /\ \A i \in 1..(Len(l) + Len(r)) : t[i] = IF i <= Len(l) THEN l[i] ELSE r[i - Len(l)]
    BY <1>1, <1>2, ConcatProperties
  <2> HIDE DEF t
  <2>2. Len(l) + Len(r) = Len(s) - 1 BY <1>0, <1>1, <1>2
  <2>3. ASSUME NEW i \in 1..(Len(s) - 1) PROVE t[i] = IF i < k THEN s[i] ELSE s[i + 1]
    <3>1. CASE i < k BY <1>0, <1>1, <2>1, <2>2, <3>1
    <3>2. CASE ~(i < k)
      <4>1. t[i] = r[i - (k - 1)] BY <1>0, <1>1, <2>1, <2>2, <3>2
      <4>2. i - (k - 1) \in 1..(Len(s) - k) BY <1>0, <3>2
      <4>3. k + (i - (k - 1)) = i + 1 BY <1>0
      <4> QED BY <1>2, <3>2, <4>1, <4>2, <4>3
    <3> QED BY <3>1, <3>2
  <2> QED BY <2>1, <2>2, <2>3
<1>4. DOMAIN t = 1..(Len(s) - 1) BY <1>3, LenProperties
<1>5. t = RemoveAt(s, k) BY DEF RemoveAt, l, r
<1> HIDE DEF t
<1>6. Ids(t) \subseteq Ids(s)
  <2> SUFFICES ASSUME NEW i \in DOMAIN t PROVE \E j \in DOMAIN s : t[i].id = s[j].id BY DEF Ids
  <2>1. i \in DOMAIN s /\ i + 1 \in DOMAIN s BY <1>0, <1>4
  <2> QED BY <1>3, <1>4, <2>1
<1>7. ASSUME NEW n \in Node PROVE Copies(t, n) <= Copies(s, n)
  <2> DEFINE S == {i \in DOMAIN s : s[i].id = n}
             T == {i \in DOMAIN t : t[i].id = n}
             f == [i \in T |-> IF i < k THEN i ELSE i + 1]
  <2>1. f \in [T -> S]
    <3> SUFFICES ASSUME NEW i \in T PROVE f[i] \in S OBVIOUS
    <3>1. i \in DOMAIN s /\ i + 1 \in DOMAIN s BY <1>0, <1>4
    <3> QED BY <1>3, <1>4, <3>1
  <2>2. \A i, j \in T : f[i] = f[j] => i = j BY <1>0, <1>4
  <2>3. f \in Injection(T, S) BY <2>1, <2>2 DEF Injection, IsInjective
  <2> HIDE DEF f
  <2>4. IsFiniteSet(S) BY CopiesType
  <2> QED BY <2>3, <2>4, FS_Injection DEF Copies
<1>8. Entries(t) \subseteq Entries(s)
  <2> SUFFICES ASSUME NEW i \in DOMAIN t PROVE \E j \in DOMAIN s : t[i] = s[j] BY DEF Entries
  <2>1. i \in DOMAIN s /\ i + 1 \in DOMAIN s BY <1>0, <1>4
  <2> QED BY <1>3, <1>4, <2>1
<1> QED BY <1>3, <1>5, <1>6, <1>7, <1>8 DEF Within, Fewer

LEMMA DeleteFewer == ASSUME NEW s \in Seq(View), NEW n PROVE Fewer(deleteNode(s, n), s)
  BY FewerItself, FirstIs, RemoveFewer DEF deleteNode

(* The loop's sweep, an entry after the other. *)
LEMMA SweepFewer == ASSUME NEW s \in Seq(View) PROVE Fewer(Sweep(s), s)
<1> DEFINE Next1(t, i) == IF i <= Len(t) /\ t[i].id \notin farm
                          THEN RemoveAt(t, First(t, t[i].id)) ELSE t
           G(g) == [i \in 0..Len(s) |-> IF i = 0 THEN s ELSE Next1(g[i - 1], i)]
           after == CHOOSE g : g = G(g)
<1>1. Sweep(s) = after[Len(s)] BY DEF Sweep
<1>2. Len(s) \in Nat BY LenProperties
<1>3. \E g : g = G(g)
  <2> DEFINE Partly(m) == \E g : \A i \in 0..m : g[i] = IF i = 0 THEN s ELSE Next1(g[i - 1], i)
             Bad == {m \in 0..Len(s) : ~Partly(m)}
  <2> HIDE DEF Next1
  <2>1. Bad = {}
    <3> SUFFICES ASSUME Bad # {} PROVE FALSE OBVIOUS
    <3>1. PICK m \in Bad : \A n \in Bad : m <= n
      <4>1. Bad \in SUBSET Nat BY <1>2
      <4> HIDE DEF Bad
      <4> QED BY <4>1, Least
    <3>2. CASE m = 0
      <4> DEFINE g == [i \in {0} |-> s]
      <4>1. \A i \in 0..0 : g[i] = IF i = 0 THEN s ELSE Next1(g[i - 1], i) OBVIOUS
      <4> HIDE DEF g
      <4> QED BY <3>1, <3>2, <4>1
    <3>3. CASE m # 0
      <4>0. m \in 1..Len(s) BY <1>2, <3>1, <3>3
      <4>1. m - 1 \in 0..Len(s) /\ m - 1 \notin Bad
        <5>1. m - 1 \in 0..Len(s) /\ ~(m <= m - 1) BY <1>2, <4>0
        <5> QED BY <3>1, <5>1
      <4>2. PICK g : \A i \in 0..(m - 1) : g[i] = IF i = 0 THEN s ELSE Next1(g[i - 1], i)
        BY <4>1
      <4> DEFINE h == [i \in 0..m |-> IF i = m THEN Next1(g[m - 1], m) ELSE g[i]]
      <4>3. \A i \in 0..m : h[i] = IF i = 0 THEN s ELSE Next1(h[i - 1], i)
        <5> SUFFICES ASSUME NEW i \in 0..m
                     PROVE  h[i] = IF i = 0 THEN s ELSE Next1(h[i - 1], i)
          OBVIOUS
        <5>1. CASE i = m
          <6>1. h[i] = Next1(g[m - 1], m) /\ h[m - 1] = g[m - 1] BY <3>3, <5>1
          <6> HIDE DEF h
          <6> QED BY <3>3, <5>1, <6>1
        <5>2. CASE i # m
          <6>1. i \in 0..(m - 1) /\ h[i] = g[i] /\ (i # 0 => h[i - 1] = g[i - 1]) BY <5>2
          <6> HIDE DEF h
          <6> QED BY <4>2, <6>1
        <5> QED BY <5>1, <5>2
      <4> HIDE DEF h
      <4> QED BY <3>1, <4>3
    <3> QED BY <3>2, <3>3
  <2>2. Partly(Len(s)) BY <1>2, <2>1
  <2>3. PICK g : \A i \in 0..Len(s) : g[i] = IF i = 0 THEN s ELSE Next1(g[i - 1], i)
    BY <2>2
  <2> DEFINE h == [i \in 0..Len(s) |-> g[i]]
  <2>4. h = G(h)
    <3>1. ASSUME NEW i \in 0..Len(s) PROVE h[i] = IF i = 0 THEN s ELSE Next1(h[i - 1], i)
      <4>1. i # 0 => i - 1 \in 0..Len(s) BY <1>2
      <4>2. h[i] = g[i] /\ (i # 0 => h[i - 1] = g[i - 1]) BY <4>1
      <4> HIDE DEF h
      <4> QED BY <2>3, <4>2
    <3> HIDE DEF Next1
    <3> QED BY <3>1
  <2> QED BY <2>4
<1>4. after = G(after)
  <2> HIDE DEF G
  <2> QED BY <1>3
<1>5. \A i \in 0..Len(s) : after[i] = IF i = 0 THEN s ELSE Next1(after[i - 1], i)
  <2> HIDE DEF after, Next1
  <2> QED BY <1>4
<1> HIDE DEF after, G
<1>6. \A i \in 0..Len(s) : Fewer(after[i], s)
  <2> DEFINE Bad == {i \in 0..Len(s) : ~Fewer(after[i], s)}
  <2> SUFFICES ASSUME Bad # {} PROVE FALSE OBVIOUS
  <2>1. PICK i \in Bad : \A j \in Bad : i <= j
    <3>1. Bad \in SUBSET Nat BY <1>2
    <3> HIDE DEF Bad
    <3> QED BY <3>1, Least
  <2>2. i # 0 BY <1>2, <1>5, <2>1, FewerItself
  <2> DEFINE t == after[i - 1]
  <2>3. Fewer(t, s) BY <1>2, <2>1, <2>2
  <2>4. t \in Seq(View) BY <2>3 DEF Within, Fewer
  <2>5. after[i] = Next1(t, i) BY <1>2, <1>5, <2>1, <2>2
  <2> HIDE DEF t
  <2>6. Fewer(Next1(t, i), t)
    <3>1. CASE i <= Len(t) /\ t[i].id \notin farm
      <4>1. i \in DOMAIN t BY <1>2, <2>1, <2>2, <2>4, <3>1, LenProperties
      <4>2. t[i].id \in Ids(t) BY <4>1 DEF Ids
      <4>3. First(t, t[i].id) \in 1..Len(t) BY <2>4, <4>2, FirstIs
      <4> QED BY <2>4, <3>1, <4>3, RemoveFewer
    <3> QED BY <2>4, <3>1, FewerItself
  <2>7. Fewer(after[i], s) BY <2>3, <2>5, <2>6, FewerTrans
  <2> QED BY <2>1, <2>7
<1> QED BY <1>1, <1>2, <1>6
-----------------------------------------------------------------------------
(***************************************************************************)
(* The inductive invariant.                                                *)
(***************************************************************************)

(* TypeOK, in the groups of variables that actions leave alone together;   *)
(* the mutex is held by the actor that calls the chain, and by no other.   *)
Chain ==
  /\ power \in [Node -> [state: UpDown, target: UpDown]]
  /\ tenant \in [Node -> Tenant] /\ farm \subseteq Node
Locals ==
  /\ pc \in [Actor -> Step]
  /\ node \in [Actor -> Node \cup {None}]
  /\ held \in [Actor -> View \cup {None}] /\ copy \in [Actor -> View \cup {None}]
  /\ ret \in [Actor -> Step \cup {None}]
Counts ==
  /\ requests \in 0..MaxRequests /\ claims \in Claim /\ faults \in 0..MaxFaults
  /\ promised \subseteq Node \X Claim
Mutex ==
  /\ lock \in Actor \cup {None}
  /\ \A a \in Actor : lock = a <=> pc[a] \in {"callOn", "callOff"}
Round == todo \subseteq Node /\ offer \subseteq Node /\ left \in Nat

LEMMA TypeSplit ==
  TypeOK <=> /\ Chain /\ Locals /\ Counts /\ Mutex /\ Round
             /\ nodes \in Seq(View) /\ expired \subseteq Claim
  BY DEF TypeOK, Chain, Locals, Counts, Mutex, Round

(* What an actor holds where: powerOn and powerOff, once called, return to *)
(* a step that expects the record their caller read; and what they set the *)
(* target of, or what is loaded and added, is no excluded node.            *)
PowerStep == {"lockOn", "callOn", "writeOn", "lockOff", "callOff", "writeOff", "writeOffErr"}
Recall(s) == s \in {"refresh", "store", "add", "claim", "reset", "periodic"}
HoldsOf(a) ==
  /\ pc[a] \in PowerStep => ret[a] \in {"claim", "delete", "reset", "next", "raise", "lower"}
  /\ pc[a] \in PowerStep \ {"lockOn", "lockOff"} => copy[a] \in View
  /\ pc[a] \in {"callOn", "callOff", "load", "add"} => node[a] \in Node \ Excluded
  /\ Recall(pc[a]) \/ (pc[a] \in PowerStep /\ Recall(ret[a])) => held[a] \in View
  /\ pc[a] = "add" => held[a].id = node[a]
Holds == \A a \in Actor : HoldsOf(a)

(* The loop counts no node off that it has not counted on.                 *)
Lowering == pc[Loop] \in {"lower", "restore"} \/ (pc[Loop] \in PowerStep /\ ret[Loop] = "lower")
Left == Lowering => left >= 1

NoneExcluded == Ids(nodes) \cap Excluded = {} /\ todo \cap Excluded = {}

IInv == TypeOK /\ Holds /\ Left /\ NoneExcluded /\ CopiesBounded

LEMMA IdsType ==
  ASSUME NEW s \in Seq(View)
  PROVE  /\ Ids(s) \subseteq Node
         /\ \A n \in Ids(s) : View1(s, n) \in View /\ View1(s, n).id = n
<1>1. \A i \in 1..Len(s) : s[i] \in View BY ElementOfSeq
<1>2. DOMAIN s = 1..Len(s) BY LenProperties
<1>3. Ids(s) \subseteq Node BY <1>1, <1>2 DEF Ids, View
<1>4. \A n \in Ids(s) : First(s, n) \in 1..Len(s) /\ s[First(s, n)].id = n BY FirstIs
<1> QED BY <1>1, <1>3, <1>4 DEF View1

LEMMA SeenType == ASSUME NEW p \in [state: UpDown, target: UpDown] PROVE Seen(p) \in PowerState
  BY DEF Seen, PowerState

LEMMA LoadedType ==
  ASSUME TypeOK, NEW n \in Node PROVE getNode(n) \in View /\ getNode(n).id = n
<1>1. Seen(power[n]) \in PowerState BY SeenType DEF TypeOK
<1>2. tenant[n] \in Tenant BY DEF TypeOK
<1>3. 0 \in Claim BY BoundsAssumption DEF Claim
<1>4. (~SkipsRmb(Seen(power[n])) /\ tenant[n] = "deployed") \in BOOLEAN OBVIOUS
<1> QED BY <1>1, <1>2, <1>3, <1>4 DEF getNode, View

LEMMA RefreshedType ==
  ASSUME TypeOK, NEW v \in View, NEW k \in 0..3
  PROVE  Refreshed(v, k) \in View /\ Refreshed(v, k).id = v.id
<1> DEFINE power1 == IF k >= 2 THEN Seen(power[v.id]) ELSE v.power
           tenant1 == IF k >= 1 THEN tenant[v.id] ELSE v.tenant
           stats == k = 3 /\ ~SkipsRmb(power1) /\ ~LiveClaim(v)
           used1 == IF stats THEN tenant[v.id] = "deployed" ELSE v.used
<1>0. v.id \in Node /\ v.power \in PowerState /\ v.tenant \in Tenant /\ v.used \in BOOLEAN
  BY DEF View
<1>1. power1 \in PowerState BY <1>0, SeenType DEF TypeOK
<1>2. tenant1 \in Tenant BY <1>0 DEF TypeOK
<1>3. used1 \in BOOLEAN BY <1>0
<1>4. Refreshed(v, k) = [v EXCEPT !.tenant = tenant1, !.power = power1, !.used = used1]
  BY DEF Refreshed
<1> HIDE DEF power1, tenant1, used1
<1> QED BY <1>1, <1>2, <1>3, <1>4 DEF View

LEMMA ActorsType == IsFiniteSet(Actor) /\ Cardinality(Actor) \in Nat /\ Cardinality(Actor) >= 1
<1>1. IsFiniteSet(Actor) BY FiniteAssumption, FS_AddElement DEF Actor
<1>2. Loop \in Actor BY DEF Actor
<1>3. Cardinality(Actor) \in Nat /\ Cardinality(Actor) # 0
  BY <1>1, <1>2, FS_CardinalityType, FS_EmptySet
<1> QED BY <1>1, <1>3

LEMMA AddingType ==
  ASSUME NEW S \in SUBSET Actor
  PROVE  IsFiniteSet(S) /\ Cardinality(S) \in Nat /\ Cardinality(S) <= Cardinality(Actor)
  BY ActorsType, FS_Subset, FS_CardinalityType

(* newState lists every managed node once, as the chain has it. *)
LEMMA InitRecords ==
  ASSUME Init
  PROVE  /\ Chain /\ nodes \in Seq(View) /\ Ids(nodes) \subseteq Managed
         /\ \A n \in Node : Copies(nodes, n) <= 1
         /\ \A v \in Entries(nodes) : v.id \in Node /\ v.power = Seen(power[v.id])
<1> DEFINE order == SetToSeq(Managed)
           k == Cardinality(Managed)
<1>1. Managed \subseteq Node /\ Managed \cap Excluded = {} BY DEF Managed
<1>2. IsFiniteSet(Managed) BY <1>1, FiniteAssumption, FS_Subset
<1>3. order \in [1..k -> Managed] /\ IsInjective(order) /\ k \in Nat
  <2>1. k \in Nat /\ ExistsBijection(1..k, Managed) BY <1>2, FS_CardinalityType
  <2>2. \E f \in [1..k -> Managed] : IsInjective(f)
    BY <2>1 DEF ExistsBijection, Bijection, Injection
  <2> QED BY <2>1, <2>2 DEF SetToSeq
<1>4. nodes = [i \in 1..k |-> getNode(order[i])] BY <1>3 DEF Init
<1> HIDE DEF order, k
<1>5. Chain BY TenancyAssumption DEF Init, Chain, Tenant
<1>6. ASSUME NEW n \in Node
      PROVE  getNode(n) \in View /\ getNode(n).id = n /\ getNode(n).power = Seen(power[n])
  <2>1. Seen(power[n]) \in PowerState /\ tenant[n] \in Tenant
    BY <1>5, SeenType DEF Chain
  <2>2. 0 \in Claim BY BoundsAssumption DEF Claim
  <2> QED BY <2>1, <2>2 DEF getNode, View
<1>7. \A i \in 1..k : nodes[i] \in View /\ nodes[i].id = order[i] /\ nodes[i] = getNode(order[i])
  BY <1>1, <1>3, <1>4, <1>6
<1>8. nodes \in Seq(View) /\ Len(nodes) = k /\ DOMAIN nodes = 1..k
  <2>1. nodes \in [1..k -> View] BY <1>4, <1>7
  <2>2. nodes \in Seq(View) BY <1>3, <2>1, SeqDef
  <2>3. Len(nodes) \in Nat /\ DOMAIN nodes = 1..Len(nodes) /\ DOMAIN nodes = 1..k
    BY <1>4, <2>2, LenProperties
  <2>4. Len(nodes) = k
    <3>1. Len(nodes) \in Nat /\ k \in Nat /\ 1..Len(nodes) = 1..k BY <1>3, <2>3
    <3> QED BY <3>1
  <2> QED BY <2>2, <2>3, <2>4
<1>9. Ids(nodes) \subseteq Managed BY <1>3, <1>7, <1>8 DEF Ids
<1>10. ASSUME NEW n \in Node PROVE Copies(nodes, n) <= 1
  <2> DEFINE S == {i \in DOMAIN nodes : nodes[i].id = n}
  <2>1. \A i, j \in S : i = j BY <1>3, <1>7, <1>8 DEF IsInjective
  <2>2. Cardinality(S) <= 1
    <3>1. CASE S = {} BY <3>1, FS_EmptySet
    <3>2. CASE S # {}
      <4>1. PICK i \in S : TRUE BY <3>2
      <4>2. S = {i} BY <2>1, <4>1
      <4>3. Cardinality({i}) = 1 BY FS_Singleton
      <4> QED BY <4>2, <4>3
    <3> QED BY <3>1, <3>2
  <2> QED BY <2>2 DEF Copies
<1>11. ASSUME NEW v \in Entries(nodes) PROVE v.id \in Node /\ v.power = Seen(power[v.id])
  <2>1. PICK i \in 1..k : v = nodes[i] BY <1>8 DEF Entries
  <2>2. order[i] \in Node BY <1>1, <1>3
  <2> QED BY <1>6, <1>7, <2>1, <2>2
<1> QED BY <1>5, <1>8, <1>9, <1>10, <1>11

LEMMA InitIInv == ASSUME Init PROVE IInv
<1>1. /\ Chain /\ nodes \in Seq(View) /\ Ids(nodes) \subseteq Managed
      /\ \A n \in Node : Copies(nodes, n) <= 1
  BY InitRecords
<1>2. TypeOK
  <2>1. Locals BY DEF Init, Locals, Step
  <2>2. Counts BY BoundsAssumption DEF Init, Counts, Claim
  <2>3. Mutex BY ActorsAssumption DEF Init, Mutex, Actor
  <2>4. Round BY DEF Init, Round
  <2> QED BY <1>1, <2>1, <2>2, <2>3, <2>4, TypeSplit DEF Init
<1>3. Holds BY DEF Init, Holds, HoldsOf, PowerStep, Recall
<1>4. Left BY DEF Init, Left, Lowering, Actor, PowerStep
<1>5. NoneExcluded BY <1>1 DEF Init, NoneExcluded, Managed
<1>6. CopiesBounded
  <2> SUFFICES ASSUME NEW n \in Node
               PROVE  Copies(nodes, n) + Cardinality(Adding(n)) <= Cardinality(Actor)
    BY DEF CopiesBounded
  <2>1. Adding(n) = {} BY DEF Init, Adding
  <2>2. Copies(nodes, n) <= 1 /\ Copies(nodes, n) \in Nat BY <1>1, CopiesType
  <2> QED BY <2>1, <2>2, ActorsType, FS_EmptySet
<1> QED BY <1>2, <1>3, <1>4, <1>5, <1>6 DEF IInv
-----------------------------------------------------------------------------
(***************************************************************************)
(* What a step of one actor does to its own locals.                        *)
(***************************************************************************)

Others(a) ==
  \A b \in Actor \ {a} :
    /\ pc'[b] = pc[b] /\ node'[b] = node[b] /\ ret'[b] = ret[b]
    /\ held'[b] = held[b] /\ copy'[b] = copy[b]

LEMMA GotoIs ==
  ASSUME Locals, NEW a \in Actor, NEW s \in Step, Goto(a, s)
  PROVE  /\ Locals' /\ Others(a) /\ pc'[a] = s
         /\ s \notin {"idle", "sleep", "next", "manage", "raise", "lower"} =>
              node'[a] = node[a] /\ held'[a] = held[a] /\ ret'[a] = ret[a]
<1>1. Locals' BY DEF Goto, Locals
<1>2. Others(a) BY DEF Goto, Locals, Others
<1> QED BY <1>1, <1>2 DEF Goto, Locals

LEMMA HoldIs ==
  ASSUME Locals, NEW a \in Actor, NEW s \in Step, NEW v \in View \cup {None}, Hold(a, s, v)
  PROVE  /\ Locals' /\ Others(a) /\ pc'[a] = s /\ held'[a] = v
         /\ node'[a] = node[a] /\ ret'[a] = ret[a] /\ copy'[a] = copy[a]
<1>1. Locals' BY DEF Hold, Locals
<1>2. Others(a) BY DEF Hold, Locals, Others
<1> QED BY <1>1, <1>2 DEF Hold, Locals

LEMMA WorkIs ==
  ASSUME Locals, NEW a \in Actor, NEW s \in Step, NEW v \in View \cup {None}, Work(a, s, v)
  PROVE  /\ Locals' /\ Others(a) /\ pc'[a] = s /\ copy'[a] = v
         /\ node'[a] = node[a] /\ ret'[a] = ret[a] /\ held'[a] = held[a]
<1>1. Locals' BY DEF Work, Locals
<1>2. Others(a) BY DEF Work, Locals, Others
<1> QED BY <1>1, <1>2 DEF Work, Locals

LEMMA CallIs ==
  ASSUME Locals, NEW a \in Actor, NEW s \in Step, NEW n \in Node \cup {None},
         NEW v \in View \cup {None}, NEW r \in Step \cup {None}, Call(a, s, n, v, r)
  PROVE  /\ Locals' /\ Others(a)
         /\ pc'[a] = s /\ node'[a] = n /\ held'[a] = v /\ ret'[a] = r /\ copy'[a] = copy[a]
<1>1. Locals' BY DEF Call, Locals
<1>2. Others(a) BY DEF Call, Locals, Others
<1> QED BY <1>1, <1>2 DEF Call, Locals

(***************************************************************************)
(* What it has to do for the invariant: keep its own part of it, take the  *)
(* mutex when it is free and give it back, and leave state.nodes with no   *)
(* record more than it had.                                                *)
(***************************************************************************)

Calls(a) == pc[a] \in {"callOn", "callOff"}
Adds(a) == pc[a] \in {"load", "add"}

Locks(a) ==
  \/ lock = None /\ lock' = a /\ Calls(a)'
  \/ lock = a /\ lock' = None /\ ~Calls(a)'
  \/ lock # a /\ lock' = lock /\ ~Calls(a)'

(* The variables an actor does not hold alone keep their types. *)
Shared == Chain /\ Counts /\ Round

LEMMA LocksKeep ==
  ASSUME Mutex, NEW a \in Actor, Others(a), Locks(a) PROVE Mutex'
<1>1. None \notin Actor BY ActorsAssumption DEF Actor
<1> QED BY <1>1 DEF Mutex, Others, Locks, Calls

LEMMA OthersHold ==
  ASSUME Holds, NEW a \in Actor, Others(a), HoldsOf(a)' PROVE Holds'
<1> SUFFICES ASSUME NEW b \in Actor \ {a} PROVE HoldsOf(b)' BY DEF Holds
<1>1. HoldsOf(b) BY DEF Holds
<1> QED BY <1>1 DEF Others, HoldsOf

LEMMA ActorStep ==
  ASSUME IInv, NEW a \in Actor, Locals', Others(a), Shared', UNCHANGED expired,
         nodes' \in Seq(View), Locks(a), HoldsOf(a)', (a # Loop /\ UNCHANGED left) \/ Left',
         NoneExcluded', CopiesBounded'
  PROVE  IInv'
<1>1. Locals /\ Mutex /\ Holds /\ Left /\ expired \subseteq Claim BY TypeSplit DEF IInv
<1>2. TypeOK'
  <2>1. Mutex' BY <1>1, LocksKeep
  <2> QED BY <1>1, <2>1, TypeSplit DEF Shared, TypeOK, Chain, Locals, Counts, Mutex, Round
<1>3. Holds' BY <1>1, OthersHold
<1>4. Left' BY <1>1 DEF Others, Left, Lowering, Actor
<1> QED BY <1>2, <1>3, <1>4 DEF IInv

LEMMA NoMoreCopies ==
  ASSUME IInv, NEW a \in Actor, Others(a), Within(nodes', nodes),
         Adds(a)' => Adds(a) /\ node'[a] = node[a]
  PROVE  CopiesBounded'
<1> SUFFICES ASSUME NEW n \in Node
             PROVE  Copies(nodes', n) + Cardinality(Adding(n)') <= Cardinality(Actor)
  BY DEF CopiesBounded, Adding
<1>1. nodes \in Seq(View) /\ nodes' \in Seq(View) BY DEF IInv, TypeOK, Within
<1>2. Copies(nodes', n) <= Copies(nodes, n) /\ Copies(nodes', n) \in Nat /\ Copies(nodes, n) \in Nat
  BY <1>1, CopiesType DEF Within
<1>3. Adding(n)' \subseteq Adding(n) BY DEF Others, Adds, Adding
<1>4. Adding(n) \in SUBSET Actor BY DEF Adding
<1>5. Cardinality(Adding(n)') <= Cardinality(Adding(n))
  BY <1>3, <1>4, AddingType, FS_Subset
<1>6. Cardinality(Adding(n)') \in Nat /\ Cardinality(Adding(n)) \in Nat
  BY <1>3, <1>4, AddingType
<1>7. Copies(nodes, n) + Cardinality(Adding(n)) <= Cardinality(Actor)
  BY DEF IInv, CopiesBounded
<1> QED BY <1>2, <1>5, <1>6, <1>7, ActorsType

LEMMA QuietStep ==
  ASSUME IInv, NEW a \in Actor, Locals', Others(a), Shared', UNCHANGED expired,
         Within(nodes', nodes), todo' \subseteq todo \cup Managed,
         Locks(a), HoldsOf(a)', (a # Loop /\ UNCHANGED left) \/ Left',
         Adds(a)' => Adds(a) /\ node'[a] = node[a]
  PROVE  IInv'
<1>1. NoneExcluded' BY DEF IInv, NoneExcluded, Within, Managed
<1>2. CopiesBounded' BY NoMoreCopies
<1> QED BY <1>1, <1>2, ActorStep DEF Within
-----------------------------------------------------------------------------
(* powerOn and powerOff. *)

LEMMA ReturnsStep ==
  ASSUME IInv, NEW a \in Actor, pc[a] \in PowerStep, Returns(a) \/ Fails(a), UNCHANGED left
  PROVE  /\ Locals' /\ Others(a) /\ HoldsOf(a)' /\ (a # Loop \/ Left')
         /\ ~Calls(a)' /\ ~Adds(a)'
<1>0. Locals /\ HoldsOf(a) /\ Left BY TypeSplit DEF IInv, Holds
<1>1. ret[a] \in {"claim", "delete", "reset", "next", "raise", "lower"} BY <1>0 DEF HoldsOf
<1>2. CASE Returns(a)
  <2>1. /\ Locals' /\ Others(a) /\ pc'[a] = ret[a]
        /\ ret[a] = "claim" \/ ret[a] = "reset" => held'[a] = held[a]
    <3>1. ret[a] \in Step BY <1>1 DEF Step
    <3> QED BY <1>0, <1>2, <3>1, GotoIs DEF Returns
  <2>2. HoldsOf(a)' BY <1>0, <1>1, <2>1 DEF HoldsOf, PowerStep, Recall
  <2>3. a # Loop \/ Left' BY <1>0, <1>1, <2>1 DEF Left, Lowering, PowerStep
  <2> QED BY <1>1, <2>1, <2>2, <2>3 DEF Calls, Adds
<1>3. CASE Fails(a)
  <2>0. OnError(ret[a]) \in {"idle", "restore", "reset", "next", "raise"}
    BY <1>1 DEF OnError
  <2>1. /\ Locals' /\ Others(a) /\ pc'[a] = OnError(ret[a])
        /\ OnError(ret[a]) = "reset" => held'[a] = held[a]
    <3>1. OnError(ret[a]) \in Step BY <2>0 DEF Step
    <3> QED BY <1>0, <1>3, <3>1, GotoIs DEF Fails
  <2>2. OnError(ret[a]) = "reset" => ret[a] = "reset" BY <1>1 DEF OnError
  <2>3. OnError(ret[a]) = "restore" => ret[a] = "lower" BY <1>1 DEF OnError
  <2>4. HoldsOf(a)' BY <1>0, <2>0, <2>1, <2>2 DEF HoldsOf, PowerStep, Recall
  <2>5. a # Loop \/ Left' BY <1>0, <2>0, <2>1, <2>3 DEF Left, Lowering, PowerStep
  <2> QED BY <2>0, <2>1, <2>4, <2>5 DEF Calls, Adds
<1> QED BY <1>2, <1>3

LEMMA WorkStep ==
  ASSUME IInv, NEW a \in Actor, pc[a] \in PowerStep, UNCHANGED left,
         NEW s \in {"callOn", "callOff", "writeOn", "writeOff", "writeOffErr"}, NEW v \in View,
         Work(a, s, v), s \in {"callOn", "callOff"} => node[a] \in Node \ Excluded
  PROVE  /\ Locals' /\ Others(a) /\ HoldsOf(a)' /\ (a # Loop \/ Left') /\ ~Adds(a)'
         /\ Calls(a)' <=> s \in {"callOn", "callOff"}
<1>0. Locals /\ HoldsOf(a) /\ Left BY TypeSplit DEF IInv, Holds
<1>1. /\ Locals' /\ Others(a) /\ pc'[a] = s /\ copy'[a] = v
      /\ node'[a] = node[a] /\ ret'[a] = ret[a] /\ held'[a] = held[a]
  <2>1. s \in Step BY DEF Step
  <2> QED BY <1>0, <2>1, WorkIs
<1>2. s \in PowerStep /\ ~Recall(s) /\ s # "add" /\ s \notin {"lower", "restore", "load"}
  BY DEF PowerStep, Recall
<1>3. HoldsOf(a)' BY <1>0, <1>1, <1>2 DEF HoldsOf
<1>4. a # Loop \/ Left' BY <1>0, <1>1, <1>2 DEF Left, Lowering
<1> QED BY <1>1, <1>2, <1>3, <1>4 DEF Calls, Adds

LEMMA TargetType ==
  ASSUME Chain, NEW n \in Node, NEW t \in UpDown, SetTarget(n, t), UNCHANGED <<tenant, farm>>
  PROVE  Chain'
<1>1. power[n] \in [state: UpDown, target: UpDown] BY DEF Chain
<1>2. [power[n] EXCEPT !.target = t] \in [state: UpDown, target: UpDown] BY <1>1
<1>3. power' = [power EXCEPT ![n] = [power[n] EXCEPT !.target = t]] BY DEF SetTarget
<1> QED BY <1>2, <1>3 DEF Chain

LEMMA CostsType ==
  ASSUME Counts, NEW b \in BOOLEAN, Costs(b), b => MayFail, UNCHANGED <<requests, claims, promised>>
  PROVE  Counts'
  BY BoundsAssumption DEF Counts, Costs, MayFail, Claim

LEMMA Settled == ASSUME IInv PROVE Chain /\ Counts /\ Round /\ Locals /\ Mutex /\ nodes \in Seq(View)
  BY TypeSplit DEF IInv

LEMMA LockStep == ASSUME IInv, NEW a \in Actor, LockOn(a) \/ LockOff(a) PROVE IInv'
<1>0. /\ pc[a] \in {"lockOn", "lockOff"} /\ lock = None
      /\ UNCHANGED <<chain, nodes, expired, round, count>>
  BY DEF LockOn, LockOff, At
<1>1. /\ Shared' /\ Within(nodes', nodes) /\ todo' \subseteq todo \cup Managed
      /\ UNCHANGED <<expired, left>>
  BY <1>0, Settled, WithinItself DEF Shared, Chain, Counts, Round, chain, round, count
<1>2. pc[a] \in PowerStep BY <1>0 DEF PowerStep
<1>3. a # lock BY <1>0, ActorsAssumption DEF Actor
<1>4. CASE (Returns(a) \/ Fails(a)) /\ UNCHANGED lock
  <2>1. /\ Locals' /\ Others(a) /\ HoldsOf(a)' /\ (a # Loop \/ Left') /\ ~Calls(a)' /\ ~Adds(a)'
    BY <1>1, <1>2, <1>4, ReturnsStep
  <2>2. Locks(a) BY <1>3, <1>4, <2>1 DEF Locks
  <2> QED BY <1>1, <2>1, <2>2, QuietStep
<1>5. CASE \E s \in {"callOn", "callOff"} :
             node[a] \in Ids(nodes) /\ lock' = a /\ Work(a, s, View1(nodes, node[a]))
  <2>1. PICK s \in {"callOn", "callOff"} :
          node[a] \in Ids(nodes) /\ lock' = a /\ Work(a, s, View1(nodes, node[a]))
    BY <1>5
  <2>2. View1(nodes, node[a]) \in View /\ node[a] \in Node \ Excluded
    BY <2>1, Settled, IdsType DEF IInv, NoneExcluded
  <2>3. /\ Locals' /\ Others(a) /\ HoldsOf(a)' /\ (a # Loop \/ Left') /\ Calls(a)' /\ ~Adds(a)'
    BY <1>1, <1>2, <2>1, <2>2, WorkStep
  <2>4. Locks(a) BY <1>0, <2>1, <2>3 DEF Locks
  <2> QED BY <1>1, <2>3, <2>4, QuietStep
<1> QED BY <1>4, <1>5 DEF LockOn, LockOff

LEMMA CallStep ==
  ASSUME IInv, NEW a \in Actor, CallOn(a) \/ CallOnFails(a) \/ CallOff(a) \/ CallOffFails(a)
  PROVE  IInv'
<1>0. /\ pc[a] \in {"callOn", "callOff"} /\ lock' = None
      /\ UNCHANGED <<tenant, farm, nodes, expired, round>>
  BY DEF CallOn, CallOnFails, CallOff, CallOffFails, At
<1>1. Within(nodes', nodes) /\ todo' \subseteq todo \cup Managed /\ UNCHANGED <<expired, left>>
  BY <1>0, Settled, WithinItself DEF round
<1>2. lock = a /\ pc[a] \in PowerStep /\ node[a] \in Node /\ copy[a] \in View
  BY <1>0, Settled DEF Mutex, IInv, Holds, HoldsOf, PowerStep
<1>3. Shared'
  <2>1. Round' BY <1>0, Settled DEF Round, round
  <2>2. Chain'
    <3>1. CASE UNCHANGED power BY <1>0, <3>1, Settled DEF Chain
    <3>2. CASE \E t \in UpDown : SetTarget(node[a], t)
      BY <1>0, <1>2, <3>2, Settled, TargetType
    <3> QED BY <3>1, <3>2 DEF CallOn, CallOnFails, CallOff, CallOffFails, UpDown
  <2>3. Counts'
    <3>1. CASE UNCHANGED count BY <3>1, Settled DEF Counts, count
    <3>2. CASE \E b \in BOOLEAN : /\ Costs(b) /\ (b => MayFail)
                                  /\ UNCHANGED <<requests, claims, promised>>
      BY <3>2, Settled, CostsType
    <3> QED BY <3>1, <3>2 DEF CallOn, CallOnFails, CallOff, CallOffFails
  <2> QED BY <2>1, <2>2, <2>3 DEF Shared
<1>4. CASE Fails(a)
  <2>1. Locals' /\ Others(a) /\ HoldsOf(a)' /\ (a # Loop \/ Left') /\ ~Calls(a)' /\ ~Adds(a)'
    BY <1>1, <1>2, <1>4, ReturnsStep
  <2>2. Locks(a) BY <1>0, <1>2, <2>1 DEF Locks
  <2> QED BY <1>1, <1>3, <2>1, <2>2, QuietStep
<1>5. CASE \E s \in {"writeOn", "writeOff", "writeOffErr"}, p \in PowerState :
             Work(a, s, [copy[a] EXCEPT !.power = p])
  <2>1. PICK s \in {"writeOn", "writeOff", "writeOffErr"}, p \in PowerState :
          Work(a, s, [copy[a] EXCEPT !.power = p])
    BY <1>5
  <2>2. [copy[a] EXCEPT !.power = p] \in View BY <1>2 DEF View
  <2>3. Locals' /\ Others(a) /\ HoldsOf(a)' /\ (a # Loop \/ Left') /\ ~Calls(a)' /\ ~Adds(a)'
    BY <1>1, <1>2, <2>1, <2>2, WorkStep
  <2>4. Locks(a) BY <1>0, <1>2, <2>3 DEF Locks
  <2> QED BY <1>1, <1>3, <2>3, <2>4, QuietStep
<1> QED BY <1>4, <1>5 DEF CallOn, CallOnFails, CallOff, CallOffFails, PowerState

LEMMA WriteStep == ASSUME IInv, NEW a \in Actor, WriteOn(a) \/ WriteOff(a) PROVE IInv'
<1>0. /\ pc[a] \in {"writeOn", "writeOff", "writeOffErr"} /\ lock = None /\ lock' = None
      /\ nodes' = updateNode(nodes, copy[a])
      /\ UNCHANGED <<chain, expired, round, count>>
      /\ Returns(a) \/ Fails(a)
  BY DEF WriteOn, WriteOff, At
<1>1. pc[a] \in PowerStep /\ copy[a] \in View
  BY <1>0 DEF IInv, Holds, HoldsOf, PowerStep
<1>2. /\ Shared' /\ todo' \subseteq todo \cup Managed /\ UNCHANGED <<expired, left>>
  BY <1>0, Settled DEF Shared, Chain, Counts, Round, chain, round, count
<1>3. Within(nodes', nodes) BY <1>0, <1>1, Settled, UpdateWithin
<1>4. Locals' /\ Others(a) /\ HoldsOf(a)' /\ (a # Loop \/ Left') /\ ~Calls(a)' /\ ~Adds(a)'
  BY <1>0, <1>1, <1>2, ReturnsStep
<1>5. Locks(a) BY <1>0, <1>4, ActorsAssumption DEF Locks, Actor
<1> QED BY <1>2, <1>3, <1>4, <1>5, QuietStep

LEMMA PowerCallStep == ASSUME IInv, NEW a \in Actor, PowerCall(a) PROVE IInv'
  BY LockStep, CallStep, WriteStep DEF PowerCall
-----------------------------------------------------------------------------
(* The steps outside powerOn and powerOff, which leave the mutex alone.    *)

LEMMA GotoStep ==
  ASSUME IInv, NEW a \in Actor, ~Calls(a), NEW s \in {"idle", "sleep", "next", "raise", "lower"},
         Goto(a, s), UNCHANGED <<lock, expired>>, Shared', Within(nodes', nodes),
         todo' \subseteq todo \cup Managed, a # Loop => UNCHANGED left,
         a = Loop /\ s = "lower" => left' >= 1
  PROVE  IInv'
<1>1. Locals' /\ Others(a) /\ pc'[a] = s
  <2>1. s \in Step BY DEF Step
  <2> QED BY <2>1, Settled, GotoIs
<1>2. HoldsOf(a)' BY <1>1 DEF HoldsOf, PowerStep, Recall
<1>3. Locks(a) /\ ~Adds(a)' BY <1>1, Settled DEF Locks, Calls, Mutex, Adds
<1>4. (a # Loop /\ UNCHANGED left) \/ Left' BY <1>1 DEF Left, Lowering, PowerStep
<1> QED BY <1>1, <1>2, <1>3, <1>4, QuietStep

LEMMA HoldStep ==
  ASSUME IInv, NEW a \in Actor, ~Calls(a), NEW s \in {"store", "wake", "reset", "periodic", "add"},
         NEW v \in View \cup {None}, Hold(a, s, v), s # "wake" => v \in View,
         s = "add" => pc[a] = "load" /\ v.id = node[a],
         UNCHANGED <<lock, expired, left>>, Shared', Within(nodes', nodes),
         todo' \subseteq todo \cup Managed
  PROVE  IInv'
<1>1. Locals' /\ Others(a) /\ pc'[a] = s /\ held'[a] = v /\ node'[a] = node[a]
  <2>1. s \in Step BY DEF Step
  <2> QED BY <2>1, Settled, HoldIs
<1>2. HoldsOf(a)' BY <1>1 DEF IInv, Holds, HoldsOf, PowerStep, Recall
<1>3. Locks(a) /\ (Adds(a)' => Adds(a)) BY <1>1, Settled DEF Locks, Calls, Mutex, Adds
<1>4. a # Loop \/ Left' BY <1>1 DEF Left, Lowering, PowerStep
<1> QED BY <1>1, <1>2, <1>3, <1>4, QuietStep

LEMMA AskStep ==
  ASSUME IInv, NEW a \in Actor, ~Calls(a), NEW s \in {"refresh", "lockOn", "lockOff", "claim"},
         NEW n \in Node \cup {None}, NEW v \in View \cup {None}, NEW r, Call(a, s, n, v, r),
         s \in {"lockOn", "lockOff"} => r \in {"claim", "delete", "reset", "next", "raise", "lower"},
         s \notin {"lockOn", "lockOff"} => r = None,
         s \in {"refresh", "claim"} \/ r \in {"claim", "reset"} => v \in View,
         UNCHANGED <<lock, expired>>, Shared', Within(nodes', nodes),
         todo' \subseteq todo \cup Managed, a # Loop => UNCHANGED left,
         a = Loop /\ s \in {"lockOn", "lockOff"} /\ r = "lower" => left' >= 1
  PROVE  IInv'
<1>1. Locals' /\ Others(a) /\ pc'[a] = s /\ held'[a] = v /\ node'[a] = n /\ ret'[a] = r
  <2>1. s \in Step /\ r \in Step \cup {None} BY DEF Step
  <2> QED BY <2>1, Settled, CallIs
<1>2. HoldsOf(a)' BY <1>1 DEF HoldsOf, PowerStep, Recall
<1>3. Locks(a) /\ ~Adds(a)' BY <1>1, Settled DEF Locks, Calls, Mutex, Adds
<1>4. (a # Loop /\ UNCHANGED left) \/ Left' BY <1>1 DEF Left, Lowering, PowerStep
<1> QED BY <1>1, <1>2, <1>3, <1>4, QuietStep

(* A node the state has no record of is looked up: however many look it up *)
(* at once, they are no more than there are actors.                        *)
LEMMA LookupStep ==
  ASSUME IInv, NEW a \in Actor, ~Calls(a), NEW n \in Node \ Excluded, n \notin Ids(nodes),
         Call(a, "load", n, None, None), UNCHANGED <<nodes, lock, expired, left>>, Shared',
         todo' \subseteq todo
  PROVE  IInv'
<1>1. Locals' /\ Others(a) /\ pc'[a] = "load" /\ node'[a] = n
  <2>1. "load" \in Step BY DEF Step
  <2> QED BY <2>1, Settled, CallIs
<1>2. HoldsOf(a)' BY <1>1 DEF HoldsOf, PowerStep, Recall
<1>3. Locks(a) BY <1>1, Settled DEF Locks, Calls, Mutex
<1>4. a # Loop \/ Left' BY <1>1 DEF Left, Lowering, PowerStep
<1>5. NoneExcluded' BY DEF IInv, NoneExcluded
<1>6. CopiesBounded'
  <2> SUFFICES ASSUME NEW m \in Node
               PROVE  Copies(nodes, m) + Cardinality(Adding(m)') <= Cardinality(Actor)
    BY DEF CopiesBounded, Adding
  <2>1. CASE m = n
    <3>1. Copies(nodes, m) = 0 BY <2>1, Settled, CopiesType
    <3>2. Adding(m)' \in SUBSET Actor BY DEF Adding
    <3> QED BY <3>1, <3>2, AddingType
  <2>2. CASE m # n
    <3>1. Adding(m)' \subseteq Adding(m) BY <1>1, <2>2 DEF Others, Adding
    <3>2. Adding(m) \in SUBSET Actor BY DEF Adding
    <3>3. Cardinality(Adding(m)') <= Cardinality(Adding(m)) BY <3>1, <3>2, AddingType, FS_Subset
    <3>4. Cardinality(Adding(m)') \in Nat /\ Cardinality(Adding(m)) \in Nat
      BY <3>1, <3>2, AddingType
    <3>5. Copies(nodes, m) + Cardinality(Adding(m)) <= Cardinality(Actor)
      BY DEF IInv, CopiesBounded
    <3>6. Copies(nodes, m) \in Nat BY Settled, CopiesType
    <3> QED BY <3>3, <3>4, <3>5, <3>6, ActorsType
  <2> QED BY <2>1, <2>2
<1> QED BY <1>1, <1>2, <1>3, <1>4, <1>5, <1>6, Settled, ActorStep

(* It is added: one record more, and one actor less that adds one. *)
LEMMA AddStep == ASSUME IInv, NEW a \in Actor, Add(a) PROVE IInv'
<1>0. /\ pc[a] = "add" /\ nodes' = Append(nodes, held[a]) /\ lock = None /\ lock' = None
      /\ UNCHANGED <<chain, expired, round, count>>
  BY DEF Add, At
<1>1. held[a] \in View /\ held[a].id = node[a] /\ node[a] \in Node \ Excluded
  <2>1. HoldsOf(a) BY DEF IInv, Holds
  <2> QED BY <1>0, <2>1 DEF HoldsOf, Recall
<1>2. /\ Locals' /\ Others(a) /\ pc'[a] \in {"wake", "idle"}
  <2>1. "wake" \in Step /\ "idle" \in Step BY DEF Step
  <2> QED BY <2>1, Settled, HoldIs, GotoIs DEF Add
<1>3. Shared' BY <1>0, Settled DEF Shared, Chain, Counts, Round, chain, round, count
<1>4. HoldsOf(a)' BY <1>2 DEF HoldsOf, PowerStep, Recall
<1>5. Locks(a) BY <1>0, <1>2, ActorsAssumption DEF Locks, Calls, Actor
<1>6. UNCHANGED left /\ (a # Loop \/ Left') BY <1>0, <1>2 DEF Left, Lowering, PowerStep, round
<1>7. /\ nodes' \in Seq(View) /\ Len(nodes') = Len(nodes) + 1 /\ Len(nodes) \in Nat
      /\ DOMAIN nodes = 1..Len(nodes) /\ DOMAIN nodes' = 1..(Len(nodes) + 1)
      /\ \A i \in 1..Len(nodes) : nodes'[i] = nodes[i]
      /\ nodes'[Len(nodes) + 1] = held[a]
  <2>1. nodes \in Seq(View) BY Settled
  <2>2. /\ nodes' \in Seq(View) /\ Len(nodes') = Len(nodes) + 1
        /\ \A i \in 1..Len(nodes) : nodes'[i] = nodes[i]
        /\ nodes'[Len(nodes) + 1] = held[a]
    BY <1>0, <1>1, <2>1, AppendProperties
  <2>3. Len(nodes) \in Nat /\ DOMAIN nodes = 1..Len(nodes) /\ DOMAIN nodes' = 1..Len(nodes')
    BY <2>1, <2>2, LenProperties
  <2> QED BY <2>2, <2>3
<1>8. NoneExcluded'
  <2>1. Ids(nodes') \subseteq Ids(nodes) \cup {node[a]} BY <1>1, <1>7 DEF Ids
  <2> QED BY <1>0, <1>1, <2>1 DEF IInv, NoneExcluded, round
<1>9. CopiesBounded'
  <2> SUFFICES ASSUME NEW n \in Node
               PROVE  Copies(nodes', n) + Cardinality(Adding(n)') <= Cardinality(Actor)
    BY DEF CopiesBounded, Adding
  <2> DEFINE S == {i \in DOMAIN nodes : nodes[i].id = n}
             T == {i \in DOMAIN nodes' : nodes'[i].id = n}
  <2>1. Adding(n) \in SUBSET Actor BY DEF Adding
  <2>2. /\ Copies(nodes, n) \in Nat /\ IsFiniteSet(S) /\ Copies(nodes, n) = Cardinality(S)
        /\ Copies(nodes', n) = Cardinality(T)
    BY Settled, CopiesType DEF Copies
  <2>3. Copies(nodes, n) + Cardinality(Adding(n)) <= Cardinality(Actor)
    BY DEF IInv, CopiesBounded
  <2>4. CASE n = node[a]
    <3>1. Adding(n)' = Adding(n) \ {a} /\ a \in Adding(n)
      BY <1>0, <1>2, <2>4 DEF Others, Adding
    <3>2. Cardinality(Adding(n)') = Cardinality(Adding(n)) - 1
      BY <2>1, <3>1, AddingType, FS_RemoveElement
    <3>3. T = S \cup {Len(nodes) + 1} /\ Len(nodes) + 1 \notin S BY <1>1, <1>7, <2>4
    <3>4. Cardinality(T) = Cardinality(S) + 1 BY <2>2, <3>3, FS_AddElement
    <3> HIDE DEF S, T
    <3> QED BY <2>1, <2>2, <2>3, <3>2, <3>4, AddingType
  <2>5. CASE n # node[a]
    <3>1. Adding(n)' = Adding(n) BY <1>0, <1>2, <2>5 DEF Others, Adding
    <3>2. T = S BY <1>1, <1>7, <2>5
    <3> QED BY <2>2, <2>3, <3>1, <3>2
  <2> QED BY <2>4, <2>5
<1> QED BY <1>0, <1>2, <1>3, <1>4, <1>5, <1>6, <1>7, <1>8, <1>9, ActorStep
-----------------------------------------------------------------------------
(* The steps of the loop. *)

LEMMA SameWithin == ASSUME IInv, UNCHANGED nodes PROVE Within(nodes', nodes)
  BY Settled, WithinItself

LEMMA SharedSame ==
  ASSUME IInv, UNCHANGED <<chain, round, count>>
  PROVE  Shared' /\ UNCHANGED left /\ todo' \subseteq todo \cup Managed
  BY Settled DEF Shared, Chain, Counts, Round, chain, round, count

LEMMA VisitStep ==
  ASSUME IInv, FetchNodes \/ (\E n \in Node : NextNode(n)) PROVE IInv'
<1>1. CASE FetchNodes
  <2>1. /\ Goto(Loop, "next") /\ nodes' = Sweep(nodes) /\ todo' = Managed \cap farm
        /\ pc[Loop] = "sleep" /\ UNCHANGED <<chain, lock, expired, offer, left, count>>
    BY <1>1 DEF FetchNodes, At
  <2>2. Within(nodes', nodes) BY <2>1, Settled, SweepFewer DEF Fewer
  <2>3. Shared'
    BY <2>1, Settled DEF Shared, Chain, Counts, Round, chain, count, Managed
  <2> QED BY <2>1, <2>2, <2>3, GotoStep DEF Calls, Actor
<1>2. ASSUME NEW n \in Node, NextNode(n) PROVE IInv'
  <2>1. /\ pc[Loop] = "next" /\ n \in todo /\ todo' = todo \ {n}
        /\ UNCHANGED <<chain, nodes, lock, expired, offer, left, count>>
    BY <1>2 DEF NextNode, At
  <2>2. Shared' BY <2>1, Settled DEF Shared, Chain, Counts, Round, chain, count
  <2>3. n \notin Excluded BY <2>1 DEF IInv, NoneExcluded
  <2>4. Loop \in Actor /\ ~Calls(Loop) BY <2>1 DEF Actor, Calls
  <2>5. CASE n \in Ids(nodes)
    <3> DEFINE v == View1(nodes, n)
    <3>1. Call(Loop, "refresh", n, v, None) BY <1>2, <2>5 DEF NextNode
    <3>2. v \in View BY <2>5, Settled, IdsType
    <3> HIDE DEF v
    <3>3. Within(nodes', nodes) /\ todo' \subseteq todo \cup Managed BY <2>1, SameWithin
    <3>4. UNCHANGED <<lock, expired, left>> BY <2>1
    <3> QED BY <2>2, <2>4, <3>1, <3>2, <3>3, <3>4, AskStep
  <2>6. CASE n \notin Ids(nodes)
    <3>1. Call(Loop, "load", n, None, None) BY <1>2, <2>6 DEF NextNode
    <3> QED BY <2>1, <2>2, <2>3, <2>4, <2>6, <3>1, LookupStep
  <2> QED BY <2>5, <2>6
<1> QED BY <1>1, <1>2

LEMMA RefreshStep == ASSUME IInv, Refresh PROVE IInv'
<1>1. PICK k \in 0..3 :
        /\ Costs(k < 3 /\ Refreshed(held[Loop], k).id \in farm
                  /\ ~(k = 2 /\ ~Answers(Refreshed(held[Loop], k).id)
                       /\ ~SkipsRmb(Refreshed(held[Loop], k).power)))
        /\ faults' <= MaxFaults
        /\ Hold(Loop, "store", Refreshed(held[Loop], k))
  BY DEF Refresh
<1>2. /\ pc[Loop] = "refresh" /\ Loop \in Actor
      /\ UNCHANGED <<chain, nodes, lock, expired, round, requests, claims, promised>>
  BY DEF Refresh, At, Actor
<1>3. held[Loop] \in View
  <2>1. HoldsOf(Loop) BY <1>2 DEF IInv, Holds
  <2> QED BY <1>2, <2>1 DEF HoldsOf, Recall
<1>4. Refreshed(held[Loop], k) \in View BY <1>3, RefreshedType DEF IInv
<1>5. Shared'
  <2>1. faults' = faults \/ faults' = faults + 1 BY <1>1 DEF Costs
  <2>2. faults' \in 0..MaxFaults BY <1>1, <2>1, Settled, BoundsAssumption DEF Counts
  <2> QED BY <1>2, <2>2, Settled DEF Shared, Chain, Counts, Round, chain, round
<1> QED BY <1>1, <1>2, <1>4, <1>5, SameWithin, HoldStep DEF Calls, round

(* Where the loop stands, and what it has at hand there. *)
LEMMA LoopHolds ==
  ASSUME IInv, pc[Loop] \in {"store", "wake", "reset", "periodic", "next", "raise", "lower", "restore"}
  PROVE  /\ Loop \in Actor /\ ~Calls(Loop)
         /\ pc[Loop] \in {"store", "reset", "periodic"} => held[Loop] \in View
         /\ pc[Loop] \in {"lower", "restore"} => left >= 1
<1>1. Loop \in Actor BY DEF Actor
<1>2. HoldsOf(Loop) BY <1>1 DEF IInv, Holds
<1>3. pc[Loop] \in {"store", "reset", "periodic"} => held[Loop] \in View
  BY <1>2 DEF HoldsOf, Recall
<1>4. pc[Loop] \in {"lower", "restore"} => left >= 1 BY DEF IInv, Left, Lowering
<1> QED BY <1>1, <1>3, <1>4 DEF Calls

LEMMA RecordStep == ASSUME IInv, Store \/ Wake \/ Reset \/ WakePeriodic \/ LetSleep PROVE IInv'
<1>0. /\ pc[Loop] \in {"store", "wake", "reset", "periodic"}
      /\ UNCHANGED <<chain, lock, expired, round, count>>
  BY DEF Store, Wake, Reset, WakePeriodic, LetSleep, At
<1>1. Loop \in Actor /\ ~Calls(Loop) /\ (pc[Loop] # "wake" => held[Loop] \in View)
  BY <1>0, LoopHolds
<1>2. Shared' /\ UNCHANGED left /\ todo' \subseteq todo \cup Managed BY <1>0, SharedSame
<1>3. Within(nodes', nodes)
  <2>1. CASE UNCHANGED nodes BY <2>1, SameWithin
  <2>2. CASE nodes' = updateNode(nodes, held[Loop]) /\ pc[Loop] # "wake"
    BY <1>1, <2>2, Settled, UpdateWithin
  <2> QED BY <2>1, <2>2 DEF Store, Wake, Reset, WakePeriodic, LetSleep, At
<1>4. CASE Store \/ Reset
  <2>1. PICK s \in {"wake", "periodic"} :
          Hold(Loop, s, IF s = "wake" THEN None ELSE held[Loop]) /\ pc[Loop] # "wake"
    BY <1>4 DEF Store, Reset, At
  <2> QED BY <1>0, <1>1, <1>2, <1>3, <2>1, HoldStep
<1>5. CASE Wake
  <2>1. CASE node[Loop] \notin Ids(nodes)
    <3>1. Goto(Loop, "next") BY <1>5, <2>1 DEF Wake
    <3> QED BY <1>0, <1>1, <1>2, <1>3, <3>1, GotoStep
  <2>2. CASE node[Loop] \in Ids(nodes)
    <3> DEFINE v == View1(nodes, node[Loop])
    <3>1. v \in View /\ v.id \in Node BY <2>2, Settled, IdsType
    <3>2. Call(Loop, "lockOn", v.id, v, "reset") \/ Hold(Loop, "reset", v)
      BY <1>5, <2>2 DEF Wake
    <3> HIDE DEF v
    <3> QED BY <1>0, <1>1, <1>2, <1>3, <3>1, <3>2, AskStep, HoldStep
  <2> QED BY <2>1, <2>2
<1>6. CASE WakePeriodic
  <2>1. Call(Loop, "lockOn", node[Loop], None, "next") BY <1>6 DEF WakePeriodic
  <2>2. node[Loop] \in Node \cup {None} BY <1>1, Settled DEF Locals
  <2> QED BY <1>0, <1>1, <1>2, <1>3, <2>1, <2>2, AskStep
<1>7. CASE LetSleep
  BY <1>0, <1>1, <1>2, <1>3, <1>7, GotoStep DEF LetSleep
<1> QED BY <1>4, <1>5, <1>6, <1>7

LEMMA LoadStep == ASSUME IInv, NEW a \in Actor, Load(a) \/ LoadFails(a) PROVE IInv'
<1>0. /\ pc[a] = "load" /\ UNCHANGED <<chain, nodes, lock, expired, round>>
      /\ UNCHANGED <<requests, claims, promised>>
  BY DEF Load, LoadFails, At, count
<1>1. ~Calls(a) /\ node[a] \in Node
  <2>1. HoldsOf(a) BY DEF IInv, Holds
  <2> QED BY <1>0, <2>1 DEF HoldsOf, Calls
<1>2. /\ Within(nodes', nodes) /\ todo' \subseteq todo \cup Managed
      /\ UNCHANGED <<lock, expired, left>>
  BY <1>0, SameWithin DEF round
<1>3. CASE Load(a)
  <2> DEFINE v == getNode(node[a])
  <2>1. v \in View /\ v.id = node[a] BY <1>1, LoadedType DEF IInv
  <2>2. Hold(a, "add", v) BY <1>3 DEF Load
  <2> HIDE DEF v
  <2>3. Shared' BY <1>3, SharedSame DEF Load
  <2> QED BY <1>0, <1>1, <1>2, <2>1, <2>2, <2>3, HoldStep
<1>4. CASE LoadFails(a)
  <2>1. Shared'
    <3>1. Costs(Loadable(node[a])) /\ (Loadable(node[a]) => MayFail) BY <1>4 DEF LoadFails
    <3>2. Counts'
      <4>1. CASE Loadable(node[a]) BY <1>0, <3>1, <4>1, Settled, CostsType DEF Costs
      <4>2. CASE ~Loadable(node[a])
        <5>1. faults' = faults BY <3>1, <4>2 DEF Costs
        <5> QED BY <1>0, <5>1, Settled DEF Counts
      <4> QED BY <4>1, <4>2
    <3> QED BY <1>0, <3>2, Settled DEF Shared, Chain, Round, chain, round
  <2>2. Hold(a, "wake", None) \/ Goto(a, "idle") BY <1>4 DEF LoadFails
  <2> QED BY <1>0, <1>1, <1>2, <2>1, <2>2, HoldStep, GotoStep
<1> QED BY <1>3, <1>4

LEMMA OnType == ASSUME NEW s \in Seq(View) PROVE Cardinality(On(s)) \in Nat
<1>1. DOMAIN s = 1..Len(s) /\ Len(s) \in Nat BY LenProperties
<1>2. On(s) \in SUBSET (1..Len(s)) /\ IsFiniteSet(1..Len(s)) BY <1>1, FS_Interval DEF On
<1>3. IsFiniteSet(On(s)) BY <1>2, FS_Subset
<1> QED BY <1>3, FS_CardinalityType

LEMMA RaiseStep == ASSUME IInv, RaisePower \/ PowerOnOne \/ EndRound PROVE IInv'
<1>0. /\ pc[Loop] \in {"next", "raise", "lower"}
      /\ UNCHANGED <<chain, nodes, lock, expired, todo, count>>
  BY DEF RaisePower, PowerOnOne, EndRound, At
<1>1. Loop \in Actor /\ ~Calls(Loop) BY <1>0, LoopHolds
<1>2. /\ Within(nodes', nodes) /\ todo' \subseteq todo \cup Managed /\ UNCHANGED <<lock, expired>>
  BY <1>0, SameWithin
<1>3. Chain' /\ Counts' BY <1>0, Settled DEF Chain, Counts, chain, count
<1>4. CASE RaisePower
  <2>1. Goto(Loop, "raise") /\ offer' \subseteq Ids(nodes) /\ UNCHANGED left
    BY <1>4 DEF RaisePower
  <2>2. offer' \subseteq Node BY <2>1, Settled, IdsType
  <2>3. Shared' BY <1>0, <1>3, <2>1, <2>2, Settled DEF Shared, Round
  <2> QED BY <1>1, <1>2, <2>1, <2>3, GotoStep
<1>5. CASE PowerOnOne
  <2>1. PICK n \in offer : offer' = offer \ {n} /\ Call(Loop, "lockOn", n, None, "raise")
    BY <1>5 DEF PowerOnOne
  <2>2. n \in Node /\ UNCHANGED left BY <1>5, Settled DEF Round, PowerOnOne
  <2>3. Shared' BY <1>0, <1>3, <2>1, <2>2, Settled DEF Shared, Round
  <2> QED BY <1>1, <1>2, <2>1, <2>2, <2>3, AskStep
<1>6. CASE EndRound
  <2>1. Goto(Loop, "sleep") /\ offer' = {} /\ left' = 0 BY <1>6 DEF EndRound
  <2>2. Shared' BY <1>0, <1>3, <2>1, Settled DEF Shared, Round
  <2> QED BY <1>1, <1>2, <2>1, <2>2, GotoStep
<1> QED BY <1>4, <1>5, <1>6

LEMMA LowerStep == ASSUME IInv, LowerPower \/ PowerOffOne \/ PowerOffFailed PROVE IInv'
<1>0. /\ pc[Loop] \in {"next", "lower", "restore"}
      /\ UNCHANGED <<chain, nodes, lock, expired, todo, count>>
  BY DEF LowerPower, PowerOffOne, PowerOffFailed, At
<1>1. Loop \in Actor /\ ~Calls(Loop) /\ (pc[Loop] # "next" => left >= 1) /\ left \in Nat
  BY <1>0, LoopHolds, Settled DEF Round
<1>2. /\ Within(nodes', nodes) /\ todo' \subseteq todo \cup Managed /\ UNCHANGED <<lock, expired>>
  BY <1>0, SameWithin
<1>3. Chain' /\ Counts' BY <1>0, Settled DEF Chain, Counts, chain, count
<1>4. CASE LowerPower
  <2>1. /\ Goto(Loop, "lower") /\ offer' \subseteq Ids(nodes)
        /\ left' = Cardinality(On(nodes)) /\ left' > 1
    BY <1>4 DEF LowerPower
  <2>2. offer' \subseteq Node /\ left' \in Nat BY <2>1, Settled, IdsType, OnType
  <2>3. Shared' BY <1>0, <1>3, <2>2, Settled DEF Shared, Round
  <2>4. left' >= 1 BY <2>1, <2>2
  <2> QED BY <1>1, <1>2, <2>1, <2>3, <2>4, GotoStep
<1>5. CASE PowerOffOne
  <2>1. PICK n \in offer :
          /\ offer' = offer \ {n}
          /\ Call(Loop, "lockOff", n, None, "lower") \/ Goto(Loop, "lower")
    BY <1>5 DEF PowerOffOne
  <2>2. n \in Node /\ left' \in Nat /\ left' >= 1
    BY <1>1, <1>5, Settled DEF Round, PowerOffOne, At
  <2>3. Shared' BY <1>0, <1>3, <2>1, <2>2, Settled DEF Shared, Round
  <2> QED BY <1>1, <1>2, <2>1, <2>2, <2>3, AskStep, GotoStep
<1>6. CASE PowerOffFailed
  <2>1. Goto(Loop, "lower") /\ offer' = offer /\ left' = left + 1 BY <1>6 DEF PowerOffFailed
  <2>2. left' \in Nat /\ left' >= 1 BY <1>1, <2>1
  <2>3. Shared' BY <1>0, <1>3, <2>1, <2>2, Settled DEF Shared, Round
  <2> QED BY <1>1, <1>2, <2>1, <2>2, <2>3, GotoStep
<1> QED BY <1>4, <1>5, <1>6

LEMMA LoopStepKeeps == ASSUME IInv, LoopStep PROVE IInv'
<1>1. Loop \in Actor BY DEF Actor
<1>2. CASE FetchNodes \/ (\E n \in Node : NextNode(n)) \/ Refresh BY <1>2, VisitStep, RefreshStep
<1>3. CASE Load(Loop) \/ LoadFails(Loop) \/ Add(Loop) BY <1>1, <1>3, LoadStep, AddStep
<1>4. CASE Store \/ Wake \/ Reset \/ WakePeriodic \/ LetSleep BY <1>4, RecordStep
<1>5. CASE RaisePower \/ PowerOnOne \/ EndRound BY <1>5, RaiseStep
<1>6. CASE LowerPower \/ PowerOffOne \/ PowerOffFailed BY <1>6, LowerStep
<1>7. CASE PowerCall(Loop) BY <1>1, <1>7, PowerCallStep
<1> QED BY <1>2, <1>3, <1>4, <1>5, <1>6, <1>7 DEF LoopStep
-----------------------------------------------------------------------------
(* The requests, and the world. *)

LEMMA RequestIs ==
  ASSUME IInv, NEW h \in Handler, NEW r, Request(h, r), claims' \in Claim
  PROVE  /\ h \in Actor /\ h # Loop /\ ~Calls(h) /\ Shared'
         /\ Within(nodes', nodes) /\ todo' \subseteq todo \cup Managed /\ todo' \subseteq todo
         /\ UNCHANGED <<nodes, lock, expired, left>>
<1>1. /\ pc[h] = "idle" /\ requests < MaxRequests /\ requests' = requests + 1
      /\ UNCHANGED <<chain, nodes, lock, expired, round, faults, promised>>
  BY DEF Request, At
<1>2. h \in Actor /\ h # Loop /\ ~Calls(h) BY <1>1, ActorsAssumption DEF Actor, Calls
<1>3. requests' \in 0..MaxRequests BY <1>1, Settled, BoundsAssumption DEF Counts
<1>4. Shared' BY <1>1, <1>3, Settled DEF Shared, Chain, Counts, Round, chain, round
<1> QED BY <1>1, <1>2, <1>4, SameWithin DEF round

LEMMA AsksStep == ASSUME IInv, NEW h \in Handler, Ask(h) PROVE IInv'
<1>1. CASE FindNode(h)
  <2>1. Request(h, "findnode") /\ claims < MaxClaims /\ claims' = claims + 1
    BY <1>1 DEF FindNode
  <2>2. claims' \in Claim BY <2>1, Settled, BoundsAssumption DEF Counts, Claim
  <2>3. PICK i \in DOMAIN nodes :
          LET v == [nodes[i] EXCEPT !.used = TRUE, !.claim = claims + 1]
          IN Call(h, "lockOn", v.id, v, "claim") \/ Call(h, "claim", v.id, v, None)
    BY <1>1 DEF FindNode
  <2> DEFINE v == [nodes[i] EXCEPT !.used = TRUE, !.claim = claims + 1]
  <2>4. v \in View /\ v.id \in Node
    <3>1. nodes[i] \in View BY Settled, LenProperties, ElementOfSeq
    <3> QED BY <2>1, <2>2, <3>1 DEF View
  <2>5. Call(h, "lockOn", v.id, v, "claim") \/ Call(h, "claim", v.id, v, None) BY <2>3
  <2> HIDE DEF v
  <2> QED BY <2>1, <2>2, <2>4, <2>5, RequestIs, AskStep
<1>2. ASSUME NEW n \in Node, IncludeNode(h, n) \/ PowerOff(h, n) \/ PowerOn(h, n) PROVE IInv'
  <2>1. PICK r : Request(h, r) BY <1>2 DEF IncludeNode, PowerOff, PowerOn
  <2>2. claims' \in Claim BY <1>2, Settled DEF IncludeNode, PowerOff, PowerOn, Counts
  <2>3. CASE IncludeNode(h, n)
    BY <2>1, <2>2, <2>3, RequestIs, LookupStep DEF IncludeNode, Includable
  <2>4. CASE PowerOff(h, n) \/ PowerOn(h, n)
    BY <2>1, <2>2, <2>4, RequestIs, AskStep DEF PowerOff, PowerOn
  <2> QED BY <1>2, <2>3, <2>4
<1> QED BY <1>1, <1>2 DEF Ask

LEMMA ServeStep == ASSUME IInv, NEW h \in Handler, Serve(h) PROVE IInv'
<1>1. h \in Actor /\ h # Loop BY ActorsAssumption DEF Actor
<1>2. HoldsOf(h) BY <1>1 DEF IInv, Holds
<1>3. CASE ClaimNode(h)
  <2>1. /\ pc[h] = "claim" /\ Goto(h, "idle") /\ nodes' = updateNode(nodes, held[h])
        /\ UNCHANGED <<chain, lock, expired, round, requests, claims, faults>>
        /\ promised' \subseteq promised \cup {<<node[h], held[h].claim>>}
        /\ promised' # promised => node[h] \in Ids(nodes)
    BY <1>3 DEF ClaimNode, At
  <2>2. held[h] \in View BY <1>2, <2>1 DEF HoldsOf, Recall
  <2>3. Within(nodes', nodes) BY <2>1, <2>2, Settled, UpdateWithin
  <2>4. promised' \subseteq Node \X Claim
    <3>1. node[h] \in Ids(nodes) => node[h] \in Node BY Settled, IdsType
    <3>2. held[h].claim \in Claim BY <2>2 DEF View
    <3> QED BY <2>1, <3>1, <3>2, Settled DEF Counts
  <2>5. Shared' BY <2>1, <2>4, Settled DEF Shared, Chain, Counts, Round, chain, round
  <2> QED BY <1>1, <2>1, <2>3, <2>5, GotoStep DEF Calls, round
<1>4. CASE DeleteNode(h)
  <2>1. /\ pc[h] = "delete" /\ Goto(h, "idle") /\ nodes' = deleteNode(nodes, node[h])
        /\ UNCHANGED <<chain, lock, expired, round, count>>
    BY <1>4 DEF DeleteNode, At
  <2>2. Within(nodes', nodes) BY <2>1, Settled, DeleteFewer DEF Fewer
  <2> QED BY <1>1, <2>1, <2>2, SharedSame, GotoStep DEF Calls
<1>5. CASE Load(h) \/ LoadFails(h) \/ Add(h) BY <1>1, <1>5, LoadStep, AddStep
<1>6. CASE PowerCall(h) BY <1>1, <1>6, PowerCallStep
<1> QED BY <1>3, <1>4, <1>5, <1>6 DEF Serve

LEMMA WorldStep == ASSUME IInv, World \/ UNCHANGED vars PROVE IInv'
<1>0. UNCHANGED bot
  BY DEF World, NodeFollows, TenantChanges, Leave, ClaimExpires, vars, bot
<1>1. Chain' /\ expired' \subseteq Claim
  <2>1. CASE \E n \in Node : NodeFollows(n)
    <3>1. PICK n \in Node : NodeFollows(n) BY <2>1
    <3>2. power[n].target \in UpDown BY Settled DEF Chain
    <3> QED BY <3>1, <3>2, Settled DEF NodeFollows, Chain, IInv, TypeOK
  <2>2. CASE \E n \in Node : TenantChanges(n)
    BY <2>2, Settled, TenancyAssumption DEF TenantChanges, Chain, Tenant, IInv, TypeOK
  <2>3. CASE (\E n \in Node : Leave(n)) \/ (\E c \in Claim : ClaimExpires(c)) \/ UNCHANGED vars
    BY <2>3, Settled DEF Leave, ClaimExpires, vars, chain, Chain, IInv, TypeOK
  <2> QED BY <2>1, <2>2, <2>3 DEF World
<1>2. TypeOK'
  BY <1>0, <1>1, Settled, TypeSplit DEF bot, round, count, TypeOK, Chain, Locals, Counts, Mutex, Round
<1>3. Holds' /\ Left' /\ NoneExcluded' /\ CopiesBounded'
  <2>1. Holds' BY <1>0 DEF bot, IInv, Holds, HoldsOf
  <2>2. Left' BY <1>0 DEF bot, round, IInv, Left, Lowering
  <2>3. NoneExcluded' BY <1>0 DEF bot, round, IInv, NoneExcluded
  <2>4. CopiesBounded' BY <1>0 DEF bot, IInv, CopiesBounded, Adding
  <2> QED BY <2>1, <2>2, <2>3, <2>4
<1> QED BY <1>2, <1>3 DEF IInv

LEMMA NextStep == IInv /\ [Next]_vars => IInv'
  BY LoopStepKeeps, AsksStep, ServeStep, WorldStep DEF Next
-----------------------------------------------------------------------------
(* The bot's records and its goroutines' locals are consistent at every    *)
(* step, whatever is asked of it and whatever the farm does.               *)
THEOREM Invariance == Spec => []IInv
<1>1. Init => IInv BY InitIInv
<1> QED BY <1>1, NextStep, PTL DEF Spec

(* Every state is one of the bot's; a goroutine calls the chain to power a *)
(* node on or off exactly while it holds the mutex.                        *)
THEOREM TypeCorrect == Spec => []TypeOK
<1>1. IInv => TypeOK BY DEF IInv
<1> QED BY <1>1, Invariance, PTL

(* A node is listed twice only by goroutines that looked it up together:   *)
(* no more often than there are goroutines.                                *)
THEOREM NodesNotPiledUp == Spec => []CopiesBounded
<1>1. IInv => CopiesBounded BY DEF IInv
<1> QED BY <1>1, Invariance, PTL

(* Only powerOn and powerOff set a power target, of the node they look up  *)
(* in the bot's list: never that of an excluded node.                      *)
THEOREM ExcludedUntouched == Spec => ExcludedLeftAlone
<1>1. IInv /\ [Next]_vars => LeftAlone
  <2> SUFFICES ASSUME IInv, [Next]_vars, NEW n \in Excluded PROVE power'[n].target = power[n].target
    BY DEF LeftAlone
  <2>1. n \in Node BY ConfigAssumption
  <2>2. power \in [Node -> [state: UpDown, target: UpDown]] BY Settled DEF Chain
  <2>3. CASE UNCHANGED power BY <2>3
  <2>4. CASE \E m \in Node : NodeFollows(m) BY <2>1, <2>2, <2>4 DEF NodeFollows
  <2>5. CASE \E a \in Actor : CallOn(a) \/ CallOnFails(a) \/ CallOff(a) \/ CallOffFails(a)
    <3>1. PICK a \in Actor : CallOn(a) \/ CallOnFails(a) \/ CallOff(a) \/ CallOffFails(a) BY <2>5
    <3>2. pc[a] \in {"callOn", "callOff"}
      BY <3>1 DEF CallOn, CallOnFails, CallOff, CallOffFails, At
    <3>3. node[a] # n BY <3>2 DEF IInv, Holds, HoldsOf
    <3>4. UNCHANGED power \/ \E t \in UpDown : SetTarget(node[a], t)
      BY <3>1 DEF CallOn, CallOnFails, CallOff, CallOffFails, UpDown
    <3> QED BY <2>1, <2>2, <3>3, <3>4 DEF SetTarget
  <2>6. ASSUME NEW a \in Actor, PowerCall(a) PROVE power'[n].target = power[n].target
    BY <2>3, <2>5, <2>6 DEF PowerCall, LockOn, LockOff, WriteOn, WriteOff, chain
  <2>7. CASE LoopStep
    BY <2>3, <2>6, <2>7 DEF LoopStep, FetchNodes, NextNode, Refresh, Store, Load, LoadFails, Add,
       Wake, Reset, WakePeriodic, LetSleep, RaisePower, PowerOnOne, LowerPower, PowerOffOne,
       PowerOffFailed, EndRound, chain, Actor
  <2>8. ASSUME NEW h \in Handler, Serve(h) \/ Ask(h) PROVE power'[n].target = power[n].target
    BY <2>3, <2>6, <2>8 DEF Serve, Ask, ClaimNode, Load, LoadFails, Add, DeleteNode, FindNode,
       IncludeNode, PowerOff, PowerOn, Request, chain, Actor
  <2>9. CASE World \/ UNCHANGED vars
    BY <2>3, <2>4, <2>9 DEF World, TenantChanges, Leave, ClaimExpires, vars, chain
  <2> QED BY <2>7, <2>8, <2>9 DEF Next
<1> QED BY <1>1, Invariance, PTL DEF Spec, ExcludedLeftAlone
-----------------------------------------------------------------------------
(***************************************************************************)
(* Where poweron is the only request and a failed call is followed by an   *)
(* answer, the loop alone adds nodes and powers them off.  With any other  *)
(* request this is lost: poweroff turns a node off that the loop has read  *)
(* as on, findnode writes a record it read over one that is going down,    *)
(* and includenode adds, beside the loop, a node that poweron dropped.     *)
(***************************************************************************)
PowerOnOnly == Requests \subseteq {"poweron"} /\ ~StatusFails

(* A request powers a node on, and drops it.                               *)
Serves(h) ==
  /\ pc[h] \in {"idle", "lockOn", "callOn", "writeOn", "delete"}
  /\ pc[h] \in {"lockOn", "callOn", "writeOn"} => ret[h] = "delete"
  /\ pc[h] = "writeOn" => copy[h].power = "wakingUp"

(* The bot has managed nodes alone, each once.                             *)
Once ==
  /\ todo \subseteq Managed /\ Ids(nodes) \subseteq Managed
  /\ \A n \in Node : Copies(nodes, n) <= 1

(* A record that says a node is on is right about the target, until        *)
(* powerOff has written what it did.                                       *)
Up(v) == v.power = "on" => power[v.id].target = "up"
Down(n) == n = node[Loop] /\ pc[Loop] \in {"writeOff", "writeOffErr"}
Truthful == \A v \in Entries(nodes) : Up(v) \/ Down(v.id)

(* So is the one the loop holds; and while powerOff asks the chain, there  *)
(* is another node that is on.                                             *)
Keeps == {"refresh", "store", "add", "reset", "periodic"}
LoopPart ==
  /\ pc[Loop] \in {"load", "add"} => node[Loop] \in Managed \ Ids(nodes)
  /\ pc[Loop] = "writeOn" => copy[Loop].power = "wakingUp"
  /\ pc[Loop] \in {"lockOff", "callOff", "writeOff", "writeOffErr"} => ret[Loop] = "lower"
  /\ pc[Loop] \in {"callOff", "writeOff", "writeOffErr"} => copy[Loop].id = node[Loop]
  /\ pc[Loop] \in {"writeOff", "writeOffErr"} => copy[Loop].power = "shuttingDown"
  /\ pc[Loop] \in Keeps \/ (pc[Loop] \in PowerStep /\ ret[Loop] = "reset") => Up(held[Loop])
  /\ pc[Loop] = "callOff" => \E v \in Entries(nodes) : v.power = "on" /\ v.id # node[Loop]

Sole == (\A h \in Handler : Serves(h)) /\ Once /\ Truthful /\ LoopPart

LEMMA UpdateEntries ==
  ASSUME NEW s \in Seq(View), NEW v \in View, Copies(s, v.id) <= 1
  PROVE  \A w \in Entries(updateNode(s, v)) : w = v \/ (w \in Entries(s) /\ w.id # v.id)
<1> DEFINE S == {i \in DOMAIN s : s[i].id = v.id}
<1>1. DOMAIN s = 1..Len(s) /\ Len(s) \in Nat BY LenProperties
<1>2. CASE v.id \notin Ids(s)
  <2>1. updateNode(s, v) = s BY <1>2 DEF updateNode
  <2>2. \A w \in Entries(s) : w.id # v.id BY <1>2 DEF Entries, Ids
  <2> QED BY <2>1, <2>2
<1>3. CASE v.id \in Ids(s)
  <2> DEFINE k == First(s, v.id)
             t == [s EXCEPT ![k] = v]
  <2>1. k \in 1..Len(s) /\ s[k].id = v.id BY <1>3, FirstIs
  <2> HIDE DEF k
  <2>2. ASSUME NEW i \in 1..Len(s), i # k, s[i].id = v.id PROVE FALSE
    <3>1. {i, k} \subseteq S BY <1>1, <2>1, <2>2
    <3>2. IsFiniteSet(S) /\ Cardinality(S) <= 1 BY CopiesType DEF Copies
    <3>3. Cardinality({i, k}) = 2
      <4>1. Cardinality({k}) = 1 /\ IsFiniteSet({k}) BY FS_Singleton
      <4>2. {i, k} = {k} \cup {i} /\ i \notin {k} BY <2>2
      <4>3. Cardinality({k} \cup {i}) = Cardinality({k}) + 1 BY <4>1, <4>2, FS_AddElement
      <4>4. Cardinality({i, k}) = Cardinality({k}) + 1 BY <4>2, <4>3, Zenon
      <4> QED BY <4>1, <4>4
    <3> HIDE DEF S
    <3>4. Cardinality({i, k}) <= Cardinality(S) /\ Cardinality(S) \in Nat
      BY <3>1, <3>2, FS_Subset, FS_CardinalityType
    <3> QED BY <3>2, <3>3, <3>4
  <2>3. t \in Seq(View) /\ Len(t) = Len(s) /\ \A i \in 1..Len(s) : t[i] = IF i = k THEN v ELSE s[i]
    BY <2>1, ExceptSeq
  <2>4. DOMAIN t = 1..Len(s) BY <2>3, LenProperties
  <2>5. updateNode(s, v) = t BY <1>3 DEF updateNode, k
  <2> HIDE DEF t
  <2> SUFFICES ASSUME NEW i \in 1..Len(s) PROVE t[i] = v \/ (t[i] \in Entries(s) /\ t[i].id # v.id)
    BY <2>4, <2>5 DEF Entries
  <2>6. CASE i # k
    <3>1. t[i] = s[i] /\ s[i].id # v.id BY <2>2, <2>3, <2>6
    <3> QED BY <1>1, <3>1 DEF Entries
  <2> QED BY <2>3, <2>6
<1> QED BY <1>2, <1>3

LEMMA AppendEntries ==
  ASSUME NEW s \in Seq(View), NEW v \in View, v.id \notin Ids(s)
  PROVE  /\ Entries(Append(s, v)) = Entries(s) \cup {v} /\ Ids(Append(s, v)) = Ids(s) \cup {v.id}
         /\ \A n \in Node : Copies(s, n) <= 1 => Copies(Append(s, v), n) <= 1
<1> DEFINE t == Append(s, v)
<1>1. DOMAIN s = 1..Len(s) /\ Len(s) \in Nat BY LenProperties
<1>2. /\ t \in Seq(View) /\ Len(t) = Len(s) + 1
      /\ \A i \in 1..Len(s) : t[i] = s[i]
      /\ t[Len(s) + 1] = v
  BY AppendProperties
<1>3. DOMAIN t = 1..(Len(s) + 1) BY <1>2, LenProperties
<1> HIDE DEF t
<1>4. DOMAIN t = DOMAIN s \cup {Len(s) + 1} BY <1>1, <1>3
<1>5. Entries(t) = Entries(s) \cup {v} BY <1>1, <1>2, <1>4 DEF Entries
<1>6. Ids(t) = Ids(s) \cup {v.id} BY <1>1, <1>2, <1>4 DEF Ids
<1>7. ASSUME NEW n \in Node, Copies(s, n) <= 1 PROVE Copies(t, n) <= 1
  <2>1. CASE n = v.id
    <3>1. {i \in DOMAIN t : t[i].id = n} = {Len(s) + 1} BY <1>1, <1>2, <1>4, <2>1 DEF Ids
    <3>2. Cardinality({Len(s) + 1}) = 1 BY FS_Singleton
    <3>3. Copies(t, n) = 1 BY <3>1, <3>2, Zenon DEF Copies
    <3> QED BY <3>3
  <2>2. CASE n # v.id
    <3>1. {i \in DOMAIN t : t[i].id = n} = {i \in DOMAIN s : s[i].id = n} BY <1>1, <1>2, <1>4, <2>2
    <3> QED BY <1>7, <3>1 DEF Copies
  <2> QED BY <2>1, <2>2
<1> QED BY <1>5, <1>6, <1>7 DEF t

(* What a list of records may become: none of them new and counted on      *)
(* without reason, none of a node twice.                                   *)
Kept(t) ==
  /\ t \in Seq(View) /\ Ids(t) \subseteq Managed
  /\ \A n \in Node : Copies(t, n) <= 1
  /\ \A w \in Entries(t) : w \in Entries(nodes) \/ Up(w)

LEMMA SameKept == ASSUME IInv, Once PROVE Kept(nodes)
BY Settled DEF Once, Kept

LEMMA FewerKept == ASSUME IInv, Once, NEW t, Fewer(t, nodes) PROVE Kept(t) /\ Ids(t) \subseteq Ids(nodes)
<1>1. \A n \in Node : Copies(nodes, n) \in Nat /\ Copies(t, n) \in Nat
  BY Settled, CopiesType DEF Fewer, Within
<1> QED BY <1>1 DEF Fewer, Within, Once, Kept

LEMMA UpdateKept ==
  ASSUME IInv, Once, NEW v \in View, Up(v)
  PROVE  Kept(updateNode(nodes, v)) /\ Ids(updateNode(nodes, v)) \subseteq Ids(nodes)
<1>1. Within(updateNode(nodes, v), nodes) BY Settled, UpdateWithin
<1>2. \A n \in Node : Copies(nodes, n) \in Nat /\ Copies(updateNode(nodes, v), n) \in Nat
  BY <1>1, Settled, CopiesType DEF Within
<1>3. v.id \in Node BY DEF View
<1>4. \A w \in Entries(updateNode(nodes, v)) : w = v \/ w \in Entries(nodes)
  BY <1>3, Settled, UpdateEntries DEF Once
<1> QED BY <1>1, <1>2, <1>4 DEF Within, Once, Kept

LEMMA EntryOf == ASSUME IInv, NEW n \in Ids(nodes) PROVE View1(nodes, n) \in Entries(nodes) /\ View1(nodes, n).id = n
<1>1. First(nodes, n) \in 1..Len(nodes) /\ nodes[First(nodes, n)].id = n BY Settled, FirstIs
<1>2. DOMAIN nodes = 1..Len(nodes) BY Settled, LenProperties
<1> QED BY <1>1, <1>2 DEF View1, Entries

LEMMA EntryType == ASSUME IInv, NEW v \in Entries(nodes) PROVE v \in View /\ v.id \in Ids(nodes)
<1>1. DOMAIN nodes = 1..Len(nodes) /\ \A i \in 1..Len(nodes) : nodes[i] \in View
  BY Settled, LenProperties, ElementOfSeq
<1> QED BY <1>1 DEF Entries, Ids

(* No target goes down.                                                    *)
Raised == \A n \in Node : power[n].target = "up" => power'[n].target = "up"

LEMMA UpStays == ASSUME Raised, NEW v, v.id \in Node, Up(v) PROVE Up(v)'
<1>1. v' = v OBVIOUS
<1> QED BY DEF Raised, Up

LEMMA SetsTarget ==
  ASSUME Chain, NEW n \in Node, NEW t, SetTarget(n, t)
  PROVE  \A m \in Node : power'[m].target = IF m = n THEN t ELSE power[m].target
<1>1. power \in [Node -> [state: UpDown, target: UpDown]] BY DEF Chain
<1>2. power' = [power EXCEPT ![n] = [power[n] EXCEPT !.target = t]] BY DEF SetTarget
<1>3. power'[n].target = t BY <1>1, <1>2
<1>4. \A m \in Node \ {n} : power'[m] = power[m] BY <1>1, <1>2
<1> QED BY <1>3, <1>4

(* What a request does, or the world, takes nothing from what the loop has *)
(* at hand.                                                                *)
LEMMA HandlerKeeps ==
  ASSUME IInv, Sole, NEW h \in Handler, Others(h), Serves(h)', Raised, UNCHANGED todo,
         Kept(nodes'), Ids(nodes') \subseteq Ids(nodes), pc[Loop] = "callOff" => UNCHANGED nodes
  PROVE  Sole'
<1>0. Loop \in Actor \ {h} /\ HoldsOf(Loop) BY ActorsAssumption DEF Actor, IInv, Holds
<1>1. /\ pc'[Loop] = pc[Loop] /\ node'[Loop] = node[Loop] /\ ret'[Loop] = ret[Loop]
      /\ held'[Loop] = held[Loop] /\ copy'[Loop] = copy[Loop]
  BY <1>0 DEF Others
<1>2. ASSUME NEW g \in Handler PROVE Serves(g)'
  <2>1. CASE g = h BY <2>1
  <2>2. CASE g # h
    <3>1. Serves(g) /\ g \in Actor \ {h} BY <2>2 DEF Sole, Actor
    <3> QED BY <3>1 DEF Others, Serves
  <2> QED BY <2>1, <2>2
<1>3. Once' BY DEF Sole, Once, Kept
<1>4. Truthful'
  <2> SUFFICES ASSUME NEW v \in Entries(nodes') PROVE Up(v)' \/ Down(v.id)' BY DEF Truthful, Entries
  <2>1. v.id \in Node
    <3>1. v.id \in Ids(nodes') BY DEF Entries, Ids
    <3> QED BY <3>1 DEF Kept, Managed
  <2>2. CASE Up(v) BY <2>1, <2>2, UpStays
  <2>3. CASE v \in Entries(nodes) /\ ~Up(v)
    <3>1. Down(v.id) BY <2>3 DEF Sole, Truthful
    <3> QED BY <1>1, <3>1 DEF Down
  <2> QED BY <2>2, <2>3 DEF Kept
<1>5. LoopPart'
  <2>1. LoopPart BY DEF Sole
  <2>2. Up(held[Loop]) /\ held[Loop] \in View => Up(held[Loop])'
    <3> SUFFICES ASSUME Up(held[Loop]), held[Loop] \in View PROVE Up(held[Loop])' OBVIOUS
    <3>1. held[Loop].id \in Node BY DEF View
    <3> QED BY <1>1, <3>1 DEF Up, Raised
  <2>3. pc[Loop] \in Keeps \/ (pc[Loop] \in PowerStep /\ ret[Loop] = "reset") => held[Loop] \in View
    BY <1>0 DEF HoldsOf, Keeps, Recall
  <2>4. pc[Loop] = "callOff" => Entries(nodes') = Entries(nodes) BY DEF Entries
  <2> QED BY <1>1, <2>1, <2>2, <2>3, <2>4 DEF LoopPart, Entries
<1> QED BY <1>2, <1>3, <1>4, <1>5 DEF Sole

LEMMA LoopKeeps ==
  ASSUME IInv, Sole, Others(Loop), Raised, todo' \subseteq Managed, Kept(nodes'),
         pc[Loop] \notin {"writeOff", "writeOffErr"}, LoopPart'
  PROVE  Sole'
<1>1. ASSUME NEW g \in Handler PROVE Serves(g)'
  <2>1. Serves(g) /\ g \in Actor \ {Loop} BY ActorsAssumption DEF Sole, Actor
  <2> QED BY <2>1 DEF Others, Serves
<1>2. Once' BY DEF Sole, Once, Kept
<1>3. Truthful'
  <2> SUFFICES ASSUME NEW v \in Entries(nodes') PROVE Up(v)' BY DEF Truthful, Entries
  <2>1. v.id \in Node
    <3>1. v.id \in Ids(nodes') BY DEF Entries, Ids
    <3> QED BY <3>1 DEF Kept, Managed
  <2>2. Up(v) BY DEF Kept, Sole, Truthful, Down
  <2> QED BY <2>1, <2>2, UpStays
<1> QED BY <1>1, <1>2, <1>3 DEF Sole

LEMMA Unraised == ASSUME UNCHANGED power PROVE Raised
BY DEF Raised

(* Where the loop has nothing at hand.                                     *)
Bare == {"idle", "sleep", "next", "wake", "raise", "lower", "restore", "claim", "delete"}

LEMMA BarePart == ASSUME pc'[Loop] \in Bare PROVE LoopPart'
BY DEF Bare, LoopPart, Keeps, PowerStep

LEMMA LoopGoto ==
  ASSUME IInv, Sole, pc[Loop] \notin {"writeOff", "writeOffErr"},
         NEW s \in {"sleep", "next", "raise", "lower"}, Goto(Loop, s),
         UNCHANGED power, todo' \subseteq Managed, Kept(nodes')
  PROVE  Sole'
<1>1. Others(Loop) /\ pc'[Loop] = s
  <2>1. s \in Step /\ Loop \in Actor BY DEF Step, Actor
  <2> QED BY <2>1, Settled, GotoIs
<1>2. LoopPart'
  <2>1. pc'[Loop] \in Bare BY <1>1 DEF Bare
  <2> QED BY <2>1, BarePart
<1> QED BY <1>1, <1>2, LoopKeeps, Unraised

LEMMA LoopHold ==
  ASSUME IInv, Sole, pc[Loop] \notin {"writeOff", "writeOffErr"},
         NEW s \in {"store", "wake", "reset", "periodic", "add"}, NEW v \in View \cup {None}, Hold(Loop, s, v),
         s # "wake" => v \in View /\ Up(v), s = "add" => node[Loop] \in Managed \ Ids(nodes'),
         UNCHANGED power, todo' \subseteq Managed, Kept(nodes')
  PROVE  Sole'
<1>1. Others(Loop) /\ pc'[Loop] = s /\ held'[Loop] = v /\ node'[Loop] = node[Loop]
  <2>1. s \in Step /\ Loop \in Actor BY DEF Step, Actor
  <2> QED BY <2>1, Settled, HoldIs
<1>2. LoopPart'
  <2>1. CASE s = "wake"
    <3>1. pc'[Loop] \in Bare BY <1>1, <2>1 DEF Bare
    <3> QED BY <3>1, BarePart
  <2>2. CASE s # "wake"
    <3>1. Up(held[Loop])' BY <1>1, <2>2 DEF Up
    <3> QED BY <1>1, <2>2, <3>1 DEF LoopPart, Ids
  <2> QED BY <2>1, <2>2
<1> QED BY <1>1, <1>2, LoopKeeps, Unraised

LEMMA LoopCall ==
  ASSUME IInv, Sole, pc[Loop] \notin {"writeOff", "writeOffErr"},
         NEW s \in {"refresh", "load", "lockOn", "lockOff"}, NEW n \in Node \cup {None},
         NEW v \in View \cup {None}, NEW r \in Step \cup {None}, Call(Loop, s, n, v, r),
         s = "refresh" \/ (s = "lockOn" /\ r = "reset") => v \in View /\ Up(v),
         s = "load" => n \in Managed \ Ids(nodes'), s = "lockOff" => r = "lower",
         UNCHANGED power, todo' \subseteq Managed, Kept(nodes')
  PROVE  Sole'
<1>1. Others(Loop) /\ pc'[Loop] = s /\ held'[Loop] = v /\ node'[Loop] = n /\ ret'[Loop] = r
  <2>1. s \in Step /\ Loop \in Actor BY DEF Step, Actor
  <2> QED BY <2>1, Settled, CallIs
<1>2. LoopPart'
  <2>1. v \in View /\ Up(v) => Up(held[Loop])' BY <1>1 DEF Up
  <2> QED BY <1>1, <2>1 DEF LoopPart, Keeps, PowerStep, Ids
<1> QED BY <1>1, <1>2, LoopKeeps, Unraised
-----------------------------------------------------------------------------
LEMMA ReturnsTo ==
  ASSUME IInv, NEW a \in Actor, pc[a] \in PowerStep, Returns(a) \/ Fails(a)
  PROVE  /\ Others(a) /\ pc'[a] \in Bare \cup {"reset"}
         /\ pc'[a] = "reset" => ret[a] = "reset" /\ held'[a] = held[a]
         /\ ret[a] = "delete" => pc'[a] \in {"delete", "idle"}
<1>0. Locals /\ HoldsOf(a) BY Settled DEF IInv, Holds
<1>1. ret[a] \in {"claim", "delete", "reset", "next", "raise", "lower"} BY <1>0 DEF HoldsOf
<1>2. CASE Returns(a)
  <2>1. ret[a] \in Step BY <1>1 DEF Step
  <2>2. Others(a) /\ pc'[a] = ret[a] /\ (ret[a] = "reset" => held'[a] = held[a])
    BY <1>0, <1>2, <2>1, GotoIs DEF Returns
  <2> QED BY <1>1, <2>2 DEF Bare
<1>3. CASE Fails(a)
  <2>1. OnError(ret[a]) \in {"idle", "restore", "reset", "next", "raise"} BY <1>1 DEF OnError
  <2>2. OnError(ret[a]) \in Step BY <2>1 DEF Step
  <2>3. Others(a) /\ pc'[a] = OnError(ret[a]) /\ (OnError(ret[a]) = "reset" => held'[a] = held[a])
    BY <1>0, <1>3, <2>1, <2>2, GotoIs DEF Fails
  <2>4. (OnError(ret[a]) = "reset" => ret[a] = "reset") /\ (ret[a] = "delete" => OnError(ret[a]) = "idle")
    BY <1>1 DEF OnError
  <2> QED BY <2>1, <2>3, <2>4 DEF Bare
<1> QED BY <1>2, <1>3

(* A call of powerOn or powerOff ends: what the loop holds is still right. *)
LEMMA ReturnsPart ==
  ASSUME IInv, Sole, pc[Loop] \in PowerStep, Returns(Loop) \/ Fails(Loop), Raised \/ ret[Loop] = "lower"
  PROVE  Others(Loop) /\ LoopPart'
<1>1. Loop \in Actor BY DEF Actor
<1>2. /\ Others(Loop) /\ pc'[Loop] \in Bare \cup {"reset"}
      /\ pc'[Loop] = "reset" => ret[Loop] = "reset" /\ held'[Loop] = held[Loop]
  BY <1>1, ReturnsTo
<1>3. CASE pc'[Loop] \in Bare BY <1>2, <1>3, BarePart
<1>4. CASE pc'[Loop] = "reset"
  <2>1. Up(held[Loop]) BY <1>2, <1>4 DEF Sole, LoopPart
  <2>2. held[Loop].id \in Node
    <3>1. HoldsOf(Loop) BY <1>1 DEF IInv, Holds
    <3>2. held[Loop] \in View BY <1>2, <1>4, <3>1 DEF HoldsOf, Recall
    <3> QED BY <3>2 DEF View
  <2>3. Up(held[Loop])' BY <1>2, <1>4, <2>1, <2>2 DEF Up, Raised
  <2> QED BY <1>2, <1>4, <2>3 DEF LoopPart
<1> QED BY <1>2, <1>3, <1>4

LEMMA WorkPart ==
  ASSUME IInv, Sole, pc[Loop] \in PowerStep, Raised \/ ret[Loop] = "lower",
         NEW s \in {"callOn", "callOff", "writeOn", "writeOff", "writeOffErr"}, NEW v \in View, Work(Loop, s, v),
         s = "writeOn" => v.power = "wakingUp",
         s \in {"callOff", "writeOff", "writeOffErr"} => v.id = node[Loop] /\ ret[Loop] = "lower",
         s \in {"writeOff", "writeOffErr"} => v.power = "shuttingDown",
         s = "callOff" => \E w \in Entries(nodes') : w.power = "on" /\ w.id # node[Loop]
  PROVE  Others(Loop) /\ pc'[Loop] = s /\ node'[Loop] = node[Loop] /\ LoopPart'
<1>0. Loop \in Actor /\ s \in Step BY DEF Actor, Step
<1>1. /\ Others(Loop) /\ pc'[Loop] = s /\ copy'[Loop] = v /\ node'[Loop] = node[Loop]
      /\ ret'[Loop] = ret[Loop] /\ held'[Loop] = held[Loop]
  BY <1>0, Settled, WorkIs
<1>2. ret[Loop] = "reset" => Up(held[Loop])'
  <2> SUFFICES ASSUME ret[Loop] = "reset" PROVE Up(held[Loop])' OBVIOUS
  <2>1. Up(held[Loop]) BY DEF Sole, LoopPart
  <2>2. HoldsOf(Loop) BY <1>0 DEF IInv, Holds
  <2>3. held[Loop] \in View BY <2>2 DEF HoldsOf, Recall
  <2>4. held[Loop].id \in Node BY <2>3 DEF View
  <2> QED BY <1>1, <2>1, <2>4 DEF Up, Raised
<1>3. LoopPart' BY <1>1, <1>2 DEF LoopPart, Keeps, Entries
<1> QED BY <1>1, <1>3

(* powerOn, by the loop. *)
LEMMA LoopPowersOn ==
  ASSUME IInv, Sole, LockOn(Loop) \/ CallOn(Loop) \/ CallOnFails(Loop) \/ WriteOn(Loop) PROVE Sole'
<1>0. /\ pc[Loop] \in {"lockOn", "callOn", "writeOn"} /\ pc[Loop] \in PowerStep /\ Loop \in Actor
      /\ UNCHANGED <<tenant, farm, round>>
  BY DEF LockOn, CallOn, CallOnFails, WriteOn, At, PowerStep, Actor, chain
<1>1. HoldsOf(Loop) /\ Once /\ LoopPart BY <1>0 DEF IInv, Holds, Sole
<1>2. todo' \subseteq Managed BY <1>0, <1>1 DEF round, Once
<1>3. CASE LockOn(Loop)
  <2>1. UNCHANGED <<power, nodes>> BY <1>3 DEF LockOn, chain
  <2>2. Raised /\ Kept(nodes') BY <2>1, <1>1, Unraised, SameKept
  <2>3. CASE Returns(Loop) \/ Fails(Loop)
    BY <1>0, <1>2, <2>2, <2>3, ReturnsPart, LoopKeeps
  <2>4. CASE node[Loop] \in Ids(nodes) /\ Work(Loop, "callOn", View1(nodes, node[Loop]))
    <3>1. View1(nodes, node[Loop]) \in View BY <2>4, Settled, IdsType
    <3>2. Others(Loop) /\ LoopPart' BY <1>0, <2>2, <2>4, <3>1, WorkPart
    <3> QED BY <1>0, <1>2, <2>2, <3>2, LoopKeeps
  <2> QED BY <1>3, <2>3, <2>4 DEF LockOn
<1>4. CASE CallOn(Loop) \/ CallOnFails(Loop)
  <2>1. pc[Loop] = "callOn" /\ UNCHANGED nodes BY <1>4 DEF CallOn, CallOnFails, At
  <2>2. node[Loop] \in Node /\ copy[Loop] \in View BY <2>1, <1>1 DEF HoldsOf, PowerStep
  <2>3. Raised
    <3>1. UNCHANGED power \/ SetTarget(node[Loop], "up") BY <1>4 DEF CallOn, CallOnFails
    <3> QED BY <2>2, <3>1, Settled, SetsTarget, Unraised DEF Raised
  <2>4. Kept(nodes') BY <2>1, <1>1, SameKept
  <2>5. CASE Fails(Loop) BY <1>0, <1>2, <2>3, <2>4, <2>5, ReturnsPart, LoopKeeps
  <2>6. CASE Work(Loop, "writeOn", [copy[Loop] EXCEPT !.power = "wakingUp"])
    <3> DEFINE v == [copy[Loop] EXCEPT !.power = "wakingUp"]
    <3>1. v \in View /\ v.power = "wakingUp" BY <2>2 DEF View, PowerState
    <3>2. Work(Loop, "writeOn", v) BY <2>6
    <3> HIDE DEF v
    <3>3. Others(Loop) /\ LoopPart' BY <1>0, <2>3, <3>1, <3>2, WorkPart
    <3> QED BY <1>0, <1>2, <2>3, <2>4, <3>3, LoopKeeps
  <2> QED BY <1>4, <2>5, <2>6 DEF CallOn, CallOnFails
<1>5. CASE WriteOn(Loop)
  <2>1. /\ pc[Loop] = "writeOn" /\ nodes' = updateNode(nodes, copy[Loop]) /\ UNCHANGED power
        /\ Returns(Loop) \/ Fails(Loop)
    BY <1>5 DEF WriteOn, At, chain
  <2>2. copy[Loop] \in View /\ Up(copy[Loop]) BY <2>1, <1>1 DEF HoldsOf, PowerStep, LoopPart, Up
  <2>3. Kept(nodes') BY <2>1, <2>2, <1>1, UpdateKept
  <2> QED BY <1>0, <1>2, <2>1, <2>3, Unraised, ReturnsPart, LoopKeeps
<1> QED BY <1>3, <1>4, <1>5

(* powerOff: its check of two nodes finds one beside the node itself.      *)
LEMMA AnotherOn ==
  ASSUME IInv, Once, NEW n \in Node, OthersOn
  PROVE  \E w \in Entries(nodes) : w.power = "on" /\ w.id # n
<1> SUFFICES ASSUME \A w \in Entries(nodes) : w.power = "on" => w.id = n PROVE FALSE OBVIOUS
<1>1. On(nodes) \subseteq {i \in DOMAIN nodes : nodes[i].id = n} BY DEF On, Entries
<1>2. /\ IsFiniteSet({i \in DOMAIN nodes : nodes[i].id = n}) /\ Copies(nodes, n) \in Nat
      /\ Copies(nodes, n) <= 1
  BY Settled, CopiesType DEF Once
<1>3. Cardinality(On(nodes)) <= Cardinality({i \in DOMAIN nodes : nodes[i].id = n})
  BY <1>1, <1>2, FS_Subset
<1>4. Cardinality(On(nodes)) <= Copies(nodes, n) BY <1>3 DEF Copies
<1>5. Cardinality(On(nodes)) \in Nat BY Settled, OnType
<1> QED BY <1>2, <1>4, <1>5 DEF OthersOn

LEMMA LoopLocksOff == ASSUME IInv, Sole, LockOff(Loop) PROVE Sole'
<1>0. /\ pc[Loop] = "lockOff" /\ pc[Loop] \in PowerStep /\ Loop \in Actor
      /\ UNCHANGED <<power, nodes, todo>>
  BY DEF LockOff, At, PowerStep, Actor, chain, round
<1>1. Once /\ LoopPart /\ ret[Loop] = "lower" BY <1>0 DEF Sole, LoopPart
<1>2. todo' \subseteq Managed /\ Raised /\ Kept(nodes') BY <1>0, <1>1, Unraised, SameKept DEF Once
<1>3. CASE Returns(Loop) \/ Fails(Loop) BY <1>0, <1>2, <1>3, ReturnsPart, LoopKeeps
<1>4. CASE /\ node[Loop] \in Ids(nodes) /\ OthersOn
           /\ Work(Loop, "callOff", View1(nodes, node[Loop]))
  <2> DEFINE v == View1(nodes, node[Loop])
  <2>1. v \in View /\ v.id = node[Loop] /\ node[Loop] \in Node BY <1>4, Settled, IdsType
  <2>2. Work(Loop, "callOff", v) BY <1>4
  <2> HIDE DEF v
  <2>3. \E w \in Entries(nodes') : w.power = "on" /\ w.id # node[Loop]
    BY <1>0, <1>1, <1>4, <2>1, AnotherOn
  <2>4. Others(Loop) /\ LoopPart' BY <1>0, <1>1, <1>2, <2>1, <2>2, <2>3, WorkPart
  <2> QED BY <1>0, <1>2, <2>4, LoopKeeps
<1> QED BY <1>3, <1>4 DEF LockOff

(* The chain is asked: a node that is to be down is written down next.     *)
LEMMA LoopCallsOff == ASSUME PowerOnOnly, IInv, Sole, CallOff(Loop) \/ CallOffFails(Loop) PROVE Sole'
<1>0. /\ pc[Loop] = "callOff" /\ pc[Loop] \in PowerStep /\ Loop \in Actor
      /\ UNCHANGED <<tenant, farm, nodes, round>>
  BY DEF CallOff, CallOffFails, At, PowerStep, Actor
<1>1. HoldsOf(Loop) /\ Once /\ LoopPart /\ Truthful BY <1>0 DEF IInv, Holds, Sole
<1>2. /\ node[Loop] \in Node /\ copy[Loop] \in View /\ copy[Loop].id = node[Loop] /\ ret[Loop] = "lower"
  BY <1>0, <1>1 DEF HoldsOf, PowerStep, LoopPart
<1>3. todo' \subseteq Managed /\ Kept(nodes') BY <1>0, <1>1, SameKept DEF round, Once
<1>4. UNCHANGED power \/ SetTarget(node[Loop], "down") BY DEF CallOff, CallOffFails
<1>5. CASE \E s \in {"writeOff", "writeOffErr"} : Work(Loop, s, [copy[Loop] EXCEPT !.power = "shuttingDown"])
  <2>1. PICK s \in {"writeOff", "writeOffErr"} : Work(Loop, s, [copy[Loop] EXCEPT !.power = "shuttingDown"])
    BY <1>5
  <2> DEFINE v == [copy[Loop] EXCEPT !.power = "shuttingDown"]
  <2>2. v \in View /\ v.power = "shuttingDown" /\ v.id = node[Loop] BY <1>2 DEF View, PowerState
  <2>3. Work(Loop, s, v) BY <2>1
  <2> HIDE DEF v
  <2>4. Others(Loop) /\ pc'[Loop] = s /\ node'[Loop] = node[Loop] /\ LoopPart'
    BY <1>0, <1>2, <2>2, <2>3, WorkPart
  <2>5. ASSUME NEW g \in Handler PROVE Serves(g)'
    <3>1. Serves(g) /\ g \in Actor \ {Loop} BY ActorsAssumption DEF Sole, Actor
    <3> QED BY <2>4, <3>1 DEF Others, Serves
  <2>6. Once' BY <1>3 DEF Once, Kept
  <2>7. Truthful'
    <3> SUFFICES ASSUME NEW w \in Entries(nodes), w.id # node[Loop] PROVE Up(w)'
      BY <1>0, <2>4 DEF Truthful, Down, Entries
    <3>1. Up(w) BY <1>0, <1>1 DEF Truthful, Down
    <3>2. w.id \in Node BY EntryType, Settled, IdsType
    <3>3. power'[w.id].target = power[w.id].target BY <1>2, <1>4, <3>2, Settled, SetsTarget
    <3> QED BY <3>1, <3>3 DEF Up
  <2> QED BY <2>4, <2>5, <2>6, <2>7 DEF Sole
<1>6. CASE Fails(Loop) /\ UNCHANGED power
  BY <1>0, <1>3, <1>6, Unraised, ReturnsPart, LoopKeeps
<1>7. CASE CallOffFails(Loop) /\ ~(\E s \in {"writeOff", "writeOffErr"} :
                                    Work(Loop, s, [copy[Loop] EXCEPT !.power = "shuttingDown"]))
  <2>1. /\ Fails(Loop)
        /\ \/ "down" \notin {power'[node[Loop]].state, power'[node[Loop]].target}
           \/ node[Loop] \notin farm
    BY <1>7 DEF CallOffFails, PowerOnOnly
  <2>2. UNCHANGED power \/ (node[Loop] \in farm /\ SetTarget(node[Loop], "down"))
    BY <1>7 DEF CallOffFails
  <2>3. SetTarget(node[Loop], "down") => power'[node[Loop]].target = "down"
    BY <1>2, Settled, SetsTarget
  <2>4. UNCHANGED power BY <2>1, <2>2, <2>3
  <2> QED BY <1>6, <2>1, <2>4
<1> QED BY <1>5, <1>7 DEF CallOff

LEMMA LoopWritesOff == ASSUME IInv, Sole, WriteOff(Loop) PROVE Sole'
<1>0. /\ pc[Loop] \in {"writeOff", "writeOffErr"} /\ pc[Loop] \in PowerStep /\ Loop \in Actor
      /\ nodes' = updateNode(nodes, copy[Loop]) /\ UNCHANGED <<power, todo>>
      /\ Returns(Loop) \/ Fails(Loop)
  BY DEF WriteOff, At, PowerStep, Actor, chain, round
<1>1. HoldsOf(Loop) /\ Once /\ LoopPart /\ Truthful BY <1>0 DEF IInv, Holds, Sole
<1>2. copy[Loop] \in View /\ copy[Loop].id = node[Loop] /\ Up(copy[Loop]) /\ copy[Loop].id \in Node
  BY <1>0, <1>1 DEF HoldsOf, PowerStep, LoopPart, Up, View
<1>3. Kept(nodes') BY <1>0, <1>1, <1>2, UpdateKept
<1>4. Others(Loop) /\ LoopPart' BY <1>0, Unraised, ReturnsPart
<1>5. ASSUME NEW g \in Handler PROVE Serves(g)'
  <2>1. Serves(g) /\ g \in Actor \ {Loop} BY ActorsAssumption DEF Sole, Actor
  <2> QED BY <1>4, <2>1 DEF Others, Serves
<1>6. Once' BY <1>0, <1>1, <1>3 DEF Once, Kept
<1>7. Truthful'
  <2> SUFFICES ASSUME NEW w \in Entries(nodes') PROVE Up(w)' BY DEF Truthful, Entries
  <2>1. w = copy[Loop] \/ (w \in Entries(nodes) /\ w.id # node[Loop])
    BY <1>0, <1>1, <1>2, Settled, UpdateEntries DEF Once
  <2>2. Up(w) BY <1>1, <1>2, <2>1 DEF Truthful, Down
  <2> QED BY <1>0, <2>2 DEF Up
<1> QED BY <1>4, <1>5, <1>6, <1>7 DEF Sole
-----------------------------------------------------------------------------
(* The loop's other steps. *)

LEMMA SeenUp == ASSUME NEW n, Seen(power[n]) = "on" PROVE power[n].target = "up"
<1>1. power[n] = [state |-> "up", target |-> "up"] BY DEF Seen
<1> QED BY <1>1

LEMMA LoopVisits ==
  ASSUME IInv, Sole, FetchNodes \/ (\E n \in Node : NextNode(n)) \/ Refresh PROVE Sole'
<1>0. Once /\ LoopPart /\ Truthful /\ Loop \in Actor BY DEF Sole, Actor
<1>1. CASE FetchNodes
  <2>1. /\ Goto(Loop, "next") /\ nodes' = Sweep(nodes) /\ todo' = Managed \cap farm
        /\ pc[Loop] = "sleep" /\ UNCHANGED power
    BY <1>1 DEF FetchNodes, At, chain
  <2>2. Kept(nodes') BY <1>0, <2>1, Settled, SweepFewer, FewerKept
  <2> QED BY <2>1, <2>2, LoopGoto
<1>2. ASSUME NEW n \in Node, NextNode(n) PROVE Sole'
  <2>1. /\ pc[Loop] = "next" /\ n \in todo /\ todo' = todo \ {n} /\ UNCHANGED <<power, nodes>>
    BY <1>2 DEF NextNode, At, chain
  <2>2. Kept(nodes') /\ todo' \subseteq Managed /\ n \in Managed BY <1>0, <2>1, SameKept DEF Once
  <2>3. CASE n \in Ids(nodes)
    <3> DEFINE v == View1(nodes, n)
    <3>1. Call(Loop, "refresh", n, v, None) BY <1>2, <2>3 DEF NextNode
    <3>2. v \in View BY <2>3, Settled, IdsType
    <3>3. Up(v)
      <4>1. v \in Entries(nodes) BY <2>3, EntryOf
      <4> HIDE DEF v
      <4> QED BY <1>0, <2>1, <4>1 DEF Truthful, Down
    <3> HIDE DEF v
    <3> QED BY <2>1, <2>2, <3>1, <3>2, <3>3, LoopCall
  <2>4. CASE n \notin Ids(nodes)
    <3>1. Call(Loop, "load", n, None, None) BY <1>2, <2>4 DEF NextNode
    <3>2. n \in Managed \ Ids(nodes') BY <2>1, <2>2, <2>4
    <3> QED BY <2>1, <2>2, <3>1, <3>2, LoopCall
  <2> QED BY <2>3, <2>4
<1>3. CASE Refresh
  <2>1. PICK k \in 0..3 : Hold(Loop, "store", Refreshed(held[Loop], k)) BY <1>3 DEF Refresh
  <2>2. pc[Loop] = "refresh" /\ UNCHANGED <<power, nodes, todo>> BY <1>3 DEF Refresh, At, chain, round
  <2>3. held[Loop] \in View
    <3>1. HoldsOf(Loop) BY <1>0 DEF IInv, Holds
    <3> QED BY <2>2, <3>1 DEF HoldsOf, Recall
  <2> DEFINE v == Refreshed(held[Loop], k)
  <2>4. v \in View /\ v.id = held[Loop].id BY <2>3, RefreshedType DEF IInv
  <2>5. v.power = IF k >= 2 THEN Seen(power[held[Loop].id]) ELSE held[Loop].power
    BY <2>3 DEF Refreshed, View
  <2>6. Hold(Loop, "store", v) BY <2>1
  <2> HIDE DEF v
  <2>7. Up(held[Loop]) BY <1>0, <2>2 DEF LoopPart, Keeps
  <2>8. Up(v)
    <3>1. CASE k >= 2 BY <2>4, <2>5, <3>1, SeenUp DEF Up
    <3>2. CASE ~(k >= 2) BY <2>4, <2>5, <2>7, <3>2 DEF Up
    <3> QED BY <3>1, <3>2
  <2>9. Kept(nodes') /\ todo' \subseteq Managed BY <1>0, <2>2, SameKept DEF Once
  <2> QED BY <2>2, <2>4, <2>6, <2>8, <2>9, LoopHold
<1> QED BY <1>1, <1>2, <1>3

LEMMA LoopLoads ==
  ASSUME IInv, Sole, Load(Loop) \/ LoadFails(Loop) \/ Add(Loop) PROVE Sole'
<1>0. /\ Once /\ LoopPart /\ Loop \in Actor /\ UNCHANGED <<power, todo>>
  BY DEF Sole, Actor, Load, LoadFails, Add, chain, round
<1>1. todo' \subseteq Managed BY <1>0 DEF Once
<1>2. node[Loop] \in Managed \ Ids(nodes) /\ node[Loop] \in Node /\ pc[Loop] \in {"load", "add"}
  BY <1>0 DEF LoopPart, Load, LoadFails, Add, At, Managed
<1>3. CASE Load(Loop)
  <2> DEFINE v == getNode(node[Loop])
  <2>1. Hold(Loop, "add", v) /\ UNCHANGED nodes BY <1>3 DEF Load
  <2>2. v \in View /\ v.id = node[Loop] BY <1>2, LoadedType DEF IInv
  <2>3. v.power = Seen(power[node[Loop]]) BY DEF getNode
  <2> HIDE DEF v
  <2>4. Up(v) BY <2>2, <2>3, SeenUp DEF Up
  <2>5. Kept(nodes') BY <1>0, <2>1, SameKept
  <2> QED BY <1>0, <1>1, <1>2, <2>1, <2>2, <2>4, <2>5, LoopHold
<1>4. CASE LoadFails(Loop)
  <2>1. Hold(Loop, "wake", None) /\ UNCHANGED nodes BY <1>4 DEF LoadFails
  <2>2. Kept(nodes') BY <1>0, <2>1, SameKept
  <2> QED BY <1>0, <1>1, <1>2, <2>1, <2>2, LoopHold
<1>5. CASE Add(Loop)
  <2>1. pc[Loop] = "add" /\ nodes' = Append(nodes, held[Loop]) /\ Hold(Loop, "wake", None)
    BY <1>5 DEF Add, At
  <2>2. held[Loop] \in View /\ held[Loop].id = node[Loop]
    <3>1. HoldsOf(Loop) BY <1>0 DEF IInv, Holds
    <3> QED BY <2>1, <3>1 DEF HoldsOf, Recall
  <2>3. Up(held[Loop]) BY <1>0, <2>1 DEF LoopPart, Keeps
  <2>4. /\ Entries(nodes') = Entries(nodes) \cup {held[Loop]} /\ Ids(nodes') = Ids(nodes) \cup {node[Loop]}
        /\ \A n \in Node : Copies(nodes, n) <= 1 => Copies(nodes', n) <= 1
    BY <1>2, <2>1, <2>2, Settled, AppendEntries
  <2>5. nodes' \in Seq(View) BY <2>1, <2>2, Settled, AppendProperties
  <2>6. Kept(nodes') BY <1>0, <1>2, <2>3, <2>4, <2>5 DEF Kept, Once
  <2> QED BY <1>0, <1>1, <1>2, <2>1, <2>6, LoopHold
<1> QED BY <1>3, <1>4, <1>5

LEMMA LoopRecords ==
  ASSUME IInv, Sole, Store \/ Wake \/ Reset \/ WakePeriodic \/ LetSleep PROVE Sole'
<1>0. /\ pc[Loop] \in {"store", "wake", "reset", "periodic"} /\ UNCHANGED <<power, todo>>
      /\ Once /\ LoopPart /\ Truthful
  BY DEF Store, Wake, Reset, WakePeriodic, LetSleep, At, chain, round, Sole
<1>1. todo' \subseteq Managed BY <1>0 DEF Once
<1>2. pc[Loop] # "wake" => held[Loop] \in View /\ Up(held[Loop])
  BY <1>0, LoopHolds DEF LoopPart, Keeps
<1>3. Kept(nodes')
  <2>1. CASE UNCHANGED nodes BY <1>0, <2>1, SameKept
  <2>2. CASE nodes' = updateNode(nodes, held[Loop]) /\ pc[Loop] # "wake"
    BY <1>0, <1>2, <2>2, UpdateKept
  <2> QED BY <2>1, <2>2 DEF Store, Wake, Reset, WakePeriodic, LetSleep, At
<1>4. CASE Store
  <2>1. Hold(Loop, "wake", None) BY <1>4 DEF Store
  <2> QED BY <1>0, <1>1, <1>3, <2>1, LoopHold
<1>5. CASE Reset
  <2>1. pc[Loop] = "reset" /\ Hold(Loop, "periodic", held[Loop]) BY <1>5 DEF Reset, At
  <2> QED BY <1>0, <1>1, <1>2, <1>3, <2>1, LoopHold
<1>6. CASE Wake
  <2>1. CASE node[Loop] \notin Ids(nodes)
    <3>1. Goto(Loop, "next") BY <1>6, <2>1 DEF Wake
    <3> QED BY <1>0, <1>1, <1>3, <3>1, LoopGoto
  <2>2. CASE node[Loop] \in Ids(nodes)
    <3> DEFINE v == View1(nodes, node[Loop])
    <3>1. v \in View /\ v.id \in Node BY <2>2, Settled, IdsType
    <3>2. Call(Loop, "lockOn", v.id, v, "reset") \/ Hold(Loop, "reset", v)
      BY <1>6, <2>2 DEF Wake
    <3>3. Up(v)
      <4>1. v \in Entries(nodes) BY <2>2, EntryOf
      <4> HIDE DEF v
      <4> QED BY <1>0, <4>1 DEF Truthful, Down
    <3> HIDE DEF v
    <3>4. CASE Call(Loop, "lockOn", v.id, v, "reset")
      <4>1. "reset" \in Step BY DEF Step
      <4> QED BY <1>0, <1>1, <1>3, <3>1, <3>3, <3>4, <4>1, LoopCall
    <3>5. CASE Hold(Loop, "reset", v) BY <1>0, <1>1, <1>3, <3>1, <3>3, <3>5, LoopHold
    <3> QED BY <3>2, <3>4, <3>5
  <2> QED BY <2>1, <2>2
<1>7. CASE WakePeriodic
  <2>1. Call(Loop, "lockOn", node[Loop], None, "next") BY <1>7 DEF WakePeriodic
  <2>2. node[Loop] \in Node \cup {None} /\ "next" \in Step BY Settled DEF Locals, Actor, Step
  <2> QED BY <1>0, <1>1, <1>3, <2>1, <2>2, LoopCall
<1>8. CASE LetSleep
  <2>1. Goto(Loop, "next") BY <1>8 DEF LetSleep
  <2> QED BY <1>0, <1>1, <1>3, <2>1, LoopGoto
<1> QED BY <1>4, <1>5, <1>6, <1>7, <1>8

LEMMA LoopManages ==
  ASSUME IInv, Sole,
         RaisePower \/ PowerOnOne \/ LowerPower \/ PowerOffOne \/ PowerOffFailed \/ EndRound
  PROVE  Sole'
<1>0. /\ pc[Loop] \in {"next", "raise", "lower", "restore"} /\ UNCHANGED <<power, nodes, todo>> /\ Once
  BY DEF RaisePower, PowerOnOne, LowerPower, PowerOffOne, PowerOffFailed, EndRound, At, chain, Sole
<1>1. Kept(nodes') /\ todo' \subseteq Managed BY <1>0, SameKept DEF Once
<1>2. CASE \E s \in {"sleep", "raise", "lower"} : Goto(Loop, s) BY <1>0, <1>1, <1>2, LoopGoto
<1>3. CASE \E n \in offer : \/ Call(Loop, "lockOn", n, None, "raise")
                            \/ Call(Loop, "lockOff", n, None, "lower")
  <2>1. PICK n \in offer : \/ Call(Loop, "lockOn", n, None, "raise")
                           \/ Call(Loop, "lockOff", n, None, "lower")
    BY <1>3
  <2>2. n \in Node /\ "raise" \in Step /\ "lower" \in Step BY Settled DEF Round, Step
  <2> QED BY <1>0, <1>1, <2>1, <2>2, LoopCall
<1> QED
  BY <1>2, <1>3 DEF RaisePower, PowerOnOne, LowerPower, PowerOffOne, PowerOffFailed, EndRound

LEMMA LoopKeepsSole == ASSUME PowerOnOnly, IInv, Sole, LoopStep PROVE Sole'
<1>1. CASE PowerCall(Loop)
  BY <1>1, LoopPowersOn, LoopLocksOff, LoopCallsOff, LoopWritesOff DEF PowerCall
<1> QED BY <1>1, LoopVisits, LoopLoads, LoopRecords, LoopManages DEF LoopStep
-----------------------------------------------------------------------------
(* The requests, and the world. *)

LEMMA HandlerSteps == ASSUME PowerOnOnly, IInv, Sole, NEW h \in Handler, Serve(h) PROVE Sole'
<1>0. /\ h \in Actor /\ HoldsOf(h) /\ Serves(h) /\ Once /\ LoopPart
  BY DEF Actor, IInv, Holds, Sole
<1>1. LockOn(h) \/ CallOn(h) \/ CallOnFails(h) \/ WriteOn(h) \/ DeleteNode(h)
  BY <1>0 DEF Serve, PowerCall, Serves, ClaimNode, Load, LoadFails, Add, LockOff, CallOff, CallOffFails,
              WriteOff, At
<1>2. UNCHANGED todo BY <1>1 DEF LockOn, CallOn, CallOnFails, WriteOn, DeleteNode, round
<1>3. lock = None => pc[Loop] # "callOff"
  BY Settled, ActorsAssumption DEF Mutex, Actor
<1>4. ASSUME pc[h] \in {"lockOn", "callOn", "writeOn"}, Returns(h) \/ Fails(h)
      PROVE  Others(h) /\ Serves(h)'
  <2>1. pc[h] \in PowerStep /\ ret[h] = "delete" BY <1>0, <1>4 DEF PowerStep, Serves
  <2>2. Others(h) /\ pc'[h] \in {"delete", "idle"} BY <1>0, <1>4, <2>1, ReturnsTo
  <2> QED BY <2>2 DEF Serves
<1>5. CASE LockOn(h)
  <2>1. pc[h] = "lockOn" /\ UNCHANGED <<power, nodes>> BY <1>5 DEF LockOn, At, chain
  <2>2. Raised /\ Kept(nodes') /\ Ids(nodes') \subseteq Ids(nodes) BY <1>0, <2>1, Unraised, SameKept
  <2>3. CASE Returns(h) \/ Fails(h) BY <1>2, <1>4, <2>1, <2>2, <2>3, HandlerKeeps
  <2>4. CASE node[h] \in Ids(nodes) /\ Work(h, "callOn", View1(nodes, node[h]))
    <3>1. View1(nodes, node[h]) \in View /\ "callOn" \in Step BY <2>4, Settled, IdsType DEF Step
    <3>2. Others(h) /\ pc'[h] = "callOn" /\ ret'[h] = ret[h] BY <1>0, <2>4, <3>1, Settled, WorkIs
    <3>3. Serves(h)' BY <1>0, <2>1, <3>2 DEF Serves
    <3> QED BY <1>2, <2>1, <2>2, <3>2, <3>3, HandlerKeeps
  <2> QED BY <1>5, <2>3, <2>4 DEF LockOn
<1>6. CASE CallOn(h) \/ CallOnFails(h)
  <2>1. pc[h] = "callOn" /\ UNCHANGED nodes BY <1>6 DEF CallOn, CallOnFails, At
  <2>2. node[h] \in Node /\ copy[h] \in View BY <2>1, <1>0 DEF HoldsOf, PowerStep
  <2>3. Raised
    <3>1. UNCHANGED power \/ SetTarget(node[h], "up") BY <1>6 DEF CallOn, CallOnFails
    <3> QED BY <2>2, <3>1, Settled, SetsTarget, Unraised DEF Raised
  <2>4. Kept(nodes') /\ Ids(nodes') \subseteq Ids(nodes) BY <1>0, <2>1, SameKept
  <2>5. CASE Fails(h) BY <1>2, <1>4, <2>1, <2>3, <2>4, <2>5, HandlerKeeps
  <2>6. CASE Work(h, "writeOn", [copy[h] EXCEPT !.power = "wakingUp"])
    <3> DEFINE v == [copy[h] EXCEPT !.power = "wakingUp"]
    <3>1. v \in View /\ v.power = "wakingUp" /\ "writeOn" \in Step BY <2>2 DEF View, PowerState, Step
    <3>2. Work(h, "writeOn", v) BY <2>6
    <3> HIDE DEF v
    <3>3. Others(h) /\ pc'[h] = "writeOn" /\ ret'[h] = ret[h] /\ copy'[h] = v
      BY <1>0, <3>1, <3>2, Settled, WorkIs
    <3>4. Serves(h)' BY <1>0, <2>1, <3>1, <3>3 DEF Serves
    <3> QED BY <1>2, <2>1, <2>3, <2>4, <3>3, <3>4, HandlerKeeps
  <2> QED BY <1>6, <2>5, <2>6 DEF CallOn, CallOnFails
<1>7. CASE WriteOn(h)
  <2>1. /\ pc[h] = "writeOn" /\ nodes' = updateNode(nodes, copy[h]) /\ lock = None /\ UNCHANGED power
        /\ Returns(h) \/ Fails(h)
    BY <1>7 DEF WriteOn, At, chain
  <2>2. copy[h] \in View /\ Up(copy[h]) BY <2>1, <1>0 DEF HoldsOf, PowerStep, Serves, Up
  <2>3. Kept(nodes') /\ Ids(nodes') \subseteq Ids(nodes) BY <1>0, <2>1, <2>2, UpdateKept
  <2>4. Others(h) /\ Serves(h)' BY <1>4, <2>1
  <2> QED BY <1>2, <1>3, <2>1, <2>3, <2>4, Unraised, HandlerKeeps
<1>8. CASE DeleteNode(h)
  <2>1. /\ nodes' = deleteNode(nodes, node[h]) /\ lock = None /\ UNCHANGED power /\ Goto(h, "idle")
    BY <1>8 DEF DeleteNode, chain
  <2>2. Kept(nodes') /\ Ids(nodes') \subseteq Ids(nodes)
    BY <1>0, <2>1, Settled, DeleteFewer, FewerKept
  <2>3. Others(h) /\ pc'[h] = "idle"
    <3>1. "idle" \in Step BY DEF Step
    <3> QED BY <1>0, <2>1, <3>1, Settled, GotoIs
  <2>4. Serves(h)' BY <2>3 DEF Serves
  <2> QED BY <1>2, <1>3, <2>1, <2>2, <2>3, <2>4, Unraised, HandlerKeeps
<1> QED BY <1>1, <1>5, <1>6, <1>7, <1>8

LEMMA HandlerAsks == ASSUME PowerOnOnly, IInv, Sole, NEW h \in Handler, Ask(h) PROVE Sole'
<1>1. PICK n \in Node : PowerOn(h, n)
  BY DEF Ask, FindNode, IncludeNode, PowerOff, Request, PowerOnOnly
<1>2. Call(h, "lockOn", n, None, "delete") /\ UNCHANGED <<power, nodes, todo>>
  BY <1>1 DEF PowerOn, Request, chain, round
<1>3. Others(h) /\ pc'[h] = "lockOn" /\ ret'[h] = "delete"
  <2>1. h \in Actor /\ "lockOn" \in Step /\ "delete" \in Step BY DEF Actor, Step
  <2> QED BY <1>2, <2>1, Settled, CallIs
<1>4. Serves(h)' BY <1>3 DEF Serves
<1>5. Kept(nodes') BY <1>2, SameKept DEF Sole
<1> QED BY <1>2, <1>3, <1>4, <1>5, Unraised, HandlerKeeps

LEMMA WorldRaised == ASSUME IInv, World \/ UNCHANGED vars PROVE Raised
<1>1. CASE \E n \in Node : NodeFollows(n)
  <2>1. PICK n \in Node : NodeFollows(n) BY <1>1
  <2>2. power \in [Node -> [state: UpDown, target: UpDown]] BY Settled DEF Chain
  <2>3. ASSUME NEW m \in Node PROVE power'[m].target = power[m].target
    BY <2>1, <2>2 DEF NodeFollows
  <2> QED BY <2>3 DEF Raised
<1> QED BY <1>1, Unraised DEF World, TenantChanges, Leave, ClaimExpires, vars, chain

LEMMA WorldKeeps == ASSUME IInv, Sole, World \/ UNCHANGED vars PROVE Sole'
<1>0. UNCHANGED bot BY DEF World, NodeFollows, TenantChanges, Leave, ClaimExpires, vars, bot
<1>1. Raised BY WorldRaised
<1>2. UNCHANGED <<nodes, pc, node, held, copy, ret, todo>> BY <1>0 DEF bot, round
<1>3. \A g \in Handler : Serves(g)' BY <1>2 DEF Sole, Serves
<1>4. Once' BY <1>2 DEF Sole, Once
<1>5. Truthful'
  <2> SUFFICES ASSUME NEW v \in Entries(nodes) PROVE Up(v)' \/ Down(v.id)'
    BY <1>2 DEF Truthful, Entries
  <2>1. Up(v) \/ Down(v.id) BY DEF Sole, Truthful
  <2>2. v.id \in Node BY EntryType, Settled, IdsType
  <2>3. Down(v.id) => Down(v.id)' BY <1>2 DEF Down
  <2> QED BY <1>1, <2>1, <2>2, <2>3, UpStays
<1>6. LoopPart'
  <2>1. LoopPart BY DEF Sole
  <2>2. held[Loop] \in View /\ Up(held[Loop]) => Up(held[Loop])'
    <3> SUFFICES ASSUME held[Loop] \in View, Up(held[Loop]) PROVE Up(held[Loop])' OBVIOUS
    <3>1. held[Loop].id \in Node BY DEF View
    <3> QED BY <1>1, <1>2, <3>1 DEF Up, Raised
  <2>3. pc[Loop] \in Keeps \/ (pc[Loop] \in PowerStep /\ ret[Loop] = "reset") => held[Loop] \in View
    <3>1. HoldsOf(Loop) BY DEF IInv, Holds, Actor
    <3> QED BY <3>1 DEF HoldsOf, Keeps, Recall
  <2> QED BY <1>2, <2>1, <2>2, <2>3 DEF LoopPart, Entries, Ids
<1> QED BY <1>3, <1>4, <1>5, <1>6 DEF Sole

LEMMA SoleInit == ASSUME Init PROVE Sole
<1>1. /\ pc[Loop] = "sleep" /\ todo = {} /\ \A h \in Handler : pc[h] = "idle"
  BY ActorsAssumption DEF Init, Actor
<1>2. Once BY <1>1, InitRecords DEF Once
<1>3. Truthful BY InitRecords, SeenUp DEF Truthful, Up
<1>4. LoopPart BY <1>1 DEF LoopPart, Keeps, PowerStep
<1> QED BY <1>1, <1>2, <1>3, <1>4 DEF Sole, Serves

LEMMA SoleStep == ASSUME PowerOnOnly, IInv, Sole, [Next]_vars PROVE Sole'
BY LoopKeepsSole, HandlerSteps, HandlerAsks, WorldKeeps DEF Next

(* What follows of it. *)
LEMMA CountedRight == ASSUME IInv, Sole PROVE NoDuplicates /\ CountedIsUp
<1>1. DOMAIN nodes = 1..Len(nodes) BY Settled, LenProperties
<1>2. ASSUME NEW i \in DOMAIN nodes, NEW j \in DOMAIN nodes, nodes[i].id = nodes[j].id, i # j PROVE FALSE
  <2> DEFINE S == {k \in DOMAIN nodes : nodes[k].id = nodes[i].id}
  <2>1. nodes[i].id \in Node BY <1>1, Settled, IdsType DEF Ids
  <2>2. IsFiniteSet(S) /\ Cardinality(S) <= 1 BY <2>1, Settled, CopiesType DEF Copies, Sole, Once
  <2>3. {i} \cup {j} \subseteq S BY <1>2
  <2> HIDE DEF S
  <2>4. Cardinality({i}) = 1 /\ IsFiniteSet({i}) BY FS_Singleton
  <2>5. Cardinality({i} \cup {j}) = Cardinality({i}) + 1 BY <1>2, <2>4, FS_AddElement
  <2>6. Cardinality({i} \cup {j}) <= Cardinality(S) /\ Cardinality(S) \in Nat
    BY <2>2, <2>3, FS_Subset, FS_CardinalityType
  <2> QED BY <2>2, <2>4, <2>5, <2>6
<1>3. NoDuplicates BY <1>2 DEF NoDuplicates, IInv, NoneExcluded
<1>4. CountedIsUp
  <2> SUFFICES ASSUME NEW i \in DOMAIN nodes, nodes[i].power = "on"
               PROVE  \/ power[nodes[i].id].target = "up"
                      \/ \E a \in Actor : node[a] = nodes[i].id /\ pc[a] \in {"writeOff", "writeOffErr"}
    BY DEF CountedIsUp
  <2>1. nodes[i] \in Entries(nodes) BY DEF Entries
  <2>2. Up(nodes[i]) \/ Down(nodes[i].id) BY <2>1 DEF Sole, Truthful
  <2> QED BY <2>2 DEF Up, Down, Actor
<1> QED BY <1>3, <1>4

LEMMA StaysRight == ASSUME PowerOnOnly, IInv, Sole, [Next]_vars PROVE StaysUp
<1> SUFFICES ASSUME NEW m \in Managed, power[m].target = "up"
             PROVE  \E n \in Managed : power'[n].target = "up"
  BY DEF StaysUp, SomeUp
<1>1. Managed \subseteq Node BY DEF Managed
<1>2. ASSUME Raised PROVE \E n \in Managed : power'[n].target = "up" BY <1>1, <1>2 DEF Raised
<1>3. ASSUME NEW a \in Actor, CallOn(a) \/ CallOnFails(a) PROVE Raised
  <2>1. pc[a] = "callOn" /\ (UNCHANGED power \/ SetTarget(node[a], "up"))
    BY <1>3 DEF CallOn, CallOnFails, At
  <2>2. HoldsOf(a) BY DEF IInv, Holds
  <2>3. node[a] \in Node BY <2>1, <2>2 DEF HoldsOf
  <2> QED BY <2>1, <2>3, Settled, SetsTarget, Unraised DEF Raised
<1>4. ASSUME NEW a \in Actor, CallOff(a) \/ CallOffFails(a)
      PROVE  \E n \in Managed : power'[n].target = "up"
  <2>1. pc[a] = "callOff" /\ (UNCHANGED power \/ SetTarget(node[a], "down"))
    BY <1>4 DEF CallOff, CallOffFails, At
  <2>2. a = Loop BY <2>1 DEF Sole, Serves, Actor
  <2>3. PICK v \in Entries(nodes) : v.power = "on" /\ v.id # node[Loop]
    BY <2>1, <2>2 DEF Sole, LoopPart
  <2>4. power[v.id].target = "up" BY <2>1, <2>2, <2>3 DEF Sole, Truthful, Up, Down
  <2>5. v.id \in Managed BY EntryType DEF Sole, Once
  <2>6. HoldsOf(a) BY DEF IInv, Holds
  <2>7. node[a] \in Node BY <2>1, <2>6 DEF HoldsOf
  <2>8. power'[v.id].target = "up" BY <1>1, <2>1, <2>2, <2>3, <2>4, <2>5, <2>7, Settled, SetsTarget
  <2> QED BY <2>5, <2>8
<1>5. ASSUME NEW a \in Actor, PowerCall(a) PROVE \E n \in Managed : power'[n].target = "up"
  BY <1>2, <1>3, <1>4, <1>5, Unraised DEF PowerCall, LockOn, LockOff, WriteOn, WriteOff, chain
<1>6. CASE LoopStep
  BY <1>2, <1>5, <1>6, Unraised DEF LoopStep, FetchNodes, NextNode, Refresh, Store, Load, LoadFails, Add,
     Wake, Reset, WakePeriodic, LetSleep, RaisePower, PowerOnOne, LowerPower, PowerOffOne,
     PowerOffFailed, EndRound, chain, Actor
<1>7. ASSUME NEW h \in Handler, Serve(h) \/ Ask(h) PROVE \E n \in Managed : power'[n].target = "up"
  BY <1>2, <1>5, <1>7, Unraised DEF Serve, Ask, ClaimNode, Load, LoadFails, Add, DeleteNode, FindNode,
     IncludeNode, PowerOff, PowerOn, Request, chain, Actor
<1>8. CASE World \/ UNCHANGED vars BY <1>2, <1>8, WorldRaised
<1> QED BY <1>6, <1>7, <1>8 DEF Next

(* With no request but poweron, a node that counts as on for the bot has   *)
(* its target up, and the bot manages no node twice.                       *)
THEOREM CountedAreUp == ASSUME PowerOnOnly PROVE Spec => [](NoDuplicates /\ CountedIsUp)
<1>1. Init => IInv /\ Sole BY InitIInv, SoleInit
<1>2. IInv /\ Sole /\ [Next]_vars => IInv' /\ Sole' BY PowerOnOnly, NextStep, SoleStep
<1>3. IInv /\ Sole => NoDuplicates /\ CountedIsUp BY CountedRight
<1> QED BY <1>1, <1>2, <1>3, PTL DEF Spec

(* Nor does it turn the last managed node off that is to be up.            *)
THEOREM OneKeptOn == ASSUME PowerOnOnly PROVE Spec => KeepsOneOn
<1>1. Init => IInv /\ Sole BY InitIInv, SoleInit
<1>2. IInv /\ Sole /\ [Next]_vars => IInv' /\ Sole' BY PowerOnOnly, NextStep, SoleStep
<1>3. IInv /\ Sole /\ [Next]_vars => StaysUp BY PowerOnOnly, StaysRight
<1> QED BY <1>1, <1>2, <1>3, PTL DEF Spec, KeepsOneOn
=============================================================================
