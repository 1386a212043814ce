------------------------------- MODULE Outcome -------------------------------
(***************************************************************************)
(* What a call of Deployer.Deploy may end with, for the deployers that use *)
(* it: GridDeployer has its steps. ids are the contracts the deployments   *)
(* had, one a node; g maps a contract to the deployment its node has; new  *)
(* is what is asked for, by node; made counts the contracts made.          *)
(*                                                                         *)
(* A call deletes, then creates, then updates, and stops at the first      *)
(* error; then it does the same with the old deployments as the target, if *)
(* it could read them.                                                     *)
(***************************************************************************)
EXTENDS Naturals, FiniteSets

Without(f, S) == [x \in DOMAIN f \ S |-> f[x]]
Single(n, v) == [m \in {n} |-> v]

(* f where it is defined, and g elsewhere.                                  *)
Over(f, g) == [x \in DOMAIN f \cup DOMAIN g |-> IF x \in DOMAIN f THEN f[x] ELSE g[x]]

(* The contract a node of S gets when contracts are made for all of S.      *)
Fresh(S, n, made) == made + Cardinality({m \in S : m <= n})

Succeeds(ids, g, new) == \A n \in DOMAIN new \cap DOMAIN ids : ids[n] \in DOMAIN g

Succeeded(ids, g, new, made) ==
  LET added == DOMAIN new \ DOMAIN ids
      now   == [n \in DOMAIN new |-> IF n \in added THEN Fresh(added, n, made) ELSE ids[n]]
      gone  == {ids[n] : n \in DOMAIN ids \ DOMAIN new}
      of(i) == {n \in DOMAIN new : now[n] = i}
  IN  [ids |-> now, made |-> made + Cardinality(added),
       grid |-> [i \in (DOMAIN g \ gone) \cup {now[n] : n \in DOMAIN new} |->
                   IF of(i) # {} THEN new[CHOOSE n \in of(i) : TRUE] ELSE g[i]]]

(* After a failure: of the deployments to delete, K kept their contract and *)
(* R have a new one with what they had; of those to create L are there, of  *)
(* those to update U were, and stay so: as stuck says.                      *)
Left(ids, g, stuck, made, K, R, L, U) ==
  LET stay   == K \cup (DOMAIN ids \cap DOMAIN stuck)
      again  == R \cup L
      now    == [n \in stay \cup again |-> IF n \in stay THEN ids[n] ELSE Fresh(again, n, made)]
      gone   == {ids[n] : n \in DOMAIN ids \ stay}
      of(S, i) == {n \in S : now[n] = i}
      one(S) == CHOOSE n \in S : TRUE
  IN  [ids |-> now, made |-> made + Cardinality(again),
       grid |-> [i \in (DOMAIN g \ gone) \cup {now[n] : n \in again} |->
                   IF of(L \cup U, i) # {} THEN stuck[one(of(L \cup U, i))]
                   ELSE IF of(R, i) # {} THEN g[ids[one(of(R, i))]] ELSE g[i]]]

Failures(ids, g, stuck, made) ==
  LET gone  == DOMAIN ids \ DOMAIN stuck
      added == DOMAIN stuck \ DOMAIN ids
      kept  == {n \in DOMAIN stuck \cap DOMAIN ids : ids[n] \in DOMAIN g}
      back  == IF \A n \in DOMAIN ids : ids[n] \in DOMAIN g THEN gone ELSE {}
  IN  {Left(ids, g, stuck, made, p[1], p[2], {}, {}) :
         p \in {p \in (SUBSET gone) \X (SUBSET back) : p[1] # {} /\ p[1] \cap p[2] = {}}}
      \cup {Left(ids, g, stuck, made, {}, {}, L, U) : L \in SUBSET added, U \in SUBSET kept}
      \cup {Left(ids, g, stuck, made, {}, R, {}, U) : R \in SUBSET back, U \in SUBSET kept}
=============================================================================
