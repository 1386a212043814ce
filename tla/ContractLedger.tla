--------------------------- MODULE ContractLedger ---------------------------
(***************************************************************************)
(* What every deployer of the grid client promises about the contracts it  *)
(* opens, however its calls to the chain and the nodes fail: a contract    *)
(* that is live, and so costs its owner money, is one the client holds (it *)
(* is in the caller's maps, or in the hand of a running call), or one it   *)
(* reported.  A reported contract is not taken back, and no contract is    *)
(* opened twice.                                                           *)
(***************************************************************************)
CONSTANT Contract

VARIABLES
  opened,     \* contracts the chain ever created for the client
  live,       \* those that have not ended
  held,       \* live ones the client knows of
  reported    \* those an error told its caller of (or whose creation was
              \* never answered: nobody can hold them)

ledger == <<opened, live, held, reported>>

Init == opened = {} /\ live = {} /\ held = {} /\ reported = {}

Open(S, R) ==
  /\ S \cap opened = {} /\ R \subseteq S
  /\ opened' = opened \cup S /\ live' = live \cup S
  /\ held' = held \cup (S \ R) /\ reported' = reported \cup R

(* Cancelled by the client, or ended by itself. *)
Close(S) ==
  /\ live' = live \ S /\ held' = held \ S
  /\ UNCHANGED <<opened, reported>>

(* A call gives up on some of its contracts; a part of them may be gone.   *)
Report(S, T) ==
  /\ S \subseteq opened /\ T \subseteq S
  /\ live' = live \ T /\ held' = held \ S /\ reported' = reported \cup S
  /\ UNCHANGED opened

Next ==
  \/ \E S \in SUBSET Contract, R \in SUBSET Contract : Open(S, R)
  \/ \E S \in SUBSET Contract : Close(S)
  \/ \E S \in SUBSET Contract, T \in SUBSET Contract : Report(S, T)

Spec == Init /\ [][Next]_ledger
-----------------------------------------------------------------------------
(* The promise as a state predicate: nothing live is out of sight. *)
Accounted == held \subseteq live /\ live \subseteq held \cup reported
=============================================================================
