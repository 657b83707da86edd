------------------------------ MODULE BatchStore ------------------------------
(***************************************************************************)
(* What the storage of a run of mca2lod amounts to, seen from outside: a   *)
(* run that succeeds replaces the rows of its whole batch in one step; a   *)
(* run that does not succeed may leave any of its rows behind, but nothing *)
(* else.                                                                   *)
(***************************************************************************)
EXTENDS Integers, Sequences, FiniteSetsExt

CONSTANTS Keys, Batches, NoBatch

VARIABLES
  store,    \* primary key -> row
  pending,  \* the batch of the run in progress, or NoBatch
  runs,     \* number of runs begun
  outcome   \* of the latest run: "none", "running", "ok" or "failed"

vars == <<store, pending, runs, outcome>>

(* INSERT OR REPLACE row after row: of the rows written, the last of a key *)
(* stays.  A row is known by the run that wrote it and its place in the    *)
(* batch.                                                                  *)
KeptIgnored(row, places, k) ==
  LET mine == {n \in places : pending[n] = k}
  IN  IF mine = {} \/ row \in [run : Nat, place : Nat] THEN row ELSE [run |-> runs, place |-> Min(mine)]
Kept(row, places, k) ==
  LET mine == {n \in places : pending[n] = k}
  IN  IF mine = {} THEN row ELSE [run |-> runs, place |-> Max(mine)]
After(places) == [k \in Keys |-> Kept(store[k], places, k)]

Init == pending = NoBatch /\ runs = 0 /\ outcome = "none"

Begin ==
  /\ outcome # "running"
  /\ outcome' = "running"
  /\ pending' \in Batches
  /\ runs' = runs + 1
  /\ UNCHANGED store

(* A run ends with the rows at some places of its batch written. *)
End(result, places) ==
  /\ outcome' = result
  /\ store' = After(places)
  /\ pending' = NoBatch
  /\ UNCHANGED runs

Succeed == outcome = "running" /\ End("ok", DOMAIN pending)
Abandon == outcome = "running" /\ \E places \in SUBSET DOMAIN pending : End("failed", places)

Next == Begin \/ Succeed \/ Abandon

Spec == Init /\ [][Next]_vars
==============================================================================
