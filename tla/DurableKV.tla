----------------------------- MODULE DurableKV -----------------------------
(***************************************************************************)
(* What the database promises for single operations (SPECIFICATION.md,     *)
(* sections 7 and 12): a map from keys to values that Set and Delete       *)
(* change one key at a time, and that survives Close, a crash and the next *)
(* Open unchanged.  Each operation has a number, and a key holds the       *)
(* number of the Set that wrote it, or 0.                                  *)
(***************************************************************************)
EXTENDS Naturals

CONSTANT Keys

VARIABLES
    store,       \* what a reader sees, or would see after a restart
    ops          \* operations that took effect

vars == <<store, ops>>

TypeOK == store \in [Keys -> Nat] /\ ops \in Nat

Init == store = [k \in Keys |-> 0] /\ ops = 0

Set(k) ==
    /\ ops' = ops + 1
    /\ store' = [store EXCEPT ![k] = ops']

Delete(k) ==
    /\ ops' = ops + 1
    /\ store' = [store EXCEPT ![k] = 0]

Next == \E k \in Keys : Set(k) \/ Delete(k)

Spec == Init /\ [][Next]_vars

=============================================================================
