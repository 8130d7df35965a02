---------------------------- MODULE ExpiringMap ----------------------------
(***************************************************************************)
(* What the index promises (SPECIFICATION.md, section 15): a map in which  *)
(* an entry with a deadline is gone from the moment the deadline is        *)
(* reached, whoever removes it and whenever.  Only Put, Remove and the     *)
(* passing of time change what can be seen.                                *)
(***************************************************************************)
EXTENDS Integers

CONSTANTS
    Keys,
    Entries,   \* records with a field exp: a time, or -1 for no deadline
    None       \* no entry

VARIABLES
    store,     \* key -> the entry that can be seen, or None
    clock

vars == <<store, clock>>

Gone(e, t) == e # None /\ e.exp # -1 /\ e.exp <= t

Seen(e, t) == IF Gone(e, t) THEN None ELSE e

Init == store = [k \in Keys |-> None] /\ clock = 0

Put(k, e) ==
    /\ store' = [store EXCEPT ![k] = Seen(e, clock)]
    /\ UNCHANGED clock

Remove(k) ==
    /\ store' = [store EXCEPT ![k] = None]
    /\ UNCHANGED clock

Tick ==
    /\ clock' = clock + 1
    /\ store' = [k \in Keys |-> Seen(store[k], clock')]

Next ==
    \/ \E k \in Keys : Remove(k) \/ \E e \in Entries : Put(k, e)
    \/ Tick

Spec == Init /\ [][Next]_vars

=============================================================================
