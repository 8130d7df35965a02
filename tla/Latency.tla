------------------------------ MODULE Latency ------------------------------
(***************************************************************************)
(* The latencies of stats.go: a ring that keeps the last Capacity samples, *)
(* filled by every call, and Stats, which copies it under the lock of the  *)
(* ring and sorts the copy and picks the percentiles without it.           *)
(*                                                                         *)
(* Indices start at 0, as in the code.                                     *)
(***************************************************************************)
EXTENDS Integers, Sequences, FiniteSets, Functions

CONSTANTS
    Capacity,   \* 1024 in newStatsTracker
    Durations,  \* what a call may take
    MaxAdds     \* bound on the calls

VARIABLES
    samples,  \* latencyTracker.samples
    idx,      \* where the next one goes
    full,     \* the ring has been filled once
    stats,    \* the call of Stats
    added     \* history: all durations, in order

ring == <<samples, idx, full>>
vars == <<ring, stats, added>>

Slots == 0..(Capacity - 1)

Percents == {50, 95, 99}

\* window: history, the last samples when the ring was copied.
NoCall == [pc |-> "idle", copy |-> << >>, window |-> << >>, answer |-> << >>]

Init ==
    /\ samples = [i \in Slots |-> 0]
    /\ idx = 0 /\ full = FALSE
    /\ stats = NoCall
    /\ added = << >>

\* A variant that notices only one sample later that the ring is full.
addLate(d) ==
    /\ Len(added) < MaxAdds
    /\ samples' = [samples EXCEPT ![idx] = d]
    /\ idx' = (idx + 1) % Capacity
    /\ full' = (full \/ Len(added) = Capacity)
    /\ added' = Append(added, d)
    /\ UNCHANGED stats

add(d) ==
    /\ Len(added) < MaxAdds
    /\ samples' = [samples EXCEPT ![idx] = d]
    /\ idx' = (idx + 1) % Capacity
    /\ full' = (full \/ idx' = 0)
    /\ added' = Append(added, d)
    /\ UNCHANGED stats

Last(s, n) == SubSeq(s, IF Len(s) > n THEN Len(s) - n + 1 ELSE 1, Len(s))

Copy ==
    /\ stats.pc = "idle"
    /\ LET count == IF full THEN Capacity ELSE idx
       IN  stats' = [stats EXCEPT !.pc = "copied",
                                  !.copy = [i \in 1..count |-> samples[i - 1]],
                                  !.window = Last(added, Capacity)]
    /\ UNCHANGED <<ring, added>>

\* The order in which sort.Slice leaves the values.
Order(values) ==
    CHOOSE f \in Bijection(DOMAIN values, DOMAIN values) :
        \A i, j \in DOMAIN values : i < j => values[f[i]] <= values[f[j]]

\* int(float64(n-1)*p) is this quotient for every n up to 1024.
percentile(values, p) == values[Order(values)[((Len(values) - 1) * p) \div 100 + 1]]

Answer ==
    /\ stats.pc = "copied"
    /\ stats' = [stats EXCEPT !.pc = "answered",
                    !.answer = [p \in Percents |-> IF stats.copy = << >> THEN 0
                                                   ELSE percentile(stats.copy, p)]]
    /\ UNCHANGED <<ring, added>>

Return ==
    /\ stats.pc = "answered"
    /\ stats' = NoCall
    /\ UNCHANGED <<ring, added>>

Next == (\E d \in Durations : add(d)) \/ Copy \/ Answer \/ Return

Spec == Init /\ [][Next]_vars

-----------------------------------------------------------------------------
(* Properties *)

(***************************************************************************)
(* Percentile p is a sample of the last Capacity calls before the copy:    *)
(* at most p percent of the other samples are smaller, and more than p     *)
(* percent of them, or all, are not greater.  Calls that end while Stats   *)
(* sorts, and the order in which the ring overwrites, make no difference   *)
(* (stats.go:73-108).                                                      *)
(***************************************************************************)
PercentilesRight ==
    stats.pc = "answered" /\ stats.window # << >> =>
        \A p \in Percents :
            LET w == stats.window
                v == stats.answer[p]
                others == Len(w) - 1
            IN  /\ \E i \in DOMAIN w : w[i] = v
                /\ 100 * Cardinality({i \in DOMAIN w : w[i] < v}) <= p * others
                /\ 100 * Cardinality({i \in DOMAIN w : w[i] <= v}) > p * others

=============================================================================
