---------------------------- MODULE MCSequential ----------------------------
(***************************************************************************)
(* The two small algorithms of the database that share no state with the   *)
(* rest, in one instance: a behaviour matches a pattern (Glob) or keeps    *)
(* latencies (Latency).                                                    *)
(***************************************************************************)
EXTENDS Glob

CONSTANTS Capacity, Durations, MaxAdds

ASSUME LatencyConstants == Capacity \in Nat \ {0} /\ Durations \subseteq Nat /\ MaxAdds \in Nat

VARIABLES part, samples, idx, full, stats, added

latencyVars == <<samples, idx, full, stats, added>>

L == INSTANCE Latency

PartsInit ==
    /\ GlobInit /\ L!Init
    /\ \/ part = "glob"
       \/ part = "latency" /\ p = << >> /\ n = << >>

GlobStep == part = "glob" /\ GlobNext /\ UNCHANGED <<part, latencyVars>>

LatencyStep == part = "latency" /\ L!Next /\ UNCHANGED <<part, globVars>>

PartsNext == GlobStep \/ LatencyStep

PartsSpec ==
    /\ PartsInit /\ [][PartsNext]_<<part, globVars, latencyVars>>
    /\ WF_<<part, globVars, latencyVars>>(GlobStep)

\* The percentiles are those of the last samples (stats.go).
PercentilesRight == L!PercentilesRight

\* pathMatch returns for every pattern and name (glob.go).
MatchReturns == part = "glob" => Terminates

=============================================================================
