-------------------------- MODULE StorageInvariant --------------------------
(***************************************************************************)
(* The inductive invariant behind LossConfined.  Each conjunct is one      *)
(* reason why recovery and the running database agree.                     *)
(***************************************************************************)
EXTENDS Storage

Up == phase \in {"opening", "open"}

Captured(c) == comp[c].pc \in {"captured", "writing", "deleting", "refreshing"}

\* Who may hold db.mu, and how far the index is behind the log.
LockInv ==
    /\ locked => phase = "open"
    /\ Up => applied <= Len(log)
    /\ Up /\ ~locked => applied = Len(log)
    /\ \A c \in Compactors : comp[c].mine => phase = "open"

\* The log is appended to the newest segment, and nothing names a later one.
SeqInv ==
    /\ segments = {} => cur = 1
    /\ segments # {} => cur \in segments
    /\ \A g \in segments : g <= cur
    /\ \A i \in Positions : log[i].seg <= cur
    /\ \A s \in Files : s <= cur
    /\ \A c \in Compactors : comp[c].seq <= cur
    /\ man <= cur
    /\ \A x \in {manifest, tmp} \cap Int : x <= cur
    /\ \A r \in Refreshers : ref[r].seq <= cur

\* Segments only grow along the log, and what was deleted is older than a
\* snapshot whose file is there.
LogInv ==
    /\ phase # "closed" => cur \in segments
    /\ \A i, j \in Positions : i <= j => log[i].seg <= log[j].seg
    /\ \A c \in Compactors :
          comp[c].pc \in {"writing", "deleting", "refreshing"} => comp[c].seq \in Files
    /\ \A i \in Positions :
          log[i].seg \notin segments => \E t \in Files : t > log[i].seg

\* A capture separates the records before its segment from those after.
CutInv ==
    \A c \in Compactors : Captured(c) =>
        /\ comp[c].seq \in Seqs
        /\ comp[c].at <= Len(log)
        /\ \A i \in Positions :
              /\ i <= comp[c].at => log[i].seg <= comp[c].seq
              /\ i > comp[c].at => log[i].seg >= comp[c].seq

\* The records P are a state captured while segment s was written to: all
\* that came before, but for what an Open had left out.
Cut(s, P) ==
    /\ P \subseteq Positions
    /\ \A i \in P : log[i].seg <= s
    /\ \A i \in Positions : log[i].seg < s => i \in P \cup dropped

\* The index is made of the records in live ...
IndexInv ==
    Up => /\ live \subseteq 1..applied
          /\ \A i \in 1..applied : i \in live \cup dropped
          /\ index = Replayed(log, Empty, live)

\* ... every capture of it of those in held ...
CaptureInv ==
    \A c \in Compactors : Captured(c) =>
        /\ comp[c].cap = Replayed(log, Empty, comp[c].held)
        /\ Cut(comp[c].seq, comp[c].held)

\* ... and every complete snapshot of those in holds.
SnapInv ==
    \A s \in 0..MaxSeq :
        IF s = 0 THEN holds[s] = {}
        ELSE snap[s].st = "done" =>
                /\ snap[s].map = Replayed(log, Empty, holds[s])
                /\ Cut(s, holds[s])

(***************************************************************************)
(* The index, every capture (compact.go:19-27) and every complete snapshot *)
(* are replays of known sets of records, and such a set has every record   *)
(* of the segments before the one that was current (batches that span a    *)
(* rotation included), but for what an Open has left out (open.go:155).    *)
(* This holds of snapshots that no manifest names too: any of them may be  *)
(* published later.                                                        *)
(***************************************************************************)
Inductive ==
    /\ TypeOK /\ LockInv /\ SeqInv /\ LogInv /\ CutInv
    /\ IndexInv /\ CaptureInv /\ SnapInv

=============================================================================
