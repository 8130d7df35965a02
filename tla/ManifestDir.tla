----------------------------- MODULE ManifestDir -----------------------------
(***************************************************************************)
(* The MANIFEST together with the snapshot directory it describes, and any *)
(* number of goroutines that refresh it: Open, the rotation hook and the   *)
(* end of a compaction each call refreshManifest (open.go, compact.go).    *)
(* Snapshots only ever appear; nothing in the code removes one.            *)
(*                                                                         *)
(* Two history variables say how calls have overlapped, so that the        *)
(* properties can name which overlaps spoil the manifest.                  *)
(***************************************************************************)
EXTENDS ManifestFile

VARIABLES
    dir,         \* sequence numbers of the snapshot files present
    shared,      \* history: calls that had MANIFEST.tmp open beside another
    overtaken    \* history: calls after whose listing MANIFEST has changed

overlapVars == <<shared, overtaken>>
dirVars == <<manifest, tmp, ref, dir, overlapVars>>

\* Between os.Create and os.Rename; from the listing to os.Rename.
Writing(r) == ref[r].pc \in {"created", "flushed"}

Listed(r) == ref[r].pc \in {"listed", "created", "flushed"}

DirTypeOK ==
    /\ ManifestTypeOK
    /\ dir \subseteq Seqs
    /\ shared \subseteq Refreshers /\ overtaken \subseteq Refreshers

DirInit ==
    /\ ManifestInit
    /\ dir = {}
    /\ shared = {} /\ overtaken = {}

\* A snapshot is named after the WAL segment that was current when the index
\* was captured; a compaction that outlives its handle may be late.
CreateSnapshot(s) ==
    /\ dir' = dir \cup {s}
    /\ UNCHANGED <<manifestVars, overlapVars>>

StartRefresh(r) ==
    /\ RefreshIdle(r)
    /\ ref' = Calling(r)
    /\ UNCHANGED <<manifest, tmp, dir, overlapVars>>

NoteOverlaps ==
    /\ shared' = {r \in Refreshers :
                    /\ Writing(r)'
                    /\ r \in shared \/ \E q \in Refreshers \ {r} : Writing(q)'}
    /\ overtaken' = {r \in Refreshers :
                       /\ Listed(r)'
                       /\ r \in overtaken \/ (Listed(r) /\ manifest' # manifest)}

DirRefresh(r) ==
    /\ RefreshStep(r, dir)
    /\ NoteOverlaps
    /\ UNCHANGED dir

DirCrash ==
    /\ ManifestCrash
    /\ shared' = {} /\ overtaken' = {}
    /\ UNCHANGED dir

DirNext ==
    \/ \E s \in Seqs : CreateSnapshot(s)
    \/ \E r \in Refreshers : StartRefresh(r) \/ DirRefresh(r)
    \/ DirCrash

DirSpec == DirInit /\ [][DirNext]_dirVars

-----------------------------------------------------------------------------
(***************************************************************************)
(* However many calls of refreshManifest overlap and wherever the process  *)
(* dies, MANIFEST is only ever replaced by a complete manifest that names  *)
(* a snapshot on disk, unless the call that replaces it had MANIFEST.tmp   *)
(* open while another call had (manifest.go:82-129).  In particular what   *)
(* a dead process or an earlier pair of overlapping calls left behind in   *)
(* MANIFEST.tmp is never published by a later call.                        *)
(***************************************************************************)
NeverTorn ==
    [][manifest' # manifest =>
          manifest' \in dir \/ \E r \in shared : DirRefresh(r)]_dirVars

(***************************************************************************)
(* The published snapshot sequence decreases only by a call that shared    *)
(* MANIFEST.tmp, or whose listing is older than the manifest it replaces:  *)
(* another call published in between (manifest_update.go:34-57).  A call   *)
(* that met neither never publishes a stale listing, though snapshots      *)
(* appear out of order and earlier calls may have left MANIFEST stale.     *)
(***************************************************************************)
NeverGoesBack ==
    [][{manifest, manifest'} \subseteq Seqs /\ manifest' < manifest =>
          \E r \in shared \cup overtaken : DirRefresh(r)]_dirVars

-----------------------------------------------------------------------------
(* What the documents say and the code does not do *)

(***************************************************************************)
(* manifest.go:82, "writes the manifest atomically using a temp file +     *)
(* rename": a published manifest is not replaced by an empty file, which   *)
(* Open would load as a database without a snapshot.                       *)
(***************************************************************************)
NeverEmptied == [][manifest # 0 => manifest' # 0]_dirVars

(***************************************************************************)
(* design.md:524, "the MANIFEST should reflect the new snapshot": a        *)
(* published manifest is not replaced by one of an older snapshot.         *)
(***************************************************************************)
NewestStays == [][{manifest, manifest'} \subseteq Seqs => manifest' >= manifest]_dirVars

=============================================================================
