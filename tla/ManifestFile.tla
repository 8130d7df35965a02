---------------------------- MODULE ManifestFile ----------------------------
(***************************************************************************)
(* The MANIFEST file of a database directory and the procedure that        *)
(* rewrites it: refreshManifest (manifest_update.go) followed by           *)
(* WriteManifest (internal/manifest/manifest.go).                          *)
(*                                                                         *)
(* Nothing in the code serialises two calls of refreshManifest: Open and   *)
(* the rotation hook run one, a background compaction runs another, and    *)
(* all of them go through the same MANIFEST.tmp.  So a call is a sequence  *)
(* of file operations, and the calls of several goroutines interleave.     *)
(*                                                                         *)
(* A manifest is abstracted to its last_snapshot_seq, the one field that   *)
(* recovery reads (the snapshot it loads is the greatest one listed, which *)
(* is the same number).  0 stands for a missing or an empty MANIFEST:      *)
(* both are loaded as the zero Manifest.                                   *)
(***************************************************************************)
EXTENDS Integers, FiniteSets, FiniteSetsExt

CONSTANTS
    Refreshers,  \* the goroutines that may run refreshManifest
    MaxSeq,      \* bound on segment and snapshot sequence numbers
    Garbled,     \* content that ReadManifest refuses
    NoFile       \* MANIFEST.tmp does not exist

ASSUME ManifestConstants ==
    /\ MaxSeq \in Nat \ {0}
    /\ Garbled \notin Int
    /\ NoFile \notin Int
    /\ Garbled # NoFile

VARIABLES
    manifest,    \* content of MANIFEST
    tmp,         \* content of MANIFEST.tmp
    ref          \* per refresher: program counter, listed sequence, open file

manifestVars == <<manifest, tmp, ref>>

Seqs == 1..MaxSeq

Content == 0..MaxSeq \cup {Garbled}

IdleRefresh == [pc |-> "idle", seq |-> 0, fd |-> "none"]

(***************************************************************************)
(* fd is the file a refresher holds open: "tmp" and "manifest" are the     *)
(* files those names refer to now, "unlinked" one that a later rename      *)
(* replaced.                                                               *)
(***************************************************************************)
RefreshState ==
    [pc : {"idle", "list", "listed", "created", "flushed"},
     seq : 0..MaxSeq,
     fd : {"none", "tmp", "manifest", "unlinked"}]

ManifestTypeOK ==
    /\ manifest \in Content
    /\ tmp \in Content \cup {NoFile}
    /\ ref \in [Refreshers -> RefreshState]

ManifestInit ==
    /\ manifest = 0
    /\ tmp = NoFile
    /\ ref = [r \in Refreshers |-> IdleRefresh]

RefreshIdle(r) == ref[r].pc = "idle"

Calling(r) == [ref EXCEPT ![r] = [IdleRefresh EXCEPT !.pc = "list"]]

Return(r) == [ref EXCEPT ![r] = IdleRefresh]

\* A variant that takes the next sequence for the last one.
ListDirsNext(r, files) ==
    /\ ref[r].pc = "list"
    /\ ref' = IF files = {} THEN Return(r)
              ELSE [ref EXCEPT ![r].pc = "listed", ![r].seq = Max(files) + 1]
    /\ UNCHANGED <<manifest, tmp>>

\* A variant that takes the file the directory happens to list last.
ListDirsUnsorted(r, files) ==
    /\ ref[r].pc = "list"
    /\ \/ files = {} /\ ref' = Return(r)
       \/ \E s \in files : ref' = [ref EXCEPT ![r].pc = "listed", ![r].seq = s]
    /\ UNCHANGED <<manifest, tmp>>

(***************************************************************************)
(* The directory listings.  files is the set of snapshot files present,    *)
(* complete or not: only their names are looked at.  Before the first      *)
(* compaction there is no snapshots directory, ReadDir fails, and the call *)
(* returns without touching the manifest.                                  *)
(***************************************************************************)
ListDirs(r, files) ==
    /\ ref[r].pc = "list"
    /\ ref' = IF files = {} THEN Return(r)
              ELSE [ref EXCEPT ![r].pc = "listed", ![r].seq = Max(files)]
    /\ UNCHANGED <<manifest, tmp>>

\* A variant that writes MANIFEST in place.
CreateTmpInPlace(r) ==
    /\ ref[r].pc = "listed"
    /\ ref' = [ref EXCEPT ![r].pc = "created", ![r].fd = "manifest"]
    /\ manifest' = 0
    /\ UNCHANGED tmp

\* os.Create: an existing MANIFEST.tmp is truncated, not replaced.
CreateTmp(r) ==
    /\ ref[r].pc = "listed"
    /\ ref' = [ref EXCEPT ![r].pc = "created", ![r].fd = "tmp"]
    /\ tmp' = 0
    /\ UNCHANGED manifest

\* What a file holding old may hold once seq was written over its beginning.
Overwritten(old, seq) == IF old = 0 THEN {seq} ELSE {seq, Garbled}

\* Flush, Sync and Close write to the file the refresher opened, whatever
\* name that file has by now.
FlushTmp(r) ==
    /\ ref[r].pc = "created"
    /\ ref' = [ref EXCEPT ![r].pc = "flushed"]
    /\ \/ /\ ref[r].fd = "tmp"
          /\ tmp' \in Overwritten(tmp, ref[r].seq)
          /\ UNCHANGED manifest
       \/ /\ ref[r].fd = "manifest"
          /\ manifest' \in Overwritten(manifest, ref[r].seq)
          /\ UNCHANGED tmp
       \/ /\ ref[r].fd = "unlinked"
          /\ UNCHANGED <<manifest, tmp>>

AfterRename(fd) ==
    IF fd = "tmp" THEN "manifest"
    ELSE IF fd = "manifest" THEN "unlinked" ELSE fd

\* os.Rename moves whatever file is called MANIFEST.tmp now; it fails when
\* another refresher has already moved it.
RenameTmp(r) ==
    /\ ref[r].pc = "flushed"
    /\ \/ /\ tmp = NoFile
          /\ ref' = Return(r)
          /\ UNCHANGED <<manifest, tmp>>
       \/ /\ tmp # NoFile
          /\ manifest' = tmp
          /\ tmp' = NoFile
          /\ ref' = [s \in Refreshers |->
                        IF s = r THEN IdleRefresh
                        ELSE [ref[s] EXCEPT !.fd = AfterRename(ref[s].fd)]]

RefreshStep(r, files) ==
    \/ ListDirs(r, files)
    \/ CreateTmp(r)
    \/ FlushTmp(r)
    \/ RenameTmp(r)

\* A process that dies leaves its files behind.
ManifestCrash ==
    /\ ref' = [r \in Refreshers |-> IdleRefresh]
    /\ UNCHANGED <<manifest, tmp>>

=============================================================================
