------------------------------ MODULE Extract -------------------------------
(***************************************************************************)
(* One upload being extracted, entry by entry: the loop of untar in        *)
(* pkg/adminapi/deploy.go against what the archive as a whole says.        *)
(***************************************************************************)
EXTENDS Bundle

CONSTANTS Entries,     \* the tar entries a client sends
          MaxEntries   \* bound: entries per archive

(* A path is split at its slashes: only the first segment can be "/".      *)
ASSUME EntriesAssumption ==
  \A e \in Entries :
    /\ e.kind \in {"file", "dir", "link", "other"}
    /\ e.size \in Nat
    /\ e.path \in Seq(STRING)
    /\ \A i \in 2..Len(e.path) : e.path[i] # "/"

VARIABLES archive,     \* the entries read so far
          ex,          \* the extraction
          ended        \* the archive has been read, or refused

extractVars == <<archive, ex, ended>>

ExtractInit == archive = <<>> /\ ex = NewExtraction /\ ended = FALSE

ReadEntry ==
  /\ ~ended /\ Len(archive) < MaxEntries
  /\ \E e \in Entries : /\ archive' = Append(archive, e)
                        /\ ex' = untarEntry(ex, e)
                        /\ ended' = (ex'.err # "none")

ReadEnd == ~ended /\ ended' = TRUE /\ ex' = untarEnd(ex) /\ UNCHANGED archive

ExtractNext == ReadEntry \/ ReadEnd
ExtractSpec == ExtractInit /\ [][ExtractNext]_extractVars

-----------------------------------------------------------------------------
(* The regular entries of an archive that name a file, and the last of     *)
(* them for a path.                                                        *)
IsFile(e) == e.kind = "file" /\ Clean(e.path) # <<>>
Regular(a) == {i \in 1..Len(a) : IsFile(a[i])}
LastFor(a, f) ==
  LET at == {i \in Regular(a) : Clean(a[i].path) = f}
  IN  a[CHOOSE i \in at : \A j \in at : j <= i]

(* The bytes its files have together.                                      *)
BytesOf(e) == IF IsFile(e) THEN e.size ELSE 0
FileBytes(a) ==
  LET upTo[n \in 0..Len(a)] == IF n = 0 THEN 0 ELSE upTo[n - 1] + BytesOf(a[n])
  IN upTo[Len(a)]

(***************************************************************************)
(* untar and writeFile keep the size cap whatever the order of the         *)
(* entries: at most one byte more than the cap reaches the disk, only an   *)
(* archive whose files fit is accepted, and in an accepted archive every   *)
(* file has the content of its last entry, at a path inside the directory. *)
(***************************************************************************)
ExtractionExact ==
  /\ ex.copied <= MaxExtracted + 1
  /\ ex.err = "none" =>
       /\ ex.copied = FileBytes(archive)
       /\ ex.copied <= MaxExtracted
       /\ DOMAIN ex.tree = {Clean(archive[i].path) : i \in Regular(archive)}
       /\ \A f \in DOMAIN ex.tree : f[1] \notin {"..", "/"} /\ ex.tree[f] = LastFor(archive, f).content

(***************************************************************************)
(* Scan deploys an accepted archive completely: every file below the build *)
(* root is exactly one of a static asset, a worker module, a special file  *)
(* or a file of functions/, and functions/ is only left out when there is  *)
(* a compiled worker.                                                      *)
(***************************************************************************)
ScanPartitions ==
  LET root == BuildRoot(ex)
      b    == Scan(root)
      statics == {s.path : s \in b.statics}
      modules == {f \in DOMAIN root.tree : f[1] = "_worker.js"}
      config  == DOMAIN root.tree \cap (Specials \cup Wranglers)
      sources == {f \in DOMAIN root.tree : f[1] = "functions" /\ Len(f) > 1}
  IN  ended /\ ex.err = "none" /\ b.err = "none" =>
        /\ statics \cup modules \cup config \cup sources = DOMAIN root.tree
        /\ statics \cap (modules \cup config \cup sources) = {}
        /\ Cardinality(modules) = Cardinality(b.workers)
        /\ sources # {} => HasWorker(b)

(* What an upload contains is what is deployed: an accepted archive is     *)
(* extracted exactly, and Scan leaves nothing of it out.                   *)
BundleExact == ExtractionExact /\ ScanPartitions
=============================================================================
