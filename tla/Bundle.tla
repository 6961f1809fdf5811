------------------------------- MODULE Bundle -------------------------------
(***************************************************************************)
(* From an uploaded tar stream to a deployment: the extraction of          *)
(* pkg/adminapi/deploy.go and the scan of pkg/bundle.  A path is the       *)
(* sequence of its segments; "/" as the first segment makes it absolute.   *)
(* A file is known by its content, Bad being a content that the parser of  *)
(* a special file refuses.  Errors are the status the admin API answers.   *)
(***************************************************************************)
EXTENDS Integers, Sequences, FiniteSets, SequencesExt

CONSTANTS MaxExtracted,  \* Options.MaxExtractedBytes
          Bad            \* a content no special-file parser accepts

ASSUME BudgetIsPositive == MaxExtracted \in Nat \ {0}

(* A tar entry.                                                            *)
Entry(path, kind, size, content) ==
  [path |-> path, kind |-> kind, size |-> size, content |-> content]

-----------------------------------------------------------------------------
(* path.Clean on a relative path: "." vanishes and ".." takes a segment    *)
(* back, or stays when there is none to take.                              *)
cleanSegment(acc, seg) ==
  CASE seg = "."  -> acc
    [] seg = ".." /\ acc # <<>> /\ Last(acc) # ".." -> Front(acc)
    [] OTHER      -> Append(acc, seg)

Clean(path) ==
  LET cleaned[n \in 0..Len(path)] ==
        IF n = 0 THEN <<>> ELSE cleanSegment(cleaned[n - 1], path[n])
  IN cleaned[Len(path)]

(* Absolute paths, illegal characters and what still climbs after cleaning.*)
Rejected(path) ==
  \/ path # <<>> /\ path[1] = "/"
  \/ \E i \in 1..Len(path) : path[i] = "\\"
  \/ \E i \in 1..Len(Clean(path)) : Clean(path)[i] = ".."

(* The extraction so far: the files on disk with their contents, the       *)
(* directories, the budget left, the bytes copied and the answer to give,  *)
(* "none" while there is none.                                             *)
NewExtraction ==
  [tree |-> <<>>, dirs |-> {}, remaining |-> MaxExtracted, copied |-> 0,
   count |-> 0, err |-> "none"]

Refused(ex, status) == [ex EXCEPT !.err = status]

(* MkdirAll: every proper prefix becomes a directory, none may be a file.  *)
WithDirs(ex, made) == [ex EXCEPT !.dirs = @ \cup made]
Parents(path) == {SubSeq(path, 1, i) : i \in 1..(Len(path) - 1)}

(* writeFile: at most one byte more than the budget is copied.             *)
Copied(ex, rel, e, n) ==
  [ex EXCEPT !.tree = [q \in DOMAIN @ \cup {rel} |-> IF q = rel THEN e.content ELSE @[q]],
             !.copied = @ + n]
Counted(ex, n) == [ex EXCEPT !.remaining = @ - n, !.count = @ + 1]

(* Mutant: the budget is per file, not per archive.                        *)
writeFilePerFile(ex, rel, e) ==
  LET n == IF e.size > MaxExtracted THEN MaxExtracted + 1 ELSE e.size
  IN  IF n > MaxExtracted THEN Refused(Copied(ex, rel, e, n), "413")
      ELSE Counted(Copied(ex, rel, e, n), 0)

writeFile(ex, rel, e) ==
  LET n == IF e.size > ex.remaining THEN ex.remaining + 1 ELSE e.size
  IN  IF ex.remaining <= 0 THEN Refused(ex, "413")
      ELSE IF n > ex.remaining THEN Refused(Copied(ex, rel, e, n), "413")
      ELSE Counted(Copied(ex, rel, e, n), n)

(* One turn of the loop of untar.                                          *)
untarDir(ex, rel) ==
  IF ({rel} \cup Parents(rel)) \cap DOMAIN ex.tree # {} THEN Refused(ex, "500")
  ELSE WithDirs(ex, Parents(rel) \cup {rel})

untarFile(ex, rel, e) ==
  IF Parents(rel) \cap DOMAIN ex.tree # {} THEN Refused(ex, "500")
  ELSE IF rel \in ex.dirs /\ ex.remaining > 0 THEN Refused(WithDirs(ex, Parents(rel)), "500")
  ELSE writeFile(WithDirs(ex, Parents(rel)), rel, e)

untarEntry(ex, e) ==
  IF ex.err # "none" THEN ex
  ELSE IF Rejected(e.path) THEN Refused(ex, "400")
  ELSE IF Clean(e.path) = <<>> THEN ex
  ELSE CASE e.kind = "dir"  -> untarDir(ex, Clean(e.path))
         [] e.kind = "file" -> untarFile(ex, Clean(e.path), e)
         [] e.kind = "link" -> Refused(ex, "400")
         [] OTHER           -> ex

(* The end of the archive: one without a file is refused.                  *)
untarEnd(ex) ==
  IF ex.err = "none" /\ ex.count = 0 THEN Refused(ex, "400") ELSE ex

Untar(archive) == untarEnd(FoldLeft(untarEntry, NewExtraction, archive))

(* A single leading directory that is not itself build output is the root. *)
BuildRoot(ex) ==
  LET tops == {q[1] : q \in DOMAIN ex.tree \cup ex.dirs}
      top  == CHOOSE t \in tops : TRUE
  IN  IF Cardinality(tops) = 1 /\ <<top>> \in ex.dirs /\ top \notin {"_worker.js", "functions"}
      THEN [tree |-> [q \in {Tail(f) : f \in DOMAIN ex.tree} |-> ex.tree[<<top>> \o q]],
            dirs |-> {Tail(q) : q \in ex.dirs} \ {<<>>}]
      ELSE [tree |-> ex.tree, dirs |-> ex.dirs]

-----------------------------------------------------------------------------
(* pkg/bundle *)

Specials  == {<<"_headers">>, <<"_redirects">>, <<"_routes.json">>}
Wranglers == {<<"wrangler.toml">>, <<"wrangler.json">>, <<"wrangler.jsonc">>}

(* scanWorker: the modules under their path in worker/, or an error.       *)
scanWorker(root) ==
  LET files == DOMAIN root.tree
      under == {f \in files : Len(f) > 1 /\ f[1] = "_worker.js"}
  IN  CASE <<"_worker.js">> \in files ->
             [err |-> "none", mods |-> {[path |-> <<"index.js">>, content |-> root.tree[<<"_worker.js">>]]}]
        [] <<"_worker.js">> \in root.dirs \ files ->
             IF <<"_worker.js", "index.js">> \notin files THEN [err |-> "400", mods |-> {}]
             ELSE [err |-> "none", mods |-> {[path |-> Tail(f), content |-> root.tree[f]] : f \in under}]
        [] OTHER -> [err |-> IF <<"functions">> \in root.dirs THEN "400" ELSE "none", mods |-> {}]

(* Mutant: special names are looked for below the root too.                *)
scanStaticsAnywhere(root) ==
  {[path |-> f, hash |-> root.tree[f]] :
     f \in {g \in DOMAIN root.tree :
              <<Last(g)>> \notin Specials \cup Wranglers \cup {<<"_worker.js">>}
                /\ g[1] # "functions"}}

(* Every file but the special ones of the root, the worker and functions/. *)
scanStatics(root) ==
  LET skippedDir(f) == f[1] \in {"_worker.js", "functions"} /\ Len(f) > 1
  IN  {[path |-> f, hash |-> root.tree[f]] :
         f \in {g \in DOMAIN root.tree :
                  g \notin Specials \cup Wranglers \cup {<<"_worker.js">>} /\ ~skippedDir(g)}}

(* readOptional: a special name that is a directory cannot be read.        *)
parseSpecials(root) ==
  ~ \E f \in Specials : f \in root.dirs \/ (f \in DOMAIN root.tree /\ root.tree[f] = Bad)

(* parseCompat: the first of toml, json, jsonc; the toml parser accepts    *)
(* everything.                                                             *)
parseCompat(root) ==
  LET there(f) == f \in DOMAIN root.tree
      bad(f)   == f \in root.dirs \/ (there(f) /\ root.tree[f] = Bad)
  IN  IF there(<<"wrangler.toml">>) THEN TRUE
      ELSE /\ <<"wrangler.toml">> \notin root.dirs
           /\ ~bad(<<"wrangler.json">>)
           /\ there(<<"wrangler.json">>) \/ ~bad(<<"wrangler.jsonc">>)

(* The scanned deployment, or the error that ends the upload.              *)
Scan(root) ==
  LET w == scanWorker(root)
  IN  IF w.err # "none" \/ ~parseSpecials(root) \/ ~parseCompat(root)
      THEN [err |-> "400", statics |-> {}, workers |-> {}]
      ELSE [err |-> "none", statics |-> scanStatics(root), workers |-> w.mods]

HasWorker(b) == b.workers # {}
HashesOf(b)  == {s.hash : s \in b.statics}
=============================================================================
