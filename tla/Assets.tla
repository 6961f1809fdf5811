------------------------------- MODULE Assets -------------------------------
(***************************************************************************)
(* Asset resolution (pkg/assets): what a path of a site maps to.  static   *)
(* is a function from the keys of the manifest, paths of files, to content *)
(* hashes.  Paths are those of PagesRules.                                 *)
(***************************************************************************)
EXTENDS PagesRules

Index == Seg("index", 1)
Page404 == Seg("404", 1)

Serve(key, status) == [kind |-> "file", key |-> key, status |-> status]
RedirectTo(path) == [kind |-> "redirect", location |-> path, status |-> 308]
NotFound == [kind |-> "none", status |-> 404]

IsDir(p) == Last(p) = Empty

(* p with ".html" appended to its last segment.                            *)
WithHtml(p) == Append(Front(p), Seg(Last(p).b, Last(p).h + 1))

(* What the name of a file can be.                                         *)
IsName(s) == s \notin {Empty, Seg(".", 0), Seg("..", 0)}

(* normalizePath: empty and "." segments go, ".." takes back the segment   *)
(* before it, a trailing slash stays.                                      *)
CleanStep(acc, s) ==
  CASE ~acc.ok \/ s \in {Empty, Seg(".", 0)} -> acc
    [] acc.ok /\ s = Seg("..", 0) ->
         IF acc.out = <<>> THEN [ok |-> FALSE, out |-> <<>>]
         ELSE [ok |-> TRUE, out |-> Front(acc.out)]
    [] OTHER -> [ok |-> TRUE, out |-> Append(acc.out, s)]

NormalizePath(p) ==
  LET after[n \in 0..Len(p)] ==
        IF n = 0 THEN [ok |-> TRUE, out |-> <<>>] ELSE CleanStep(after[n - 1], p[n])
      acc == after[Len(p)]
  IN [ok |-> acc.ok,
      path |-> IF acc.out = <<>> \/ IsDir(p) THEN Append(acc.out, Empty) ELSE acc.out]

\* Mutant of Nearest404: the search starts at the root.
FarthestFirst(static, dir) ==
  LET down[n \in 0..Len(dir)] ==
        IF Append(SubSeq(dir, 1, Len(dir) - n), Page404) \in DOMAIN static THEN Len(dir) - n
        ELSE IF n = 0 THEN -1 ELSE down[n - 1]
  IN down[Len(dir)]

(* nearest404: the length of the nearest directory above dir that has an   *)
(* error page, or -1.                                                      *)
Nearest404(static, dir) ==
  LET up[n \in 0..Len(dir)] ==
        IF Append(SubSeq(dir, 1, n), Page404) \in DOMAIN static THEN n
        ELSE IF n = 0 THEN -1 ELSE up[n - 1]
  IN up[Len(dir)]

Miss(static, dir) ==
  LET n == Nearest404(static, dir)
  IN CASE n >= 0 -> Serve(Append(SubSeq(dir, 1, n), Page404), 404)
       [] n < 0 /\ <<Index>> \in DOMAIN static -> Serve(<<Index>>, 200)
       [] OTHER -> NotFound

(* prettyURL: an index page is its directory, another page its name        *)
(* without the suffix; a file named ".html" leaves the bare directory.     *)
PrettyURL(key) ==
  IF Last(key) \in {Index, Seg(Nameless, 1)} THEN Append(Front(key), Empty)
  ELSE Append(Front(key), Seg(Last(key).b, Last(key).h - 1))

ResolveDir(static, p) ==
  LET index == Append(Front(p), Index)
  IN CASE index \in DOMAIN static -> Serve(index, 200)
       [] index \notin DOMAIN static /\ Len(p) > 1
            /\ WithHtml(Front(p)) \in DOMAIN static -> RedirectTo(Front(p))
       [] OTHER -> Miss(static, Front(p))

\* Mutant of ResolveFile: a name without suffix is sent to its page.
ResolveFileRedirects(static, p) ==
  CASE Last(p).h > 0 /\ p \in DOMAIN static -> RedirectTo(PrettyURL(p))
    [] Last(p).h > 0 /\ p \notin DOMAIN static -> Miss(static, Front(p))
    [] Last(p).h = 0 /\ p \in DOMAIN static -> Serve(p, 200)
    [] OTHER ->
         CASE WithHtml(p) \in DOMAIN static -> RedirectTo(WithHtml(p))
           [] WithHtml(p) \notin DOMAIN static /\ Append(p, Index) \in DOMAIN static ->
                RedirectTo(Append(p, Empty))
           [] OTHER -> Miss(static, Front(p))

\* Mutant of ResolveFile: the directory is tried before the page.
ResolveFileDirFirst(static, p) ==
  CASE Last(p).h > 0 /\ p \in DOMAIN static -> RedirectTo(PrettyURL(p))
    [] Last(p).h > 0 /\ p \notin DOMAIN static -> Miss(static, Front(p))
    [] Last(p).h = 0 /\ p \in DOMAIN static -> Serve(p, 200)
    [] OTHER ->
         CASE Append(p, Index) \in DOMAIN static -> RedirectTo(Append(p, Empty))
           [] Append(p, Index) \notin DOMAIN static /\ WithHtml(p) \in DOMAIN static ->
                Serve(WithHtml(p), 200)
           [] OTHER -> Miss(static, Front(p))

ResolveFile(static, p) ==
  CASE Last(p).h > 0 /\ p \in DOMAIN static -> RedirectTo(PrettyURL(p))
    [] Last(p).h > 0 /\ p \notin DOMAIN static -> Miss(static, Front(p))
    [] Last(p).h = 0 /\ p \in DOMAIN static -> Serve(p, 200)
    [] OTHER ->
         CASE WithHtml(p) \in DOMAIN static -> Serve(WithHtml(p), 200)
           [] WithHtml(p) \notin DOMAIN static /\ Append(p, Index) \in DOMAIN static ->
                RedirectTo(Append(p, Empty))
           [] OTHER -> Miss(static, Front(p))

ResolveClean(static, n) ==
  CASE ~n.ok -> Miss(static, <<>>)
    [] n.ok /\ IsDir(n.path) -> ResolveDir(static, n.path)
    [] OTHER -> ResolveFile(static, n.path)
Resolve(static, path) == ResolveClean(static, NormalizePath(path))

-----------------------------------------------------------------------------
(* Conditional requests.  If-None-Match is "*" or a list of tags; a weak   *)
(* tag compares equal to a strong one.                                     *)
ETag(hash) == [weak |-> FALSE, hash |-> hash]
StripWeak(tag) == [tag EXCEPT !.weak = FALSE]
NotModified(inm, hash) ==
  \/ inm.star
  \/ \E tag \in inm.tags : StripWeak(tag) = StripWeak(ETag(hash))

DefaultHeaders ==
  {"Access-Control-Allow-Origin", "Referrer-Policy", "X-Content-Type-Options", "Cache-Control"}
=============================================================================
