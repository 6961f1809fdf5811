-------------------------------- MODULE Site --------------------------------
(***************************************************************************)
(* A site and a client of it: the special files are written line by line,  *)
(* parsed when the site is published (pkg/bundle calls the parsers of      *)
(* pkg/pagesspec), and a client then asks for a path and follows every     *)
(* redirect it is given, through the decision of ServeHTTP between worker  *)
(* and static pipeline and the static pipeline itself (pkg/router).        *)
(* Router has the rest of the handler: caches, storage, leases.            *)
(***************************************************************************)
EXTENDS Pipeline

CONSTANTS
  StaticSets,     \* the sets of files a site may hold
  Urls,           \* the paths a client asks for first
  RedirectLines,  \* the lines a _redirects file may have
  HeaderLines,    \* the lines a _headers file may have
  RoutesDocs,     \* the _routes.json files a site may have, absent ones too
  MaxLines,       \* bound on the lines of a file
  MaxHops,        \* bound on the redirects a client follows
  SiteHost

(* The files of a site are those of a tree on disk, under the paths of the *)
(* tree: none is in a directory that is a file.                            *)
ASSUME SiteAssumption ==
  /\ \A S \in StaticSets : \A key \in S :
       /\ key \in Seq(Segment) /\ key # <<>> /\ \A i \in DOMAIN key : IsName(key[i])
       /\ \A n \in 1..Len(key) - 1 : SubSeq(key, 1, n) \notin S
  /\ Urls \subseteq Seq(Segment) \ {<<>>}
  /\ \A l \in HeaderLines : l.kind \in {"blank", "pattern", "set", "unset", "malformed"}

VARIABLES static, lines, routes, worker, phase, rules, asked, url, hops, answer
siteVars == <<static, lines, routes, worker, phase, rules, asked, url, hops, answer>>

NoFiles == [redirects |-> <<>>, headers |-> <<>>]
NoAnswer == [kind |-> "pending", status |-> 0]

SiteInit ==
  /\ static \in {[k \in S |-> k] : S \in StaticSets}
  /\ routes \in RoutesDocs
  /\ worker \in BOOLEAN
  /\ asked \in Urls
  /\ lines = NoFiles
  /\ rules = NoFiles
  /\ phase = "write"
  /\ url = asked
  /\ hops = 0
  /\ answer = NoAnswer

WriteRedirect(l) ==
  /\ phase = "write"
  /\ lines.headers = <<>>
  /\ Len(lines.redirects) < MaxLines
  /\ lines' = [lines EXCEPT !.redirects = Append(@, l)]
  /\ UNCHANGED <<static, routes, worker, phase, rules, asked, url, hops, answer>>

WriteHeader(l) ==
  /\ phase = "write"
  /\ lines.redirects = <<>>
  /\ Len(lines.headers) < MaxLines
  /\ lines' = [lines EXCEPT !.headers = Append(@, l)]
  /\ UNCHANGED <<static, routes, worker, phase, rules, asked, url, hops, answer>>

(* The upload parses the special files and is refused when one is bad,     *)
(* _routes.json also for a site without a worker, where it decides nothing.*)
Publish ==
  LET r == ParseRedirects(lines.redirects)
      h == ParseHeaders(lines.headers)
  IN /\ phase = "write"
     /\ IF r.ok /\ h.ok /\ (routes.absent \/ ParseRoutes(routes))
          THEN /\ phase' = "serve"
               /\ rules' = [redirects |-> r.rules, headers |-> h.rules]
          ELSE phase' = "refused" /\ UNCHANGED rules
     /\ UNCHANGED <<static, lines, routes, worker, asked, url, hops, answer>>

WithHeaders(a, headers) ==
  [kind |-> a.kind, key |-> a.key, status |-> a.status,
   names |-> headers.names, set |-> headers.set]

Answer(path) ==
  IF ToWorker(worker, routes, path) THEN [kind |-> "worker", status |-> 200]
  ELSE ServeStatic(static, rules, path)

Follow ==
  /\ phase = "serve"
  /\ \E a \in {Answer(url)} :
     /\ a.kind = "redirect"
     /\ hops < MaxHops
     /\ url' = a.location
     /\ hops' = hops + 1
     /\ UNCHANGED <<static, lines, routes, worker, phase, rules, asked, answer>>

Finish ==
  /\ phase = "serve"
  /\ \E a \in {Answer(url)} :
     /\ a.kind # "redirect"
     /\ phase' = "done"
     /\ answer' = IF a.kind = "file"
                    THEN WithHeaders(a, ResponseHeaders(rules.headers, SiteHost, url))
                    ELSE a
     /\ UNCHANGED <<static, lines, routes, worker, rules, asked, url, hops>>

SiteNext ==
  \/ \E l \in RedirectLines : WriteRedirect(l)
  \/ \E l \in HeaderLines : WriteHeader(l)
  \/ Publish
  \/ Follow
  \/ Finish

SiteSpec == SiteInit /\ [][SiteNext]_siteVars

-----------------------------------------------------------------------------
(* What ParseRedirects, ParseHeaders and ParseRoutes accept at upload, the *)
(* matchers can use at request time: every pattern compiles, so none is    *)
(* skipped, a rewrite stays on the site, and the limits on static and      *)
(* dynamic redirects and on header rules hold.                             *)
AcceptedRulesEvaluate ==
  phase \in {"serve", "done"} =>
    /\ \A i \in DOMAIN rules.redirects :
         /\ Compiles(rules.redirects[i].source)
         /\ rules.redirects[i].status = 200 => rules.redirects[i].local
    /\ \A i \in DOMAIN rules.headers : Compiles(rules.headers[i].pattern)
    /\ LET dynamic == {i \in DOMAIN rules.redirects : IsDynamicSource(rules.redirects[i].source)}
       IN  /\ Cardinality(dynamic) <= MaxDynamicRedirects
           /\ Len(rules.redirects) - Cardinality(dynamic) <= MaxStaticRedirects
    /\ Len(rules.headers) <= MaxHeaderRules

(* The redirects of Resolve alone (pretty URLs, trailing slashes) come to  *)
(* an end: each takes a suffix ".html" or a slash off or puts one slash    *)
(* on.  A client of a site without _redirects follows at most two more     *)
(* than the name it asks for has suffixes.                                 *)
NameSuffixes(path) ==
  LET p == NormalizePath(path).path
  IN IF ~IsDir(p) THEN Last(p).h ELSE IF Len(p) > 1 THEN Last(Front(p)).h ELSE 0

PrettyUrlsEnd == rules.redirects = <<>> => hops <= 2 + NameSuffixes(asked)

(* A page of the site asked for by the name of its file is served, with    *)
(* status 200, under its pretty URL, or by the worker; a file of the same  *)
(* name without suffix comes first.  Resolve reaches every page but those  *)
(* called ".html", "..html" and "...html", whose pretty URL is a directory.*)
PlainPage(key) == Last(key).h = 1 /\ Last(key).b \notin {Nameless, ".", ".."}
Shadow(key) == Append(Front(key), Seg(Last(key).b, 0))

PagesReachable ==
  phase = "done" /\ answer.kind # "worker" /\ rules.redirects = <<>>
    /\ asked \in DOMAIN static /\ PlainPage(asked) =>
      /\ answer.kind = "file" /\ answer.status = 200
      /\ answer.key \in {asked, Shadow(asked)}

(* A path that maps to nothing gets the error page of the nearest          *)
(* directory above it; index.html stands in for it only when no directory  *)
(* above the path has one, unless it was asked for itself, as the root or  *)
(* by its name.  miss and nearest404 against this definition.              *)
Above(path) == Prefixes(Front(NormalizePath(path).path))
ErrorPages(path) ==
  IF NormalizePath(path).ok
    THEN {d \in Above(path) \cup {<<>>} : Append(d, Page404) \in DOMAIN static}
    ELSE {d \in {<<>>} : <<Page404>> \in DOMAIN static}

ErrorPageIsNearest ==
  phase = "done" /\ rules.redirects = <<>> =>
    /\ answer.status = 404 /\ answer.kind = "file" =>
         /\ Front(answer.key) \in ErrorPages(url)
         /\ \A d \in ErrorPages(url) : Len(d) <= Len(Front(answer.key))
    /\ answer.kind = "none" => ErrorPages(url) = {} /\ <<Index>> \notin DOMAIN static
    /\ answer.kind = "file" /\ answer.key = <<Index>>
         /\ (NormalizePath(url).ok => NormalizePath(url).path \notin {<<Empty>>, <<Seg("index", 0)>>}) =>
         ErrorPages(url) = {}

(* A site answers as its files and accepted rules say: every rule can be   *)
(* used, redirects end, pages are reached and the nearest error page is    *)
(* found.                                                                  *)
SiteSound ==
  AcceptedRulesEvaluate /\ PrettyUrlsEnd /\ PagesReachable /\ ErrorPageIsNearest

(* A rewrite serves the asset of its destination in place: the client is   *)
(* not sent elsewhere (the comment on validRedirectStatus in redirects.go  *)
(* and docs/ARCHITECTURE.md 3.3).                                          *)
RewritesToAsset(path) ==
  LET rule == EvalRedirects(rules.redirects, path)
  IN /\ ~ToWorker(worker, routes, path)
     /\ rule.ok /\ rule.status = 200
     /\ rule.location \in DOMAIN static

RewriteServesInPlace == [][url' # url => ~RewritesToAsset(url)]_siteVars
=============================================================================
