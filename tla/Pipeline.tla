------------------------------ MODULE Pipeline ------------------------------
(***************************************************************************)
(* The decisions the router takes about a request once it has the manifest *)
(* (pkg/router/router.go and static.go): worker or static pipeline, and    *)
(* what the static pipeline answers.                                       *)
(***************************************************************************)
EXTENDS Assets

(* The headers of a file: the defaults and the file's own, each replaced   *)
(* by what the rules set, without what they remove.                        *)
ResponseHeaders(hrules, host, path) ==
  LET eval  == EvalHeaders(hrules, host, path)
      given == {eval.set[i].name : i \in DOMAIN eval.set}
  IN [names |-> ((DefaultHeaders \cup {"Content-Type", "ETag"}) \cup given) \ eval.unset,
      set   |-> SelectSeq(eval.set, LAMBDA e : e.name \notin eval.unset)]

(* serveStatic, up to the bytes: a redirect of the rules, or the asset the *)
(* path, rewritten or not, resolves to.                                    *)
UnderRule(rule, files, path) ==
  IF rule.ok /\ rule.status # 200
    THEN [kind |-> IF rule.local THEN "redirect" ELSE "away",
          location |-> rule.location, status |-> rule.status]
    ELSE Resolve(files, IF rule.ok THEN rule.location ELSE path)
ServeStatic(files, srules, path) == UnderRule(EvalRedirects(srules.redirects, path), files, path)

ToWorker(hasWorker, doc, path) == hasWorker /\ MatchRoutes(doc, path)
=============================================================================
