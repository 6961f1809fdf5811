----------------------------- MODULE PagesRules -----------------------------
(***************************************************************************)
(* The special files of a site (pkg/pagesspec): _redirects, _routes.json   *)
(* and _headers, their parsers and their matchers.                         *)
(*                                                                         *)
(* A path is what splitting it at "/" gives, the leading slash left out:   *)
(* "/" is <<Empty>>, "/a" is <<a>>, "/a/" is <<a, Empty>>.  A segment is a *)
(* base name and the number of ".html" suffixes it carries.  A pattern is  *)
(* a sequence of segments too, where Splat stands for "*" and the base     *)
(* names of Placeholders for ":name"; a token fills a whole segment.       *)
(***************************************************************************)
EXTENDS Integers, FiniteSets, SequencesExt, SeqOps

CONSTANTS MaxStaticRedirects, MaxDynamicRedirects, MaxHeaderRules, MaxRouteRules

ASSUME LimitsAssumption ==
  {MaxStaticRedirects, MaxDynamicRedirects, MaxHeaderRules, MaxRouteRules} \subseteq Nat

Segment == [b : STRING, h : Nat]
Seg(b, h) == [b |-> b, h |-> h]
Nameless == "/"   \* the empty base name, as no name has a slash in it
Empty == Seg(Nameless, 0)
Splat == Seg("*", 0)
SplatRef == ":splat"
Placeholders == {":name", ":slug"}
Dotted == {".", "..", "style.css"}

IsToken(t) == t = Splat \/ t.b \in Placeholders
TokenMatches(t, s) ==
  IF t.b \in Placeholders THEN s.b # Nameless /\ s.b \notin Dotted /\ s.h = 0 ELSE s = t

(* compilePattern: at most one splat.                                      *)
Compiles(p) == Cardinality({i \in DOMAIN p : p[i] = Splat}) <= 1

SplatAt(p) ==
  CHOOSE i \in 1..Len(p) + 1 : /\ i > Len(p) \/ p[i] = Splat
                               /\ \A j \in 1..i - 1 : p[j] # Splat

(* The segment of s the token at place j of p, not the splat, stands over. *)
Under(p, s, j) == s[IF j < SplatAt(p) THEN j ELSE Len(s) - Len(p) + j]

Matches(p, s) ==
  /\ IF SplatAt(p) > Len(p) THEN Len(s) = Len(p) ELSE Len(s) >= Len(p)
  /\ \A j \in DOMAIN p : j = SplatAt(p) \/ TokenMatches(p[j], Under(p, s, j))

(* substitute, for one token of the template: what it captured, or itself. *)
Captured(p, s, t) ==
  LET places == {j \in DOMAIN p : p[j].b = t.b /\ t.b \in Placeholders}
      last   == CHOOSE j \in places : \A k \in places : k <= j
  IN CASE places # {} ->
            LET seg == Under(p, s, last) IN <<Seg(seg.b, seg.h + t.h)>>
       [] t.b = SplatRef /\ SplatAt(p) <= Len(p) ->
            SubSeq(s, SplatAt(p), Len(s) - Len(p) + SplatAt(p))
       [] OTHER -> <<t>>

Substitute(tmpl, p, s) ==
  FlattenSeq([i \in DOMAIN tmpl |-> Captured(p, s, tmpl[i])])

-----------------------------------------------------------------------------
(* _redirects.  A line has a number of fields (none: blank or a comment),  *)
(* a source, with a host when it is an absolute URL, a destination, local  *)
(* or to another site, and a status: 0 does not parse.                     *)
ValidRedirectStatus == {200, 301, 302, 303, 307, 308}
DefaultRedirectCode == 302

RedirectCode(l) == IF l.fields = 3 THEN l.status ELSE DefaultRedirectCode

\* Mutant of RedirectLineOK: the source is not compiled at upload.
RedirectLineUncompiled(l) ==
  \/ l.fields = 0
  \/ /\ l.fields \in {2, 3}
     /\ RedirectCode(l) \in ValidRedirectStatus
     /\ RedirectCode(l) = 200 => l.local

RedirectLineOK(l) ==
  \/ l.fields = 0
  \/ /\ l.fields \in {2, 3}
     /\ RedirectCode(l) \in ValidRedirectStatus
     /\ RedirectCode(l) = 200 => l.local
     /\ Compiles(l.source)

IsDynamicSource(source) == \E j \in DOMAIN source : IsToken(source[j])

RuleOf(l) == [source |-> l.source, host |-> l.host, dest |-> l.dest,
              local |-> l.local, status |-> RedirectCode(l)]

ParseRedirects(lines) ==
  LET rules   == Without(lines, {l \in RangeOf(lines) : l.fields = 0})
      dynamic == Without(rules, {l \in RangeOf(rules) : ~IsDynamicSource(l.source)})
  IN [ok |-> /\ \A i \in DOMAIN lines : ~lines[i].long /\ RedirectLineOK(lines[i])
             /\ Len(dynamic) <= MaxDynamicRedirects
             /\ Len(rules) - Len(dynamic) <= MaxStaticRedirects,
      rules |-> [i \in DOMAIN rules |-> RuleOf(rules[i])]]

(* EvalRedirects: the first rule whose source matches the path.  The path  *)
(* begins with a slash, so a source that begins with the name of a host    *)
(* never does.  A host here is a name: of a source like "https://*/x",     *)
(* which matches paths by the splat in its host, there is none.            *)
RuleFor(rules, path) ==
  SelectInSeq(rules, LAMBDA r : Compiles(r.source) /\ ~r.host /\ Matches(r.source, path))

Applied(rule, path) ==
  [ok |-> TRUE, status |-> rule.status, local |-> rule.local,
   location |-> Substitute(rule.dest, rule.source, path)]
FirstApplied(rules, i, path) == IF i = 0 THEN [ok |-> FALSE] ELSE Applied(rules[i], path)
EvalRedirects(rules, path) == FirstApplied(rules, RuleFor(rules, path), path)

-----------------------------------------------------------------------------
(* _routes.json.  A rule is a glob, well formed or not (too long, or not   *)
(* starting with a slash); None stands for a site without the file.        *)
ParseRoutes(doc) ==
  /\ doc.decodes
  /\ doc.version = 1
  /\ Len(doc.include) >= 1
  /\ Len(doc.include) + Len(doc.exclude) <= MaxRouteRules
  /\ \A rule \in Range(doc.include) \cup Range(doc.exclude) : rule.wellFormed

MatchGlob(rule, path) == Matches(rule.glob, path)

MatchRoutes(doc, path) ==
  \/ doc.absent
  \/ /\ \E rule \in Range(doc.include) : MatchGlob(rule, path)
     /\ ~\E rule \in Range(doc.exclude) : MatchGlob(rule, path)

-----------------------------------------------------------------------------
(* _headers.  A line is blank, a pattern, sets a header, removes one, or   *)
(* is malformed; a header line belongs to the pattern above it.            *)
ParseHeaderLine(acc, l) ==
  LET n == Len(acc.rules)
  IN CASE ~acc.ok \/ l.kind = "blank" -> acc
       [] acc.ok /\ (l.kind = "malformed" \/ (n = 0 /\ l.kind \in {"set", "unset"})) ->
            [acc EXCEPT !.ok = FALSE]
       [] acc.ok /\ l.kind = "pattern" ->
            [ok |-> Compiles(l.pattern) /\ n < MaxHeaderRules,
             rules |-> Append(acc.rules, [pattern |-> l.pattern, host |-> l.host,
                                          set |-> <<>>, unset |-> {}])]
       [] acc.ok /\ n > 0 /\ l.kind = "unset" ->
            [acc EXCEPT !.rules[n].unset = @ \cup {l.name}]
       [] acc.ok /\ n > 0 /\ l.kind = "set" ->
            [acc EXCEPT !.rules[n].set = Append(@, [name |-> l.name, value |-> l.value])]

ParseHeaders(lines) ==
  LET parsed[n \in 0..Len(lines)] ==
        IF n = 0 THEN [ok |-> TRUE, rules |-> <<>>] ELSE ParseHeaderLine(parsed[n - 1], lines[n])
  IN parsed[Len(lines)]

(* The headers of every rule that matches, in rule order, and the union of *)
(* what those rules remove.  A host pattern matches host and path.         *)
EvalHeaders(rules, host, path) ==
  LET hits == SelectSeq(rules, LAMBDA r :
                /\ Compiles(r.pattern)
                /\ r.host \in {"", host}
                /\ Matches(r.pattern, path))
      Values(r) == [i \in DOMAIN r.set |->
                     [name |-> r.set[i].name, value |-> Substitute(r.set[i].value, r.pattern, path)]]
  IN [set   |-> FlattenSeq([i \in DOMAIN hits |-> Values(hits[i])]),
      unset |-> UNION {hits[i].unset : i \in DOMAIN hits}]
=============================================================================
