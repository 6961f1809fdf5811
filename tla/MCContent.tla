------------------------------ MODULE MCContent ------------------------------
(***************************************************************************)
(* Model-checking instance of Deploy, Extract and Site: how a site gets    *)
(* into the system and how it then answers.  The three share nothing; part *)
(* says which of them a behaviour is about.                                *)
(***************************************************************************)
EXTENDS Deploy, Extract, MCSite

CONSTANTS t1, t2, p1, p2, d1, d2, shop, label2, s1, s2, c1, c2, c3

VARIABLE part

(* shop is a custom domain, label2 the host of page p2.                    *)
HostLabels == shop :> None @@ label2 :> p2

File(path, size, content) == Entry(path, "file", size, content)
Site   == <<File(<<"index.html">>, 1, "h1"), File(<<"copy.html">>, 1, "h1")>>
WithWorker == <<File(<<"dist", "index.html">>, 1, "h2"), File(<<"dist", "_worker.js">>, 1, "w")>>
TooBig == <<File(<<"index.html">>, 1, "h1"), File(<<"big">>, 2, "h2")>>
Uncompiled == <<File(<<"functions", "f.js">>, 1, "w")>>
SiteBuild == Scan(BuildRoot(Untar(Site)))

Req(name) == [op |-> name, valid |-> TRUE, page |-> p1, tenant |-> t1, dep |-> d2, act |-> TRUE,
            archive |-> <<>>, active |-> None, secrets |-> None, drop |-> {}, domains |-> None]

PageRequests ==
  {Req("upsertTenant"), Req("deleteTenant"), Req("deletePage"),
   [Req("upsertTenant") EXCEPT !.valid = FALSE], Req("getPage"), Req("listPages"),
   Req("upsertPage"),
   [Req("upsertPage") EXCEPT !.secrets = {s2}],
   [Req("upsertPage") EXCEPT !.tenant = t2],
   [Req("upsertPage") EXCEPT !.active = d2],
   [Req("upsertPage") EXCEPT !.page = p2, !.domains = {shop}],
   [Req("setDomains") EXCEPT !.domains = {shop, label2}],
   [Req("putSecret") EXCEPT !.secrets = {s1}],
   [Req("deleteSecret") EXCEPT !.secrets = {}, !.drop = {s1}],
   [Req("replaceSecrets") EXCEPT !.secrets = {s2}],
   [Req("patchSecrets") EXCEPT !.secrets = {s1}, !.drop = {s2}]}

DeployRequests ==
  {[Req("deploy") EXCEPT !.archive = Site],
   [Req("deploy") EXCEPT !.archive = WithWorker],
   [Req("deploy") EXCEPT !.archive = WithWorker, !.dep = d1, !.act = FALSE],
   [Req("deploy") EXCEPT !.archive = TooBig],
   [Req("deploy") EXCEPT !.archive = Uncompiled],
   Req("activate"),
   [Req("activate") EXCEPT !.dep = d1],
   [Req("direct") EXCEPT !.archive = WithWorker],
   [Req("direct") EXCEPT !.archive = Site, !.page = p2, !.tenant = t2,
                         !.secrets = {s1}, !.domains = {shop}]}

(* Any request, one that gets in its way, and the deletion of the page.    *)
Rivals ==
  {[Req("setDomains") EXCEPT !.domains = {shop, label2}],
   [Req("putSecret") EXCEPT !.secrets = {s1}],
   [Req("deploy") EXCEPT !.archive = WithWorker],
   [Req("activate") EXCEPT !.dep = d1]}
TheMenu == c1 :> (PageRequests \cup DeployRequests) @@ c2 :> Rivals @@ c3 :> {Req("deletePage")}
TheWired == {{}, {"admin"}, {"admin", "storage"}}

TarPaths == {<<"index.html">>, <<"dist", "index.html">>, <<"dist", "..", "index.html">>,
             <<"dist", "..", "..", "x">>, <<"/", "x">>, <<".">>, <<"_redirects">>,
             <<"_worker.js">>, <<"_worker.js", "index.js">>, <<"functions", "f.js">>}
TheEntries ==
  {File(q, 1, "h1") : q \in TarPaths} \cup {File(q, 2, "h2") : q \in TarPaths}
    \cup {File(<<"a">>, 0, "h0"), File(<<"_redirects">>, 1, Bad)}
    \cup {Entry(<<"dist">>, "dir", 0, "h0"), Entry(<<"_worker.js">>, "dir", 0, "h0"),
          Entry(<<"l">>, "link", 0, "h0"), Entry(<<"dev">>, "other", 0, "h0")}

-----------------------------------------------------------------------------
contentVars == <<part, vars, extractVars, siteVars>>

(* Special files are written for small sites without a worker and requests *)
(* that do not name a file, and a site with a worker has few files: whether*)
(* the worker runs does not depend on them.                                *)
SmallSite ==
  /\ Cardinality(DOMAIN static) <= 1 /\ routes.absent /\ ~worker
  /\ asked \notin TheFiles \ {<<Blog>>}
FewLines == lines' # lines => SmallSite

MCInit ==
  /\ part \in {"api", "tar", "site"}
  /\ Init /\ (part # "api" => backend = "mem" /\ wired = {})
  /\ backend = "mem" \/ wired = {"admin", "storage"}
  /\ ExtractInit
  /\ \/ part = "site"
     \/ part # "site" /\ static = <<>> /\ routes = NoRoutes /\ worker = FALSE /\ asked = <<Empty>>
  /\ SiteInit /\ Cardinality(DOMAIN static) <= (IF worker THEN 2 ELSE IF routes.absent THEN 3 ELSE 1)
MCNext ==
  /\ UNCHANGED part
  /\ \/ part = "api" /\ Next /\ UNCHANGED <<extractVars, siteVars>>
     \/ part = "tar" /\ ExtractNext /\ UNCHANGED <<vars, siteVars>>
     \/ part = "site" /\ SiteNext /\ FewLines /\ UNCHANGED <<vars, extractVars>>
MCSpec == MCInit /\ [][MCNext]_contentVars
=============================================================================
