------------------------------ MODULE Provider ------------------------------
(***************************************************************************)
(* The page providers: the in-memory one (pkg/provider/memprovider) and    *)
(* the PostgreSQL one (pkg/provider/postgres).  Each operation is one      *)
(* critical section, one SQL statement or one transaction, so it is an     *)
(* operator from a database to [db, err]; the reads of PostgreSQL that are *)
(* two queries (the page, then its domains; the domain, then its page) are *)
(* taken together.  The two differ in where the domains of a page are      *)
(* kept, in the foreign and primary keys PostgreSQL enforces, and in the   *)
(* order ResolvePage looks a host up.  A page's configuration is reduced   *)
(* to the names of its secrets.                                            *)
(***************************************************************************)
EXTENDS FiniteSets

CONSTANTS
  Tenants, Pages, Deps,   \* identifiers
  Hosts,                  \* the host names that can be asked for or bound
  LabelOf,                \* the page id of a host of the form {id}.{PagesDomain}, or None
  Secrets,                \* secret names
  None

ASSUME LabelsArePages == LabelOf \in [Hosts -> Pages \cup {None}]

Backends == {"mem", "postgres"}

(* A page row: its tenant, the active deployment, the names of its secrets *)
(* and, in memory, its own list of domains.                                *)
Row == [tenant : Tenants, active : Deps \cup {None},
        secrets : SUBSET Secrets, domains : SUBSET Hosts]

(* byDomain is the index of the in-memory provider and the table           *)
(* custom_domains of PostgreSQL; deps holds the deployment rows.  The      *)
(* in-memory list may repeat an id: nothing tells the copies apart.        *)
DB == [tenants : SUBSET Tenants, pages : [Pages -> Row \cup {None}],
       byDomain : [Hosts -> Pages \cup {None}], deps : SUBSET (Pages \X Deps)]

NewDB == [tenants |-> {}, pages |-> [p \in Pages |-> None],
          byDomain |-> [h \in Hosts |-> None], deps |-> {}]

Ok(d)       == [db |-> d, err |-> "ok"]
Fails(d, e) == [db |-> d, err |-> e]

Live(d, p) == p # None /\ d.pages[p] # None

-----------------------------------------------------------------------------
(* pkg/provider/memprovider *)

memGetPage(d, p) == d.pages[p]

(* A host under the pages domain is a page id and nothing else.            *)
memResolvePage(d, h) ==
  LET p == IF LabelOf[h] # None THEN LabelOf[h] ELSE d.byDomain[h]
  IN  IF Live(d, p) THEN p ELSE None

(* Drops the index entries that point at pages of ps.                      *)
removeDomains(d, ps) ==
  [d EXCEPT !.byDomain = [h \in Hosts |-> IF @[h] \in ps THEN None ELSE @[h]]]

(* Mutant: the index entries of a deleted page stay.                       *)
deletePagesKeepIndex(d, ps) ==
  [d EXCEPT !.pages = [p \in Pages |-> IF p \in ps THEN None ELSE @[p]],
            !.deps  = {r \in @ : r[1] \notin ps}]

deletePages(d, ps) ==
  [removeDomains(d, ps) EXCEPT
     !.pages = [p \in Pages |-> IF p \in ps THEN None ELSE @[p]],
     !.deps  = {r \in @ : r[1] \notin ps}]

memUpsertTenant(d, t) == Ok([d EXCEPT !.tenants = @ \cup {t}])

memListPages(d, t) ==
  {p \in Pages : d.pages[p] # None /\ (t # None => d.pages[p].tenant = t)}

memDeletePage(d, p) == Ok(deletePages(d, {p}))

memDeleteTenant(d, t) == Ok([deletePages(d, memListPages(d, t)) EXCEPT !.tenants = @ \ {t}])

(* Mutant: the stored page is replaced as a whole.                         *)
memReplacePage(d, p, row) == Ok([d EXCEPT !.pages[p] = [row EXCEPT !.domains = {}]])

(* The domains of an existing page survive, those of the argument are      *)
(* ignored; the tenant need not exist.                                     *)
memUpsertPage(d, p, row) ==
  LET kept == IF d.pages[p] = None THEN {} ELSE d.pages[p].domains
  IN  Ok([d EXCEPT !.pages[p] = [row EXCEPT !.domains = kept]])

(* Replaces the whole set; a domain taken over from another page stays in  *)
(* that page's own list.                                                   *)
memSetCustomDomains(d, p, hs) ==
  IF d.pages[p] = None THEN Fails(d, "notFound")
  ELSE Ok([removeDomains(d, {p}) EXCEPT
             !.byDomain = [h \in Hosts |-> IF h \in hs THEN p ELSE @[h]],
             !.pages[p].domains = hs])

memCreateDeployment(d, p, dep) ==
  IF d.pages[p] = None THEN Fails(d, "notFound")
  ELSE Ok([d EXCEPT !.deps = @ \cup {<<p, dep>>}])

memListDeployments(d, p) == {dep \in Deps : <<p, dep>> \in d.deps}

memSetActiveDeployment(d, p, dep) ==
  IF d.pages[p] = None THEN Fails(d, "notFound")
  ELSE Ok([d EXCEPT !.pages[p].active = dep])

-----------------------------------------------------------------------------
(* pkg/provider/postgres *)

(* The domains of a page are the rows of custom_domains that name it.      *)
pgDomains(d, p) == {h \in Hosts : d.byDomain[h] = p}

pgGetPage(d, p) ==
  IF d.pages[p] = None THEN None ELSE [d.pages[p] EXCEPT !.domains = pgDomains(d, p)]

(* The custom domains first, then the page id of the host.                 *)
pgResolvePage(d, h) ==
  LET p == IF d.byDomain[h] # None THEN d.byDomain[h] ELSE LabelOf[h]
  IN  IF Live(d, p) THEN p ELSE None

pgListPages(d, t) ==
  {p \in Pages : d.pages[p] # None /\ (t = None \/ d.pages[p].tenant = t)}

pgUpsertTenant(d, t) == Ok([d EXCEPT !.tenants = @ \cup {t}])

(* Deletes cascade to the rows that reference the deleted one.             *)
pgDeletePage(d, p) ==
  Ok([d EXCEPT !.pages[p] = None,
               !.byDomain = [h \in Hosts |-> IF @[h] = p THEN None ELSE @[h]],
               !.deps = {r \in @ : r[1] # p}])

pgDeleteTenant(d, t) ==
  LET gone == pgListPages(d, t)
  IN  Ok([tenants  |-> d.tenants \ {t},
          pages    |-> [p \in Pages |-> IF p \in gone THEN None ELSE d.pages[p]],
          byDomain |-> [h \in Hosts |-> IF d.byDomain[h] \in gone THEN None ELSE d.byDomain[h]],
          deps     |-> {r \in d.deps : r[1] \notin gone}])

(* The foreign key to tenants; no column holds domains.                    *)
pgUpsertPage(d, p, row) ==
  IF row.tenant \notin d.tenants THEN Fails(d, "error")
  ELSE Ok([d EXCEPT !.pages[p] = [row EXCEPT !.domains = {}]])

(* Delete and insert in one transaction: only an empty set passes the      *)
(* foreign key of a page that is gone.                                     *)
pgSetCustomDomains(d, p, hs) ==
  IF d.pages[p] = None /\ hs # {} THEN Fails(d, "error")
  ELSE Ok([d EXCEPT !.byDomain = [h \in Hosts |-> IF h \in hs THEN p
                                                  ELSE IF @[h] = p THEN None ELSE @[h]]])

(* The primary key is the deployment id alone, whatever the page.          *)
pgCreateDeployment(d, p, dep) ==
  IF d.pages[p] = None \/ (\E r \in d.deps : r[2] = dep) THEN Fails(d, "error")
  ELSE Ok([d EXCEPT !.deps = @ \cup {<<p, dep>>}])

pgListDeployments(d, p) == {dep \in Deps : <<p, dep>> \in d.deps}

pgSetActiveDeployment(d, p, dep) ==
  IF d.pages[p] = None THEN Fails(d, "notFound")
  ELSE Ok([d EXCEPT !.pages[p].active = dep])

-----------------------------------------------------------------------------
(* provider.PageProvider and provider.AdminProvider: the back end b.       *)

GetPage(b, d, p)     == IF b = "mem" THEN memGetPage(d, p) ELSE pgGetPage(d, p)
ResolvePage(b, d, h) == IF b = "mem" THEN memResolvePage(d, h) ELSE pgResolvePage(d, h)
UpsertTenant(b, d, t) == IF b = "mem" THEN memUpsertTenant(d, t) ELSE pgUpsertTenant(d, t)
DeleteTenant(b, d, t) == IF b = "mem" THEN memDeleteTenant(d, t) ELSE pgDeleteTenant(d, t)
UpsertPage(b, d, p, row) == IF b = "mem" THEN memUpsertPage(d, p, row) ELSE pgUpsertPage(d, p, row)
DeletePage(b, d, p)  == IF b = "mem" THEN memDeletePage(d, p) ELSE pgDeletePage(d, p)
ListPages(b, d, t)   == IF b = "mem" THEN memListPages(d, t) ELSE pgListPages(d, t)
ListDeployments(b, d, p) == IF b = "mem" THEN memListDeployments(d, p) ELSE pgListDeployments(d, p)
SetCustomDomains(b, d, p, hs) ==
  IF b = "mem" THEN memSetCustomDomains(d, p, hs) ELSE pgSetCustomDomains(d, p, hs)
CreateDeployment(b, d, p, dep) ==
  IF b = "mem" THEN memCreateDeployment(d, p, dep) ELSE pgCreateDeployment(d, p, dep)
SetActiveDeployment(b, d, p, dep) ==
  IF b = "mem" THEN memSetActiveDeployment(d, p, dep) ELSE pgSetActiveDeployment(d, p, dep)
=============================================================================
