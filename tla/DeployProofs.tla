---------------------------- MODULE DeployProofs ----------------------------
(***************************************************************************)
(* Proofs about Deploy, for any number of calls and any requests: what a   *)
(* call carries is what its place in its handler needs and the references  *)
(* of the database hold (DeployInv), the two providers answer alike, a     *)
(* write that nobody interrupts changes what its request names, and what   *)
(* is recorded or active lacks no object of its build (WholeInv).  The     *)
(* archives they carry are extracted exactly and scanned completely.       *)
(***************************************************************************)
EXTENDS Deploy, Extract, SeqLemmas, FiniteSetTheorems, TLAPS

(* The databases one operation of back end b leads to from d.              *)
Ops(b, d) ==
  {UpsertTenant(b, d, t).db : t \in Tenants}
    \cup {DeleteTenant(b, d, t).db : t \in Tenants}
    \cup {DeletePage(b, d, p).db : p \in Pages}
    \cup {UpsertPage(b, d, p, row).db : p \in Pages, row \in Row}
    \cup {SetCustomDomains(b, d, p, hs).db : p \in Pages, hs \in SUBSET Hosts}
    \cup {CreateDeployment(b, d, p, dep).db : p \in Pages, dep \in Deps}
    \cup {SetActiveDeployment(b, d, p, dep).db : p \in Pages, dep \in Deps}

(* What keeps the references of database d together under back end b: rows *)
(* and index entries point at pages that are there; the in-memory index is *)
(* also in the page's own list; PostgreSQL's pages have their tenant.      *)
Rooted(b, d) ==
  /\ \A r \in d.deps : d.pages[r[1]] # None
  /\ \A h \in Hosts : d.byDomain[h] # None => d.pages[d.byDomain[h]] # None
  /\ b = "mem" =>
       \A h \in Hosts : d.byDomain[h] # None => h \in d.pages[d.byDomain[h]].domains
  /\ b = "postgres" =>
       \A p \in Pages : d.pages[p] # None => d.pages[p].tenant \in d.tenants

\* A row with a field changed is a row.
LEMMA RowChanged ==
  ASSUME NEW row \in Row
  PROVE  /\ row # None
         /\ \A a \in Deps : [row EXCEPT !.active = a] \in Row
         /\ \A s \in SUBSET Secrets : [row EXCEPT !.secrets = s] \in Row
         /\ \A hs \in SUBSET Hosts : [row EXCEPT !.domains = hs] \in Row
BY NoneIsNoValue DEF Row

\* Every operation of the in-memory provider leads from a database to one.
LEMMA MemTypes ==
  ASSUME NEW d \in DB, NEW e \in Ops("mem", d)
  PROVE  e \in DB
<1>1. ASSUME NEW t \in Tenants PROVE memUpsertTenant(d, t).db \in DB
  BY DEF memUpsertTenant, Ok, DB
<1>2. ASSUME NEW S \in SUBSET Pages PROVE deletePages(d, S) \in DB
  BY DEF deletePages, removeDomains, DB
<1>3. ASSUME NEW t \in Tenants PROVE memDeleteTenant(d, t).db \in DB
  <2>1. deletePages(d, memListPages(d, t)) \in DB
    BY <1>2 DEF memListPages
  <2> QED
    BY <2>1 DEF memDeleteTenant, Ok, DB
<1>4. ASSUME NEW p \in Pages PROVE memDeletePage(d, p).db \in DB
  BY <1>2 DEF memDeletePage, Ok
<1>5. ASSUME NEW p \in Pages, NEW row \in Row PROVE memUpsertPage(d, p, row).db \in DB
  <2> DEFINE kept == IF d.pages[p] = None THEN {} ELSE d.pages[p].domains
  <2>1. kept \in SUBSET Hosts
    BY DEF DB, Row
  <2>2. [row EXCEPT !.domains = kept] \in Row
    BY <2>1, RowChanged
  <2> QED
    BY <2>2 DEF memUpsertPage, Ok, DB
<1>6. ASSUME NEW p \in Pages, NEW hs \in SUBSET Hosts PROVE memSetCustomDomains(d, p, hs).db \in DB
  <2>1. CASE d.pages[p] = None
    BY <2>1 DEF memSetCustomDomains, Fails
  <2>2. CASE d.pages[p] # None
    <3>1. [d.pages[p] EXCEPT !.domains = hs] \in Row
      BY <2>2, RowChanged DEF DB
    <3> QED
      BY <2>2, <3>1 DEF memSetCustomDomains, removeDomains, Ok, DB
  <2> QED
    BY <2>1, <2>2
<1>7. ASSUME NEW p \in Pages, NEW dep \in Deps PROVE memCreateDeployment(d, p, dep).db \in DB
  BY DEF memCreateDeployment, Ok, Fails, DB
<1>8. ASSUME NEW p \in Pages, NEW dep \in Deps PROVE memSetActiveDeployment(d, p, dep).db \in DB
  <2>1. CASE d.pages[p] = None
    BY <2>1 DEF memSetActiveDeployment, Fails
  <2>2. CASE d.pages[p] # None
    <3>1. [d.pages[p] EXCEPT !.active = dep] \in Row
      BY <2>2, RowChanged DEF DB
    <3> QED
      BY <2>2, <3>1 DEF memSetActiveDeployment, Ok, DB
  <2> QED
    BY <2>1, <2>2
<1> QED
  BY <1>1, <1>3, <1>4, <1>5, <1>6, <1>7, <1>8
     DEF Ops, UpsertTenant, DeleteTenant, DeletePage, UpsertPage, SetCustomDomains,
         CreateDeployment, SetActiveDeployment

\* So does every operation of PostgreSQL.
LEMMA PgTypes ==
  ASSUME NEW d \in DB, NEW e \in Ops("postgres", d)
  PROVE  e \in DB
<1>1. ASSUME NEW t \in Tenants PROVE pgUpsertTenant(d, t).db \in DB
  BY DEF pgUpsertTenant, Ok, DB
<1>3. ASSUME NEW t \in Tenants PROVE pgDeleteTenant(d, t).db \in DB
  BY DEF pgDeleteTenant, pgListPages, Ok, DB
<1>4. ASSUME NEW p \in Pages PROVE pgDeletePage(d, p).db \in DB
  BY DEF pgDeletePage, Ok, DB
<1>5. ASSUME NEW p \in Pages, NEW row \in Row PROVE pgUpsertPage(d, p, row).db \in DB
  <2>2. [row EXCEPT !.domains = {}] \in Row
    BY RowChanged
  <2> QED
    BY <2>2 DEF pgUpsertPage, Ok, Fails, DB
<1>6. ASSUME NEW p \in Pages, NEW hs \in SUBSET Hosts PROVE pgSetCustomDomains(d, p, hs).db \in DB
  BY DEF pgSetCustomDomains, Ok, Fails, DB
<1>7. ASSUME NEW p \in Pages, NEW dep \in Deps PROVE pgCreateDeployment(d, p, dep).db \in DB
  BY DEF pgCreateDeployment, Ok, Fails, DB
<1>8. ASSUME NEW p \in Pages, NEW dep \in Deps PROVE pgSetActiveDeployment(d, p, dep).db \in DB
  <2>1. CASE d.pages[p] = None
    BY <2>1 DEF pgSetActiveDeployment, Fails
  <2>2. CASE d.pages[p] # None
    <3>1. [d.pages[p] EXCEPT !.active = dep] \in Row
      BY <2>2, RowChanged DEF DB
    <3> QED
      BY <2>2, <3>1 DEF pgSetActiveDeployment, Ok, DB
  <2> QED
    BY <2>1, <2>2
<1> QED
  BY <1>1, <1>3, <1>4, <1>5, <1>6, <1>7, <1>8
     DEF Ops, UpsertTenant, DeleteTenant, DeletePage, UpsertPage, SetCustomDomains,
         CreateDeployment, SetActiveDeployment

\* The in-memory provider keeps references: it clears the index of what it
\* deletes, and writes index and list of a page together.
LEMMA MemRooted ==
  ASSUME NEW d \in DB, Rooted("mem", d), NEW e \in Ops("mem", d)
  PROVE  Rooted("mem", e)
<1>1. ASSUME NEW t \in Tenants PROVE Rooted("mem", memUpsertTenant(d, t).db)
  BY DEF memUpsertTenant, Ok, DB, Rooted
<1>2. ASSUME NEW S \in SUBSET Pages, NEW T PROVE Rooted("mem", [deletePages(d, S) EXCEPT !.tenants = T])
  BY NoneIsNoValue DEF deletePages, removeDomains, DB, Rooted
<1>3. ASSUME NEW t \in Tenants PROVE Rooted("mem", memDeleteTenant(d, t).db)
  <2>1. memListPages(d, t) \in SUBSET Pages
    BY DEF memListPages
  <2> QED
    BY <1>2, <2>1 DEF memDeleteTenant, Ok
<1>4. ASSUME NEW p \in Pages PROVE Rooted("mem", memDeletePage(d, p).db)
  BY NoneIsNoValue DEF memDeletePage, deletePages, removeDomains, Ok, DB, Rooted
<1>5. ASSUME NEW p \in Pages, NEW row \in Row PROVE Rooted("mem", memUpsertPage(d, p, row).db)
  <2> DEFINE kept == IF d.pages[p] = None THEN {} ELSE d.pages[p].domains
             new  == [row EXCEPT !.domains = kept]
  <2>1. new # None /\ new.domains = kept
    <3>1. kept \in SUBSET Hosts
      BY DEF DB, Row
    <3> QED
      BY <3>1, RowChanged DEF Row
  <2>2. memUpsertPage(d, p, row).db = [d EXCEPT !.pages[p] = new]
    BY DEF memUpsertPage, Ok
  <2> HIDE DEF new
  <2> QED
    BY <2>1, <2>2 DEF DB, Rooted
<1>6. ASSUME NEW p \in Pages, NEW hs \in SUBSET Hosts PROVE Rooted("mem", memSetCustomDomains(d, p, hs).db)
  <2>1. CASE d.pages[p] = None
    BY <2>1 DEF memSetCustomDomains, Fails
  <2>2. CASE d.pages[p] # None
    <3> DEFINE new == [d.pages[p] EXCEPT !.domains = hs]
    <3>1. new # None /\ new.domains = hs
      BY <2>2, RowChanged DEF DB, Row
    <3>2. memSetCustomDomains(d, p, hs).db =
            [d EXCEPT !.byDomain = [h \in Hosts |-> IF h \in hs THEN p
                                       ELSE IF d.byDomain[h] = p THEN None ELSE d.byDomain[h]],
                      !.pages[p] = new]
      BY <2>2 DEF memSetCustomDomains, removeDomains, Ok, DB
    <3> HIDE DEF new
    <3> QED
      BY <3>1, <3>2, <2>2 DEF DB, Rooted
  <2> QED
    BY <2>1, <2>2
<1>7. ASSUME NEW p \in Pages, NEW dep \in Deps PROVE Rooted("mem", memCreateDeployment(d, p, dep).db)
  BY DEF memCreateDeployment, Ok, Fails, DB, Rooted
<1>8. ASSUME NEW p \in Pages, NEW dep \in Deps PROVE Rooted("mem", memSetActiveDeployment(d, p, dep).db)
  <2>1. CASE d.pages[p] = None
    BY <2>1 DEF memSetActiveDeployment, Fails
  <2>2. CASE d.pages[p] # None
    <3> DEFINE new == [d.pages[p] EXCEPT !.active = dep]
    <3>1. new # None /\ new.domains = d.pages[p].domains
      BY <2>2, RowChanged DEF DB, Row
    <3>2. memSetActiveDeployment(d, p, dep).db = [d EXCEPT !.pages[p] = new]
      BY <2>2 DEF memSetActiveDeployment, Ok, DB
    <3> HIDE DEF new
    <3> QED
      BY <3>1, <3>2, <2>2 DEF DB, Rooted
  <2> QED
    BY <2>1, <2>2
<1> QED
  BY <1>1, <1>3, <1>4, <1>5, <1>6, <1>7, <1>8
     DEF Ops, UpsertTenant, DeleteTenant, DeletePage, UpsertPage, SetCustomDomains,
         CreateDeployment, SetActiveDeployment

\* PostgreSQL keeps them by its foreign keys and their cascades.
LEMMA PgRooted ==
  ASSUME NEW d \in DB, Rooted("postgres", d), NEW e \in Ops("postgres", d)
  PROVE  Rooted("postgres", e)
<1>1. ASSUME NEW t \in Tenants PROVE Rooted("postgres", pgUpsertTenant(d, t).db)
  BY DEF pgUpsertTenant, Ok, DB, Rooted
<1>3. ASSUME NEW t \in Tenants PROVE Rooted("postgres", pgDeleteTenant(d, t).db)
  BY NoneIsNoValue DEF pgDeleteTenant, pgListPages, Ok, DB, Rooted
<1>4. ASSUME NEW p \in Pages PROVE Rooted("postgres", pgDeletePage(d, p).db)
  BY NoneIsNoValue DEF pgDeletePage, Ok, DB, Rooted
<1>5. ASSUME NEW p \in Pages, NEW row \in Row PROVE Rooted("postgres", pgUpsertPage(d, p, row).db)
  <2>1. CASE row.tenant \notin d.tenants
    BY <2>1 DEF pgUpsertPage, Fails
  <2>2. CASE row.tenant \in d.tenants
    <3> DEFINE new == [row EXCEPT !.domains = {}]
    <3>1. new # None /\ new.tenant = row.tenant
      BY RowChanged DEF Row
    <3>2. pgUpsertPage(d, p, row).db = [d EXCEPT !.pages[p] = new]
      BY <2>2 DEF pgUpsertPage, Ok
    <3> HIDE DEF new
    <3> QED
      BY <3>1, <3>2, <2>2 DEF DB, Rooted
  <2> QED
    BY <2>1, <2>2
<1>6. ASSUME NEW p \in Pages, NEW hs \in SUBSET Hosts PROVE Rooted("postgres", pgSetCustomDomains(d, p, hs).db)
  BY NoneIsNoValue DEF pgSetCustomDomains, Ok, Fails, DB, Rooted
<1>7. ASSUME NEW p \in Pages, NEW dep \in Deps PROVE Rooted("postgres", pgCreateDeployment(d, p, dep).db)
  BY DEF pgCreateDeployment, Ok, Fails, DB, Rooted
<1>8. ASSUME NEW p \in Pages, NEW dep \in Deps PROVE Rooted("postgres", pgSetActiveDeployment(d, p, dep).db)
  <2>1. CASE d.pages[p] = None
    BY <2>1 DEF pgSetActiveDeployment, Fails
  <2>2. CASE d.pages[p] # None
    <3> DEFINE new == [d.pages[p] EXCEPT !.active = dep]
    <3>1. new # None /\ new.tenant = d.pages[p].tenant
      BY <2>2, RowChanged DEF DB, Row
    <3>2. pgSetActiveDeployment(d, p, dep).db = [d EXCEPT !.pages[p] = new]
      BY <2>2 DEF pgSetActiveDeployment, Ok, DB
    <3> HIDE DEF new
    <3> QED
      BY <3>1, <3>2, <2>2 DEF DB, Rooted
  <2> QED
    BY <2>1, <2>2
<1> QED
  BY <1>1, <1>3, <1>4, <1>5, <1>6, <1>7, <1>8
     DEF Ops, UpsertTenant, DeleteTenant, DeletePage, UpsertPage, SetCustomDomains,
         CreateDeployment, SetActiveDeployment

-----------------------------------------------------------------------------
(* A database whose in-memory lists and labels say what its index says.    *)
Listed(d) ==
  /\ \A p \in Pages : d.pages[p] # None => d.pages[p].domains = pgDomains(d, p)
  /\ \A h \in Hosts :
       d.byDomain[h] # None =>
         d.pages[d.byDomain[h]] # None /\ (LabelOf[h] # None => LabelOf[h] = d.byDomain[h])

(* Two databases that differ at most in the lists of domains of the pages. *)
Alike(m, g) ==
  /\ m.tenants = g.tenants /\ m.deps = g.deps /\ m.byDomain = g.byDomain
  /\ \A p \in Pages :
       \/ m.pages[p] = None /\ g.pages[p] = None
       \/ /\ m.pages[p] # None /\ g.pages[p] # None
          /\ m.pages[p].tenant = g.pages[p].tenant /\ m.pages[p].active = g.pages[p].active
          /\ m.pages[p].secrets = g.pages[p].secrets

\* Rows that agree on the domains and differ at most in them are one row.
LEMMA SameRow ==
  ASSUME NEW x \in Row, NEW y \in Row, x.tenant = y.tenant, x.active = y.active,
         x.secrets = y.secrets
  PROVE  x = [y EXCEPT !.domains = x.domains]
BY DEF Row

\* The two providers show such databases alike when the first is Listed.
LEMMA AlikeViews ==
  ASSUME NEW m \in DB, NEW g \in DB, Listed(m), Alike(m, g)
  PROVE  View("mem", m) = View("postgres", g)
<1>1. ASSUME NEW p \in Pages PROVE memGetPage(m, p) = pgGetPage(g, p)
  <2>1. CASE m.pages[p] = None
    BY <2>1 DEF memGetPage, pgGetPage, Alike
  <2>2. CASE m.pages[p] # None
    <3>1. m.pages[p] \in Row /\ g.pages[p] \in Row /\ g.pages[p] # None
      BY <2>2 DEF DB, Alike
    <3>2. m.pages[p].domains = pgDomains(g, p)
      BY <2>2 DEF Listed, Alike, pgDomains
    <3>3. /\ m.pages[p].tenant = g.pages[p].tenant /\ m.pages[p].active = g.pages[p].active
          /\ m.pages[p].secrets = g.pages[p].secrets
      BY <2>2 DEF Alike
    <3> QED
      BY <3>1, <3>2, <3>3, SameRow DEF memGetPage, pgGetPage
  <2> QED
    BY <2>1, <2>2
<1>2. ASSUME NEW h \in Hosts PROVE memResolvePage(m, h) = pgResolvePage(g, h)
  <2>1. m.byDomain[h] \in Pages \cup {None} /\ LabelOf[h] \in Pages \cup {None}
    BY LabelsArePages DEF DB
  <2>2. \A p \in Pages : Live(m, p) <=> Live(g, p)
    BY DEF Live, Alike
  <2>3. ~Live(m, None) /\ ~Live(g, None)
    BY DEF Live
  <2>4. m.byDomain = g.byDomain
    BY DEF Alike
  <2> QED
    BY <2>1, <2>2, <2>3, <2>4 DEF memResolvePage, pgResolvePage, Listed
<1>3. m.tenants = g.tenants /\ m.deps = g.deps
  BY DEF Alike
<1> QED
  BY <1>1, <1>2, <1>3 DEF View, GetPage, ResolvePage

\* A state that both providers can be in is Listed.
LEMMA ComparableIsListed ==
  ASSUME NEW d \in DB, Rooted("mem", d), View("mem", d) = View("postgres", d)
  PROVE  Listed(d)
<1>1. ASSUME NEW p \in Pages, d.pages[p] # None PROVE d.pages[p].domains = pgDomains(d, p)
  <2>1. memGetPage(d, p) = pgGetPage(d, p)
    BY DEF View, GetPage
  <2>2. d.pages[p] \in Row
    BY <1>1 DEF DB
  <2>3. [d.pages[p] EXCEPT !.domains = pgDomains(d, p)].domains = pgDomains(d, p)
    BY <2>2 DEF Row
  <2> QED
    BY <1>1, <2>1, <2>3 DEF memGetPage, pgGetPage
<1>2. ASSUME NEW h \in Hosts, d.byDomain[h] # None
      PROVE  d.pages[d.byDomain[h]] # None /\ (LabelOf[h] # None => LabelOf[h] = d.byDomain[h])
  <2>1. memResolvePage(d, h) = pgResolvePage(d, h)
    BY DEF View, ResolvePage
  <2>2. d.pages[d.byDomain[h]] # None
    BY <1>2 DEF Rooted
  <2>3. pgResolvePage(d, h) = d.byDomain[h]
    BY <1>2, <2>2 DEF pgResolvePage, Live
  <2> QED
    BY <1>2, <2>1, <2>2, <2>3 DEF memResolvePage
<1> QED
  BY <1>1, <1>2 DEF Listed

\* An operation that leaves two such databases is answered alike.
LEMMA SameOutcome ==
  ASSUME NEW m, NEW g, m.db \in DB, g.db \in DB, Listed(m.db), Alike(m.db, g.db), m.err = g.err
  PROVE  Same(m, g)
BY AlikeViews DEF Same

\* Tenants are made and deleted alike, with the pages they have.
LEMMA TenantsAgree ==
  ASSUME NEW d \in DB, Listed(d), NEW t \in Tenants
  PROVE  /\ Same(memUpsertTenant(d, t), pgUpsertTenant(d, t))
         /\ Same(memDeleteTenant(d, t), pgDeleteTenant(d, t))
         /\ memListPages(d, t) = pgListPages(d, t)
<1>1. memListPages(d, t) = pgListPages(d, t)
  BY NoneIsNoValue DEF memListPages, pgListPages
<1>2. Same(memUpsertTenant(d, t), pgUpsertTenant(d, t))
  <2> DEFINE m == memUpsertTenant(d, t)
             g == pgUpsertTenant(d, t)
  <2>1. m.db \in DB /\ g.db \in DB
    BY DEF memUpsertTenant, pgUpsertTenant, Ok, DB
  <2>2. Listed(m.db)
    BY DEF memUpsertTenant, Ok, DB, Listed, pgDomains
  <2>3. Alike(m.db, g.db) /\ m.err = g.err
    BY DEF memUpsertTenant, pgUpsertTenant, Ok, DB, Alike
  <2> QED
    BY <2>1, <2>2, <2>3, SameOutcome
<1>3. Same(memDeleteTenant(d, t), pgDeleteTenant(d, t))
  <2> DEFINE m == memDeleteTenant(d, t)
             g == pgDeleteTenant(d, t)
             S == memListPages(d, t)
             e == [tenants  |-> d.tenants \ {t},
                   pages    |-> [p \in Pages |-> IF p \in S THEN None ELSE d.pages[p]],
                   byDomain |-> [h \in Hosts |-> IF d.byDomain[h] \in S THEN None ELSE d.byDomain[h]],
                   deps     |-> {r \in d.deps : r[1] \notin S}]
  <2>1. m.db = e /\ m.err = "ok"
    BY DEF memDeleteTenant, deletePages, removeDomains, Ok, DB
  <2>2. g.db = e /\ g.err = "ok"
    BY <1>1 DEF pgDeleteTenant, Ok
  <2>3. S \subseteq Pages
    BY DEF memListPages
  <2> HIDE DEF S, m, g
  <2>4. e \in DB
    BY DEF DB
  <2>5. Listed(e)
    BY <2>3, NoneIsNoValue DEF DB, Listed, pgDomains
  <2>6. Alike(e, e)
    BY DEF Alike
  <2> HIDE DEF e
  <2> QED
    BY <2>1, <2>2, <2>4, <2>5, <2>6, SameOutcome DEF m, g
<1> QED
  BY <1>1, <1>2, <1>3

\* Pages are deleted alike, and written alike when the tenant exists.
LEMMA PagesAgree ==
  ASSUME NEW d \in DB, Listed(d), NEW p \in Pages
  PROVE  /\ Same(memDeletePage(d, p), pgDeletePage(d, p))
         /\ \A row \in Row : row.tenant \in d.tenants =>
              Same(memUpsertPage(d, p, row), pgUpsertPage(d, p, row))
<1>1. Same(memDeletePage(d, p), pgDeletePage(d, p))
  <2> DEFINE m == memDeletePage(d, p)
             g == pgDeletePage(d, p)
             e == [tenants  |-> d.tenants,
                   pages    |-> [q \in Pages |-> IF q = p THEN None ELSE d.pages[q]],
                   byDomain |-> [h \in Hosts |-> IF d.byDomain[h] = p THEN None ELSE d.byDomain[h]],
                   deps     |-> {r \in d.deps : r[1] # p}]
  <2>1. m.db = e /\ m.err = "ok"
    BY DEF memDeletePage, deletePages, removeDomains, Ok, DB
  <2>2. g.db = e /\ g.err = "ok"
    BY DEF pgDeletePage, Ok, DB
  <2> HIDE DEF m, g
  <2>4. e \in DB
    BY DEF DB
  <2>5. Listed(e)
    BY NoneIsNoValue DEF DB, Listed, pgDomains
  <2>6. Alike(e, e)
    BY DEF Alike
  <2> HIDE DEF e
  <2> QED
    BY <2>1, <2>2, <2>4, <2>5, <2>6, SameOutcome DEF m, g
<1>2. ASSUME NEW row \in Row, row.tenant \in d.tenants
      PROVE  Same(memUpsertPage(d, p, row), pgUpsertPage(d, p, row))
  <2> DEFINE kept == IF d.pages[p] = None THEN {} ELSE d.pages[p].domains
             x    == [row EXCEPT !.domains = kept]
             y    == [row EXCEPT !.domains = {}]
             m    == [d EXCEPT !.pages[p] = x]
             g    == [d EXCEPT !.pages[p] = y]
  <2>1. kept \in SUBSET Hosts /\ kept = pgDomains(d, p)
    <3>1. CASE d.pages[p] = None
      BY <3>1, NoneIsNoValue DEF Listed, pgDomains
    <3>2. CASE d.pages[p] # None
      BY <3>2 DEF DB, Row, Listed
    <3> QED
      BY <3>1, <3>2
  <2>2. /\ x \in Row /\ y \in Row /\ x # None /\ y # None
        /\ x.tenant = y.tenant /\ x.active = y.active /\ x.secrets = y.secrets
        /\ x.domains = pgDomains(d, p)
    BY <2>1, RowChanged DEF Row
  <2>3. memUpsertPage(d, p, row) = Ok(m) /\ pgUpsertPage(d, p, row) = Ok(g)
    BY <1>2 DEF memUpsertPage, pgUpsertPage
  <2> HIDE DEF x, y
  <2>4. m \in DB /\ g \in DB
    BY <2>2 DEF DB
  <2>5. Listed(m)
    BY <2>2 DEF DB, Listed, pgDomains
  <2>6. Alike(m, g)
    BY <2>2 DEF DB, Alike
  <2> HIDE DEF m, g
  <2> QED
    BY <2>3, <2>4, <2>5, <2>6, SameOutcome DEF Ok
<1> QED
  BY <1>1, <1>2

\* So are the domains of a page that is there, when they are free or its own.
LEMMA DomainsAgree ==
  ASSUME NEW d \in DB, Listed(d), NEW p \in Pages, d.pages[p] # None,
         NEW hs \in SUBSET {h \in Hosts : d.byDomain[h] \in {p, None} /\ LabelOf[h] = None}
  PROVE  Same(memSetCustomDomains(d, p, hs), pgSetCustomDomains(d, p, hs))
<1> DEFINE x     == [d.pages[p] EXCEPT !.domains = hs]
           index == [h \in Hosts |-> IF h \in hs THEN p
                                     ELSE IF d.byDomain[h] = p THEN None ELSE d.byDomain[h]]
           m     == [d EXCEPT !.byDomain = index, !.pages[p] = x]
           g     == [d EXCEPT !.byDomain = index]
<1>1. /\ x \in Row /\ x # None /\ x.domains = hs /\ x.tenant = d.pages[p].tenant
      /\ x.active = d.pages[p].active /\ x.secrets = d.pages[p].secrets
  BY RowChanged DEF DB, Row
<1>2. memSetCustomDomains(d, p, hs) = Ok(m)
  BY DEF memSetCustomDomains, removeDomains, DB
<1>3. pgSetCustomDomains(d, p, hs) = Ok(g)
  BY DEF pgSetCustomDomains, DB
<1> HIDE DEF x
<1>4. m \in DB /\ g \in DB
  BY <1>1 DEF DB
<1>5. Listed(m)
  <2>1. m.pages = [d.pages EXCEPT ![p] = x] /\ m.byDomain = index
    BY DEF DB
  <2>2. ASSUME NEW q \in Pages, m.pages[q] # None PROVE m.pages[q].domains = pgDomains(m, q)
    <3>1. CASE q = p
      <4>1. pgDomains(m, p) = hs
        BY <2>1, NoneIsNoValue DEF pgDomains
      <4> QED
        BY <3>1, <4>1, <2>1, <1>1 DEF DB
    <3>2. CASE q # p
      <4>1. pgDomains(m, q) = pgDomains(d, q)
        BY <2>1, <3>2, NoneIsNoValue DEF pgDomains
      <4>2. m.pages[q] = d.pages[q]
        BY <2>1, <3>2 DEF DB
      <4> QED
        BY <2>2, <4>1, <4>2 DEF Listed
    <3> QED
      BY <3>1, <3>2
  <2>3. ASSUME NEW h \in Hosts, m.byDomain[h] # None
        PROVE  m.pages[m.byDomain[h]] # None /\ (LabelOf[h] # None => LabelOf[h] = m.byDomain[h])
    BY <2>1, <2>3, <1>1 DEF Listed, DB
  <2> QED
    BY <2>2, <2>3 DEF Listed
<1>6. Alike(m, g)
  BY <1>1 DEF DB, Alike
<1> HIDE DEF m, g
<1> QED
  BY <1>2, <1>3, <1>4, <1>5, <1>6, SameOutcome DEF Ok

\* A new deployment is recorded alike, and made active alike.
LEMMA DeploymentsAgree ==
  ASSUME NEW d \in DB, Listed(d), NEW p \in Pages, NEW dep \in Deps
  PROVE  /\ d.pages[p] # None /\ (\A r \in d.deps : r[2] # dep) =>
              Same(memCreateDeployment(d, p, dep), pgCreateDeployment(d, p, dep))
         /\ Same(memSetActiveDeployment(d, p, dep), pgSetActiveDeployment(d, p, dep))
<1>1. ASSUME d.pages[p] # None, \A r \in d.deps : r[2] # dep
      PROVE  Same(memCreateDeployment(d, p, dep), pgCreateDeployment(d, p, dep))
  <2> DEFINE e == [d EXCEPT !.deps = @ \cup {<<p, dep>>}]
  <2>1. memCreateDeployment(d, p, dep) = Ok(e) /\ pgCreateDeployment(d, p, dep) = Ok(e)
    BY <1>1 DEF memCreateDeployment, pgCreateDeployment
  <2>2. e \in DB /\ Listed(e) /\ Alike(e, e)
    BY DEF DB, Listed, pgDomains, Alike
  <2> HIDE DEF e
  <2> QED
    BY <2>1, <2>2, SameOutcome DEF Ok
<1>2. Same(memSetActiveDeployment(d, p, dep), pgSetActiveDeployment(d, p, dep))
  <2>1. CASE d.pages[p] = None
    <3>1. memSetActiveDeployment(d, p, dep) = Fails(d, "notFound")
          /\ pgSetActiveDeployment(d, p, dep) = Fails(d, "notFound")
      BY <2>1 DEF memSetActiveDeployment, pgSetActiveDeployment
    <3>2. Alike(d, d)
      BY DEF Alike
    <3> QED
      BY <3>1, <3>2, SameOutcome DEF Fails
  <2>2. CASE d.pages[p] # None
    <3> DEFINE x == [d.pages[p] EXCEPT !.active = dep]
               e == [d EXCEPT !.pages[p] = x]
    <3>1. x \in Row /\ x # None /\ x.domains = d.pages[p].domains
      BY <2>2, RowChanged DEF DB, Row
    <3>2. memSetActiveDeployment(d, p, dep) = Ok(e) /\ pgSetActiveDeployment(d, p, dep) = Ok(e)
      BY <2>2 DEF memSetActiveDeployment, pgSetActiveDeployment, DB
    <3> HIDE DEF x
    <3>3. e \in DB /\ Listed(e) /\ Alike(e, e)
      BY <2>2, <3>1 DEF DB, Listed, pgDomains, Alike
    <3> HIDE DEF e
    <3> QED
      BY <3>2, <3>3, SameOutcome DEF Ok
  <2> QED
    BY <2>1, <2>2
<1> QED
  BY <1>1, <1>2

-----------------------------------------------------------------------------
(* The invariant of one call *)

(* Where a call has its tenant and its build.                              *)
Uploading == {"manifest", "statics", "record", "ensureTenant", "addTenant",
              "ensurePage", "addPage", "secrets", "writeSecrets"}

(* The row a handler is about to write comes from the page it has seen.    *)
Written(x) ==
  /\ x.row # None
  /\ \/ x.q.op = "upsertPage" /\ x.row = Merged(x.q, x.seen)
     \/ /\ x.q.op \in SecretOps /\ x.seen # None
        /\ x.row = [x.seen EXCEPT !.secrets = apply(x.q, @)]

(* What the place of a call x says of it.                                  *)
ReadyAt(x) ==
  /\ x.pc \in {"idle", "start"} => x.build = None /\ x.tenant = None
  /\ x.pc \in Uploading \cup {"extract"} => x.q.op \in {"deploy", "direct"} /\ x.tenant # None
  /\ x.pc = "extract" => x.build = None
  /\ x.pc \in Uploading => x.build # None
  /\ x.pc = "activate" => \/ x.q.op = "activate"
                          \/ x.q.op \in {"deploy", "direct"} /\ x.build # None /\ x.tenant # None
  /\ x.pc = "find" => x.q.op = "activate"
  /\ x.pc = "domains" => x.q.domains # None
  /\ x.pc = "write" => Written(x)
  /\ x.pc = "writeSecrets" => x.row # None

(* The requests, the builds in their archives, the answers, and what a     *)
(* call is: it has a request once it has started, and a row or a tenant    *)
(* once it has read one.                                                   *)
Requests == UNION {Menu[c] : c \in Calls}
Builds   == {Built(q.archive) : q \in Requests}
Answered == {"none", "200", "201", "204", "400", "404", "500", "501", "lost"}
              \cup {Untar(q.archive).err : q \in Requests} \cup {b.err : b \in Builds}
CallType ==
  [q : Requests \cup {None}, pc : PCs, seen : Row \cup {None}, row : Row \cup {None},
   tenant : Tenants \cup {None}, build : Builds \cup {None},
   todo : SUBSET (Pages \cup UNION {HashesOf(b) : b \in Builds}), status : Answered]

CallOK(c, x) == x \in CallType /\ (x.pc # "idle" => x.q \in Menu[c]) /\ ReadyAt(x)

(* What no step takes back from a call: its start, its request, its build  *)
(* and its tenant.                                                         *)
Follows(x, y) ==
  /\ x.pc # "idle" => y.pc # "idle" /\ y.q = x.q
  /\ x.build # None => y.build = x.build
  /\ x.tenant # None => y.tenant = x.tenant

DeployInv ==
  /\ backend \in Backends /\ wired \in WiredSets /\ db \in DB
  /\ \A o \in store : o.key \in Tenants \X Pages \X Deps /\ o = Object(o.key, o.name, o.body)
  /\ call \in [Calls -> CallType]
  /\ \A c \in Calls : CallOK(c, call[c])
  /\ Rooted(backend, db)

\* What a request can carry.
LEMMA RequestFields ==
  ASSUME NEW c \in Calls, NEW q \in Menu[c]
  PROVE  /\ q \in Requests /\ Built(q.archive) \in Builds /\ Built(q.archive) # None
         /\ q.page \in Pages /\ q.tenant \in Tenants /\ q.dep \in Deps
         /\ q.active \in Deps \cup {None} /\ q.drop \in SUBSET Secrets
         /\ q.secrets # None => q.secrets \in SUBSET Secrets
         /\ q.domains # None => q.domains \in SUBSET Hosts
         /\ q.op \in {"putSecret", "replaceSecrets", "patchSecrets"} => q.secrets # None
         /\ q.op = "setDomains" => q.domains # None
BY RequestTypes, BuildTypes DEF Requests, Builds

\* A page as read is the row of the table, up to its list of domains.
LEMMA PageRead ==
  ASSUME NEW b \in Backends, NEW d \in DB, NEW p \in Pages
  PROVE  /\ GetPage(b, d, p) \in Row \cup {None}
         /\ GetPage(b, d, p) = None <=> d.pages[p] = None
         /\ d.pages[p] # None =>
              /\ GetPage(b, d, p).tenant = d.pages[p].tenant
              /\ GetPage(b, d, p).active = d.pages[p].active
              /\ GetPage(b, d, p).secrets = d.pages[p].secrets
              /\ GetPage(b, d, p).domains =
                   IF b = "mem" THEN d.pages[p].domains ELSE pgDomains(d, p)
<1>1. CASE d.pages[p] = None
  BY <1>1 DEF GetPage, memGetPage, pgGetPage
<1>2. CASE d.pages[p] # None
  <2>1. d.pages[p] \in Row /\ pgDomains(d, p) \in SUBSET Hosts
    BY <1>2 DEF DB, pgDomains
  <2>2. [d.pages[p] EXCEPT !.domains = pgDomains(d, p)] \in Row
    BY <2>1, RowChanged
  <2> QED
    BY <1>2, <2>1, <2>2, RowChanged DEF GetPage, memGetPage, pgGetPage, Row
<1> QED
  BY <1>1, <1>2

\* The row a page's POST writes is a row.
LEMMA MergedRow ==
  ASSUME NEW c \in Calls, NEW q \in Menu[c], NEW old \in Row \cup {None}
  PROVE  Merged(q, old) \in Row /\ Merged(q, old) # None
BY RequestFields, NoneIsNoValue DEF Merged, Row

\* The row a secrets route writes is a row.
LEMMA SecretsRow ==
  ASSUME NEW c \in Calls, NEW q \in Menu[c], q.op \in SecretOps, NEW old \in Row
  PROVE  [old EXCEPT !.secrets = apply(q, @)] \in Row
<1>1. old.secrets \in SUBSET Secrets
  BY DEF Row
<1>2. apply(q, old.secrets) \in SUBSET Secrets
  BY <1>1, RequestFields DEF SecretOps, apply, putSecret, deleteSecret, replaceSecrets, patchSecrets
<1> QED
  BY <1>2, RowChanged

(* One call moves on: it stays well formed and takes nothing back.         *)
Moves(c) ==
  \E y : CallOK(c, y) /\ Follows(call[c], y) /\ call' = [call EXCEPT ![c] = y]

\* A call that only goes to another place.
LEMMA GoesMoves ==
  ASSUME DeployInv, NEW c \in Calls, Started(c), NEW pc \in PCs \ {"idle"}, Goes(c, pc),
         LET x == call[c] IN
           /\ pc # "start"
           /\ pc \in Uploading \cup {"extract"} => x.q.op \in {"deploy", "direct"} /\ x.tenant # None
           /\ pc = "extract" => x.build = None
           /\ pc \in Uploading => x.build # None
           /\ pc = "activate" => \/ x.q.op = "activate"
                                 \/ x.q.op \in {"deploy", "direct"} /\ x.build # None /\ x.tenant # None
           /\ pc = "find" => x.q.op = "activate"
           /\ pc = "domains" => x.q.domains # None
           /\ pc \notin {"write", "writeSecrets"}
  PROVE  Moves(c)
<1> DEFINE y == [call[c] EXCEPT !.pc = pc]
<1>1. call[c] \in CallType /\ call[c].q \in Menu[c]
  BY DEF DeployInv, CallOK, Started
<1>2. y \in CallType /\ y.pc = pc
  BY <1>1 DEF CallType
<1>3. /\ y.q = call[c].q /\ y.build = call[c].build /\ y.tenant = call[c].tenant
  BY <1>1 DEF CallType
<1>4. call' = [call EXCEPT ![c] = y]
  BY DEF Goes
<1> HIDE DEF y
<1>5. ReadyAt(y)
  BY <1>2, <1>3 DEF ReadyAt
<1> QED
  BY <1>1, <1>2, <1>3, <1>4, <1>5 DEF Moves, CallOK, Follows

\* A call that is answered.
LEMMA AnswersMoves ==
  ASSUME DeployInv, NEW c \in Calls, Started(c), NEW s \in Answered, Answers(c, s)
  PROVE  Moves(c)
<1> DEFINE y == [call[c] EXCEPT !.pc = "done", !.status = s]
<1>1. call[c] \in CallType /\ call[c].q \in Menu[c]
  BY DEF DeployInv, CallOK, Started
<1>2. y \in CallType /\ y.pc = "done"
  BY <1>1 DEF CallType, PCs
<1>3. /\ y.q = call[c].q /\ y.build = call[c].build /\ y.tenant = call[c].tenant
  BY <1>1 DEF CallType
<1>4. call' = [call EXCEPT ![c] = y]
  BY DEF Answers
<1> HIDE DEF y
<1>5. ReadyAt(y)
  BY <1>2, <1>3 DEF ReadyAt, Uploading
<1> QED
  BY <1>1, <1>2, <1>3, <1>4, <1>5 DEF Moves, CallOK, Follows

\* The request arrives.
LEMMA ArriveMoves ==
  ASSUME DeployInv, NEW c \in Calls, NEW q \in Menu[c], Arrive(c, q)
  PROVE  Moves(c)
<1> DEFINE y == CASE NotImplemented(q) -> [Start(q) EXCEPT !.pc = "done", !.status = "501"]
                  [] ~q.valid          -> [Start(q) EXCEPT !.pc = "done", !.status = "400"]
                  [] OTHER             -> Start(q)
<1>1. call' = [call EXCEPT ![c] = y] /\ call[c].pc = "idle"
  BY DEF Arrive, Started
<1>2. \/ y = [Start(q) EXCEPT !.pc = "done", !.status = "501"]
      \/ y = [Start(q) EXCEPT !.pc = "done", !.status = "400"]
      \/ y = Start(q)
  OBVIOUS
<1> HIDE DEF y
<1> DEFINE x == Start(q)
<1>3. x \in CallType
  BY RequestFields DEF Start, CallType, PCs, Answered
<1>4. x.q = q /\ x.pc = "start" /\ x.build = None /\ x.tenant = None
  BY DEF Start
<1> HIDE DEF x
<1>5. ASSUME NEW s \in Answered, NEW z, z = [x EXCEPT !.pc = "done", !.status = s]
      PROVE  z \in CallType /\ z.q = q /\ z.pc = "done" /\ z.build = None /\ z.tenant = None
  BY <1>3, <1>4, <1>5 DEF CallType, PCs
<1>6. "501" \in Answered /\ "400" \in Answered
  BY DEF Answered
<1>7. y \in CallType /\ y.q = q /\ y.pc \in {"start", "done"} /\ y.build = None /\ y.tenant = None
  <2>1. CASE y = [x EXCEPT !.pc = "done", !.status = "501"]
    BY <1>5, <1>6, <2>1
  <2>2. CASE y = [x EXCEPT !.pc = "done", !.status = "400"]
    BY <1>5, <1>6, <2>2
  <2>3. CASE y = x
    BY <1>3, <1>4, <2>3
  <2> QED
    BY <1>2, <2>1, <2>2, <2>3 DEF x
<1>8. ReadyAt(y)
  BY <1>7 DEF ReadyAt, Uploading
<1>9. Follows(call[c], y)
  <2>1. call[c].build = None /\ call[c].tenant = None
    BY <1>1 DEF DeployInv, CallOK, ReadyAt
  <2> QED
    BY <1>1, <2>1 DEF Follows
<1> QED
  BY <1>1, <1>7, <1>8, <1>9 DEF Moves, CallOK

\* A call that goes on to write the row it has made from the page.
LEMMA WriteMoves ==
  ASSUME DeployInv, NEW c \in Calls, Started(c), NEW pc \in {"write", "writeSecrets"},
         NEW old \in Row \cup {None}, NEW row \in Row,
         call' = [call EXCEPT ![c].pc = pc, ![c].seen = old, ![c].row = row],
         pc = "write" =>
           \/ call[c].q.op = "upsertPage" /\ row = Merged(call[c].q, old)
           \/ /\ call[c].q.op \in SecretOps /\ old # None
              /\ row = [old EXCEPT !.secrets = apply(call[c].q, @)],
         pc = "writeSecrets" => /\ call[c].q.op \in {"deploy", "direct"}
                                /\ call[c].tenant # None /\ call[c].build # None
  PROVE  Moves(c)
<1> DEFINE y == [call[c] EXCEPT !.pc = pc, !.seen = old, !.row = row]
<1>1. call[c] \in CallType /\ call[c].q \in Menu[c]
  BY DEF DeployInv, CallOK, Started
<1>2. y \in CallType /\ y.pc = pc /\ y.row = row /\ y.seen = old
  BY <1>1 DEF CallType, PCs, ProviderSteps
<1>3. /\ y.q = call[c].q /\ y.build = call[c].build /\ y.tenant = call[c].tenant
  BY <1>1 DEF CallType
<1>4. call' = [call EXCEPT ![c] = y]
  OBVIOUS
<1>5. row # None
  BY RowChanged
<1> HIDE DEF y
<1>6. pc = "write" => Written(y)
  BY <1>2, <1>3, <1>5 DEF Written
<1>7. ReadyAt(y)
  BY <1>2, <1>3, <1>5, <1>6 DEF ReadyAt, Uploading
<1> QED
  BY <1>1, <1>2, <1>3, <1>4, <1>7 DEF Moves, CallOK, Follows

\* The steps that set other fields: the listing, the tenant, the build and
\* the hashes that are left.
LEMMA FieldMoves ==
  ASSUME DeployInv, NEW c \in Calls
  PROVE  /\ writePages(c) => Moves(c)
         /\ createDeployment(c) => Moves(c)
         /\ extractUpload(c) => Moves(c)
         /\ putStatic(c) => Moves(c)
         /\ deployDirect(c) => Moves(c)
<1> DEFINE x == call[c]
           q == x.q
<1>1. x \in CallType /\ (Started(c) => q \in Menu[c]) /\ ReadyAt(x)
  BY DEF DeployInv, CallOK, Started
<1>2. ASSUME writePages(c) PROVE Moves(c)
  <2> DEFINE y == [x EXCEPT !.pc = "done", !.status = "200", !.todo = ListPages(backend, db, q.tenant)]
  <2>1. call' = [call EXCEPT ![c] = y]
    BY <1>2 DEF writePages
  <2>2. ListPages(backend, db, q.tenant) \in SUBSET Pages
    BY DEF ListPages, memListPages, pgListPages
  <2>3. y \in CallType /\ y.pc = "done" /\ y.q = q /\ y.build = x.build /\ y.tenant = x.tenant
    BY <1>1, <2>2 DEF CallType, PCs, Answered
  <2> HIDE DEF y
  <2>4. Started(c)
    BY <1>2 DEF writePages, At, Started
  <2>5. ReadyAt(y)
    BY <2>3 DEF ReadyAt, Uploading
  <2> QED
    BY <1>1, <2>1, <2>3, <2>4, <2>5 DEF Moves, CallOK, Follows
<1>3. ASSUME createDeployment(c) PROVE Moves(c)
  <2> DEFINE old == GetPage(backend, db, q.page)
             y   == [x EXCEPT !.pc = "extract", !.tenant = old.tenant]
  <2>1. Started(c) /\ x.pc = "start" /\ q.op = "deploy"
    BY <1>3 DEF createDeployment, At, Started
  <2>2. CASE old = None
    BY <1>3, <2>1, <2>2, AnswersMoves DEF createDeployment, Answered
  <2>3. CASE old # None
    <3>1. old.tenant \in Tenants /\ old.tenant # None
      BY <1>1, <2>1, <2>3, RequestFields, PageRead, NoneIsNoValue DEF DeployInv, Row
    <3>2. call' = [call EXCEPT ![c] = y]
      BY <1>3, <2>3 DEF createDeployment
    <3>3. y \in CallType /\ y.pc = "extract" /\ y.q = q /\ y.build = x.build /\ y.tenant # None
      BY <1>1, <3>1 DEF CallType, PCs
    <3>4. x.build = None /\ x.tenant = None
      BY <1>1, <2>1 DEF ReadyAt
    <3> HIDE DEF y
    <3>5. ReadyAt(y)
      BY <2>1, <3>3, <3>4 DEF ReadyAt, Uploading
    <3> QED
      BY <1>1, <2>1, <3>2, <3>3, <3>4, <3>5 DEF Moves, CallOK, Follows
  <2> QED
    BY <2>2, <2>3
<1>4. ASSUME extractUpload(c) PROVE Moves(c)
  <2> DEFINE got == Untar(q.archive)
             b  == Built(q.archive)
             y  == [x EXCEPT !.pc = "manifest", !.build = b, !.todo = HashesOf(b)]
  <2>1. Started(c) /\ x.pc = "extract"
    BY <1>4 DEF extractUpload, At, Started
  <2>2. q \in Requests /\ b \in Builds /\ b # None
    BY <1>1, <2>1, RequestFields
  <2>3. got.err \in Answered /\ b.err \in Answered
    BY <2>2 DEF Answered
  <2>4. CASE got.err # "none" \/ b.err # "none"
    BY <1>4, <2>1, <2>3, <2>4, AnswersMoves DEF extractUpload
  <2>5. CASE got.err = "none" /\ b.err = "none"
    <3>1. call' = [call EXCEPT ![c] = y]
      BY <1>4, <2>5 DEF extractUpload
    <3>2. HashesOf(b) \in SUBSET (Pages \cup UNION {HashesOf(a) : a \in Builds})
      BY <2>2
    <3>3. y \in CallType /\ y.pc = "manifest" /\ y.q = q /\ y.build = b /\ y.tenant = x.tenant
      <4> HIDE DEF b
      <4> QED
        BY <1>1, <2>2, <3>2 DEF CallType, PCs, StorageSteps
    <3> HIDE DEF y, b
    <3>4. x.build = None /\ q.op \in {"deploy", "direct"} /\ x.tenant # None
      BY <1>1, <2>1 DEF ReadyAt
    <3>5. ReadyAt(y)
      BY <2>2, <3>3, <3>4 DEF ReadyAt, Uploading
    <3> QED
      BY <1>1, <2>1, <3>1, <3>3, <3>4, <3>5 DEF Moves, CallOK, Follows
  <2> QED
    BY <2>4, <2>5
<1>5. ASSUME putStatic(c) PROVE Moves(c)
  <2>1. PICK h \in x.todo : call' = [call EXCEPT ![c].todo = @ \ {h}]
    BY <1>5 DEF putStatic
  <2> DEFINE y == [x EXCEPT !.todo = @ \ {h}]
  <2>2. call' = [call EXCEPT ![c] = y]
    BY <2>1
  <2>3. x.pc = "statics" /\ Started(c)
    BY <1>5 DEF putStatic, At, Started
  <2>4. y \in CallType /\ y.pc = x.pc /\ y.q = q /\ y.build = x.build /\ y.tenant = x.tenant
    BY <1>1 DEF CallType
  <2> HIDE DEF y
  <2>5. ReadyAt(y)
    BY <1>1, <2>3, <2>4 DEF ReadyAt, Uploading
  <2> QED
    BY <1>1, <2>2, <2>3, <2>4, <2>5 DEF Moves, CallOK, Follows
<1>6. ASSUME deployDirect(c) PROVE Moves(c)
  <2> DEFINE y == [x EXCEPT !.pc = "extract", !.tenant = q.tenant]
  <2>1. Started(c) /\ x.pc = "start" /\ q.op = "direct"
    BY <1>6 DEF deployDirect, At, Started
  <2>2. q.tenant \in Tenants /\ q.tenant # None
    BY <1>1, <2>1, RequestFields, NoneIsNoValue
  <2>3. call' = [call EXCEPT ![c] = y]
    BY <1>6 DEF deployDirect
  <2>4. y \in CallType /\ y.pc = "extract" /\ y.q = q /\ y.build = x.build /\ y.tenant # None
    BY <1>1, <2>2 DEF CallType, PCs
  <2>5. x.build = None /\ x.tenant = None
    BY <1>1, <2>1 DEF ReadyAt
  <2> HIDE DEF y
  <2>6. ReadyAt(y)
    BY <2>1, <2>4, <2>5 DEF ReadyAt, Uploading
  <2> QED
    BY <1>1, <2>1, <2>3, <2>4, <2>5, <2>6 DEF Moves, CallOK, Follows
<1> QED
  BY <1>2, <1>3, <1>4, <1>5, <1>6

(* A call may go on at pc.                                                 *)
May(x, pc) ==
  /\ pc \in PCs \ {"idle", "start", "write", "writeSecrets"}
  /\ pc \in Uploading \cup {"extract"} => x.q.op \in {"deploy", "direct"} /\ x.tenant # None
  /\ pc = "extract" => x.build = None
  /\ pc \in Uploading => x.build # None
  /\ pc = "activate" => \/ x.q.op = "activate"
                        \/ x.q.op \in {"deploy", "direct"} /\ x.build # None /\ x.tenant # None
  /\ pc = "find" => x.q.op = "activate"
  /\ pc = "domains" => x.q.domains # None

\* A call that goes on, with or without a provider call that may fail, and
\* one whose last provider call is answered.
LEMMA CallMoves ==
  ASSUME DeployInv, NEW c \in Calls, Started(c)
  PROVE  /\ \A pc : May(call[c], pc) /\ Goes(c, pc) => Moves(c)
         /\ \A s \in Answered : Answers(c, s) => Moves(c)
         /\ \A r, pc : May(call[c], pc) /\ Applies(c, r, pc) => Moves(c)
         /\ \A r, s : s \in Answered /\ Finishes(c, r, s) => Moves(c)
<1>1. ASSUME NEW pc, May(call[c], pc), Goes(c, pc) PROVE Moves(c)
  BY <1>1, GoesMoves DEF May
<1>2. ASSUME NEW s \in Answered, Answers(c, s) PROVE Moves(c)
  BY <1>2, AnswersMoves
<1>3. \A e : StatusOf(e) \in Answered
  BY DEF StatusOf, Answered
<1>4. ASSUME NEW r, NEW pc, May(call[c], pc), Applies(c, r, pc) PROVE Moves(c)
  BY <1>1, <1>2, <1>3, <1>4 DEF Applies
<1>5. ASSUME NEW r, NEW s \in Answered, Finishes(c, r, s) PROVE Moves(c)
  BY <1>2, <1>3, <1>5 DEF Finishes
<1> QED
  BY <1>1, <1>2, <1>4, <1>5

\* Every step of a call moves it on.
LEMMA StepMoves ==
  ASSUME DeployInv, NEW c \in Calls, Step(c)
  PROVE  Moves(c)
<1> DEFINE x == call[c]
           q == x.q
<1>1. \A pc : At(c, pc) /\ pc # "idle" => Started(c) /\ x.pc = pc
  BY DEF At, Started
<1>2. x \in CallType /\ (Started(c) => q \in Menu[c]) /\ ReadyAt(x)
  BY DEF DeployInv, CallOK, Started
<1>3. /\ {"200", "201", "204", "404", "500", "501", "400"} \subseteq Answered
      /\ {"list", "domains", "render", "record", "activate", "find", "statics", "ensureTenant",
          "addTenant", "ensurePage", "addPage", "secrets", "done"} \subseteq PCs
  BY DEF Answered, PCs, ProviderSteps, StorageSteps
<1>4. Started(c) => /\ \A pc \in {"list", "render", "done"} : May(x, pc)
                    /\ q.domains # None => May(x, "domains")
                    /\ q.op = "activate" => May(x, "find") /\ May(x, "activate")
                    /\ x.pc \in Uploading => May(x, "activate") /\ \A pc \in Uploading \ {"manifest", "writeSecrets"} : May(x, pc)
  BY <1>2, <1>3 DEF May, ReadyAt, Uploading
<1>5. CASE \E r \in Menu[c] : Arrive(c, r)
  BY <1>5, ArriveMoves
<1>6. CASE handleUpsertTenant(c) \/ handleDeleteTenant(c) \/ handleDeletePage(c)
  BY <1>6, <1>1, <1>3, CallMoves DEF handleUpsertTenant, handleDeleteTenant, handleDeletePage
<1>7. CASE handleGetPage(c) \/ writePage(c)
  <2>1. Started(c)
    BY <1>7, <1>1 DEF handleGetPage, writePage
  <2>2. \E s \in Answered : Answers(c, s)
    BY <1>7, <1>3 DEF handleGetPage, writePage
  <2> QED
    BY <2>1, <2>2, CallMoves
<1>8. CASE handleListTenantPages(c)
  BY <1>8, <1>1, <1>3, <1>4, CallMoves DEF handleListTenantPages
<1>9. CASE writePages(c) \/ createDeployment(c) \/ extractUpload(c) \/ putStatic(c) \/ deployDirect(c)
  BY <1>9, FieldMoves
<1>10. CASE mergePage(c)
  <2> DEFINE old == GetPage(backend, db, q.page)
  <2>1. Started(c) /\ q.op = "upsertPage" /\ q \in Menu[c]
    BY <1>10, <1>1, <1>2 DEF mergePage
  <2>2. old \in Row \cup {None}
    BY <2>1, RequestFields, PageRead DEF DeployInv
  <2>3. Merged(q, old) \in Row
    BY <2>1, <2>2, MergedRow
  <2>4. call' = [call EXCEPT ![c].pc = "write", ![c].seen = old, ![c].row = Merged(q, old)]
    BY <1>10 DEF mergePage
  <2> HIDE DEF old
  <2> QED
    BY <2>1, <2>2, <2>3, <2>4, WriteMoves
<1>11. CASE updateSecrets(c)
  <2> DEFINE old == GetPage(backend, db, q.page)
  <2>1. Started(c) /\ q.op \in SecretOps /\ q \in Menu[c]
    BY <1>11, <1>1, <1>2 DEF updateSecrets
  <2>2. old \in Row \cup {None}
    BY <2>1, RequestFields, PageRead DEF DeployInv
  <2>3. CASE old = None
    BY <1>11, <2>1, <2>3, <1>3, CallMoves DEF updateSecrets
  <2>4. CASE old # None
    <3> DEFINE row == [old EXCEPT !.secrets = apply(q, @)]
    <3>1. row \in Row
      BY <2>1, <2>2, <2>4, SecretsRow
    <3>2. call' = [call EXCEPT ![c].pc = "write", ![c].seen = old, ![c].row = row]
      BY <1>11, <2>4 DEF updateSecrets
    <3>3. call[c].q.op \in SecretOps /\ old # None /\ row = [old EXCEPT !.secrets = apply(call[c].q, @)]
      BY <2>1, <2>4
    <3> HIDE DEF old, row
    <3> QED
      BY <2>1, <2>2, <3>1, <3>2, <3>3, WriteMoves
  <2> QED
    BY <2>3, <2>4
<1>12. CASE writeRow(c)
  <2> DEFINE r == UpsertPage(backend, db, q.page, x.row)
  <2>1. Started(c)
    BY <1>12, <1>1 DEF writeRow
  <2>2. CASE q.op = "upsertPage" /\ q.domains = None
    <3>1. Finishes(c, r, "200")
      BY <1>12, <2>2 DEF writeRow
    <3> QED
      BY <2>1, <3>1, <1>3, CallMoves
  <2>3. CASE q.op = "upsertPage" /\ q.domains # None
    <3>1. Applies(c, r, "domains")
      BY <1>12, <2>3 DEF writeRow
    <3> QED
      BY <2>1, <2>3, <3>1, <1>4, CallMoves
  <2>4. CASE q.op # "upsertPage"
    <3>1. Applies(c, r, "render")
      BY <1>12, <2>4 DEF writeRow
    <3> QED
      BY <2>1, <3>1, <1>4, CallMoves
  <2> QED
    BY <2>2, <2>3, <2>4
<1>13. CASE checkPage(c)
  <2>1. Started(c) /\ q.domains # None
    BY <1>13, <1>1, <1>2, RequestFields DEF checkPage
  <2> QED
    BY <2>1, <1>13, <1>3, <1>4, CallMoves DEF checkPage
<1>14. CASE setDomains(c)
  <2> DEFINE r == SetCustomDomains(backend, db, q.page, q.domains)
  <2>1. Started(c)
    BY <1>14, <1>1 DEF setDomains
  <2>2. Applies(c, r, "render") \/ Finishes(c, r, "200")
    BY <1>14 DEF setDomains
  <2> QED
    BY <2>1, <2>2, <1>3, <1>4, CallMoves
<1>15. CASE putManifest(c)
  <2>1. Started(c) /\ x.pc \in Uploading /\ Goes(c, "statics")
    BY <1>15, <1>1 DEF putManifest, Uploading
  <2>2. "statics" \in Uploading \ {"manifest", "writeSecrets"}
    BY DEF Uploading
  <2> QED
    BY <2>1, <2>2, <1>4, CallMoves
<1>16. CASE putWorker(c)
  <2>1. Started(c) /\ x.pc \in Uploading /\ (Goes(c, "ensureTenant") \/ Goes(c, "record"))
    BY <1>16, <1>1 DEF putWorker, Uploading
  <2>2. {"ensureTenant", "record"} \subseteq Uploading \ {"manifest", "writeSecrets"}
    BY DEF Uploading
  <2> QED
    BY <2>1, <2>2, <1>4, CallMoves
<1>17. CASE record(c)
  <2> DEFINE r == CreateDeployment(backend, db, q.page, q.dep)
  <2>1. Started(c) /\ x.pc \in Uploading
    BY <1>17, <1>1 DEF record, Uploading
  <2>2. Applies(c, r, "activate") \/ Finishes(c, r, "201")
    BY <1>17 DEF record
  <2> QED
    BY <2>1, <2>2, <1>3, <1>4, CallMoves
<1>18. CASE activate(c)
  <2> DEFINE r == SetActiveDeployment(backend, db, q.page, q.dep)
  <2>1. Started(c) /\ x.pc = "activate"
    BY <1>18, <1>1 DEF activate
  <2>2. q.op \in {"activate", "deploy", "direct"}
    BY <2>1, <1>2 DEF ReadyAt
  <2>3. \/ Finishes(c, r, "201") \/ Applies(c, r, "render")
        \/ q.domains # None /\ Applies(c, r, "domains")
    <3>1. CASE q.op = "deploy"
      BY <1>18, <3>1 DEF activate
    <3>2. CASE q.op = "activate"
      BY <1>18, <3>2 DEF activate
    <3>3. CASE q.op = "direct"
      BY <1>18, <3>3 DEF activate
    <3> QED
      BY <2>2, <3>1, <3>2, <3>3
  <2> QED
    BY <2>1, <2>3, <1>3, <1>4, CallMoves
<1>19. CASE checkActivation(c)
  BY <1>19, <1>1, <1>3, <1>4, CallMoves DEF checkActivation
<1>20. CASE findDeployment(c)
  <2>1. Started(c) /\ q.op = "activate"
    BY <1>20, <1>1, <1>2 DEF findDeployment, ReadyAt
  <2> QED
    BY <2>1, <1>20, <1>3, <1>4, CallMoves DEF findDeployment
<1>21. CASE ensureTenant(c) \/ ensurePage(c) \/ addTenant(c) \/ addPage(c)
  <2> DEFINE r1 == UpsertTenant(backend, db, q.tenant)
             r2 == UpsertPage(backend, db, q.page, [tenant |-> q.tenant, active |-> None,
                                                    secrets |-> {}, domains |-> {}])
             Next3 == {"ensurePage", "addTenant", "addPage", "secrets"}
  <2>1. Started(c) /\ x.pc \in Uploading
    BY <1>21, <1>1 DEF ensureTenant, ensurePage, addTenant, addPage, Uploading
  <2>2. Next3 \subseteq Uploading \ {"manifest", "writeSecrets"}
    BY DEF Uploading
  <2>3. \/ \E pc \in Next3 : Goes(c, pc)
        \/ Applies(c, r1, "ensurePage")
        \/ Applies(c, r2, "secrets")
    BY <1>21 DEF ensureTenant, ensurePage, addTenant, addPage
  <2> QED
    BY <2>1, <2>2, <2>3, <1>4, CallMoves
<1>22. CASE readSecrets(c)
  <2> DEFINE old == GetPage(backend, db, q.page)
             row == [old EXCEPT !.secrets = q.secrets]
  <2>1. Started(c) /\ x.pc \in Uploading /\ q \in Menu[c]
    BY <1>22, <1>1, <1>2 DEF readSecrets, Uploading
  <2>2. old \in Row \cup {None}
    BY <2>1, RequestFields, PageRead DEF DeployInv
  <2>3. CASE q.secrets = None
    <3>1. Goes(c, "record")
      BY <1>22, <2>3 DEF readSecrets
    <3>2. "record" \in Uploading \ {"manifest", "writeSecrets"}
      BY DEF Uploading
    <3> QED
      BY <2>1, <3>1, <3>2, <1>4, CallMoves
  <2>4. CASE q.secrets # None /\ old = None
    BY <1>22, <2>1, <2>4, <1>3, CallMoves DEF readSecrets
  <2>5. CASE q.secrets # None /\ old # None
    <3>1. row \in Row
      BY <2>1, <2>2, <2>5, RequestFields, RowChanged
    <3>2. call' = [call EXCEPT ![c].pc = "writeSecrets", ![c].seen = old, ![c].row = row]
      BY <1>22, <2>5 DEF readSecrets
    <3>3. q.op \in {"deploy", "direct"} /\ x.tenant # None /\ x.build # None
      BY <2>1, <1>2 DEF ReadyAt
    <3> HIDE DEF old, row
    <3> QED
      BY <2>1, <2>2, <3>1, <3>2, <3>3, WriteMoves
  <2> QED
    BY <2>3, <2>4, <2>5
<1>23. CASE writeSecrets(c)
  <2> DEFINE r == UpsertPage(backend, db, q.page, x.row)
  <2>1. Started(c) /\ x.pc \in Uploading /\ Applies(c, r, "record")
    BY <1>23, <1>1 DEF writeSecrets, Uploading
  <2>2. "record" \in Uploading \ {"manifest", "writeSecrets"}
    BY DEF Uploading
  <2> QED
    BY <2>1, <2>2, <1>4, CallMoves
<1>24. CASE ProviderFails(c) \/ StorageFails(c)
  <2>1. Started(c) /\ Answers(c, "500")
    BY <1>24 DEF ProviderFails, StorageFails, Started, ProviderSteps, StorageSteps
  <2> QED
    BY <2>1, <1>3, CallMoves
<1> QED
  BY <1>5, <1>6, <1>7, <1>8, <1>9, <1>10, <1>11, <1>12, <1>13, <1>14, <1>15, <1>16, <1>17,
     <1>18, <1>19, <1>20, <1>21, <1>22, <1>23, <1>24 DEF Step

(* What a step of c does to the database: nothing, or one operation of the *)
(* provider, with the arguments c has.                                     *)
DbMoves(c) ==
  LET x == call[c]
      q == x.q
  IN  \/ db' = db
      \/ Started(c) /\ db' \in {UpsertTenant(backend, db, q.tenant).db, DeleteTenant(backend, db, q.tenant).db,
                                DeletePage(backend, db, q.page).db}
      \/ /\ x.pc \in {"write", "writeSecrets"} /\ x.row # None
         /\ db' = UpsertPage(backend, db, q.page, x.row).db
      \/ /\ x.pc = "addPage"
         /\ db' = UpsertPage(backend, db, q.page, [tenant |-> q.tenant, active |-> None,
                                                   secrets |-> {}, domains |-> {}]).db
      \/ /\ x.pc = "domains" /\ q.domains # None
         /\ db' = SetCustomDomains(backend, db, q.page, q.domains).db
      \/ x.pc = "record" /\ db' = CreateDeployment(backend, db, q.page, q.dep).db
      \/ x.pc = "activate" /\ db' = SetActiveDeployment(backend, db, q.page, q.dep).db

\* Every step of a call does to the database one of these.
LEMMA StepDb ==
  ASSUME DeployInv, NEW c \in Calls, Step(c)
  PROVE  UNCHANGED <<backend, wired>> /\ DbMoves(c)
<1> DEFINE x == call[c]
           q == x.q
<1>1. ReadyAt(x)
  BY DEF DeployInv, CallOK
<1>2. CASE \E r \in Menu[c] : Arrive(c, r)
  BY <1>2 DEF Arrive, DbMoves
<1>3. CASE handleUpsertTenant(c) \/ handleDeleteTenant(c) \/ handleDeletePage(c)
  BY <1>3 DEF handleUpsertTenant, handleDeleteTenant, handleDeletePage, Finishes, At, Started, DbMoves
<1>4. CASE handleGetPage(c) \/ writePage(c) \/ handleListTenantPages(c) \/ writePages(c)
           \/ mergePage(c) \/ updateSecrets(c) \/ checkPage(c)
  BY <1>4 DEF handleGetPage, writePage, handleListTenantPages, writePages, mergePage,
              updateSecrets, checkPage, DbMoves
<1>5. CASE createDeployment(c) \/ extractUpload(c) \/ putManifest(c) \/ putStatic(c) \/ putWorker(c)
  BY <1>5 DEF createDeployment, extractUpload, putManifest, putStatic, putWorker, DbMoves
<1>6. CASE checkActivation(c) \/ findDeployment(c) \/ deployDirect(c) \/ ensureTenant(c)
           \/ ensurePage(c) \/ readSecrets(c)
  BY <1>6 DEF checkActivation, findDeployment, deployDirect, ensureTenant, ensurePage,
              readSecrets, DbMoves
<1>7. CASE ProviderFails(c) \/ StorageFails(c)
  BY <1>7 DEF ProviderFails, StorageFails, DbMoves
<1>8. CASE writeRow(c)
  <2>1. x.pc = "write" /\ x.row # None
    BY <1>8, <1>1 DEF writeRow, At, ReadyAt, Written
  <2>2. db' = UpsertPage(backend, db, q.page, x.row).db /\ UNCHANGED <<backend, wired>>
    BY <1>8 DEF writeRow, Finishes, Applies
  <2> QED
    BY <2>1, <2>2 DEF DbMoves
<1>9. CASE writeSecrets(c)
  BY <1>9, <1>1 DEF writeSecrets, Applies, At, ReadyAt, DbMoves
<1>10. CASE addTenant(c) \/ addPage(c)
  BY <1>10 DEF addTenant, addPage, Applies, At, Started, DbMoves
<1>11. CASE setDomains(c)
  <2>1. x.pc = "domains" /\ q.domains # None
    BY <1>11, <1>1 DEF setDomains, At, ReadyAt
  <2>2. db' = SetCustomDomains(backend, db, q.page, q.domains).db /\ UNCHANGED <<backend, wired>>
    BY <1>11 DEF setDomains, Finishes, Applies
  <2> QED
    BY <2>1, <2>2 DEF DbMoves
<1>12. CASE record(c)
  <2>1. x.pc = "record" /\ db' = CreateDeployment(backend, db, q.page, q.dep).db /\ UNCHANGED <<backend, wired>>
    BY <1>12 DEF record, At, Finishes, Applies
  <2> QED
    BY <2>1 DEF DbMoves
<1>13. CASE activate(c)
  <2>1. x.pc = "activate" /\ UNCHANGED <<backend, wired>>
    BY <1>13 DEF activate, At
  <2>2. q.op \in {"activate", "deploy", "direct"}
    BY <2>1, <1>1 DEF ReadyAt
  <2>3. db' = SetActiveDeployment(backend, db, q.page, q.dep).db
    <3>1. CASE q.op = "deploy"
      BY <1>13, <3>1 DEF activate, Finishes
    <3>2. CASE q.op = "activate"
      BY <1>13, <3>2 DEF activate, Applies
    <3>3. CASE q.op = "direct"
      BY <1>13, <3>3 DEF activate, Applies, Finishes
    <3> QED
      BY <2>2, <3>1, <3>2, <3>3
  <2> QED
    BY <2>1, <2>3 DEF DbMoves
<1> QED
  BY <1>2, <1>3, <1>4, <1>5, <1>6, <1>7, <1>8, <1>9, <1>10, <1>11, <1>12, <1>13 DEF Step

\* So it stays a database, and its references hold.
LEMMA DbStep ==
  ASSUME DeployInv, NEW c \in Calls, Step(c)
  PROVE  db' \in DB /\ Rooted(backend, db)'
<1> DEFINE x == call[c]
           q == x.q
<1>1. x \in CallType /\ (Started(c) => q \in Menu[c])
  BY DEF DeployInv, CallOK, Started
<1>2. db' \in Ops(backend, db) \cup {db}
  <2>1. DbMoves(c)
    BY StepDb
  <2>2. CASE Started(c)
    <3>1. /\ q.page \in Pages /\ q.tenant \in Tenants /\ q.dep \in Deps
          /\ q.domains # None => q.domains \in SUBSET Hosts
      BY <1>1, <2>2, RequestFields
    <3>2. x.row # None => x.row \in Row
      BY <1>1 DEF CallType
    <3>3. [tenant |-> q.tenant, active |-> None, secrets |-> {}, domains |-> {}] \in Row
      BY <3>1 DEF Row
    <3> QED
      BY <2>1, <3>1, <3>2, <3>3 DEF DbMoves, Ops
  <2>3. CASE ~Started(c)
    BY <2>1, <2>3 DEF DbMoves, Started
  <2> QED
    BY <2>2, <2>3
<1>3. backend' = backend /\ backend \in {"mem", "postgres"} /\ db \in DB /\ Rooted(backend, db)
  BY StepDb DEF DeployInv, Backends
<1> QED
  BY <1>2, <1>3, MemTypes, PgTypes, MemRooted, PgRooted

\* What a step of c does to storage.
LEMMA StepStore ==
  ASSUME NEW c \in Calls, Step(c)
  PROVE  UNCHANGED store \/ putManifest(c) \/ putStatic(c) \/ putWorker(c)
BY DEF Step, Arrive, handleUpsertTenant, handleDeleteTenant, handleDeletePage, handleGetPage,
       handleListTenantPages, writePages, mergePage, updateSecrets, writeRow, checkPage, setDomains,
       writePage, createDeployment, extractUpload, record, activate, checkActivation,
       findDeployment, deployDirect, ensureTenant, addTenant, ensurePage, addPage, readSecrets,
       writeSecrets, ProviderFails, StorageFails

\* Objects stay objects under keys.
LEMMA StoreTypes ==
  ASSUME DeployInv, NEW c \in Calls, Step(c), NEW o \in store'
  PROVE  o.key \in Tenants \X Pages \X Deps /\ o = Object(o.key, o.name, o.body)
<1> DEFINE x == call[c]
           q == x.q
<1>1. o \in store \/ \E name, body : o = Object(KeyOf(c), name, body)
  BY StepStore DEF putManifest, putStatic, putWorker, Put
<1>2. CASE o \in store
  BY <1>2 DEF DeployInv
<1>3. CASE o \notin store
  <2>1. x \in CallType /\ x.pc \in Uploading /\ q \in Menu[c] /\ x.tenant # None
    BY <1>3, StepStore DEF putManifest, putStatic, putWorker, At, DeployInv, CallOK, ReadyAt, Uploading
  <2>2. KeyOf(c) \in Tenants \X Pages \X Deps
    BY <2>1, RequestFields DEF KeyOf, Key, CallType
  <2> QED
    BY <1>1, <1>3, <2>2 DEF Object
<1> QED
  BY <1>2, <1>3

\* A crash answers nobody and touches neither database nor storage.
LEMMA CrashMoves ==
  ASSUME DeployInv, Crash, NEW c \in Calls
  PROVE  /\ UNCHANGED <<backend, wired, db, store>>
         /\ CallOK(c, call'[c]) /\ Follows(call[c], call'[c])
         /\ call'[c].row = call[c].row /\ call'[c].pc \in {"idle", "done"}
         /\ call'[c].q = call[c].q /\ call'[c].tenant = call[c].tenant /\ call'[c].build = call[c].build
<1> DEFINE x == call[c]
           y == [x EXCEPT !.pc = "done", !.status = "lost"]
<1>1. x \in CallType /\ (x.pc # "idle" => x.q \in Menu[c]) /\ ReadyAt(x)
  BY DEF DeployInv, CallOK
<1>2. UNCHANGED <<backend, wired, db, store>> /\ call'[c] = IF x.pc \in {"idle", "done"} THEN x ELSE y
  BY DEF Crash
<1>3. CASE x.pc \in {"idle", "done"}
  BY <1>1, <1>2, <1>3 DEF CallOK, Follows
<1>4. CASE x.pc \notin {"idle", "done"}
  <2>1. /\ y \in CallType /\ y.pc = "done" /\ y.q = x.q /\ y.tenant = x.tenant
        /\ y.build = x.build /\ y.row = x.row
    BY <1>1 DEF CallType, PCs, Answered
  <2>2. call'[c] = y
    BY <1>2, <1>4
  <2> HIDE DEF y
  <2>3. ReadyAt(y)
    BY <2>1 DEF ReadyAt, Uploading
  <2> QED
    BY <1>1, <1>2, <1>4, <2>1, <2>2, <2>3 DEF CallOK, Follows
<1> QED
  BY <1>3, <1>4

\* The invariant is inductive.
LEMMA DeployInvStep ==
  ASSUME DeployInv, [Next]_vars
  PROVE  DeployInv'
<1>1. CASE UNCHANGED vars
  <2>1. UNCHANGED <<backend, wired, db, store, call>>
    BY <1>1 DEF vars
  <2> QED
    BY <2>1 DEF DeployInv
<1>2. ASSUME NEW c \in Calls, Step(c) PROVE DeployInv'
  <2>1. PICK y : CallOK(c, y) /\ Follows(call[c], y) /\ call' = [call EXCEPT ![c] = y]
    BY <1>2, StepMoves DEF Moves
  <2>2. call' \in [Calls -> CallType] /\ \A e \in Calls : CallOK(e, call'[e])
    BY <2>1 DEF DeployInv, CallOK
  <2>3. backend' \in Backends /\ wired' \in WiredSets /\ db' \in DB /\ Rooted(backend, db)'
    BY <1>2, StepDb, DbStep DEF DeployInv
  <2>4. \A o \in store' : o.key \in Tenants \X Pages \X Deps /\ o = Object(o.key, o.name, o.body)
    BY <1>2, StoreTypes
  <2> QED
    BY <2>2, <2>3, <2>4 DEF DeployInv
<1>3. CASE Crash
  <2>1. UNCHANGED <<backend, wired, db, store>> /\ \A c \in Calls : CallOK(c, call'[c])
    BY <1>3, CrashMoves DEF Crash
  <2>2. call' = [c \in Calls |-> call'[c]]
    BY <1>3 DEF Crash
  <2>3. call' \in [Calls -> CallType]
    BY <2>1, <2>2 DEF CallOK
  <2> QED
    BY <2>1, <2>3 DEF DeployInv
<1> QED
  BY <1>1, <1>2, <1>3 DEF Next

\* It holds at the start.
LEMMA DeployInvInit ==
  ASSUME Init
  PROVE  DeployInv
<1> DEFINE row == [tenant |-> SeedTenant, active |-> Seed, secrets |-> {}, domains |-> {}]
<1>1. row \in Row
  BY SeedTypes DEF Row
<1>2. row # None /\ row.tenant = SeedTenant
  BY <1>1, RowChanged
<1>3. db = [tenants |-> {SeedTenant}, pages |-> [p \in Pages |-> IF p = SeedPage THEN row ELSE None],
            byDomain |-> [h \in Hosts |-> None], deps |-> {<<SeedPage, Seed>>}]
  BY SeedTypes DEF Init, NewDB
<1> HIDE DEF row
<1>4. db \in DB /\ Rooted(backend, db)
  BY <1>1, <1>2, <1>3, SeedTypes DEF DB, Rooted
<1>5. Idle \in CallType /\ Idle.pc = "idle" /\ Idle.build = None /\ Idle.tenant = None
  BY DEF Idle, Start, CallType, PCs, Answered
<1>6. \A c \in Calls : CallOK(c, Idle)
  BY <1>5 DEF CallOK, ReadyAt, Uploading
<1>7. call = [c \in Calls |-> Idle] /\ backend \in Backends /\ wired \in WiredSets
  BY DEF Init
<1>8. \A o \in store : o.key \in Tenants \X Pages \X Deps /\ o = Object(o.key, o.name, o.body)
  BY SeedTypes DEF Init, Objects, Object, Key
<1> QED
  BY <1>4, <1>5, <1>6, <1>7, <1>8 DEF DeployInv

(* The invariant of the admin API, the tools and the providers: every call *)
(* carries what its place in its handler needs, and the references of the  *)
(* database hold (Rooted), which the handlers never check themselves.      *)
THEOREM DeployInvariant == Spec => []DeployInv
BY DeployInvInit, DeployInvStep, PTL DEF Spec

(* The types of the whole state: a handler that writes a row or a key has  *)
(* one to write.                                                           *)
THEOREM DeployTypes == Spec => []TypeOK
<1>1. DeployInv => TypeOK
  BY DEF DeployInv, CallOK, Started, TypeOK, CallType
<1> QED
  BY <1>1, DeployInvariant, PTL

-----------------------------------------------------------------------------
(* The providers *)

\* References hold where they are rooted.
LEMMA RootedHolds ==
  ASSUME DeployInv
  PROVE  ReferencesHold
<1>1. db \in DB /\ backend \in {"mem", "postgres"} /\ Rooted(backend, db)
  BY DEF DeployInv, Backends
<1>2. ASSUME NEW h \in Hosts, ResolvePage(backend, db, h) # None
      PROVE  \/ LabelOf[h] = ResolvePage(backend, db, h)
             \/ h \in GetPage(backend, db, ResolvePage(backend, db, h)).domains
  <2> DEFINE p == ResolvePage(backend, db, h)
  <2>1. p = LabelOf[h] \/ (p = db.byDomain[h] /\ db.byDomain[h] # None)
    BY <1>2 DEF ResolvePage, memResolvePage, pgResolvePage
  <2>2. CASE p = db.byDomain[h] /\ db.byDomain[h] # None
    <3>1. p \in Pages /\ db.pages[p] # None
      BY <1>1, <2>2 DEF DB, Rooted
    <3>2. h \in pgDomains(db, p)
      BY <2>2 DEF pgDomains
    <3>3. backend = "mem" => h \in db.pages[p].domains
      BY <1>1, <2>2 DEF Rooted
    <3> HIDE DEF p
    <3>4. h \in GetPage(backend, db, p).domains
      BY <1>1, <3>1, <3>2, <3>3, PageRead DEF Backends
    <3> QED
      BY <3>4 DEF p
  <2> QED
    BY <2>1, <2>2
<1> QED
  BY <1>1, <1>2 DEF ReferencesHold, Rooted

\* In memory, in a state PostgreSQL could be in, the two answer alike.
LEMMA RootedAgrees ==
  ASSUME DeployInv
  PROVE  ProvidersAgree
<1> SUFFICES ASSUME Comparable PROVE ProvidersAgree
  BY DEF ProvidersAgree
<1>1. db \in DB /\ Listed(db)
  BY ComparableIsListed DEF DeployInv, Comparable
<1>2. \A t \in Tenants : /\ Same(memUpsertTenant(db, t), pgUpsertTenant(db, t))
                         /\ Same(memDeleteTenant(db, t), pgDeleteTenant(db, t))
                         /\ memListPages(db, t) = pgListPages(db, t)
  BY <1>1, TenantsAgree
<1>3. ASSUME NEW p \in Pages
      PROVE  /\ Same(memDeletePage(db, p), pgDeletePage(db, p))
             /\ \A t \in db.tenants, s \in SUBSET Secrets :
                  LET row == [tenant |-> t, active |-> None, secrets |-> s, domains |-> {}]
                  IN  Same(memUpsertPage(db, p, row), pgUpsertPage(db, p, row))
  <2>1. ASSUME NEW t \in db.tenants, NEW s \in SUBSET Secrets
        PROVE  Same(memUpsertPage(db, p, [tenant |-> t, active |-> None, secrets |-> s, domains |-> {}]),
                    pgUpsertPage(db, p, [tenant |-> t, active |-> None, secrets |-> s, domains |-> {}]))
    <3> DEFINE row == [tenant |-> t, active |-> None, secrets |-> s, domains |-> {}]
    <3>1. row \in Row /\ row.tenant \in db.tenants
      BY <1>1 DEF DB, Row
    <3> HIDE DEF row
    <3>2. Same(memUpsertPage(db, p, row), pgUpsertPage(db, p, row))
      BY <1>1, <3>1, PagesAgree
    <3> QED
      BY <3>2 DEF row
  <2>2. Same(memDeletePage(db, p), pgDeletePage(db, p))
    BY <1>1, PagesAgree
  <2> QED
    BY <2>1, <2>2
<1>4. ASSUME NEW p \in Pages, Live(db, p),
             NEW hs \in SUBSET {h \in Hosts : db.byDomain[h] \in {p, None} /\ LabelOf[h] = None}
      PROVE  Same(memSetCustomDomains(db, p, hs), pgSetCustomDomains(db, p, hs))
  BY <1>1, <1>4, DomainsAgree DEF Live
<1>5. ASSUME NEW p \in Pages, NEW dep \in Deps
      PROVE  /\ Live(db, p) /\ (\A r \in db.deps : r[2] # dep) =>
                  Same(memCreateDeployment(db, p, dep), pgCreateDeployment(db, p, dep))
             /\ Same(memSetActiveDeployment(db, p, dep), pgSetActiveDeployment(db, p, dep))
  BY <1>1, DeploymentsAgree DEF Live
<1> QED
  BY <1>2, <1>3, <1>4, <1>5 DEF ProvidersAgree

(* The database is consistent in itself whatever the handlers, the tools   *)
(* and their crashes do, and the provider the tests use answers like the   *)
(* one in production.                                                      *)
THEOREM ProvidersSoundHolds == Spec => []ProvidersSound
<1>1. DeployInv => ProvidersSound
  BY RootedHolds, RootedAgrees DEF ProvidersSound
<1> QED
  BY <1>1, DeployInvariant, PTL

-----------------------------------------------------------------------------
(* A write of a page nobody has changed *)

\* A row that is written keeps the domains of the page.
LEMMA RowWritten ==
  ASSUME NEW b \in Backends, NEW d \in DB, NEW p \in Pages, NEW row \in Row, d.pages[p] # None,
         UpsertPage(b, d, p, row).db # d
  PROVE  LET old == GetPage(b, d, p)
             new == GetPage(b, UpsertPage(b, d, p, row).db, p)
         IN  /\ new.tenant = row.tenant /\ new.active = row.active /\ new.secrets = row.secrets
             /\ new.domains = old.domains
<1> DEFINE e == UpsertPage(b, d, p, row).db
<1>1. b \in {"mem", "postgres"}
  BY DEF Backends
<1>2. e \in Ops(b, d)
  BY DEF Ops
<1>3. e \in DB
  BY <1>1, <1>2, MemTypes, PgTypes
<1>4. CASE b = "mem"
  <2> DEFINE x == [row EXCEPT !.domains = d.pages[p].domains]
  <2>1. d.pages[p].domains \in SUBSET Hosts
    BY DEF DB, Row
  <2>2. /\ x # None /\ x.tenant = row.tenant /\ x.active = row.active /\ x.secrets = row.secrets
        /\ x.domains = d.pages[p].domains
    BY <2>1, RowChanged DEF Row
  <2>3. e = [d EXCEPT !.pages[p] = x]
    BY <1>4 DEF UpsertPage, memUpsertPage, Ok
  <2>4. e.pages[p] = x
    BY <2>3 DEF DB
  <2> HIDE DEF e, x
  <2>5. /\ GetPage(b, e, p).tenant = x.tenant /\ GetPage(b, e, p).active = x.active
        /\ GetPage(b, e, p).secrets = x.secrets /\ GetPage(b, e, p).domains = x.domains
    BY <1>3, <1>4, <2>2, <2>4, PageRead
  <2>6. GetPage(b, d, p).domains = d.pages[p].domains
    BY <1>4, PageRead
  <2> QED
    BY <2>2, <2>5, <2>6 DEF e
<1>5. CASE b = "postgres"
  <2> DEFINE x == [row EXCEPT !.domains = {}]
  <2>2. x # None /\ x.tenant = row.tenant /\ x.active = row.active /\ x.secrets = row.secrets
    BY RowChanged DEF Row
  <2>3. e = [d EXCEPT !.pages[p] = x]
    BY <1>5 DEF UpsertPage, pgUpsertPage, Ok, Fails
  <2>4. e.pages[p] = x /\ pgDomains(e, p) = pgDomains(d, p)
    BY <2>3 DEF DB, pgDomains
  <2> HIDE DEF e, x
  <2>5. /\ GetPage(b, e, p).tenant = x.tenant /\ GetPage(b, e, p).active = x.active
        /\ GetPage(b, e, p).secrets = x.secrets /\ GetPage(b, e, p).domains = pgDomains(e, p)
    BY <1>3, <1>5, <2>2, <2>4, PageRead
  <2>6. GetPage(b, d, p).domains = pgDomains(d, p)
    BY <1>5, PageRead
  <2> QED
    BY <2>2, <2>4, <2>5, <2>6 DEF e
<1> QED
  BY <1>1, <1>4, <1>5

\* Only c's own write takes a call c from "write" and changes the database.
LEMMA WriteIsOwn ==
  ASSUME DeployInv, Next, NEW c \in Calls, call[c].pc = "write", call'[c] # call[c], db' # db
  PROVE  writeRow(c)
<1>1. ~Crash
  BY DEF Crash
<1>2. PICK e \in Calls : Step(e)
  BY <1>1 DEF Next
<1>3. e = c
  <2>1. PICK y : call' = [call EXCEPT ![e] = y]
    BY <1>2, StepMoves DEF Moves
  <2> QED
    BY <2>1 DEF DeployInv
<1>4. ~Arrive(c, call[c].q) /\ \A q : ~Arrive(c, q)
  BY DEF Arrive, Started
<1>5. ~(ProviderFails(c) \/ StorageFails(c))
  BY DEF ProviderFails, StorageFails
<1> QED
  BY <1>2, <1>3, <1>4, <1>5
     DEF Step, At, handleUpsertTenant, handleDeleteTenant, handleDeletePage, handleGetPage,
         handleListTenantPages, writePages, mergePage, updateSecrets, checkPage, setDomains,
         writePage, createDeployment, extractUpload, putManifest, putStatic, putWorker, record,
         activate, checkActivation, findDeployment, deployDirect, ensureTenant, addTenant,
         ensurePage, addPage, readSecrets, writeSecrets

(* A write of a page that nobody changed since it was read changes only    *)
(* what its request names, for every request and every row.                *)
THEOREM UndisturbedWriteIsLocalHolds == Spec => UndisturbedWriteIsLocal
<1> DEFINE Local(c) ==
       LET q   == call[c].q
           old == GetPage(backend, db, q.page)
           new == GetPage(backend, db', q.page)
       IN  /\ call[c].pc = "write" /\ call'[c] # call[c]
           /\ call[c].seen = old /\ old # None /\ db' # db
           => /\ new.domains = old.domains
              /\ q.op # "upsertPage" \/ q.active = None => new.active = old.active
              /\ q.op # "upsertPage" => new.tenant = old.tenant
              /\ q.secrets = None => new.secrets \subseteq old.secrets
              /\ q.op # "replaceSecrets" /\ (q.op = "upsertPage" => q.secrets = None)
                   => old.secrets \ q.drop \subseteq new.secrets
<1>1. ASSUME DeployInv, Next, NEW c \in Calls PROVE Local(c)
  <2> DEFINE x   == call[c]
             q   == x.q
             old == GetPage(backend, db, q.page)
             new == GetPage(backend, db', q.page)
  <2> SUFFICES ASSUME x.pc = "write", call'[c] # call[c], x.seen = old, old # None, db' # db
               PROVE  /\ new.domains = old.domains
                      /\ q.op # "upsertPage" \/ q.active = None => new.active = old.active
                      /\ q.op # "upsertPage" => new.tenant = old.tenant
                      /\ q.secrets = None => new.secrets \subseteq old.secrets
                      /\ q.op # "replaceSecrets" /\ (q.op = "upsertPage" => q.secrets = None)
                           => old.secrets \ q.drop \subseteq new.secrets
    OBVIOUS
  <2>1. /\ x \in CallType /\ q \in Menu[c] /\ Written(x)
        /\ backend \in Backends /\ db \in DB /\ q.page \in Pages
    BY <1>1, RequestFields DEF DeployInv, CallOK, ReadyAt
  <2>2. db' = UpsertPage(backend, db, q.page, x.row).db
    BY <1>1, WriteIsOwn DEF writeRow, Finishes, Applies
  <2>3. x.row \in Row /\ old \in Row /\ db.pages[q.page] # None
    BY <2>1, PageRead DEF Written, CallType
  <2>4. /\ new.tenant = x.row.tenant /\ new.active = x.row.active
        /\ new.secrets = x.row.secrets /\ new.domains = old.domains
    BY <2>1, <2>2, <2>3, RowWritten
  <2>5. \/ q.op = "upsertPage" /\ x.row = Merged(q, old)
        \/ q.op \in SecretOps /\ x.row = [old EXCEPT !.secrets = apply(q, @)]
    BY <2>1 DEF Written
  <2> HIDE DEF new, old, x
  <2>6. CASE q.op = "upsertPage" /\ x.row = Merged(q, old)
    BY <2>3, <2>4, <2>6 DEF Merged, SecretOps
  <2>7. CASE q.op \in SecretOps /\ x.row = [old EXCEPT !.secrets = apply(q, @)]
    <3>1. /\ x.row.tenant = old.tenant /\ x.row.active = old.active
          /\ x.row.secrets = apply(q, old.secrets)
      BY <2>3, <2>7 DEF Row
    <3>2. /\ q.secrets = None => apply(q, old.secrets) \subseteq old.secrets
          /\ q.op # "replaceSecrets" => old.secrets \ q.drop \subseteq apply(q, old.secrets)
      BY <2>1, <2>7, RequestFields
         DEF SecretOps, apply, putSecret, deleteSecret, replaceSecrets, patchSecrets
    <3> QED
      BY <2>4, <2>7, <3>1, <3>2 DEF SecretOps
  <2> QED
    BY <2>5, <2>6, <2>7
<1>2. ASSUME DeployInv, [Next]_vars PROVE [\A c \in Calls : Local(c)]_vars
  BY <1>1, <1>2
<1> QED
  BY <1>2, DeployInvariant, PTL DEF Spec, UndisturbedWriteIsLocal

-----------------------------------------------------------------------------
(* What is served is whole *)

(* One build only was uploaded as deployment dep of page p.                *)
SameBuild(p, dep) ==
  /\ \A c, e \in Uploads(p, dep) : call[c].build = call[e].build
  /\ p = SeedPage /\ dep = Seed => \A c \in Uploads(p, dep) : call[c].build = SeedBuild

(* The calls that name a tenant for page p, the tenants they name, and     *)
(* their agreement on one of them and on no active deployment.             *)
Naming(p) == {c \in Calls : Started(c) /\ call[c].q.page = p /\ call[c].q.op \in {"upsertPage", "direct"}}
Named(p)  == {call[c].q.tenant : c \in Naming(p)} \cup (IF p = SeedPage THEN {SeedTenant} ELSE {})
Agreed(p) == (\A s, t \in Named(p) : s = t) /\ \A c \in Naming(p) : call[c].q.active = None

(* Where every object of the build is in storage.                          *)
Kept == (Uploading \ {"manifest", "statics"}) \cup {"activate"}

(* A manifest or a worker bundle under a key comes from an upload of that  *)
(* deployment, and a static asset is what its name says.                   *)
StoredFrom(o) ==
  IF o.name \in {"manifest", "worker"}
  THEN \/ \E c \in Uploads(o.key[2], o.key[3]) : o.body = call[c].build
       \/ o.key[2] = SeedPage /\ o.key[3] = Seed /\ o.body = SeedBuild
  ELSE o.body = o.name

(* Where duru's direct mode makes the tenant and the page.                 *)
Making == {"ensureTenant", "addTenant", "ensurePage", "addPage"}

(* What call c has put under its key.                                      *)
PutBy(c) ==
  LET x == call[c]
      k == KeyOf(c)
  IN  /\ x.pc = "manifest" => x.todo = HashesOf(x.build)
      /\ x.pc = "statics" => x.todo \subseteq HashesOf(x.build)
      /\ x.build # None /\ SameBuild(x.q.page, x.q.dep) =>
           /\ x.pc = "statics" => /\ Object(k, "manifest", x.build) \in store
                                  /\ \A h \in HashesOf(x.build) \ x.todo : Object(k, h, h) \in store
           /\ x.pc \in Kept /\ x.q.op # "activate" => Objects(k, x.build) \subseteq store

(* A whole build of deployment dep of page p is under a tenant named for p.*)
WholeAt(p, dep) == SameBuild(p, dep) => \E t \in Named(p) : Complete(Key(t, p, dep))

(* A row of page p names a tenant of p and a deployment that is whole.     *)
RowSound(p, row) ==
  /\ row.tenant \in Named(p)
  /\ Agreed(p) /\ row.active # None /\ SameBuild(p, row.active) => Complete(Key(row.tenant, p, row.active))

(* The tenant, the row and the deployment call c has found, and its mode.  *)
CallSound(c) ==
  LET x == call[c]
  IN  /\ x.tenant # None => x.tenant \in Named(x.q.page)
      /\ x.row # None => RowSound(x.q.page, x.row)
      /\ x.pc = "activate" /\ x.q.op = "activate" => WholeAt(x.q.page, x.q.dep)
      /\ x.pc \in Making => x.q.op = "direct"

WholeInv ==
  /\ \A o \in store : StoredFrom(o)
  /\ \A c \in Calls : PutBy(c)
  /\ \A r \in db.deps : WholeAt(r[1], r[2])
  /\ \A p \in Pages : db.pages[p] # None => RowSound(p, db.pages[p])
  /\ \A c \in Calls : CallSound(c)

\* Of two members of a finite set of at most one, each is the other.
LEMMA AtMostOne ==
  ASSUME NEW S, IsFiniteSet(S), ~(Cardinality(S) > 1), NEW x \in S, NEW y \in S
  PROVE  x = y
<1> SUFFICES ASSUME x # y PROVE FALSE
  OBVIOUS
<1>1. /\ IsFiniteSet(S \ {x}) /\ Cardinality(S \ {x}) = Cardinality(S) - 1
      /\ Cardinality(S) \in Nat
  BY FS_RemoveElement, FS_CardinalityType
<1>2. y \in S \ {x}
  OBVIOUS
<1>3. Cardinality(S \ {x}) # 0
  BY <1>1, <1>2, FS_EmptySet
<1> QED
  BY <1>1, <1>3, FS_CardinalityType

\* A function on a finite set has finitely many values.
LEMMA FiniteValues ==
  ASSUME NEW S, IsFiniteSet(S), NEW T, NEW f \in [S -> T], \A y \in T : \E x \in S : f[x] = y
  PROVE  IsFiniteSet(T)
<1>1. f \in Surjection(S, T)
  BY DEF Surjection
<1> QED
  BY <1>1, FS_Surjection

\* An id that is not reused has one build.
LEMMA NotReused ==
  ASSUME NEW p, NEW dep, ~Reused(p, dep)
  PROVE  SameBuild(p, dep)
<1> DEFINE S == {call[c].build : c \in Uploads(p, dep)} \cup
                  (IF p = SeedPage /\ dep = Seed THEN {SeedBuild} ELSE {})
           U == Uploads(p, dep)
<1>1. IsFiniteSet(U)
  BY FiniteCalls, FS_Subset DEF Uploads
<1>2. IsFiniteSet({call[c].build : c \in U})
  <2> DEFINE f == [c \in U |-> call[c].build]
             T == {call[c].build : c \in U}
  <2>1. f \in [U -> T] /\ \A y \in T : \E c \in U : f[c] = y
    OBVIOUS
  <2> HIDE DEF f, T, U
  <2>2. IsFiniteSet(T)
    BY <1>1, <2>1, FiniteValues
  <2> QED
    BY <2>2 DEF T
<1>3. IsFiniteSet(IF p = SeedPage /\ dep = Seed THEN {SeedBuild} ELSE {})
  BY FS_EmptySet, FS_Singleton
<1>4. IsFiniteSet(S)
  BY <1>2, <1>3, FS_Union
<1>5. ~(Cardinality(S) > 1)
  BY DEF Reused
<1> QED
  BY <1>4, <1>5, AtMostOne DEF SameBuild

\* A page whose tenant and deployment nobody overrides has one tenant.
LEMMA NotOverridden ==
  ASSUME NEW p, ~Overridden(p)
  PROVE  Agreed(p)
<1> DEFINE N == Naming(p)
<1>1. IsFiniteSet(N)
  BY FiniteCalls, FS_Subset DEF Naming
<1>2. IsFiniteSet({call[c].q.tenant : c \in N})
  <2> DEFINE f == [c \in N |-> call[c].q.tenant]
             T == {call[c].q.tenant : c \in N}
  <2>1. f \in [N -> T] /\ \A y \in T : \E c \in N : f[c] = y
    OBVIOUS
  <2> HIDE DEF f, T, N
  <2>2. IsFiniteSet(T)
    BY <1>1, <2>1, FiniteValues
  <2> QED
    BY <2>2 DEF T
<1>3. IsFiniteSet(IF p = SeedPage THEN {SeedTenant} ELSE {})
  BY FS_EmptySet, FS_Singleton
<1>4. IsFiniteSet(Named(p))
  BY <1>2, <1>3, FS_Union DEF Named
<1>5. ~(Cardinality(Named(p)) > 1) /\ \A c \in N : call[c].q.active = None
  BY DEF Overridden, Named, Naming
<1> QED
  BY <1>4, <1>5, AtMostOne DEF Agreed

(* What the rest of the proof needs of a step: calls take nothing back,    *)
(* and an object under a key of one build stays in storage.                *)
Frame ==
  /\ \A c \in Calls : Follows(call[c], call'[c])
  /\ \A o \in store : SameBuild(o.key[2], o.key[3]) => o \in store'

\* More calls name more tenants and more builds.
LEMMA FrameMonotone ==
  ASSUME Frame, NEW p, NEW dep
  PROVE  /\ Uploads(p, dep) \subseteq Uploads(p, dep)'
         /\ Named(p) \subseteq Named(p)'
         /\ SameBuild(p, dep)' => SameBuild(p, dep)
         /\ Agreed(p)' => Agreed(p)
<1>1. ASSUME NEW c \in Uploads(p, dep) PROVE c \in Uploads(p, dep)' /\ call'[c].build = call[c].build
  BY <1>1 DEF Uploads, Started, Frame, Follows
<1>2. ASSUME NEW c \in Naming(p) PROVE c \in Naming(p)' /\ call'[c].q = call[c].q
  BY <1>2 DEF Naming, Started, Frame, Follows
<1>3. Named(p) \subseteq Named(p)'
  BY <1>2 DEF Named
<1>4. SameBuild(p, dep)' => SameBuild(p, dep)
  BY <1>1 DEF SameBuild
<1>5. Agreed(p)' => Agreed(p)
  BY <1>2, <1>3 DEF Agreed
<1> QED
  BY <1>1, <1>3, <1>4, <1>5

\* What is whole stays whole.
LEMMA CompleteStays ==
  ASSUME Frame, NEW t, NEW p, NEW dep, SameBuild(p, dep), Complete(Key(t, p, dep))
  PROVE  Complete(Key(t, p, dep))'
<1> DEFINE k == Key(t, p, dep)
<1>1. k[2] = p /\ k[3] = dep
  BY DEF Key
<1>2. PICK o \in store : o.key = k /\ o.name = "manifest" /\ Objects(k, o.body) \subseteq store
  BY DEF Complete
<1>3. \A e \in Objects(k, o.body) : e.key = k
  BY DEF Objects, Object
<1> HIDE DEF k
<1>4. o \in store' /\ Objects(k, o.body) \subseteq store'
  BY <1>1, <1>2, <1>3 DEF Frame
<1> QED
  BY <1>2, <1>4 DEF Complete, k

\* So does a deployment that is whole under one of the tenants of its page,
\* and a row whose deployment is.
LEMMA SoundStays ==
  ASSUME Frame, NEW p
  PROVE  /\ \A dep : WholeAt(p, dep) => WholeAt(p, dep)'
         /\ \A row : RowSound(p, row) => RowSound(p, row)'
<1>1. ASSUME NEW dep, WholeAt(p, dep) PROVE WholeAt(p, dep)'
  BY <1>1, FrameMonotone, CompleteStays DEF WholeAt
<1>2. ASSUME NEW row, RowSound(p, row) PROVE RowSound(p, row)'
  <2>1. row.tenant \in Named(p)'
    BY <1>2, FrameMonotone DEF RowSound
  <2>2. ASSUME Agreed(p)', row.active # None, SameBuild(p, row.active)'
        PROVE  Complete(Key(row.tenant, p, row.active))'
    <3>1. Agreed(p) /\ SameBuild(p, row.active)
      BY <2>2, FrameMonotone
    <3> QED
      BY <1>2, <2>2, <3>1, CompleteStays DEF RowSound
  <2> QED
    BY <2>1, <2>2 DEF RowSound
<1> QED
  BY <1>1, <1>2

\* The objects of a build are under its key; those with other names than
\* the manifest and the worker bundle are its static assets.
LEMMA BuildNames ==
  ASSUME DeployInv, NEW c \in Calls, call[c].build # None
  PROVE  {"manifest", "worker"} \cap HashesOf(call[c].build) = {}
<1>1. call[c].build \in Builds
  BY DEF DeployInv, CallType
<1> QED
  BY <1>1, BuildTypes DEF Builds, Requests

\* An uploading call has put its build among those of its deployment.
LEMMA OwnUpload ==
  ASSUME DeployInv, NEW c \in Calls, call[c].pc \in Uploading
  PROVE  /\ c \in Uploads(call[c].q.page, call[c].q.dep) /\ call[c].build # None
         /\ KeyOf(c)[2] = call[c].q.page /\ KeyOf(c)[3] = call[c].q.dep
BY DEF DeployInv, CallOK, ReadyAt, Uploads, Started, Uploading, KeyOf, Key

\* A put of what the name of the object promises replaces nothing but itself.
LEMMA PutKeeps ==
  ASSUME DeployInv, \A o \in store : StoredFrom(o),
         NEW c \in Calls, call[c].pc \in Uploading, NEW name \in {"manifest", "worker"},
         store' = Put(store, KeyOf(c), name, call[c].build),
         NEW o \in store, SameBuild(o.key[2], o.key[3])
  PROVE  o \in store'
<1> DEFINE k == KeyOf(c)
           b == call[c].build
<1>1. c \in Uploads(k[2], k[3])
  BY OwnUpload
<1>2. CASE ~(o.key = k /\ o.name = name)
  BY <1>2 DEF Put
<1>3. CASE o.key = k /\ o.name = name
  <2>1. \/ \E e \in Uploads(k[2], k[3]) : o.body = call[e].build
        \/ k[2] = SeedPage /\ k[3] = Seed /\ o.body = SeedBuild
    BY <1>3 DEF StoredFrom
  <2>2. SameBuild(k[2], k[3])
    BY <1>3
  <2> HIDE DEF k
  <2>3. o.body = b
    BY <1>1, <2>1, <2>2 DEF SameBuild
  <2>4. o = Object(k, name, b)
    BY <1>3, <2>3 DEF DeployInv
  <2> QED
    BY <2>4 DEF Put, k
<1> QED
  BY <1>2, <1>3

\* Every step of a call is such a step.
LEMMA StepFrame ==
  ASSUME DeployInv, \A o \in store : StoredFrom(o), NEW c \in Calls, Step(c)
  PROVE  Frame
<1>1. \A e \in Calls : Follows(call[e], call'[e])
  BY StepMoves DEF Moves, Follows, DeployInv
<1>2. ASSUME NEW o \in store, SameBuild(o.key[2], o.key[3]) PROVE o \in store'
  <2>1. CASE UNCHANGED store
    BY <2>1
  <2>2. CASE putManifest(c)
    <3>1. call[c].pc \in Uploading /\ store' = Put(store, KeyOf(c), "manifest", call[c].build)
      BY <2>2 DEF putManifest, At, Uploading
    <3> QED
      BY <1>2, <3>1, PutKeeps
  <2>3. CASE putStatic(c)
    BY <2>3 DEF putStatic, Has, Put
  <2>4. CASE putWorker(c)
    <3>1. CASE HasWorker(call[c].build)
      <4>1. call[c].pc \in Uploading /\ store' = Put(store, KeyOf(c), "worker", call[c].build)
        BY <2>4, <3>1 DEF putWorker, At, Uploading
      <4> QED
        BY <1>2, <4>1, PutKeeps
    <3>2. CASE ~HasWorker(call[c].build)
      BY <2>4, <3>2 DEF putWorker
    <3> QED
      BY <3>1, <3>2
  <2> QED
    BY <2>1, <2>2, <2>3, <2>4, StepStore
<1> QED
  BY <1>1, <1>2 DEF Frame

\* What a step puts in storage comes from the build of its call.
LEMMA StoredStep ==
  ASSUME DeployInv, WholeInv, NEW c \in Calls, Step(c), NEW o \in store'
  PROVE  StoredFrom(o)'
<1>1. Frame
  BY StepFrame DEF WholeInv
<1>2. CASE o \in store
  <2>1. StoredFrom(o)
    BY <1>2 DEF WholeInv
  <2>2. \A e \in Uploads(o.key[2], o.key[3]) :
          e \in Uploads(o.key[2], o.key[3])' /\ call'[e].build = call[e].build
    BY <1>1, FrameMonotone DEF Uploads, Frame, Follows
  <2> QED
    BY <2>1, <2>2 DEF StoredFrom
<1>3. CASE o \notin store
  <2>1. putManifest(c) \/ putStatic(c) \/ putWorker(c)
    BY <1>3, StepStore
  <2>2. call[c].pc \in Uploading
    BY <2>1 DEF putManifest, putStatic, putWorker, At, Uploading
  <2>3. \/ \E name \in {"manifest", "worker"} : o = Object(KeyOf(c), name, call[c].build)
        \/ \E h \in call[c].todo : call[c].pc = "statics" /\ o = Object(KeyOf(c), h, h)
    BY <1>3, <2>1 DEF putManifest, putStatic, putWorker, Put, At
  <2>4. CASE \E name \in {"manifest", "worker"} : o = Object(KeyOf(c), name, call[c].build)
    <3>1. /\ o.key = KeyOf(c) /\ o.name \in {"manifest", "worker"} /\ o.body = call[c].build
      BY <2>4 DEF Object
    <3>2. c \in Uploads(o.key[2], o.key[3])
      BY <2>2, <3>1, OwnUpload
    <3>3. c \in Uploads(o.key[2], o.key[3])' /\ call'[c].build = call[c].build
      BY <1>1, <3>2, FrameMonotone DEF Uploads, Frame, Follows
    <3> QED
      BY <3>1, <3>3 DEF StoredFrom
  <2>5. CASE \E h \in call[c].todo : call[c].pc = "statics" /\ o = Object(KeyOf(c), h, h)
    <3>1. PICK h \in call[c].todo : call[c].pc = "statics" /\ o = Object(KeyOf(c), h, h)
      BY <2>5
    <3>2. h \in HashesOf(call[c].build) /\ call[c].build # None
      BY <2>2, <3>1, OwnUpload DEF WholeInv, PutBy
    <3>3. h \notin {"manifest", "worker"}
      BY <3>2, BuildNames
    <3> QED
      BY <3>1, <3>3 DEF StoredFrom, Object
  <2> QED
    BY <2>3, <2>4, <2>5
<1> QED
  BY <1>2, <1>3

(* How a step of c may change its place, its row and its tenant.           *)
Kin(c) ==
  LET x == call[c]
      y == call'[c]
  IN  /\ \/ y.pc \notin Kept \cup {"manifest", "statics"}
         \/ extractUpload(c) \/ putManifest(c) \/ putStatic(c) \/ putWorker(c) \/ findDeployment(c)
         \/ /\ x.pc \in Kept /\ y.pc \in Kept /\ (y.pc = "activate" => x.pc = "record")
            /\ y.pc \in Making => x.pc \in Making
      /\ y.row \in {None, x.row} \/ mergePage(c) \/ updateSecrets(c) \/ readSecrets(c)
      /\ y.tenant \in {None, x.tenant} \/ createDeployment(c) \/ deployDirect(c)

\* What going on and answering do to the fields of a call.
LEMMA PlaceOf ==
  ASSUME DeployInv, NEW c \in Calls
  PROVE  /\ \A pc : Goes(c, pc) => /\ call'[c].pc = pc /\ call'[c].row = call[c].row
                                   /\ call'[c].tenant = call[c].tenant
                                   /\ call'[c].todo = call[c].todo
         /\ \A s : Answers(c, s) => /\ call'[c].pc = "done" /\ call'[c].row = call[c].row
                                    /\ call'[c].tenant = call[c].tenant
         /\ \A r, pc : Applies(c, r, pc) => /\ call'[c].pc \in {pc, "done"} /\ call'[c].row = call[c].row
                                            /\ call'[c].tenant = call[c].tenant
         /\ \A r, s : Finishes(c, r, s) => /\ call'[c].pc = "done" /\ call'[c].row = call[c].row
                                           /\ call'[c].tenant = call[c].tenant
<1>1. call \in [Calls -> CallType] /\ call[c] \in CallType
  BY DEF DeployInv
<1>2. ASSUME NEW pc, Goes(c, pc)
      PROVE  /\ call'[c].pc = pc /\ call'[c].row = call[c].row /\ call'[c].tenant = call[c].tenant
             /\ call'[c].todo = call[c].todo
  BY <1>1, <1>2 DEF Goes, CallType
<1>3. ASSUME NEW s, Answers(c, s)
      PROVE  call'[c].pc = "done" /\ call'[c].row = call[c].row /\ call'[c].tenant = call[c].tenant
  BY <1>1, <1>3 DEF Answers, CallType
<1>4. ASSUME NEW r, NEW pc, Applies(c, r, pc)
      PROVE  call'[c].pc \in {pc, "done"} /\ call'[c].row = call[c].row /\ call'[c].tenant = call[c].tenant
  BY <1>2, <1>3, <1>4 DEF Applies
<1>5. ASSUME NEW r, NEW s, Finishes(c, r, s)
      PROVE  call'[c].pc = "done" /\ call'[c].row = call[c].row /\ call'[c].tenant = call[c].tenant
  BY <1>3, <1>5 DEF Finishes
<1> QED
  BY <1>2, <1>3, <1>4, <1>5

\* A request that arrives has found nothing yet.
LEMMA Arrived ==
  ASSUME DeployInv, NEW c \in Calls, NEW r, Arrive(c, r)
  PROVE  call'[c].pc \in {"start", "done"} /\ call'[c].row = None /\ call'[c].tenant = None
<1> DEFINE y == call'[c]
<1>1. \/ y = [Start(r) EXCEPT !.pc = "done", !.status = "501"]
      \/ y = [Start(r) EXCEPT !.pc = "done", !.status = "400"]
      \/ y = Start(r)
  BY DEF Arrive, DeployInv
<1>2. ASSUME y = [Start(r) EXCEPT !.pc = "done", !.status = "501"]
      PROVE  y.pc = "done" /\ y.row = None /\ y.tenant = None
  BY <1>2 DEF Start
<1>3. ASSUME y = [Start(r) EXCEPT !.pc = "done", !.status = "400"]
      PROVE  y.pc = "done" /\ y.row = None /\ y.tenant = None
  BY <1>3 DEF Start
<1>4. ASSUME y = Start(r) PROVE y.pc = "start" /\ y.row = None /\ y.tenant = None
  BY <1>4 DEF Start
<1> HIDE DEF y
<1>5. y.pc \in {"start", "done"} /\ y.row = None /\ y.tenant = None
  BY <1>1, <1>2, <1>3, <1>4
<1> QED
  BY <1>5 DEF y

\* Every step changes them so.
LEMMA StepKin ==
  ASSUME DeployInv, NEW c \in Calls, Step(c)
  PROVE  Kin(c)
<1> DEFINE x == call[c]
           y == call'[c]
           q == x.q
<1>1. x \in CallType /\ call \in [Calls -> CallType] /\ ReadyAt(x)
  BY DEF DeployInv, CallOK
<1>2. /\ Kept = {"record", "ensureTenant", "addTenant", "ensurePage", "addPage", "secrets",
                 "writeSecrets", "activate"}
      /\ Making = {"ensureTenant", "addTenant", "ensurePage", "addPage"}
  BY DEF Kept, Uploading, Making
<1>3. CASE \E r \in Menu[c] : Arrive(c, r)
  BY <1>2, <1>3, Arrived DEF Kin
<1>4. CASE handleUpsertTenant(c) \/ handleDeleteTenant(c) \/ handleDeletePage(c)
  BY <1>4, <1>2, PlaceOf DEF handleUpsertTenant, handleDeleteTenant, handleDeletePage, Kin
<1>5. CASE handleGetPage(c) \/ writePage(c)
  BY <1>5, <1>2, PlaceOf DEF handleGetPage, writePage, Kin
<1>6. CASE handleListTenantPages(c) \/ checkPage(c)
  BY <1>6, <1>2, PlaceOf DEF handleListTenantPages, checkPage, Kin
<1>7. CASE writePages(c)
  <2>1. call' = [call EXCEPT ![c].pc = "done", ![c].status = "200",
                             ![c].todo = ListPages(backend, db, q.tenant)]
    BY <1>7 DEF writePages
  <2>2. y.pc = "done" /\ y.row = x.row /\ y.tenant = x.tenant
    BY <1>1, <2>1 DEF CallType
  <2> QED
    BY <1>2, <2>2 DEF Kin
<1>8. CASE mergePage(c)
  <2>1. y.pc = "write" /\ y.tenant = x.tenant
    BY <1>8, <1>1 DEF mergePage, CallType
  <2> QED
    BY <1>8, <1>2, <2>1 DEF Kin
<1>9. CASE updateSecrets(c)
  <2> DEFINE old == GetPage(backend, db, q.page)
             row == [old EXCEPT !.secrets = apply(q, @)]
  <2>1. Answers(c, "404") \/ call' = [call EXCEPT ![c].pc = "write", ![c].seen = old, ![c].row = row]
    BY <1>9 DEF updateSecrets
  <2> HIDE DEF old, row
  <2>2. y.pc \in {"write", "done"} /\ y.tenant = x.tenant
    BY <1>1, <2>1, PlaceOf DEF CallType
  <2> QED
    BY <1>9, <1>2, <2>2 DEF Kin
<1>10. CASE writeRow(c)
  <2> DEFINE r == UpsertPage(backend, db, q.page, x.row)
  <2>1. Finishes(c, r, "200") \/ Applies(c, r, "domains") \/ Applies(c, r, "render")
    BY <1>10 DEF writeRow
  <2> QED
    BY <1>2, <2>1, PlaceOf DEF Kin
<1>11. CASE setDomains(c)
  <2> DEFINE r == SetCustomDomains(backend, db, q.page, q.domains)
  <2>1. Finishes(c, r, "200") \/ Applies(c, r, "render")
    BY <1>11 DEF setDomains
  <2> QED
    BY <1>2, <2>1, PlaceOf DEF Kin
<1>12. CASE createDeployment(c)
  <2> DEFINE old == GetPage(backend, db, q.page)
  <2>1. Answers(c, "404") \/ call' = [call EXCEPT ![c].pc = "extract", ![c].tenant = old.tenant]
    BY <1>12 DEF createDeployment
  <2> HIDE DEF old
  <2>2. y.pc \in {"extract", "done"} /\ y.row = x.row
    BY <1>1, <2>1, PlaceOf DEF CallType
  <2> QED
    BY <1>12, <1>2, <2>2 DEF Kin
<1>13. CASE extractUpload(c)
  <2> DEFINE got == Untar(q.archive)
             b  == Built(q.archive)
  <2>1. \/ \E s : Answers(c, s)
        \/ call' = [call EXCEPT ![c].pc = "manifest", ![c].build = b, ![c].todo = HashesOf(b)]
    BY <1>13 DEF extractUpload
  <2> HIDE DEF b, got
  <2>2. y.row = x.row /\ y.tenant = x.tenant
    BY <1>1, <2>1, PlaceOf DEF CallType
  <2> QED
    BY <1>13, <2>2 DEF Kin
<1>14. CASE putManifest(c) \/ putWorker(c)
  <2>1. \E pc : Goes(c, pc)
    BY <1>14 DEF putManifest, putWorker
  <2>2. y.row = x.row /\ y.tenant = x.tenant
    BY <2>1, PlaceOf
  <2> QED
    BY <1>14, <2>2 DEF Kin
<1>15. CASE putStatic(c)
  <2>1. PICK h : call' = [call EXCEPT ![c].todo = @ \ {h}]
    BY <1>15 DEF putStatic
  <2>2. y.row = x.row /\ y.tenant = x.tenant
    BY <1>1, <2>1 DEF CallType
  <2> QED
    BY <1>15, <2>2 DEF Kin
<1>16. CASE record(c)
  <2> DEFINE r == CreateDeployment(backend, db, q.page, q.dep)
  <2>1. x.pc = "record" /\ (Finishes(c, r, "201") \/ Applies(c, r, "activate"))
    BY <1>16 DEF record, At
  <2> QED
    BY <1>2, <2>1, PlaceOf DEF Kin
<1>17. CASE activate(c)
  <2> DEFINE r == SetActiveDeployment(backend, db, q.page, q.dep)
  <2>1. q.op \in {"activate", "deploy", "direct"}
    BY <1>1, <1>17 DEF ReadyAt, activate, At
  <2>2. Finishes(c, r, "201") \/ Applies(c, r, "render") \/ Applies(c, r, "domains")
    <3>1. CASE q.op = "deploy"
      BY <1>17, <3>1 DEF activate
    <3>2. CASE q.op = "activate"
      BY <1>17, <3>2 DEF activate
    <3>3. CASE q.op = "direct"
      BY <1>17, <3>3 DEF activate
    <3> QED
      BY <2>1, <3>1, <3>2, <3>3
  <2> QED
    BY <1>2, <2>2, PlaceOf DEF Kin
<1>18. CASE checkActivation(c)
  BY <1>18, <1>2, PlaceOf DEF checkActivation, Kin
<1>19. CASE findDeployment(c)
  <2>1. y.row = x.row /\ y.tenant = x.tenant
    BY <1>19, PlaceOf DEF findDeployment
  <2> QED
    BY <1>19, <2>1 DEF Kin
<1>20. CASE deployDirect(c)
  <2>1. y.pc = "extract" /\ y.row = x.row
    BY <1>20, <1>1 DEF deployDirect, CallType
  <2> QED
    BY <1>20, <1>2, <2>1 DEF Kin
<1>21. CASE ensureTenant(c) \/ ensurePage(c)
  <2>1. x.pc \in Making /\ x.pc \in Kept /\ \E pc \in Kept \ {"activate"} : Goes(c, pc)
    BY <1>21, <1>2 DEF ensureTenant, ensurePage, At
  <2>2. y.pc \in Kept \ {"activate"} /\ y.row = x.row /\ y.tenant = x.tenant
    BY <2>1, PlaceOf
  <2> QED
    BY <2>1, <2>2 DEF Kin
<1>22. CASE addTenant(c) \/ addPage(c) \/ writeSecrets(c)
  <2>1. x.pc \in Kept /\ \E r, pc : /\ pc \in Kept \ {"activate"} /\ (pc \in Making => x.pc \in Making)
                                    /\ Applies(c, r, pc)
    BY <1>22, <1>2 DEF addTenant, addPage, writeSecrets, At
  <2>2. PICK r, pc : /\ pc \in Kept \ {"activate"} /\ (pc \in Making => x.pc \in Making)
                     /\ Applies(c, r, pc)
    BY <2>1
  <2>3. y.pc \in {pc, "done"} /\ y.row = x.row /\ y.tenant = x.tenant
    BY <2>2, PlaceOf
  <2> QED
    BY <1>2, <2>1, <2>2, <2>3 DEF Kin
<1>23. CASE readSecrets(c)
  <2> DEFINE old == GetPage(backend, db, q.page)
             row == [old EXCEPT !.secrets = q.secrets]
  <2>1. \/ Goes(c, "record") \/ Answers(c, "404")
        \/ call' = [call EXCEPT ![c].pc = "writeSecrets", ![c].seen = old, ![c].row = row]
    BY <1>23 DEF readSecrets
  <2> HIDE DEF old, row
  <2>2. y.pc \in {"record", "writeSecrets", "done"} /\ y.tenant = x.tenant
    BY <1>1, <2>1, PlaceOf DEF CallType
  <2>3. x.pc \in Kept
    BY <1>23, <1>2 DEF readSecrets, At
  <2> QED
    BY <1>23, <1>2, <2>2, <2>3 DEF Kin
<1>24. CASE ProviderFails(c) \/ StorageFails(c)
  BY <1>24, <1>2, PlaceOf DEF ProviderFails, StorageFails, Kin
<1> QED
  BY <1>3, <1>4, <1>5, <1>6, <1>7, <1>8, <1>9, <1>10, <1>11, <1>12, <1>13, <1>14, <1>15, <1>16,
     <1>17, <1>18, <1>19, <1>20, <1>21, <1>22, <1>23, <1>24 DEF Step

\* An object under the key of an upload of one build stays in storage.
LEMMA ObjectStays ==
  ASSUME Frame, NEW k, NEW name, NEW body, SameBuild(k[2], k[3])', Object(k, name, body) \in store
  PROVE  Object(k, name, body) \in store'
<1>1. SameBuild(k[2], k[3])
  BY FrameMonotone
<1>2. Object(k, name, body).key = k
  BY DEF Object
<1> QED
  BY <1>1, <1>2 DEF Frame

\* So do all the objects of a build.
LEMMA BuildStays ==
  ASSUME Frame, NEW k, NEW b, SameBuild(k[2], k[3])', Objects(k, b) \subseteq store
  PROVE  Objects(k, b) \subseteq store'
<1>1. \A o \in Objects(k, b) : o.key = k
  BY DEF Objects, Object
<1>2. SameBuild(k[2], k[3])
  BY FrameMonotone
<1> QED
  BY <1>1, <1>2 DEF Frame

\* A call that does not move keeps what it has put.
LEMMA PutStays ==
  ASSUME Frame, NEW e \in Calls, PutBy(e), call'[e] = call[e]
  PROVE  PutBy(e)'
<1>1. PICK k, x : k = KeyOf(e) /\ x = call[e]
  OBVIOUS
<1>2. KeyOf(e)' = k /\ call'[e] = x /\ k[2] = x.q.page /\ k[3] = x.q.dep
  BY <1>1 DEF KeyOf, Key
<1>3. ASSUME x.build # None, SameBuild(x.q.page, x.q.dep)', x.pc = "statics"
      PROVE  /\ Object(k, "manifest", x.build) \in store'
             /\ \A h \in HashesOf(x.build) \ x.todo : Object(k, h, h) \in store'
  <2>1. SameBuild(x.q.page, x.q.dep)
    BY <1>3, FrameMonotone
  <2>2. /\ Object(k, "manifest", x.build) \in store
        /\ \A h \in HashesOf(x.build) \ x.todo : Object(k, h, h) \in store
    BY <1>1, <1>3, <2>1 DEF PutBy
  <2> QED
    BY <1>2, <1>3, <2>2, ObjectStays
<1>4. ASSUME x.build # None, SameBuild(x.q.page, x.q.dep)', x.pc \in Kept, x.q.op # "activate"
      PROVE  Objects(k, x.build) \subseteq store'
  <2>1. SameBuild(x.q.page, x.q.dep)
    BY <1>4, FrameMonotone
  <2>2. Objects(k, x.build) \subseteq store
    BY <1>1, <1>4, <2>1 DEF PutBy
  <2> QED
    BY <1>2, <1>4, <2>2, BuildStays
<1>5. /\ x.pc = "manifest" => x.todo = HashesOf(x.build)
      /\ x.pc = "statics" => x.todo \subseteq HashesOf(x.build)
  BY <1>1 DEF PutBy
<1>6. SameBuild(x.q.page, x.q.dep)' = SameBuild(call[e].q.page, call[e].q.dep)'
  BY <1>2
<1> QED
  BY <1>2, <1>3, <1>4, <1>5, <1>6 DEF PutBy

\* A call that uploads keeps its request, its build and its key.
LEMMA KeyStays ==
  ASSUME DeployInv, Frame, NEW c \in Calls, call[c].pc \in Kept \cup {"manifest", "statics"},
         call[c].q.op # "activate"
  PROVE  /\ call[c].build # None /\ call[c].tenant # None
         /\ call'[c].q = call[c].q /\ call'[c].build = call[c].build
         /\ call'[c].tenant = call[c].tenant /\ KeyOf(c)' = KeyOf(c)
<1>1. call[c].build # None /\ call[c].tenant # None /\ call[c].pc # "idle"
  BY DEF DeployInv, CallOK, ReadyAt, Kept, Uploading
<1>2. /\ call'[c].q = call[c].q /\ call'[c].build = call[c].build
      /\ call'[c].tenant = call[c].tenant
  BY <1>1 DEF Frame, Follows
<1> QED
  BY <1>1, <1>2 DEF KeyOf

\* The manifest is put first, with every asset still to come.
LEMMA ManifestPut ==
  ASSUME DeployInv, WholeInv, Frame, NEW c \in Calls, putManifest(c)
  PROVE  PutBy(c)'
<1>1. PICK k, x : k = KeyOf(c) /\ x = call[c]
  OBVIOUS
<1>2. x.pc = "manifest" /\ x.todo = HashesOf(x.build)
  BY <1>1 DEF putManifest, At, WholeInv, PutBy
<1>3. x.q.op \in {"deploy", "direct"}
  BY <1>1, <1>2 DEF DeployInv, CallOK, ReadyAt, Uploading
<1>4. call'[c].q = x.q /\ call'[c].build = x.build /\ KeyOf(c)' = k
  BY <1>1, <1>2, <1>3, KeyStays
<1>5. call'[c].pc = "statics" /\ call'[c].todo = HashesOf(x.build)
  BY <1>1, <1>2, PlaceOf DEF putManifest
<1>6. Object(k, "manifest", x.build) \in store'
  BY <1>1 DEF putManifest, Put
<1>7. "statics" \notin Kept
  BY DEF Kept
<1> QED
  BY <1>4, <1>5, <1>6, <1>7 DEF PutBy

\* An asset that is left out of the list is in storage.
LEMMA StaticPut ==
  ASSUME DeployInv, WholeInv, Frame, NEW c \in Calls, putStatic(c)
  PROVE  PutBy(c)'
<1>1. PICK k, x : k = KeyOf(c) /\ x = call[c]
  OBVIOUS
<1>2. x.pc = "statics" /\ x.todo \subseteq HashesOf(x.build) /\ x \in CallType
  BY <1>1 DEF putStatic, At, WholeInv, PutBy, DeployInv
<1>3. x.q.op \in {"deploy", "direct"} /\ x.build # None
  BY <1>1, <1>2 DEF DeployInv, CallOK, ReadyAt, Uploading
<1>4. call'[c].q = x.q /\ call'[c].build = x.build /\ KeyOf(c)' = k
  BY <1>1, <1>2, <1>3, KeyStays
<1>5. PICK h \in x.todo :
        /\ store' = IF Has(store, k, h) THEN store ELSE Put(store, k, h, h)
        /\ call' = [call EXCEPT ![c].todo = @ \ {h}]
  BY <1>1 DEF putStatic
<1>6. call'[c].pc = "statics" /\ call'[c].todo = x.todo \ {h}
  BY <1>1, <1>2, <1>5 DEF DeployInv, CallType
<1>7. Object(k, h, h) \in store'
  <2>1. CASE Has(store, k, h)
    <3>1. PICK o \in store : o.key = k /\ o.name = h
      BY <2>1 DEF Has
    <3>2. h \notin {"manifest", "worker"}
      BY <1>1, <1>2, <1>3, BuildNames
    <3>3. o.body = h
      BY <3>1, <3>2 DEF WholeInv, StoredFrom
    <3> QED
      BY <1>5, <2>1, <3>1, <3>3 DEF DeployInv
  <2>2. CASE ~Has(store, k, h)
    BY <1>5, <2>2 DEF Put
  <2> QED
    BY <2>1, <2>2
<1>8. ASSUME SameBuild(x.q.page, x.q.dep)'
      PROVE  /\ Object(k, "manifest", x.build) \in store'
             /\ \A g \in HashesOf(x.build) \ (x.todo \ {h}) : Object(k, g, g) \in store'
  <2>1. SameBuild(x.q.page, x.q.dep) /\ k[2] = x.q.page /\ k[3] = x.q.dep
    BY <1>1, <1>8, FrameMonotone DEF KeyOf, Key
  <2>2. /\ Object(k, "manifest", x.build) \in store
        /\ \A g \in HashesOf(x.build) \ x.todo : Object(k, g, g) \in store
    BY <1>1, <1>2, <1>3, <2>1 DEF WholeInv, PutBy
  <2>3. SameBuild(k[2], k[3])'
    BY <1>8, <2>1
  <2> QED
    BY <1>7, <2>2, <2>3, ObjectStays
<1>9. SameBuild(x.q.page, x.q.dep)' = SameBuild(call[c].q.page, call[c].q.dep)'
  BY <1>4
<1>10. "statics" \notin Kept
  BY DEF Kept
<1> QED
  BY <1>2, <1>4, <1>6, <1>8, <1>9, <1>10 DEF PutBy

\* With the last asset and the worker bundle the build is whole.
LEMMA WorkerPut ==
  ASSUME DeployInv, WholeInv, Frame, NEW c \in Calls, putWorker(c)
  PROVE  PutBy(c)'
<1>1. PICK k, x : k = KeyOf(c) /\ x = call[c]
  OBVIOUS
<1>2. x.pc = "statics" /\ x.todo = {}
  BY <1>1 DEF putWorker, At
<1>3. x.q.op \in {"deploy", "direct"} /\ x.build # None
  BY <1>1, <1>2 DEF DeployInv, CallOK, ReadyAt, Uploading
<1>4. call'[c].q = x.q /\ call'[c].build = x.build /\ KeyOf(c)' = k
  BY <1>1, <1>2, <1>3, KeyStays
<1>5. call'[c].pc \in {"ensureTenant", "record"}
  BY PlaceOf DEF putWorker
<1>6. ASSUME SameBuild(x.q.page, x.q.dep)'
      PROVE  Objects(k, x.build) \subseteq store'
  <2>1. SameBuild(x.q.page, x.q.dep) /\ k[2] = x.q.page /\ k[3] = x.q.dep
    BY <1>1, <1>6, FrameMonotone DEF KeyOf, Key
  <2>2. /\ Object(k, "manifest", x.build) \in store
        /\ \A g \in HashesOf(x.build) : Object(k, g, g) \in store
    BY <1>1, <1>2, <1>3, <2>1 DEF WholeInv, PutBy
  <2>3. SameBuild(k[2], k[3])'
    BY <1>6, <2>1
  <2>4. /\ Object(k, "manifest", x.build) \in store'
        /\ \A g \in HashesOf(x.build) : Object(k, g, g) \in store'
    BY <2>2, <2>3, ObjectStays
  <2>5. HasWorker(x.build) => Object(k, "worker", x.build) \in store'
    BY <1>1 DEF putWorker, Put
  <2> QED
    BY <2>4, <2>5 DEF Objects
<1>7. SameBuild(x.q.page, x.q.dep)' = SameBuild(call[c].q.page, call[c].q.dep)'
  BY <1>4
<1> QED
  BY <1>4, <1>5, <1>6, <1>7 DEF PutBy

\* A build that is whole stays so while its call goes on.
LEMMA WholePut ==
  ASSUME DeployInv, WholeInv, Frame, NEW c \in Calls, call[c].pc \in Kept, call'[c].pc \in Kept
  PROVE  PutBy(c)'
<1>1. PICK k, x : k = KeyOf(c) /\ x = call[c]
  OBVIOUS
<1>2. x.pc # "idle"
  BY <1>1 DEF Kept, Uploading
<1>3. call'[c].q = x.q
  BY <1>1, <1>2 DEF Frame, Follows
<1>4. call'[c].pc \notin {"manifest", "statics"}
  BY DEF Kept
<1>5. ASSUME x.q.op # "activate", SameBuild(x.q.page, x.q.dep)'
      PROVE  Objects(KeyOf(c), call[c].build)' \subseteq store'
  <2>1. x.build # None /\ call'[c].build = x.build /\ KeyOf(c)' = k
    BY <1>1, <1>5, KeyStays
  <2>2. SameBuild(x.q.page, x.q.dep) /\ k[2] = x.q.page /\ k[3] = x.q.dep
    BY <1>1, <1>5, FrameMonotone DEF KeyOf, Key
  <2>3. Objects(k, x.build) \subseteq store
    BY <1>1, <1>5, <2>1, <2>2 DEF WholeInv, PutBy
  <2>4. SameBuild(k[2], k[3])'
    BY <1>5, <2>2
  <2>5. Objects(k, x.build) \subseteq store'
    BY <2>3, <2>4, BuildStays
  <2>6. Objects(KeyOf(c), call[c].build)' = Objects(k, x.build)
    BY <2>1 DEF Objects
  <2> QED
    BY <2>5, <2>6
<1>6. SameBuild(x.q.page, x.q.dep)' = SameBuild(call[c].q.page, call[c].q.dep)'
  BY <1>3
<1> QED
  BY <1>3, <1>4, <1>5, <1>6 DEF PutBy

\* Every step keeps what its call has put.
LEMMA PutStep ==
  ASSUME DeployInv, WholeInv, Frame, NEW c \in Calls, Step(c)
  PROVE  PutBy(c)'
<1>1. CASE call'[c].pc \notin Kept \cup {"manifest", "statics"}
  BY <1>1 DEF PutBy
<1>2. CASE extractUpload(c)
  <2> DEFINE b == Built(call[c].q.archive)
  <2>1. \/ \E s : Answers(c, s)
        \/ call' = [call EXCEPT ![c].pc = "manifest", ![c].build = b, ![c].todo = HashesOf(b)]
    BY <1>2 DEF extractUpload
  <2>2. CASE \E s : Answers(c, s)
    BY <1>1, <2>2, PlaceOf DEF Kept, Uploading
  <2>3. CASE call' = [call EXCEPT ![c].pc = "manifest", ![c].build = b, ![c].todo = HashesOf(b)]
    <3> HIDE DEF b
    <3>1. call'[c].pc = "manifest" /\ call'[c].todo = HashesOf(call'[c].build)
      BY <2>3 DEF DeployInv, CallType
    <3>2. "manifest" \notin Kept
      BY DEF Kept
    <3> QED
      BY <3>1, <3>2 DEF PutBy
  <2> QED
    BY <2>1, <2>2, <2>3
<1>3. CASE findDeployment(c)
  <2>1. call[c].q.op = "activate" /\ call[c].pc = "find"
    BY <1>3 DEF findDeployment, At, DeployInv, CallOK, ReadyAt
  <2>2. call'[c].q.op = "activate"
    BY <2>1 DEF Frame, Follows
  <2>3. call'[c].pc \in {"activate", "done"}
    BY <1>3, PlaceOf DEF findDeployment
  <2> QED
    BY <2>2, <2>3 DEF PutBy
<1>4. CASE putManifest(c) \/ putStatic(c) \/ putWorker(c)
  BY <1>4, ManifestPut, StaticPut, WorkerPut
<1>5. CASE call[c].pc \in Kept /\ call'[c].pc \in Kept
  BY <1>5, WholePut
<1> QED
  BY <1>1, <1>2, <1>3, <1>4, <1>5, StepKin DEF Kin

(* Page p is gone in e, or has the tenant and the active deployment of d.  *)
Stands(d, e, p) ==
  e.pages[p] # None => /\ d.pages[p] # None /\ e.pages[p].tenant = d.pages[p].tenant
                       /\ e.pages[p].active = d.pages[p].active

\* The operations that write no row leave every row standing, and those
\* that record no deployment add none.
LEMMA OthersStand ==
  ASSUME NEW b \in Backends, NEW d \in DB, NEW t \in Tenants, NEW p \in Pages,
         NEW hs \in SUBSET Hosts, NEW dep \in Deps, NEW r \in Pages
  PROVE  LET es == {UpsertTenant(b, d, t).db, DeleteTenant(b, d, t).db, DeletePage(b, d, p).db,
                    SetCustomDomains(b, d, p, hs).db}
             e  == CreateDeployment(b, d, p, dep).db
         IN  /\ \A f \in es : Stands(d, f, r) /\ f.deps \subseteq d.deps
             /\ Stands(d, e, r) /\ e.deps \subseteq d.deps \cup {<<p, dep>>}
<1>1. b \in {"mem", "postgres"}
  BY DEF Backends
<1>2. /\ Stands(d, UpsertTenant(b, d, t).db, r)
      /\ UpsertTenant(b, d, t).db.deps \subseteq d.deps
  BY <1>1 DEF UpsertTenant, memUpsertTenant, pgUpsertTenant, Ok, DB, Stands
<1>3. ASSUME NEW S \in SUBSET Pages
      PROVE  Stands(d, deletePages(d, S), r) /\ deletePages(d, S).deps \subseteq d.deps
  BY DEF deletePages, removeDomains, DB, Stands
<1>4. /\ Stands(d, DeleteTenant(b, d, t).db, r)
      /\ DeleteTenant(b, d, t).db.deps \subseteq d.deps
  <2>1. CASE b = "mem"
    <3> DEFINE f == deletePages(d, memListPages(d, t))
    <3>1. Stands(d, f, r) /\ f.deps \subseteq d.deps
      BY <1>3 DEF memListPages
    <3>2. DeleteTenant(b, d, t).db = [f EXCEPT !.tenants = @ \ {t}]
      BY <2>1 DEF DeleteTenant, memDeleteTenant, Ok
    <3>3. [f EXCEPT !.tenants = @ \ {t}].pages = f.pages /\ [f EXCEPT !.tenants = @ \ {t}].deps = f.deps
      BY DEF deletePages, removeDomains, DB
    <3> HIDE DEF f
    <3> QED
      BY <3>1, <3>2, <3>3 DEF Stands
  <2>2. CASE b = "postgres"
    BY <2>2 DEF DeleteTenant, pgDeleteTenant, pgListPages, Ok, DB, Stands
  <2> QED
    BY <1>1, <2>1, <2>2
<1>5. /\ Stands(d, DeletePage(b, d, p).db, r)
      /\ DeletePage(b, d, p).db.deps \subseteq d.deps
  <2>1. CASE b = "mem"
    BY <1>3, <2>1 DEF DeletePage, memDeletePage, Ok
  <2>2. CASE b = "postgres"
    BY <2>2 DEF DeletePage, pgDeletePage, Ok, DB, Stands
  <2> QED
    BY <1>1, <2>1, <2>2
<1>6. /\ Stands(d, SetCustomDomains(b, d, p, hs).db, r)
      /\ SetCustomDomains(b, d, p, hs).db.deps \subseteq d.deps
  <2> DEFINE f == SetCustomDomains(b, d, p, hs).db
  <2>1. CASE b = "mem" /\ d.pages[p] # None
    <3> DEFINE row == [d.pages[p] EXCEPT !.domains = hs]
    <3>1. d.pages[p] \in Row
      BY <2>1 DEF DB
    <3>2. row.tenant = d.pages[p].tenant /\ row.active = d.pages[p].active
      BY <3>1 DEF Row
    <3>3. f.pages = [d.pages EXCEPT ![p] = row] /\ f.deps = d.deps
      BY <2>1 DEF SetCustomDomains, memSetCustomDomains, removeDomains, Ok, DB
    <3> HIDE DEF row, f
    <3> QED
      BY <2>1, <3>2, <3>3 DEF Stands, DB, f
  <2>2. CASE b = "mem" /\ d.pages[p] = None
    BY <2>2 DEF SetCustomDomains, memSetCustomDomains, Fails, Stands
  <2>3. CASE b = "postgres"
    BY <2>3 DEF SetCustomDomains, pgSetCustomDomains, Fails, Ok, DB, Stands
  <2> QED
    BY <1>1, <2>1, <2>2, <2>3
<1>7. /\ Stands(d, CreateDeployment(b, d, p, dep).db, r)
      /\ CreateDeployment(b, d, p, dep).db.deps \subseteq d.deps \cup {<<p, dep>>}
  BY <1>1 DEF CreateDeployment, memCreateDeployment, pgCreateDeployment, Fails, Ok, DB, Stands
<1> QED
  BY <1>2, <1>4, <1>5, <1>6, <1>7

\* A row that is written has the tenant and the active deployment it was
\* given, an activation changes the active deployment alone, and neither
\* touches another page or a deployment.
LEMMA RowsStand ==
  ASSUME NEW b \in Backends, NEW d \in DB, NEW p \in Pages, NEW row \in Row, NEW dep \in Deps,
         NEW r \in Pages
  PROVE  LET e == UpsertPage(b, d, p, row).db
             f == SetActiveDeployment(b, d, p, dep).db
         IN  /\ e.deps \subseteq d.deps /\ f.deps \subseteq d.deps
             /\ \/ Stands(d, e, r)
                \/ r = p /\ e.pages[r].tenant = row.tenant /\ e.pages[r].active = row.active
             /\ \/ Stands(d, f, r)
                \/ /\ r = p /\ d.pages[r] # None /\ f.pages[r].tenant = d.pages[r].tenant
                   /\ f.pages[r].active = dep
<1>1. b \in {"mem", "postgres"}
  BY DEF Backends
<1>2. LET e == UpsertPage(b, d, p, row).db
      IN  /\ e.deps \subseteq d.deps
          /\ \/ Stands(d, e, r)
             \/ r = p /\ e.pages[r].tenant = row.tenant /\ e.pages[r].active = row.active
  <2> DEFINE e == UpsertPage(b, d, p, row).db
  <2>1. CASE e = d
    BY <2>1 DEF Stands
  <2>2. CASE \E hs \in SUBSET Hosts : e = [d EXCEPT !.pages[p] = [row EXCEPT !.domains = hs]]
    <3>1. PICK hs \in SUBSET Hosts : e = [d EXCEPT !.pages[p] = [row EXCEPT !.domains = hs]]
      BY <2>2
    <3> DEFINE x == [row EXCEPT !.domains = hs]
    <3>2. x.tenant = row.tenant /\ x.active = row.active
      BY DEF Row
    <3>3. e.pages = [d.pages EXCEPT ![p] = x] /\ e.deps = d.deps
      BY <3>1 DEF DB
    <3> HIDE DEF x, e
    <3> QED
      BY <3>2, <3>3 DEF Stands, DB, e
  <2>3. e = d \/ \E hs \in SUBSET Hosts : e = [d EXCEPT !.pages[p] = [row EXCEPT !.domains = hs]]
    <3>1. CASE b = "mem"
      <4> DEFINE kept == IF d.pages[p] = None THEN {} ELSE d.pages[p].domains
      <4>1. kept \in SUBSET Hosts
        BY DEF DB, Row
      <4>2. e = [d EXCEPT !.pages[p] = [row EXCEPT !.domains = kept]]
        BY <3>1 DEF UpsertPage, memUpsertPage, Ok
      <4> HIDE DEF kept, e
      <4> QED
        BY <4>1, <4>2
    <3>2. CASE b = "postgres"
      <4>1. e = d \/ e = [d EXCEPT !.pages[p] = [row EXCEPT !.domains = {}]]
        BY <3>2 DEF UpsertPage, pgUpsertPage, Ok, Fails
      <4>2. {} \in SUBSET Hosts
        OBVIOUS
      <4> HIDE DEF e
      <4> QED
        BY <4>1, <4>2
    <3> QED
      BY <1>1, <3>1, <3>2
  <2> QED
    BY <2>1, <2>2, <2>3
<1>3. LET f == SetActiveDeployment(b, d, p, dep).db
      IN  /\ f.deps \subseteq d.deps
          /\ \/ Stands(d, f, r)
             \/ /\ r = p /\ d.pages[r] # None /\ f.pages[r].tenant = d.pages[r].tenant
                /\ f.pages[r].active = dep
  <2> DEFINE f == SetActiveDeployment(b, d, p, dep).db
  <2>1. CASE d.pages[p] = None
    BY <2>1 DEF SetActiveDeployment, memSetActiveDeployment, pgSetActiveDeployment, Fails, Stands
  <2>2. CASE d.pages[p] # None
    <3> DEFINE x == [d.pages[p] EXCEPT !.active = dep]
    <3>1. d.pages[p] \in Row
      BY <2>2 DEF DB
    <3>2. x.tenant = d.pages[p].tenant /\ x.active = dep
      BY <3>1 DEF Row
    <3>3. f.pages = [d.pages EXCEPT ![p] = x] /\ f.deps = d.deps
      BY <2>2, <1>1 DEF SetActiveDeployment, memSetActiveDeployment, pgSetActiveDeployment, Ok, DB
    <3> HIDE DEF x, f
    <3> QED
      BY <2>2, <3>2, <3>3 DEF Stands, DB, f
  <2> QED
    BY <2>1, <2>2
<1> QED
  BY <1>2, <1>3

\* What a call that has put its build has made whole.
LEMMA OwnWhole ==
  ASSUME DeployInv, WholeInv, NEW c \in Calls, call[c].pc \in Kept, call[c].q.op # "activate"
  PROVE  LET x == call[c]
         IN  /\ x.tenant \in Named(x.q.page) /\ WholeAt(x.q.page, x.q.dep)
             /\ SameBuild(x.q.page, x.q.dep) => Complete(Key(x.tenant, x.q.page, x.q.dep))
<1> DEFINE x == call[c]
           k == KeyOf(c)
<1>1. x.build # None /\ x.tenant # None
  BY DEF DeployInv, CallOK, ReadyAt, Kept, Uploading
<1>2. x.tenant \in Named(x.q.page)
  BY <1>1 DEF WholeInv, CallSound
<1>3. ASSUME SameBuild(x.q.page, x.q.dep) PROVE Complete(k)
  <2>1. Objects(k, x.build) \subseteq store
    BY <1>1, <1>3 DEF WholeInv, PutBy
  <2> DEFINE o == Object(k, "manifest", x.build)
  <2>2. o \in Objects(k, x.build) /\ o.key = k /\ o.name = "manifest" /\ o.body = x.build
    BY DEF Objects, Object
  <2> HIDE DEF k, o, x
  <2> QED
    BY <2>1, <2>2 DEF Complete
<1>4. k = Key(x.tenant, x.q.page, x.q.dep)
  BY DEF KeyOf
<1> QED
  BY <1>2, <1>3, <1>4 DEF WholeAt

\* The arguments of the provider call of a step are ids, sets and rows.
LEMMA Arguments ==
  ASSUME DeployInv, NEW c \in Calls
  PROVE  LET x == call[c]
         IN  /\ Started(c) => /\ x.q.page \in Pages /\ x.q.tenant \in Tenants /\ x.q.dep \in Deps
                              /\ x.q.domains # None => x.q.domains \in SUBSET Hosts
             /\ x.pc # "idle" => Started(c)
             /\ x.row # None => x.row \in Row
<1>1. call[c] \in CallType /\ (Started(c) => call[c].q \in Menu[c])
  BY DEF DeployInv, CallOK, Started
<1>2. call[c].row # None => call[c].row \in Row
  BY <1>1 DEF CallType
<1> QED
  BY <1>1, <1>2, RequestFields DEF Started

\* A deployment is recorded only when it is whole.
LEMMA DepsStep ==
  ASSUME DeployInv, WholeInv, Frame, NEW c \in Calls, Step(c), NEW r \in db'.deps
  PROVE  WholeAt(r[1], r[2])'
<1> DEFINE x == call[c]
           q == x.q
<1>1. backend \in Backends /\ db \in DB /\ DbMoves(c)
  BY StepDb DEF DeployInv
<1>2. CASE r \in db.deps
  <2>1. WholeAt(r[1], r[2])
    BY <1>2 DEF WholeInv
  <2> QED
    BY <2>1, SoundStays
<1>3. CASE r \notin db.deps
  <2>1. {} \in SUBSET Hosts
    OBVIOUS
  <2>2. db' # db
    BY <1>3
  <2>3. Started(c)
    BY <1>1, <2>2, Arguments DEF DbMoves
  <2>4. /\ q.page \in Pages /\ q.tenant \in Tenants /\ q.dep \in Deps
        /\ q.domains # None => q.domains \in SUBSET Hosts
        /\ x.row # None => x.row \in Row
        /\ [tenant |-> q.tenant, active |-> None, secrets |-> {}, domains |-> {}] \in Row
    <3>1. /\ q.page \in Pages /\ q.tenant \in Tenants /\ q.dep \in Deps
          /\ q.domains # None => q.domains \in SUBSET Hosts
          /\ x.row # None => x.row \in Row
      BY <2>3, Arguments
    <3> QED
      BY <3>1 DEF Row
  <2>5. /\ UpsertTenant(backend, db, q.tenant).db.deps \subseteq db.deps
        /\ DeleteTenant(backend, db, q.tenant).db.deps \subseteq db.deps
        /\ DeletePage(backend, db, q.page).db.deps \subseteq db.deps
        /\ CreateDeployment(backend, db, q.page, q.dep).db.deps \subseteq db.deps \cup {<<q.page, q.dep>>}
    BY <1>1, <2>1, <2>4, OthersStand
  <2>6. q.domains # None => SetCustomDomains(backend, db, q.page, q.domains).db.deps \subseteq db.deps
    BY <1>1, <2>4, OthersStand
  <2>7. /\ SetActiveDeployment(backend, db, q.page, q.dep).db.deps \subseteq db.deps
         /\ UpsertPage(backend, db, q.page, [tenant |-> q.tenant, active |-> None,
                                             secrets |-> {}, domains |-> {}]).db.deps \subseteq db.deps
    BY <1>1, <2>4, RowsStand
  <2>8. x.row # None => UpsertPage(backend, db, q.page, x.row).db.deps \subseteq db.deps
    BY <1>1, <2>4, RowsStand
  <2>9. x.pc = "record" /\ r = <<q.page, q.dep>>
    BY <1>1, <1>3, <2>5, <2>6, <2>7, <2>8 DEF DbMoves
  <2>10. q.op \in {"deploy", "direct"} /\ x.pc \in Kept
    BY <2>9 DEF DeployInv, CallOK, ReadyAt, Uploading, Kept
  <2>11. WholeAt(r[1], r[2])
    BY <2>9, <2>10, OwnWhole
  <2> QED
    BY <2>11, SoundStays
<1> QED
  BY <1>2, <1>3

\* A row has a tenant of its page and a deployment that is whole.
LEMMA RowsStep ==
  ASSUME DeployInv, WholeInv, Frame, NEW c \in Calls, Step(c), NEW p \in Pages, db'.pages[p] # None
  PROVE  RowSound(p, db.pages[p])'
<1> DEFINE x == call[c]
           q == x.q
           made == [tenant |-> q.tenant, active |-> None, secrets |-> {}, domains |-> {}]
           new == db'.pages[p]
<1>1. backend \in Backends /\ db \in DB /\ DbMoves(c)
  BY StepDb DEF DeployInv
<1>2. SUFFICES RowSound(p, new)
  <2>1. PICK row : row = new
    OBVIOUS
  <2>2. RowSound(p, row)'
    BY <1>2, <2>1, SoundStays
  <2> QED
    BY <2>1, <2>2 DEF RowSound
<1>3. CASE Stands(db, db', p)
  BY <1>3 DEF Stands, RowSound, WholeInv
<1>4. CASE ~Stands(db, db', p)
  <2>1. Started(c) /\ db' # db
    BY <1>1, <1>4, Arguments DEF DbMoves, Stands
  <2>2. /\ q.page \in Pages /\ q.tenant \in Tenants /\ q.dep \in Deps
        /\ q.domains # None => q.domains \in SUBSET Hosts
        /\ x.row # None => x.row \in Row
        /\ made \in Row
    <3>1. /\ q.page \in Pages /\ q.tenant \in Tenants /\ q.dep \in Deps
          /\ q.domains # None => q.domains \in SUBSET Hosts
          /\ x.row # None => x.row \in Row
      BY <2>1, Arguments
    <3> QED
      BY <3>1 DEF Row
  <2>3. {} \in SUBSET Hosts
    OBVIOUS
  <2>4. /\ Stands(db, UpsertTenant(backend, db, q.tenant).db, p)
        /\ Stands(db, DeleteTenant(backend, db, q.tenant).db, p)
        /\ Stands(db, DeletePage(backend, db, q.page).db, p)
        /\ Stands(db, CreateDeployment(backend, db, q.page, q.dep).db, p)
    BY <1>1, <2>2, <2>3, OthersStand
  <2>5. q.domains # None => Stands(db, SetCustomDomains(backend, db, q.page, q.domains).db, p)
    BY <1>1, <2>2, OthersStand
  <2>6. \/ /\ x.pc \in {"write", "writeSecrets"} /\ x.row # None
           /\ db' = UpsertPage(backend, db, q.page, x.row).db
        \/ x.pc = "addPage" /\ db' = UpsertPage(backend, db, q.page, made).db
        \/ x.pc = "activate" /\ db' = SetActiveDeployment(backend, db, q.page, q.dep).db
    BY <1>1, <1>4, <2>1, <2>4, <2>5 DEF DbMoves
  <2>7. CASE x.row # None /\ db' = UpsertPage(backend, db, q.page, x.row).db
    <3>1. p = q.page /\ new.tenant = x.row.tenant /\ new.active = x.row.active
      BY <1>1, <1>4, <2>2, <2>7, RowsStand
    <3>2. RowSound(q.page, x.row)
      BY <2>7 DEF WholeInv, CallSound
    <3> QED
      BY <3>1, <3>2 DEF RowSound
  <2>8. CASE x.pc = "addPage" /\ db' = UpsertPage(backend, db, q.page, made).db
    <3>1. p = q.page /\ new.tenant = q.tenant /\ new.active = None
      BY <1>1, <1>4, <2>2, <2>8, RowsStand
    <3>2. q.op = "direct"
      BY <2>8 DEF WholeInv, CallSound, Making
    <3>3. q.tenant \in Named(p)
      BY <2>1, <3>1, <3>2 DEF Named, Naming
    <3> QED
      BY <3>1, <3>3 DEF RowSound
  <2>9. CASE x.pc = "activate" /\ db' = SetActiveDeployment(backend, db, q.page, q.dep).db
    <3>1. /\ p = q.page /\ db.pages[p] # None /\ new.tenant = db.pages[p].tenant
          /\ new.active = q.dep
      BY <1>1, <1>4, <2>2, <2>9, RowsStand
    <3>2. new.tenant \in Named(p)
      BY <3>1 DEF WholeInv, RowSound
    <3>3. WholeAt(p, q.dep)
      <4>1. CASE q.op = "activate"
        BY <2>9, <3>1, <4>1 DEF WholeInv, CallSound
      <4>2. CASE q.op # "activate"
        BY <2>9, <3>1, <4>2, OwnWhole DEF Kept
      <4> QED
        BY <4>1, <4>2
    <3>4. ASSUME Agreed(p), SameBuild(p, q.dep) PROVE Complete(Key(new.tenant, p, q.dep))
      <4>1. PICK t \in Named(p) : Complete(Key(t, p, q.dep))
        BY <3>3, <3>4 DEF WholeAt
      <4>2. t = new.tenant
        BY <3>2, <3>4 DEF Agreed
      <4> QED
        BY <4>1, <4>2
    <3> QED
      BY <3>1, <3>2, <3>4 DEF RowSound
  <2> QED
    BY <2>6, <2>7, <2>8, <2>9
<1> QED
  BY <1>3, <1>4

\* What a page as read says of its tenant and its deployment holds.
LEMMA SeenSound ==
  ASSUME DeployInv, WholeInv, NEW p \in Pages, GetPage(backend, db, p) # None
  PROVE  RowSound(p, GetPage(backend, db, p))
<1>1. /\ db.pages[p] # None /\ GetPage(backend, db, p).tenant = db.pages[p].tenant
      /\ GetPage(backend, db, p).active = db.pages[p].active
  BY PageRead DEF DeployInv
<1> QED
  BY <1>1 DEF WholeInv, RowSound

\* The row a page's POST makes of it is as sound, unless the request names
\* another tenant or the deployment.
LEMMA MergeSound ==
  ASSUME DeployInv, WholeInv, NEW c \in Calls, mergePage(c)
  PROVE  RowSound(call[c].q.page, call'[c].row)
<1> DEFINE q == call[c].q
           old == GetPage(backend, db, q.page)
<1>1. Started(c) /\ q.op = "upsertPage" /\ q.page \in Pages
  BY Arguments DEF mergePage, At
<1>2. call'[c].row = Merged(q, old)
  BY DEF mergePage, DeployInv, CallType
<1>3. /\ Merged(q, old).tenant = q.tenant
      /\ Merged(q, old).active = IF q.active = None /\ old # None THEN old.active ELSE q.active
  BY DEF Merged
<1>4. c \in Naming(q.page) /\ q.tenant \in Named(q.page)
  BY <1>1 DEF Naming, Named
<1>5. old # None => RowSound(q.page, old)
  BY <1>1, SeenSound
<1>6. ASSUME Agreed(q.page), Merged(q, old).active # None, SameBuild(q.page, Merged(q, old).active)
      PROVE  Complete(Key(Merged(q, old).tenant, q.page, Merged(q, old).active))
  <2>1. q.active = None
    BY <1>4, <1>6 DEF Agreed
  <2>2. old # None /\ Merged(q, old).active = old.active
    BY <1>3, <1>6, <2>1
  <2>3. old.tenant = q.tenant
    BY <1>4, <1>5, <1>6, <2>2 DEF Agreed, RowSound
  <2> QED
    BY <1>3, <1>5, <1>6, <2>2, <2>3 DEF RowSound
<1> HIDE DEF q, old
<1> QED
  BY <1>2, <1>3, <1>4, <1>6 DEF RowSound, q

\* So is the row of a secrets route, and of duru's.
LEMMA SecretsSound ==
  ASSUME DeployInv, WholeInv, NEW c \in Calls, updateSecrets(c) \/ readSecrets(c), call'[c].row # None
  PROVE  RowSound(call[c].q.page, call'[c].row)
<1> DEFINE q == call[c].q
           old == GetPage(backend, db, q.page)
           s == IF updateSecrets(c) THEN apply(q, old.secrets) ELSE q.secrets
<1>1. Started(c) /\ q.page \in Pages
  BY Arguments DEF updateSecrets, readSecrets, At
<1>2. CASE call'[c].row = call[c].row
  BY <1>2 DEF WholeInv, CallSound
<1>3. CASE call'[c].row # call[c].row
  <2>1. old # None /\ call'[c].row = [old EXCEPT !.secrets = s]
    <3>1. CASE updateSecrets(c)
      <4>1. old # None
        BY <1>3, <3>1, PlaceOf DEF updateSecrets
      <4>2. call' = [call EXCEPT ![c].pc = "write", ![c].seen = old,
                                 ![c].row = [old EXCEPT !.secrets = s]]
        BY <3>1, <4>1 DEF updateSecrets
      <4> HIDE DEF old, s, q
      <4> QED
        BY <4>1, <4>2 DEF DeployInv, CallType
    <3>2. CASE readSecrets(c) /\ ~updateSecrets(c)
      <4>1. old # None /\ q.secrets # None
        BY <1>3, <3>2, PlaceOf DEF readSecrets
      <4>2. call' = [call EXCEPT ![c].pc = "writeSecrets", ![c].seen = old,
                                 ![c].row = [old EXCEPT !.secrets = s]]
        BY <3>2, <4>1 DEF readSecrets
      <4> HIDE DEF old, s, q
      <4> QED
        BY <4>1, <4>2 DEF DeployInv, CallType
    <3> QED
      BY <3>1, <3>2
  <2>2. old \in Row /\ RowSound(q.page, old)
    BY <1>1, <2>1, PageRead, SeenSound DEF DeployInv
  <2> HIDE DEF old, s
  <2>3. [old EXCEPT !.secrets = s].tenant = old.tenant /\ [old EXCEPT !.secrets = s].active = old.active
    BY <2>2 DEF Row
  <2> QED
    BY <2>1, <2>2, <2>3 DEF RowSound
<1> QED
  BY <1>2, <1>3

\* The other steps are those of a call that has started.
LEMMA StepStarted ==
  ASSUME NEW c \in Calls, Step(c), ~(\E r \in Menu[c] : Arrive(c, r))
  PROVE  Started(c)
BY DEF Step, Started, At, ProviderSteps, StorageSteps, handleUpsertTenant, handleDeleteTenant,
       handleDeletePage, handleGetPage, handleListTenantPages, writePages, mergePage,
       updateSecrets, writeRow, checkPage, setDomains, writePage, createDeployment,
       extractUpload, putManifest, putStatic, putWorker, record, activate, checkActivation,
       findDeployment, deployDirect, ensureTenant, addTenant, ensurePage, addPage, readSecrets,
       writeSecrets, ProviderFails, StorageFails

\* What a call finds is sound.
LEMMA CallStep ==
  ASSUME DeployInv, WholeInv, Frame, NEW c \in Calls, Step(c)
  PROVE  CallSound(c)'
<1> DEFINE x == call[c]
           y == call'[c]
<1>1. CASE \E r \in Menu[c] : Arrive(c, r)
  <2>1. y.pc \in {"start", "done"} /\ y.row = None /\ y.tenant = None
    BY <1>1, Arrived
  <2> QED
    BY <2>1 DEF CallSound, Making
<1>2. CASE ~(\E r \in Menu[c] : Arrive(c, r))
  <2>1. PICK q : q = x.q
    OBVIOUS
  <2>2. Started(c) /\ y.q = q /\ q.page \in Pages /\ q.tenant \in Tenants /\ q.dep \in Deps
    <3>1. Started(c)
      BY <1>2, StepStarted
    <3> QED
      BY <3>1, <2>1, Arguments DEF Started, Frame, Follows
  <2>3. Kin(c)
    BY StepKin
  <2>4. ASSUME y.tenant # None PROVE y.tenant \in Named(q.page)'
    <3>1. SUFFICES y.tenant \in Named(q.page)
      BY FrameMonotone
    <3>2. CASE y.tenant = x.tenant
      BY <2>1, <2>4, <3>2 DEF WholeInv, CallSound
    <3>3. CASE createDeployment(c) /\ y.tenant # x.tenant
      <4> DEFINE old == GetPage(backend, db, q.page)
      <4>1. old # None
        BY <2>1, <3>3, PlaceOf DEF createDeployment
      <4>2. call' = [call EXCEPT ![c].pc = "extract", ![c].tenant = old.tenant]
        BY <2>1, <3>3, <4>1 DEF createDeployment
      <4>3. RowSound(q.page, old)
        BY <2>2, <4>1, SeenSound
      <4> HIDE DEF old
      <4>4. y.tenant = old.tenant
        BY <4>2 DEF DeployInv, CallType
      <4> QED
        BY <4>3, <4>4 DEF RowSound
    <3>4. CASE deployDirect(c)
      <4>1. y.tenant = q.tenant /\ q.op = "direct"
        BY <2>1, <3>4 DEF deployDirect, DeployInv, CallType
      <4> QED
        BY <2>1, <2>2, <4>1 DEF Named, Naming
    <3> QED
      BY <2>3, <2>4, <3>2, <3>3, <3>4 DEF Kin
  <2>5. ASSUME y.row # None PROVE RowSound(q.page, call[c].row)'
    <3>1. PICK row : row = y.row
      OBVIOUS
    <3>2. RowSound(q.page, row)
      BY <2>1, <2>3, <2>5, <3>1, MergeSound, SecretsSound DEF Kin, WholeInv, CallSound
    <3>3. RowSound(q.page, row)'
      BY <3>2, SoundStays
    <3> QED
      BY <3>1, <3>3 DEF RowSound
  <2>6. ASSUME y.pc = "activate", q.op = "activate" PROVE WholeAt(q.page, q.dep)'
    <3>1. SUFFICES WholeAt(q.page, q.dep)
      BY SoundStays
    <3>2. ~(extractUpload(c) \/ putManifest(c) \/ putStatic(c) \/ putWorker(c))
      <4>1. /\ x.pc \in {"extract", "manifest", "statics"} => x.q.op \in {"deploy", "direct"}
        BY DEF DeployInv, CallOK, ReadyAt, Uploading
      <4> QED
        BY <2>1, <2>6, <4>1 DEF extractUpload, putManifest, putStatic, putWorker, At
    <3>3. x.pc # "record"
      BY <2>1, <2>6 DEF DeployInv, CallOK, ReadyAt, Uploading
    <3>4. findDeployment(c)
      BY <2>3, <2>6, <3>2, <3>3 DEF Kin, Kept
    <3>5. q.dep \in ListDeployments(backend, db, q.page)
      <4>1. ~Answers(c, "404")
        BY <2>6, PlaceOf
      <4> QED
        BY <2>1, <3>4, <4>1 DEF findDeployment
    <3>6. <<q.page, q.dep>> \in db.deps
      BY <3>5 DEF ListDeployments, memListDeployments, pgListDeployments
    <3> QED
      BY <3>6 DEF WholeInv
  <2>7. ASSUME y.pc \in Making PROVE q.op = "direct"
    <3>1. CASE x.pc \in Making
      BY <2>1, <3>1 DEF WholeInv, CallSound
    <3>2. CASE x.pc \notin Making
      <4>1. extractUpload(c) \/ putManifest(c) \/ putStatic(c) \/ putWorker(c) \/ findDeployment(c)
        BY <2>3, <2>7, <3>2 DEF Kin, Making, Kept, Uploading
      <4>2. CASE putWorker(c)
        <5>1. y.pc = IF q.op = "direct" THEN "ensureTenant" ELSE "record"
          BY <2>1, <4>2, PlaceOf DEF putWorker
        <5> QED
          BY <2>7, <5>1 DEF Making
      <4>3. CASE putManifest(c) \/ findDeployment(c)
        <5>1. y.pc \in {"statics", "activate", "done"}
          BY <4>3, PlaceOf DEF putManifest, findDeployment
        <5> QED
          BY <2>7, <5>1 DEF Making
      <4>4. CASE putStatic(c)
        <5>1. PICK h : call' = [call EXCEPT ![c].todo = @ \ {h}]
          BY <4>4 DEF putStatic
        <5>2. y.pc = x.pc
          BY <5>1 DEF DeployInv, CallType
        <5> QED
          BY <2>7, <3>2, <5>2
      <4>5. CASE extractUpload(c)
        <5> DEFINE b == Built(call[c].q.archive)
        <5>1. \/ \E s : Answers(c, s)
              \/ call' = [call EXCEPT ![c].pc = "manifest", ![c].build = b, ![c].todo = HashesOf(b)]
          BY <4>5 DEF extractUpload
        <5> HIDE DEF b
        <5>2. y.pc \in {"manifest", "done"}
          BY <5>1, PlaceOf DEF DeployInv, CallType
        <5> QED
          BY <2>7, <5>2 DEF Making
      <4> QED
        BY <4>1, <4>2, <4>3, <4>4, <4>5
    <3> QED
      BY <3>1, <3>2
  <2> HIDE DEF x
  <2> QED
    BY <2>2, <2>4, <2>5, <2>6, <2>7 DEF CallSound
<1> QED
  BY <1>1, <1>2

\* A call that does not move stays as sound.
LEMMA CallStays ==
  ASSUME Frame, NEW e \in Calls, CallSound(e), call'[e] = call[e]
  PROVE  CallSound(e)'
<1>1. PICK x : x = call[e]
  OBVIOUS
<1>2. x.tenant # None => x.tenant \in Named(x.q.page)'
  BY <1>1, FrameMonotone DEF CallSound
<1>3. x.row # None => RowSound(x.q.page, x.row)'
  BY <1>1, SoundStays DEF CallSound
<1>4. x.pc = "activate" /\ x.q.op = "activate" => WholeAt(x.q.page, x.q.dep)'
  BY <1>1, SoundStays DEF CallSound
<1>5. x.pc \in Making => x.q.op = "direct"
  BY <1>1 DEF CallSound
<1> QED
  BY <1>1, <1>2, <1>3, <1>4, <1>5 DEF CallSound, RowSound, WholeAt, SameBuild

\* Every step keeps all of it.
LEMMA WholeInvStep ==
  ASSUME DeployInv, WholeInv, [Next]_vars
  PROVE  WholeInv'
<1>1. CASE UNCHANGED vars
  <2>1. UNCHANGED <<backend, wired, db, store, call>>
    BY <1>1 DEF vars
  <2>2. /\ \A o \in store : StoredFrom(o)' = StoredFrom(o)
        /\ \A c \in Calls : PutBy(c)' = PutBy(c) /\ CallSound(c)' = CallSound(c)
        /\ \A p, dep : WholeAt(p, dep)' = WholeAt(p, dep)
        /\ \A p, row : RowSound(p, row)' = RowSound(p, row)
    BY <2>1 DEF StoredFrom, PutBy, CallSound, WholeAt, RowSound, Uploads, Started, SameBuild,
                Named, Naming, Agreed, Complete, KeyOf
  <2> QED
    BY <2>1, <2>2 DEF WholeInv, RowSound
<1>2. ASSUME NEW c \in Calls, Step(c) PROVE WholeInv'
  <2>1. Frame
    BY <1>2, StepFrame DEF WholeInv
  <2>2. ASSUME NEW e \in Calls, e # c PROVE PutBy(e)' /\ CallSound(e)'
    <3>1. call'[e] = call[e]
      BY <1>2, <2>2, StepMoves DEF Moves, DeployInv
    <3>2. PutBy(e)'
      BY <2>1, <3>1, PutStays DEF WholeInv
    <3>3. CallSound(e)'
      BY <2>1, <3>1, CallStays DEF WholeInv
    <3> QED
      BY <3>2, <3>3
  <2>3. PutBy(c)' /\ CallSound(c)'
    BY <1>2, <2>1, PutStep, CallStep
  <2>4. \A o \in store' : StoredFrom(o)'
    BY <1>2, StoredStep
  <2>5. \A r \in db'.deps : WholeAt(r[1], r[2])'
    BY <1>2, <2>1, DepsStep
  <2>6. \A p \in Pages : db'.pages[p] # None => RowSound(p, db.pages[p])'
    BY <1>2, <2>1, RowsStep
  <2> QED
    BY <2>2, <2>3, <2>4, <2>5, <2>6 DEF WholeInv
<1>3. CASE Crash
  <2>1. /\ UNCHANGED <<backend, wired, db, store>>
        /\ \A c \in Calls : /\ Follows(call[c], call'[c]) /\ call'[c].pc \in {"idle", "done"}
                            /\ call'[c].q = call[c].q /\ call'[c].row = call[c].row
                            /\ call'[c].tenant = call[c].tenant /\ call'[c].build = call[c].build
    BY <1>3, CrashMoves DEF Crash
  <2>2. Frame
    BY <2>1 DEF Frame
  <2>3. \A c \in Calls : PutBy(c)'
    BY <2>1 DEF PutBy, Kept, Uploading
  <2>4. \A c \in Calls : CallSound(c)'
    <3> TAKE c \in Calls
    <3>1. PICK x : x = call[c]
      OBVIOUS
    <3>2. CallSound(c)
      BY DEF WholeInv
    <3>3. x.tenant # None => x.tenant \in Named(x.q.page)'
      BY <2>2, <3>1, <3>2, FrameMonotone DEF CallSound
    <3>4. x.row # None => RowSound(x.q.page, x.row)'
      BY <2>2, <3>1, <3>2, SoundStays DEF CallSound
    <3> QED
      BY <2>1, <3>1, <3>3, <3>4 DEF CallSound, RowSound, Making
  <2>5. \A o \in store' : StoredFrom(o)'
    <3> TAKE o \in store'
    <3>1. StoredFrom(o) /\ Uploads(o.key[2], o.key[3]) \subseteq Uploads(o.key[2], o.key[3])'
      BY <2>1, <2>2, FrameMonotone DEF WholeInv
    <3>2. \A e \in Uploads(o.key[2], o.key[3]) : call'[e].build = call[e].build
      BY <2>1 DEF Uploads
    <3> QED
      BY <3>1, <3>2 DEF StoredFrom
  <2>6. \A r \in db'.deps : WholeAt(r[1], r[2])'
    BY <2>1, <2>2, SoundStays DEF WholeInv
  <2>7. ASSUME NEW p \in Pages, db'.pages[p] # None PROVE RowSound(p, db.pages[p])'
    <3>1. PICK row : row = db.pages[p]
      OBVIOUS
    <3>2. RowSound(p, row)'
      BY <2>1, <2>2, <2>7, <3>1, SoundStays DEF WholeInv
    <3> QED
      BY <2>1, <3>1, <3>2 DEF RowSound
  <2> QED
    BY <2>3, <2>4, <2>5, <2>6, <2>7 DEF WholeInv
<1> QED
  BY <1>1, <1>2, <1>3 DEF Next

\* At the start the seeded page serves the seeded deployment.
LEMMA WholeInvInit ==
  ASSUME Init
  PROVE  WholeInv
<1> DEFINE k == Key(SeedTenant, SeedPage, Seed)
           row == [tenant |-> SeedTenant, active |-> Seed, secrets |-> {}, domains |-> {}]
<1>1. store = Objects(k, SeedBuild) /\ db.deps = {<<SeedPage, Seed>>}
  BY DEF Init, NewDB
<1>2. \A p \in Pages : db.pages[p] = IF p = SeedPage THEN row ELSE None
  BY SeedTypes DEF Init, NewDB
<1>3. \A c \in Calls : call[c] = Idle
  BY DEF Init
<1>4. Idle.pc = "idle" /\ Idle.row = None /\ Idle.tenant = None /\ Idle.build = None
  BY DEF Idle, Start
<1>5. SeedTenant \in Named(SeedPage)
  BY DEF Named
<1>6. k[2] = SeedPage /\ k[3] = Seed
  BY DEF Key
<1>7. Complete(k)
  <2> DEFINE o == Object(k, "manifest", SeedBuild)
  <2>1. o \in Objects(k, SeedBuild) /\ o.key = k /\ o.name = "manifest" /\ o.body = SeedBuild
    BY DEF Objects, Object
  <2> HIDE DEF k, o
  <2> QED
    BY <1>1, <2>1 DEF Complete
<1> HIDE DEF k
<1>8. \A o \in store : StoredFrom(o)
  <2> TAKE o \in store
  <2>1. o.key = k /\ (o.name \in {"manifest", "worker"} => o.body = SeedBuild)
                  /\ (o.name \notin {"manifest", "worker"} => o.body = o.name)
    BY <1>1, BuildTypes DEF Objects, Object
  <2> QED
    BY <1>6, <2>1 DEF StoredFrom
<1>9. \A c \in Calls : PutBy(c) /\ CallSound(c)
  BY <1>3, <1>4 DEF PutBy, CallSound, Kept, Uploading, Making
<1>10. \A r \in db.deps : WholeAt(r[1], r[2])
  BY <1>1, <1>5, <1>7 DEF WholeAt, k
<1>11. \A p \in Pages : db.pages[p] # None => RowSound(p, db.pages[p])
  <2>1. row.tenant = SeedTenant /\ row.active = Seed
    OBVIOUS
  <2> HIDE DEF row
  <2> QED
    BY <1>2, <1>5, <1>7, <2>1 DEF RowSound, k
<1> QED
  BY <1>8, <1>9, <1>10, <1>11 DEF WholeInv

\* What is whole and not reused or overridden is what the property asks.
LEMMA WholeIsServed ==
  ASSUME DeployInv, WholeInv
  PROVE  ServedIsWhole
<1>1. \A p \in Pages : Named(p) \subseteq Tenants
  <2>1. \A c \in Calls : Started(c) => call[c].q.tenant \in Tenants
    BY Arguments
  <2> QED
    BY <2>1, SeedTypes DEF Named, Naming
<1>2. RecordedIsWhole
  <2>1. SUFFICES ASSUME NEW r \in db.deps, ~Reused(r[1], r[2])
                 PROVE  \E t \in Tenants : Complete(Key(t, r[1], r[2]))
    BY DEF RecordedIsWhole
  <2>2. r[1] \in Pages
    BY DEF DeployInv, DB
  <2>3. \E t \in Named(r[1]) : Complete(Key(t, r[1], r[2]))
    BY <2>1, NotReused DEF WholeInv, WholeAt
  <2> QED
    BY <1>1, <2>2, <2>3
<1>3. ActiveIsServable
  BY NotReused, NotOverridden DEF ActiveIsServable, WholeInv, RowSound
<1> QED
  BY <1>2, <1>3 DEF ServedIsWhole

(* Nothing that is recorded or active lacks an object of its build,        *)
(* whatever the handlers, the command and their failures do to each other. *)
THEOREM ServedIsWholeHolds == Spec => []ServedIsWhole
<1>1. Init => DeployInv /\ WholeInv
  BY DeployInvInit, WholeInvInit
<1>2. DeployInv /\ WholeInv /\ [Next]_vars => DeployInv' /\ WholeInv'
  BY DeployInvStep, WholeInvStep
<1>3. DeployInv /\ WholeInv => ServedIsWhole
  BY WholeIsServed
<1> QED
  BY <1>1, <1>2, <1>3, PTL DEF Spec

-----------------------------------------------------------------------------
(***************************************************************************)
(* The archive of an upload: Extract, for any archive of any entries.  The *)
(* tree on disk stays nested, the bytes and the files stay those of the    *)
(* entries read (ExtractInv), and Scan leaves nothing of the tree out.     *)
(***************************************************************************)

(* One segment more: still a path, of the same segments and this one.      *)
LEMMA SegmentCleaned ==
  ASSUME NEW acc \in Seq(STRING), NEW seg \in STRING
  PROVE  /\ cleanSegment(acc, seg) \in Seq(STRING)
         /\ RangeOf(cleanSegment(acc, seg)) \subseteq RangeOf(acc) \cup {seg}
<1>1. CASE cleanSegment(acc, seg) = acc
  BY <1>1
<1>2. CASE acc # <<>> /\ cleanSegment(acc, seg) = Front(acc)
  <2>1. Front(acc) \in Seq(STRING) /\ \A i \in DOMAIN Front(acc) : i \in DOMAIN acc /\ Front(acc)[i] = acc[i]
    BY <1>2 DEF Front
  <2> QED
    BY <1>2, <2>1 DEF RangeOf
<1>3. CASE cleanSegment(acc, seg) = Append(acc, seg)
  <2>1. Append(acc, seg) \in Seq(STRING) /\ RangeOf(Append(acc, seg)) = RangeOf(acc) \cup {seg}
    BY AppendContents
  <2> QED
    BY <1>3, <2>1
<1> QED
  BY <1>1, <1>2, <1>3 DEF cleanSegment

(* path.Clean adds no segment.                                             *)
LEMMA CleanProperties ==
  ASSUME NEW path \in Seq(STRING)
  PROVE  Clean(path) \in Seq(STRING) /\ RangeOf(Clean(path)) \subseteq RangeOf(path)
<1> DEFINE f == CHOOSE h : h = [k \in 0..Len(path) |->
                  IF k = 0 THEN <<>> ELSE cleanSegment(h[k - 1], path[k])]
           g == [p \in Seq(STRING) \X STRING |-> cleanSegment(p[1], p[2])]
<1>1. Clean(path) = f[Len(path)]
  BY Zenon DEF Clean
<1>2. g \in [Seq(STRING) \X STRING -> Seq(STRING)] /\ <<>> \in Seq(STRING)
  <2>1. ASSUME NEW p \in Seq(STRING) \X STRING PROVE cleanSegment(p[1], p[2]) \in Seq(STRING)
    BY SegmentCleaned
  <2> QED
    BY <2>1
<1>3. \A acc \in Seq(STRING), seg \in STRING : g[<<acc, seg>>] = cleanSegment(acc, seg)
  OBVIOUS
<1> HIDE DEF g
<1>4. PICK h \in [0..Len(path) -> Seq(STRING)] : FoldOf(path, <<>>, g, h)
  <2> DEFINE K == STRING
             X == Seq(STRING)
  <2>1. path \in Seq(K) /\ <<>> \in X /\ \A x \in X, y \in K : g[<<x, y>>] \in X
    BY <1>2
  <2> HIDE DEF K, X
  <2>2. \E h \in [0..Len(path) -> X] : FoldOf(path, <<>>, g, h)
    BY <2>1, FoldExists, Zenon
  <2> QED
    BY <2>2 DEF X
<1>5. h = [k \in 0..Len(path) |-> IF k = 0 THEN <<>> ELSE cleanSegment(h[k - 1], path[k])]
  <2>1. ASSUME NEW k \in 0..Len(path)
        PROVE  h[k] = IF k = 0 THEN <<>> ELSE cleanSegment(h[k - 1], path[k])
    <3>1. CASE k = 0
      BY <1>4, <3>1 DEF FoldOf
    <3>2. CASE k # 0
      <4>1. k \in 1..Len(path) /\ h[k - 1] \in Seq(STRING) /\ path[k] \in STRING
        BY <3>2
      <4> QED
        BY <1>3, <1>4, <3>2, <4>1 DEF FoldOf
    <3> QED
      BY <3>1, <3>2
  <2>2. h = [k \in 0..Len(path) |-> h[k]]
    OBVIOUS
  <2> QED
    BY <2>1, <2>2, Zenon
<1>6. f = [k \in 0..Len(path) |-> IF k = 0 THEN <<>> ELSE cleanSegment(f[k - 1], path[k])]
  BY <1>5, Zenon
<1> HIDE DEF f
<1>7. \A k \in 0..Len(path) : f[k] = IF k = 0 THEN <<>> ELSE cleanSegment(f[k - 1], path[k])
  BY <1>6, Zenon
<1> DEFINE good(k) == f[k] \in Seq(STRING) /\ RangeOf(f[k]) \subseteq RangeOf(path)
           P == {k \in Nat : k <= Len(path) => good(k)}
<1>8. P \subseteq Nat /\ 0 \in P
  <2>1. f[0] = <<>> /\ RangeOf(<<>>) = {} /\ <<>> \in Seq(STRING)
    BY <1>7 DEF RangeOf
  <2> QED
    BY <2>1
<1>9. ASSUME NEW k \in P PROVE k + 1 \in P
  <2> HIDE DEF good
  <2>1. SUFFICES ASSUME k + 1 <= Len(path) PROVE good(k + 1)
    OBVIOUS
  <2>2. /\ k \in Nat /\ good(k) /\ k + 1 \in 0..Len(path) /\ k + 1 # 0 /\ (k + 1) - 1 = k
        /\ k + 1 \in DOMAIN path
    BY <2>1
  <2>3. path[k + 1] \in STRING /\ path[k + 1] \in RangeOf(path)
    BY <2>2 DEF RangeOf
  <2>4. f[k + 1] = cleanSegment(f[k], path[k + 1])
    BY <1>7, <2>2
  <2>5. f[k] \in Seq(STRING) /\ RangeOf(f[k]) \subseteq RangeOf(path)
    BY <2>2 DEF good
  <2>6. /\ cleanSegment(f[k], path[k + 1]) \in Seq(STRING)
        /\ RangeOf(cleanSegment(f[k], path[k + 1])) \subseteq RangeOf(f[k]) \cup {path[k + 1]}
    BY <2>3, <2>5, SegmentCleaned
  <2> QED
    BY <2>3, <2>4, <2>5, <2>6 DEF good
<1>10. P = Nat
  <2> HIDE DEF P
  <2> QED
    BY <1>8, <1>9, SetInduction
<1>11. Len(path) \in Nat /\ Len(path) <= Len(path)
  OBVIOUS
<1>12. good(Len(path))
  <2>1. Len(path) \in P
    BY <1>10, <1>11, Zenon
  <2> HIDE DEF good
  <2> QED
    BY <1>11, <2>1
<1> QED
  BY <1>1, <1>12

(* What is written is a path below the directory.                          *)
LEMMA CleanInside ==
  ASSUME NEW e \in Entries, ~Rejected(e.path), Clean(e.path) # <<>>
  PROVE  Clean(e.path) \in Seq(STRING) \ {<<>>} /\ Clean(e.path)[1] \notin {"..", "/"}
<1> DEFINE path == e.path
           rel == Clean(e.path)
<1>1. path \in Seq(STRING) /\ \A i \in 2..Len(path) : path[i] # "/"
  BY EntriesAssumption
<1>2. rel \in Seq(STRING) /\ RangeOf(rel) \subseteq RangeOf(path)
  BY <1>1, CleanProperties
<1>3. (path # <<>> => path[1] # "/") /\ \A i \in 1..Len(rel) : rel[i] # ".."
  BY DEF Rejected
<1>4. \A i \in DOMAIN path : path[i] # "/"
  <2>1. \A i \in DOMAIN path : path # <<>> /\ (i = 1 \/ i \in 2..Len(path))
    BY <1>1
  <2> QED
    BY <1>1, <1>3, <2>1
<1>5. rel # <<>> /\ 1 \in DOMAIN rel /\ 1 \in 1..Len(rel)
  BY <1>2
<1>6. rel[1] \in RangeOf(path)
  BY <1>2, <1>5 DEF RangeOf
<1> QED
  BY <1>2, <1>3, <1>4, <1>5, <1>6 DEF RangeOf

(* The equations FileBytes solves.                                         *)
LEMMA BytesExist ==
  ASSUME NEW a \in Seq(Entries)
  PROVE  \E f \in [0..Len(a) -> Nat] :
           /\ FileBytes(a) = f[Len(a)] /\ f[0] = 0
           /\ \A k \in 1..Len(a) : f[k] = f[k - 1] + BytesOf(a[k])
<1> DEFINE f == CHOOSE h : h = [k \in 0..Len(a) |->
                  IF k = 0 THEN 0 ELSE h[k - 1] + BytesOf(a[k])]
           w == [k \in 1..Len(a) |-> BytesOf(a[k])]
<1>1. FileBytes(a) = f[Len(a)]
  BY Zenon DEF FileBytes
<1>2. w \in [1..Len(a) -> Nat] /\ Len(a) \in Nat /\ \A k \in 1..Len(a) : w[k] = BytesOf(a[k])
  <2>1. \A k \in 1..Len(a) : a[k] \in Entries /\ BytesOf(a[k]) \in Nat
    BY EntriesAssumption DEF BytesOf
  <2> QED
    BY <2>1
<1> HIDE DEF w
<1>3. PICK h \in [0..Len(a) -> Nat] : h[0] = 0 /\ \A k \in 1..Len(a) : h[k] = h[k - 1] + w[k]
  BY <1>2, SumExists
<1>4. h = [k \in 0..Len(a) |-> IF k = 0 THEN 0 ELSE h[k - 1] + BytesOf(a[k])]
  <2>1. \A k \in 0..Len(a) : k = 0 \/ k \in 1..Len(a)
    BY <1>2
  <2>2. \A k \in 0..Len(a) : h[k] = IF k = 0 THEN 0 ELSE h[k - 1] + BytesOf(a[k])
    BY <1>2, <1>3, <2>1
  <2>3. h = [k \in 0..Len(a) |-> h[k]]
    OBVIOUS
  <2> QED
    BY <2>2, <2>3, Zenon
<1>5. f = [k \in 0..Len(a) |-> IF k = 0 THEN 0 ELSE f[k - 1] + BytesOf(a[k])]
  BY <1>4, Zenon
<1> HIDE DEF f
<1>6. f[0] = 0 /\ \A k \in 1..Len(a) : f[k] = f[k - 1] + w[k]
  BY <1>2, <1>5
<1>7. \A k \in 0..Len(a) : f[k] \in Nat
  BY <1>2, <1>6, SumSolves
<1>8. f \in [0..Len(a) -> Nat]
  <2>1. f = [k \in 0..Len(a) |-> f[k]]
    BY <1>5
  <2> QED
    BY <1>7, <2>1
<1> QED
  BY <1>1, <1>2, <1>6, <1>8

(* An entry more adds its bytes.                                           *)
LEMMA BytesAppend ==
  ASSUME NEW a \in Seq(Entries), NEW e \in Entries
  PROVE  FileBytes(a) \in Nat /\ FileBytes(Append(a, e)) = FileBytes(a) + BytesOf(e)
<1> DEFINE c == Append(a, e)
<1>1. /\ c \in Seq(Entries) /\ Len(a) \in Nat /\ Len(c) = Len(a) + 1 /\ c[Len(a) + 1] = e
      /\ \A k \in 1..Len(a) : c[k] = a[k]
  OBVIOUS
<1> HIDE DEF c
<1>2. PICK f \in [0..Len(a) -> Nat] :
        /\ FileBytes(a) = f[Len(a)] /\ f[0] = 0
        /\ \A k \in 1..Len(a) : f[k] = f[k - 1] + BytesOf(a[k])
  BY BytesExist
<1>3. PICK h \in [0..Len(c) -> Nat] :
        /\ FileBytes(c) = h[Len(c)] /\ h[0] = 0
        /\ \A k \in 1..Len(c) : h[k] = h[k - 1] + BytesOf(c[k])
  BY <1>1, BytesExist
<1> DEFINE P == {k \in Nat : k <= Len(a) => h[k] = f[k]}
<1>4. P \subseteq Nat /\ 0 \in P
  BY <1>2, <1>3
<1>5. ASSUME NEW k \in P PROVE k + 1 \in P
  <2>1. SUFFICES ASSUME k + 1 <= Len(a) PROVE h[k + 1] = f[k + 1]
    OBVIOUS
  <2>2. /\ h[k] = f[k] /\ k + 1 \in 1..Len(a) /\ k + 1 \in 1..Len(c) /\ (k + 1) - 1 = k
    BY <1>1, <2>1
  <2>3. c[k + 1] = a[k + 1]
    BY <1>1, <2>2
  <2> QED
    BY <1>2, <1>3, <2>2, <2>3
<1>6. P = Nat
  <2> HIDE DEF P
  <2> QED
    BY <1>4, <1>5, SetInduction
<1>7. h[Len(a)] = f[Len(a)]
  BY <1>1, <1>6
<1>8. Len(c) \in 1..Len(c) /\ Len(c) - 1 = Len(a) /\ c[Len(c)] = e
  BY <1>1
<1>9. f[Len(a)] \in Nat
  BY <1>1, <1>2
<1> QED
  BY <1>2, <1>3, <1>7, <1>8, <1>9 DEF c

(* An extraction is a record of its parts.                                 *)
Shaped(x) ==
  x \in [tree : {x.tree}, dirs : {x.dirs}, remaining : {x.remaining}, copied : {x.copied},
         count : {x.count}, err : {x.err}]

FilePaths == Seq(STRING) \ {<<>>}

(* A tree on disk: no path is a file and a directory, and every file and    *)
(* directory is in its directory.                                          *)
Nested(t, d) ==
  /\ DOMAIN t \cup d \subseteq FilePaths
  /\ DOMAIN t \cap d = {}
  /\ \A f \in DOMAIN t \cup d : Parents(f) \subseteq d
  /\ IsFiniteSet(DOMAIN t) /\ IsFiniteSet(d)

FileAt(t, f, content) == [q \in DOMAIN t \cup {f} |-> IF q = f THEN content ELSE t[q]]

(* The budget left and the bytes copied are the cap together.               *)
Budget(x) == x.remaining \in Nat /\ x.copied \in Nat /\ x.remaining + x.copied = MaxExtracted

(* What one turn of the loop of untar does to an extraction without error.  *)
FileAdded(x, e, y) ==
  LET rel == Clean(e.path)
  IN /\ IsFile(e) /\ rel \notin x.dirs /\ Parents(rel) \cap DOMAIN x.tree = {}
     /\ y.tree = FileAt(x.tree, rel, e.content) /\ y.dirs = x.dirs \cup Parents(rel)
     /\ y.copied = x.copied + e.size /\ y.remaining = x.remaining - e.size
     /\ e.size <= x.remaining
DirAdded(x, e, y) ==
  LET rel == Clean(e.path)
  IN /\ ~IsFile(e) /\ rel # <<>> /\ ({rel} \cup Parents(rel)) \cap DOMAIN x.tree = {}
     /\ y.tree = x.tree /\ y.dirs = x.dirs \cup Parents(rel) \cup {rel}
     /\ y.copied = x.copied /\ y.remaining = x.remaining
Passed(x, e, y) == ~IsFile(e) /\ y = x

LEMMA Updates ==
  ASSUME NEW x, Shaped(x)
  PROVE  /\ \A err : LET y == Refused(x, err)
                     IN /\ Shaped(y) /\ y.tree = x.tree /\ y.dirs = x.dirs /\ y.err = err
                        /\ y.remaining = x.remaining /\ y.copied = x.copied
         /\ \A ds : LET y == WithDirs(x, ds)
                    IN /\ Shaped(y) /\ y.tree = x.tree /\ y.dirs = x.dirs \cup ds /\ y.err = x.err
                       /\ y.remaining = x.remaining /\ y.copied = x.copied
         /\ \A n : LET y == Counted(x, n)
                   IN /\ Shaped(y) /\ y.tree = x.tree /\ y.dirs = x.dirs /\ y.err = x.err
                      /\ y.remaining = x.remaining - n /\ y.copied = x.copied
<1>1. ASSUME NEW err
      PROVE  LET y == Refused(x, err)
             IN /\ Shaped(y) /\ y.tree = x.tree /\ y.dirs = x.dirs /\ y.err = err
                /\ y.remaining = x.remaining /\ y.copied = x.copied
  BY DEF Shaped, Refused
<1>2. ASSUME NEW ds
      PROVE  LET y == WithDirs(x, ds)
             IN /\ Shaped(y) /\ y.tree = x.tree /\ y.dirs = x.dirs \cup ds /\ y.err = x.err
                /\ y.remaining = x.remaining /\ y.copied = x.copied
  BY DEF Shaped, WithDirs
<1>3. ASSUME NEW n
      PROVE  LET y == Counted(x, n)
             IN /\ Shaped(y) /\ y.tree = x.tree /\ y.dirs = x.dirs /\ y.err = x.err
                /\ y.remaining = x.remaining - n /\ y.copied = x.copied
  BY DEF Shaped, Counted
<1> QED
  BY <1>1, <1>2, <1>3

LEMMA Copying ==
  ASSUME NEW x, Shaped(x), NEW rel, NEW e, NEW n
  PROVE  LET y == Copied(x, rel, e, n)
         IN /\ Shaped(y) /\ y.tree = FileAt(x.tree, rel, e.content) /\ y.dirs = x.dirs
            /\ y.err = x.err /\ y.remaining = x.remaining /\ y.copied = x.copied + n
<1> DEFINE t == FileAt(x.tree, rel, e.content)
<1>1. Copied(x, rel, e, n) = [x EXCEPT !.tree = t, !.copied = @ + n]
  BY Zenon DEF Copied, FileAt
<1> HIDE DEF t
<1> QED
  BY <1>1 DEF Shaped, t

LEMMA OneEntry ==
  ASSUME NEW x, Shaped(x), x.err = "none", Budget(x), NEW e \in Entries,
         NEW y, y = untarEntry(x, e)
  PROVE  /\ Shaped(y) /\ y.copied \in Nat /\ y.copied <= MaxExtracted + 1
         /\ y.err = "none" =>
              /\ ~Rejected(e.path)
              /\ FileAdded(x, e, y) \/ DirAdded(x, e, y) \/ Passed(x, e, y)
<1> DEFINE rel == Clean(e.path)
           parents == Parents(rel)
           made == WithDirs(x, parents)
           Goal == /\ Shaped(y) /\ y.copied \in Nat /\ y.copied <= MaxExtracted + 1
                   /\ y.err = "none" =>
                        /\ ~Rejected(e.path)
                        /\ FileAdded(x, e, y) \/ DirAdded(x, e, y) \/ Passed(x, e, y)
<1> SUFFICES Goal
  OBVIOUS
<1>1. e.kind \in {"file", "dir", "link", "other"} /\ e.size \in Nat
  BY EntriesAssumption
<1>2. x.copied \in Nat /\ x.copied <= MaxExtracted /\ x.remaining \in Nat
      /\ x.remaining + x.copied = MaxExtracted /\ MaxExtracted \in Nat
  BY BudgetIsPositive DEF Budget
<1>3. /\ Shaped(made) /\ made.tree = x.tree /\ made.dirs = x.dirs \cup parents
      /\ made.remaining = x.remaining /\ made.copied = x.copied /\ made.err = "none"
  BY Updates
<1> HIDE DEF made, Goal
<1>5. ASSUME NEW z, Shaped(z), z.copied \in Nat, z.copied <= MaxExtracted + 1,
             NEW err \in {"400", "413", "500"}, y = Refused(z, err)
      PROVE  Goal
  BY <1>5, Updates DEF Goal
<1>6. CASE y = x /\ ~Rejected(e.path) /\ (rel = <<>> \/ e.kind = "other")
  BY <1>2, <1>6 DEF Passed, IsFile, Goal
<1>7. CASE y = WithDirs(x, parents \cup {rel}) /\ e.kind = "dir" /\ rel # <<>>
           /\ ({rel} \cup parents) \cap DOMAIN x.tree = {} /\ ~Rejected(e.path)
  <2>1. /\ Shaped(y) /\ y.tree = x.tree /\ y.dirs = x.dirs \cup (parents \cup {rel}) /\ y.err = "none"
        /\ y.remaining = x.remaining /\ y.copied = x.copied
    BY <1>7, Updates
  <2>2. ~IsFile(e)
    BY <1>7 DEF IsFile
  <2>3. DirAdded(x, e, y)
    BY <1>7, <2>1, <2>2 DEF DirAdded
  <2> QED
    BY <1>2, <1>7, <2>1, <2>3 DEF Goal
<1>8. CASE y = writeFile(made, rel, e) /\ e.kind = "file" /\ rel # <<>> /\ ~Rejected(e.path)
           /\ parents \cap DOMAIN x.tree = {} /\ ~(rel \in x.dirs /\ x.remaining > 0)
  <2> DEFINE n == IF e.size > x.remaining THEN x.remaining + 1 ELSE e.size
             z == Copied(made, rel, e, n)
  <2>1. n \in Nat /\ n <= x.remaining + 1 /\ (n <= x.remaining => n = e.size)
    BY <1>1, <1>2
  <2>2. y = IF x.remaining <= 0 THEN Refused(made, "413")
            ELSE IF n > x.remaining THEN Refused(z, "413") ELSE Counted(z, n)
    BY <1>3, <1>8 DEF writeFile
  <2>3. /\ Shaped(z) /\ z.tree = FileAt(x.tree, rel, e.content) /\ z.dirs = x.dirs \cup parents
        /\ z.err = "none" /\ z.remaining = x.remaining /\ z.copied = x.copied + n
    BY <1>3, Copying
  <2> HIDE DEF n, z
  <2>4. CASE x.remaining <= 0
    <3>1. y = Refused(made, "413")
      BY <2>2, <2>4
    <3> QED
      BY <1>2, <1>3, <1>5, <3>1
  <2>5. CASE x.remaining > 0 /\ n > x.remaining
    <3>1. y = Refused(z, "413")
      BY <1>2, <2>2, <2>5
    <3>2. z.copied \in Nat /\ z.copied <= MaxExtracted + 1
      BY <1>2, <2>1, <2>3
    <3> QED
      BY <1>5, <2>3, <3>1, <3>2
  <2>6. CASE x.remaining > 0 /\ n <= x.remaining
    <3>1. y = Counted(z, n)
      BY <1>2, <2>1, <2>2, <2>6
    <3>2. /\ Shaped(y) /\ y.tree = z.tree /\ y.dirs = z.dirs /\ y.err = "none"
          /\ y.remaining = x.remaining - e.size /\ y.copied = x.copied + e.size
      BY <2>1, <2>3, <2>6, <3>1, Updates
    <3>3. IsFile(e)
      BY <1>8 DEF IsFile
    <3>4. FileAdded(x, e, y)
      BY <1>8, <2>1, <2>3, <2>6, <3>2, <3>3 DEF FileAdded
    <3>5. y.copied \in Nat /\ y.copied <= MaxExtracted + 1
      BY <1>1, <1>2, <2>1, <2>6, <3>2
    <3> QED
      BY <1>8, <3>2, <3>4, <3>5 DEF Goal
  <2> QED
    BY <1>2, <2>1, <2>4, <2>5, <2>6
<1>9. \/ y \in {Refused(x, "400"), Refused(x, "500"), Refused(made, "500")}
      \/ y = x /\ ~Rejected(e.path) /\ (rel = <<>> \/ e.kind = "other")
      \/ y = WithDirs(x, parents \cup {rel}) /\ e.kind = "dir" /\ rel # <<>>
           /\ ({rel} \cup parents) \cap DOMAIN x.tree = {} /\ ~Rejected(e.path)
      \/ y = writeFile(made, rel, e) /\ e.kind = "file" /\ rel # <<>> /\ ~Rejected(e.path)
           /\ parents \cap DOMAIN x.tree = {} /\ ~(rel \in x.dirs /\ x.remaining > 0)
  <2> DEFINE dir == untarDir(x, rel)
             file == untarFile(x, rel, e)
  <2>1. y = IF x.err # "none" THEN x
            ELSE IF Rejected(e.path) THEN Refused(x, "400")
            ELSE IF rel = <<>> THEN x
            ELSE CASE e.kind = "dir"  -> dir
                   [] e.kind = "file" -> file
                   [] e.kind = "link" -> Refused(x, "400")
                   [] OTHER           -> x
    BY Zenon DEF untarEntry
  <2>2. dir = IF ({rel} \cup parents) \cap DOMAIN x.tree # {} THEN Refused(x, "500")
              ELSE WithDirs(x, parents \cup {rel})
    BY Zenon DEF untarDir
  <2>3. file = IF parents \cap DOMAIN x.tree # {} THEN Refused(x, "500")
               ELSE IF rel \in x.dirs /\ x.remaining > 0 THEN Refused(made, "500")
               ELSE writeFile(made, rel, e)
    BY Zenon DEF untarFile, made
  <2> HIDE DEF dir, file, rel, parents
  <2>4. CASE Rejected(e.path) \/ rel = <<>>
    BY <2>1, <2>4
  <2>5. CASE ~Rejected(e.path) /\ rel # <<>> /\ e.kind = "dir"
    <3>1. y = dir
      BY <2>1, <2>5
    <3> QED
      BY <2>2, <2>5, <3>1
  <2>6. CASE ~Rejected(e.path) /\ rel # <<>> /\ e.kind = "file"
    <3>1. y = file
      BY <2>1, <2>6
    <3> QED
      BY <2>3, <2>6, <3>1
  <2>7. CASE ~Rejected(e.path) /\ rel # <<>> /\ e.kind \in {"link", "other"}
    BY <2>1, <2>7
  <2> QED
    BY <1>1, <2>4, <2>5, <2>6, <2>7
<1>10. CASE y \in {Refused(x, "400"), Refused(x, "500"), Refused(made, "500")}
  BY <1>2, <1>3, <1>5, <1>10
<1> QED
  BY <1>6, <1>7, <1>8, <1>9, <1>10

FilesOf(a) == {Clean(a[i].path) : i \in Regular(a)}

(* The last entry for a file is there, and there is only one.              *)
LEMMA LastEntry ==
  ASSUME NEW a \in Seq(Entries), NEW f \in FilesOf(a)
  PROVE  \E i \in Regular(a) : /\ Clean(a[i].path) = f /\ LastFor(a, f) = a[i]
                               /\ \A j \in Regular(a) : Clean(a[j].path) = f => j <= i
<1> DEFINE at == {i \in Regular(a) : Clean(a[i].path) = f}
           last(i) == \A j \in at : j <= i
           m == CHOOSE i \in at : last(i)
<1>1. at \subseteq 0..Len(a) /\ at # {} /\ Len(a) \in Nat
  BY DEF FilesOf, Regular
<1> HIDE DEF at
<1>2. \E i \in at : last(i)
  BY <1>1, LargestExists
<1> HIDE DEF last
<1>3. m \in at /\ last(m)
  BY <1>2
<1>4. LastFor(a, f) = a[m]
  BY Zenon DEF LastFor, at, last
<1> HIDE DEF m
<1> QED
  BY <1>3, <1>4 DEF at, last

LEMMA LastIs ==
  ASSUME NEW a \in Seq(Entries), NEW f, NEW i \in Regular(a), Clean(a[i].path) = f,
         \A j \in Regular(a) : Clean(a[j].path) = f => j <= i
  PROVE  LastFor(a, f) = a[i]
<1>1. f \in FilesOf(a)
  BY DEF FilesOf
<1>2. PICK k \in Regular(a) : /\ Clean(a[k].path) = f /\ LastFor(a, f) = a[k]
                              /\ \A j \in Regular(a) : Clean(a[j].path) = f => j <= k
  BY <1>1, LastEntry
<1>3. k <= i /\ i <= k /\ k \in Nat /\ i \in Nat
  BY <1>2 DEF Regular
<1>4. k = i
  BY <1>3
<1> QED
  BY <1>2, <1>4

(* An entry more is the last one for its file and changes no other.        *)
LEMMA ArchiveGrows ==
  ASSUME NEW a \in Seq(Entries), NEW e \in Entries, NEW c, c = Append(a, e)
  PROVE  /\ FilesOf(c) = IF IsFile(e) THEN FilesOf(a) \cup {Clean(e.path)} ELSE FilesOf(a)
         /\ IsFile(e) => LastFor(c, Clean(e.path)) = e
         /\ \A f \in FilesOf(a) :
              ~(IsFile(e) /\ f = Clean(e.path)) => LastFor(c, f) = LastFor(a, f)
<1> DEFINE n == Len(a) + 1
<1>1. /\ c \in Seq(Entries) /\ Len(a) \in Nat /\ Len(c) = n /\ c[n] = e
      /\ \A k \in 1..Len(a) : c[k] = a[k]
  OBVIOUS
<1>2. Regular(c) = IF IsFile(e) THEN Regular(a) \cup {n} ELSE Regular(a)
  <2>1. 1..Len(c) = (1..Len(a)) \cup {n}
    BY <1>1
  <2>2. ASSUME NEW k \in 1..Len(a) PROVE k \in Regular(c) <=> k \in Regular(a)
    BY <1>1, <2>1, <2>2 DEF Regular
  <2>3. n \in Regular(c) <=> IsFile(e)
    BY <1>1, <2>1 DEF Regular
  <2>4. n \notin 1..Len(a)
    BY <1>1
  <2> QED
    BY <2>1, <2>2, <2>3, <2>4 DEF Regular
<1>3. /\ \A k \in Regular(a) : k \in 1..Len(a) /\ k \in Regular(c) /\ c[k] = a[k] /\ k <= n
      /\ n \notin Regular(a) /\ n \in Nat
      /\ \A k \in Regular(c) : k \in Regular(a) \/ (k = n /\ IsFile(e))
  BY <1>1, <1>2 DEF Regular
<1> HIDE DEF n
<1>4. FilesOf(c) = IF IsFile(e) THEN FilesOf(a) \cup {Clean(e.path)} ELSE FilesOf(a)
  <2>1. ASSUME NEW f \in FilesOf(a) PROVE f \in FilesOf(c)
    <3>1. PICK k \in Regular(a) : f = Clean(a[k].path)
      BY DEF FilesOf
    <3> QED
      BY <1>3, <3>1 DEF FilesOf
  <2>2. ASSUME NEW f \in FilesOf(c) PROVE f \in FilesOf(a) \/ (IsFile(e) /\ f = Clean(e.path))
    <3>1. PICK k \in Regular(c) : f = Clean(c[k].path)
      BY DEF FilesOf
    <3> QED
      BY <1>1, <1>3, <3>1 DEF FilesOf
  <2>3. IsFile(e) => Clean(e.path) \in FilesOf(c)
    <3>1. IsFile(e) => n \in Regular(c) /\ Clean(c[n].path) = Clean(e.path)
      BY <1>1, <1>2
    <3> QED
      BY <3>1 DEF FilesOf
  <2> QED
    BY <2>1, <2>2, <2>3
<1>5. ASSUME IsFile(e) PROVE LastFor(c, Clean(e.path)) = e
  <2>1. n \in Regular(c) /\ Clean(c[n].path) = Clean(e.path) /\ c[n] = e
    BY <1>1, <1>2, <1>5
  <2>2. \A j \in Regular(c) : j <= n
    BY <1>3
  <2> QED
    BY <1>1, <2>1, <2>2, LastIs
<1>6. ASSUME NEW f \in FilesOf(a), ~(IsFile(e) /\ f = Clean(e.path))
      PROVE  LastFor(c, f) = LastFor(a, f)
  <2>1. PICK k \in Regular(a) : /\ Clean(a[k].path) = f /\ LastFor(a, f) = a[k]
                                /\ \A j \in Regular(a) : Clean(a[j].path) = f => j <= k
    BY LastEntry
  <2>2. k \in Regular(c) /\ c[k] = a[k]
    BY <1>3
  <2>3. \A j \in Regular(c) : Clean(c[j].path) = f => j <= k
    BY <1>1, <1>3, <1>6, <2>1
  <2> QED
    BY <1>1, <2>1, <2>2, <2>3, LastIs
<1> QED
  BY <1>4, <1>5, <1>6

(* The image of a finite set is finite, and as large under an injection.   *)
LEMMA ImageSize ==
  ASSUME NEW S, IsFiniteSet(S), NEW f, f = [x \in S |-> f[x]], NEW T, T = {f[x] : x \in S}
  PROVE  /\ IsFiniteSet(T)
         /\ (\A x, y \in S : f[x] = f[y] => x = y) => Cardinality(T) = Cardinality(S)
<1>1. f \in Surjection(S, T)
  BY DEF Surjection
<1>2. (\A x, y \in S : f[x] = f[y] => x = y) => f \in Injection(S, T)
  BY DEF Injection, IsInjective
<1> QED
  BY <1>1, <1>2, FS_Surjection

(* A file or a directory below directories that are there, or made with it, *)
(* keeps the tree nested.                                                  *)
LEMMA ParentPaths ==
  ASSUME NEW f \in FilePaths
  PROVE  /\ Parents(f) \subseteq FilePaths /\ f \notin Parents(f)
         /\ \A g \in Parents(f) : Parents(g) \subseteq Parents(f)
<1>1. f \in Seq(STRING) /\ Len(f) \in Nat
  BY DEF FilePaths
<1>2. ASSUME NEW i \in 1..(Len(f) - 1)
      PROVE  /\ SubSeq(f, 1, i) \in Seq(STRING) /\ Len(SubSeq(f, 1, i)) = i
             /\ \A j \in 1..i : SubSeq(f, 1, i)[j] = f[j]
  <2>1. i \in Nat /\ i <= Len(f) /\ i >= 1
    BY <1>1
  <2> QED
    BY <1>1, <2>1
<1>3. \A i \in 1..(Len(f) - 1) : SubSeq(f, 1, i) # <<>> /\ SubSeq(f, 1, i) # f
  <2>1. ASSUME NEW i \in 1..(Len(f) - 1) PROVE i # 0 /\ i # Len(f)
    BY <1>1
  <2>2. Len(<<>>) = 0
    OBVIOUS
  <2> QED
    BY <1>2, <2>1, <2>2
<1>4. ASSUME NEW i \in 1..(Len(f) - 1), NEW j \in 1..(i - 1)
      PROVE  SubSeq(SubSeq(f, 1, i), 1, j) = SubSeq(f, 1, j) /\ j \in 1..(Len(f) - 1)
  <2>1. /\ i \in Nat /\ j \in Nat /\ j >= 1 /\ j <= i /\ i <= Len(f) - 1 /\ j \in 1..(Len(f) - 1)
    BY <1>1
  <2>2. /\ SubSeq(SubSeq(f, 1, i), 1, j) \in Seq(STRING) /\ Len(SubSeq(SubSeq(f, 1, i), 1, j)) = j
        /\ \A k \in 1..j : SubSeq(SubSeq(f, 1, i), 1, j)[k] = SubSeq(f, 1, i)[k]
    <3> DEFINE g == SubSeq(f, 1, i)
    <3>1. g \in Seq(STRING) /\ Len(g) = i
      BY <1>2
    <3> HIDE DEF g
    <3>2. /\ SubSeq(g, 1, j) \in Seq(STRING) /\ Len(SubSeq(g, 1, j)) = j
          /\ \A k \in 1..j : SubSeq(g, 1, j)[k] = g[k]
      BY <2>1, <3>1
    <3> QED
      BY <3>2 DEF g
  <2>3. \A k \in 1..j : SubSeq(SubSeq(f, 1, i), 1, j)[k] = SubSeq(f, 1, j)[k]
    BY <1>2, <2>1, <2>2
  <2>4. SubSeq(f, 1, j) \in Seq(STRING) /\ Len(SubSeq(f, 1, j)) = j
    BY <1>2, <2>1
  <2> QED
    BY <2>1, <2>2, <2>3, <2>4
<1>5. Parents(f) \subseteq FilePaths /\ f \notin Parents(f)
  BY <1>2, <1>3 DEF Parents, FilePaths
<1>6. ASSUME NEW g \in Parents(f) PROVE Parents(g) \subseteq Parents(f)
  <2>1. PICK i \in 1..(Len(f) - 1) : g = SubSeq(f, 1, i)
    BY DEF Parents
  <2>2. Parents(g) = {SubSeq(g, 1, j) : j \in 1..(i - 1)}
    BY <1>2, <2>1 DEF Parents
  <2> QED
    BY <1>4, <2>1, <2>2 DEF Parents
<1> QED
  BY <1>5, <1>6

LEMMA ParentsFinite ==
  ASSUME NEW f \in FilePaths
  PROVE  IsFiniteSet(Parents(f))
<1> DEFINE I == 1..(Len(f) - 1)
           g == [i \in I |-> SubSeq(f, 1, i)]
<1>1. IsFiniteSet(I)
  <2>1. Len(f) - 1 \in Int /\ 1 \in Int
    BY DEF FilePaths
  <2> QED
    BY <2>1, FS_Interval
<1>2. Parents(f) = {g[i] : i \in I} /\ g = [i \in I |-> g[i]]
  BY DEF Parents
<1> HIDE DEF g, I
<1> QED
  BY <1>1, <1>2, ImageSize

LEMMA FileNests ==
  ASSUME NEW t, NEW d, Nested(t, d), NEW f \in FilePaths, NEW content,
         f \notin d, Parents(f) \cap DOMAIN t = {}
  PROVE  Nested(FileAt(t, f, content), d \cup Parents(f))
<1>1. DOMAIN FileAt(t, f, content) = DOMAIN t \cup {f}
  BY DEF FileAt
<1>2. Parents(f) \subseteq FilePaths /\ f \notin Parents(f)
      /\ \A g \in Parents(f) : Parents(g) \subseteq Parents(f)
  BY ParentPaths
<1>3. IsFiniteSet(DOMAIN t \cup {f}) /\ IsFiniteSet(d \cup Parents(f))
  BY FS_AddElement, FS_Union, ParentsFinite DEF Nested
<1> QED
  BY <1>1, <1>2, <1>3 DEF Nested

LEMMA DirNests ==
  ASSUME NEW t, NEW d, Nested(t, d), NEW f \in FilePaths,
         ({f} \cup Parents(f)) \cap DOMAIN t = {}
  PROVE  Nested(t, d \cup Parents(f) \cup {f})
<1>2. Parents(f) \subseteq FilePaths /\ f \notin Parents(f)
      /\ \A g \in Parents(f) : Parents(g) \subseteq Parents(f)
  BY ParentPaths
<1>3. IsFiniteSet(d \cup Parents(f))
  BY FS_Union, ParentsFinite DEF Nested
<1>4. IsFiniteSet(d \cup Parents(f) \cup {f})
  BY <1>3, FS_AddElement
<1> QED
  BY <1>2, <1>4 DEF Nested

(* The extraction so far is that of the entries read: an error ends it, and *)
(* without one the tree, the bytes and the budget are exact.               *)
Exact(x, a) ==
  /\ Budget(x)
  /\ x.copied = FileBytes(a)
  /\ DOMAIN x.tree = FilesOf(a)
  /\ \A f \in DOMAIN x.tree : f[1] \notin {"..", "/"} /\ x.tree[f] = LastFor(a, f).content
  /\ Nested(x.tree, x.dirs)

ExtractInv ==
  /\ archive \in Seq(Entries) /\ Shaped(ex)
  /\ ~ended => ex.err = "none"
  /\ ex.copied \in Nat /\ ex.copied <= MaxExtracted + 1
  /\ ex.err = "none" => Exact(ex, archive)

LEMMA EntryExact ==
  ASSUME NEW x, Shaped(x), x.err = "none", NEW a \in Seq(Entries), Exact(x, a),
         NEW e \in Entries, NEW y, y = untarEntry(x, e), y.err = "none"
  PROVE  Exact(y, Append(a, e))
<1> DEFINE rel == Clean(e.path)
           c == Append(a, e)
<1>1. FileAdded(x, e, y) \/ DirAdded(x, e, y) \/ Passed(x, e, y)
  BY OneEntry DEF Exact
<1>2. ~Rejected(e.path)
  BY OneEntry DEF Exact
<1>3. rel # <<>> => rel \in FilePaths /\ rel[1] \notin {"..", "/"}
  BY <1>2, CleanInside DEF FilePaths
<1>4. /\ FileBytes(a) \in Nat /\ FileBytes(c) = FileBytes(a) + BytesOf(e)
      /\ e.size \in Nat
  BY BytesAppend, EntriesAssumption
<1>5. /\ FilesOf(c) = IF IsFile(e) THEN FilesOf(a) \cup {rel} ELSE FilesOf(a)
      /\ IsFile(e) => LastFor(c, rel) = e
      /\ \A f \in FilesOf(a) : ~(IsFile(e) /\ f = rel) => LastFor(c, f) = LastFor(a, f)
  BY ArchiveGrows
<1> HIDE DEF c
<1>6. /\ Budget(x) /\ x.copied = FileBytes(a) /\ DOMAIN x.tree = FilesOf(a) /\ Nested(x.tree, x.dirs)
      /\ \A f \in DOMAIN x.tree : f[1] \notin {"..", "/"} /\ x.tree[f] = LastFor(a, f).content
  BY DEF Exact
<1>7. CASE FileAdded(x, e, y)
  <2>1. /\ IsFile(e) /\ rel \notin x.dirs /\ Parents(rel) \cap DOMAIN x.tree = {}
        /\ y.tree = FileAt(x.tree, rel, e.content) /\ y.dirs = x.dirs \cup Parents(rel)
        /\ y.copied = x.copied + e.size /\ y.remaining = x.remaining - e.size
        /\ e.size <= x.remaining
    BY <1>7 DEF FileAdded
  <2>2. rel \in FilePaths /\ rel[1] \notin {"..", "/"}
    BY <1>3, <2>1 DEF IsFile
  <2>3. Nested(y.tree, y.dirs)
    BY <1>6, <2>1, <2>2, FileNests
  <2>4. DOMAIN y.tree = FilesOf(c)
    BY <1>5, <1>6, <2>1 DEF FileAt
  <2>5. ASSUME NEW f \in DOMAIN y.tree
        PROVE  f[1] \notin {"..", "/"} /\ y.tree[f] = LastFor(c, f).content
    <3>1. CASE f = rel
      BY <1>5, <2>1, <2>2, <3>1 DEF FileAt
    <3>2. CASE f # rel
      BY <1>5, <1>6, <2>1, <3>2 DEF FileAt
    <3> QED
      BY <3>1, <3>2
  <2>6. y.copied = FileBytes(c)
    BY <1>4, <1>6, <2>1 DEF BytesOf
  <2>7. Budget(y)
    BY <1>4, <1>6, <2>1 DEF Budget
  <2> QED
    BY <2>3, <2>4, <2>5, <2>6, <2>7 DEF Exact, c
<1>8. CASE DirAdded(x, e, y) \/ Passed(x, e, y)
  <2>1. ~IsFile(e) /\ y.tree = x.tree /\ y.copied = x.copied /\ y.remaining = x.remaining
    BY <1>8 DEF DirAdded, Passed
  <2>2. Nested(y.tree, y.dirs)
    <3>1. CASE DirAdded(x, e, y)
      <4>1. /\ rel # <<>> /\ ({rel} \cup Parents(rel)) \cap DOMAIN x.tree = {}
            /\ y.tree = x.tree /\ y.dirs = x.dirs \cup Parents(rel) \cup {rel}
        BY <3>1 DEF DirAdded
      <4> QED
        BY <1>3, <1>6, <4>1, DirNests
    <3>2. CASE Passed(x, e, y)
      BY <1>6, <3>2 DEF Passed
    <3> QED
      BY <1>8, <3>1, <3>2
  <2>3. y.copied = FileBytes(c)
    BY <1>4, <1>6, <2>1 DEF BytesOf
  <2>4. Budget(y)
    BY <1>6, <2>1 DEF Budget
  <2>5. \A f \in DOMAIN y.tree : f[1] \notin {"..", "/"} /\ y.tree[f] = LastFor(c, f).content
    BY <1>5, <1>6, <2>1
  <2> QED
    BY <1>5, <1>6, <2>1, <2>2, <2>3, <2>4, <2>5 DEF Exact, c
<1> QED
  BY <1>1, <1>7, <1>8

LEMMA NothingExtracted == Shaped(NewExtraction) /\ Exact(NewExtraction, <<>>)
<1>1. /\ NewExtraction.tree = <<>> /\ NewExtraction.dirs = {} /\ NewExtraction.copied = 0
      /\ NewExtraction.remaining = MaxExtracted
  BY DEF NewExtraction
<1>2. Shaped(NewExtraction)
  BY DEF NewExtraction, Shaped
<1>3. <<>> \in Seq(Entries) /\ Len(<<>>) = 0 /\ DOMAIN <<>> = {}
  OBVIOUS
<1>4. FilesOf(<<>>) = {}
  BY <1>3 DEF FilesOf, Regular
<1>5. FileBytes(<<>>) = 0
  BY <1>3, BytesExist
<1>6. Budget(NewExtraction)
  BY <1>1, BudgetIsPositive DEF Budget
<1>7. Nested(<<>>, {})
  BY <1>3, FS_EmptySet DEF Nested
<1> QED
  BY <1>1, <1>2, <1>3, <1>4, <1>5, <1>6, <1>7 DEF Exact

THEOREM ExtractInvariant == ExtractSpec => []ExtractInv
<1>1. ExtractInit => ExtractInv
  <2> SUFFICES ASSUME ExtractInit PROVE ExtractInv
    OBVIOUS
  <2>1. /\ archive = <<>> /\ ex = NewExtraction /\ ended = FALSE
        /\ ex.err = "none" /\ ex.copied = 0
    BY DEF ExtractInit, NewExtraction
  <2>2. 0 \in Nat /\ 0 <= MaxExtracted + 1 /\ archive \in Seq(Entries)
    BY <2>1, BudgetIsPositive
  <2> QED
    BY <2>1, <2>2, NothingExtracted DEF ExtractInv
<1>2. ExtractInv /\ [ExtractNext]_extractVars => ExtractInv'
  <2> SUFFICES ASSUME ExtractInv, [ExtractNext]_extractVars PROVE ExtractInv'
    OBVIOUS
  <2>1. CASE ReadEntry
    <3>1. PICK e \in Entries : /\ archive' = Append(archive, e)
                               /\ ex' = untarEntry(ex, e)
                               /\ ended' = (ex'.err # "none")
      BY <2>1 DEF ReadEntry
    <3>2. /\ ex.err = "none" /\ Shaped(ex) /\ Exact(ex, archive) /\ Budget(ex)
          /\ archive \in Seq(Entries)
      BY <2>1 DEF ReadEntry, ExtractInv, Exact
    <3>3. Shaped(ex') /\ ex'.copied \in Nat /\ ex'.copied <= MaxExtracted + 1
      BY <3>1, <3>2, OneEntry
    <3>4. ex'.err = "none" => Exact(ex', archive')
      BY <3>1, <3>2, EntryExact
    <3>5. archive' \in Seq(Entries)
      BY <3>1, <3>2
    <3>6. ~ended' => ex'.err = "none"
      BY <3>1
    <3> QED
      BY <3>3, <3>4, <3>5, <3>6 DEF ExtractInv
  <2>2. CASE ReadEnd
    <3>1. /\ archive' = archive /\ ended' = TRUE
          /\ ex' = ex \/ ex' = Refused(ex, "400")
      BY <2>2 DEF ReadEnd, untarEnd
    <3>2. CASE ex' = ex
      BY <3>1, <3>2 DEF ExtractInv
    <3>3. CASE ex' = Refused(ex, "400")
      <4>1. Shaped(ex') /\ ex'.err = "400" /\ ex'.copied = ex.copied
        BY <3>3, Updates DEF ExtractInv
      <4> QED
        BY <3>1, <4>1 DEF ExtractInv
    <3> QED
      BY <3>1, <3>2, <3>3
  <2>3. CASE UNCHANGED extractVars
    BY <2>3 DEF ExtractInv, extractVars
  <2> QED
    BY <2>1, <2>2, <2>3 DEF ExtractNext
<1> QED
  BY <1>1, <1>2, PTL DEF ExtractSpec

LEMMA ExactExtraction == ExtractInv => ExtractionExact
<1> SUFFICES ASSUME ExtractInv PROVE ExtractionExact
  OBVIOUS
<1>1. ex.copied <= MaxExtracted + 1
  BY DEF ExtractInv
<1>2. ASSUME ex.err = "none"
      PROVE  /\ ex.copied = FileBytes(archive)
             /\ ex.copied <= MaxExtracted
             /\ DOMAIN ex.tree = {Clean(archive[i].path) : i \in Regular(archive)}
             /\ \A f \in DOMAIN ex.tree :
                  f[1] \notin {"..", "/"} /\ ex.tree[f] = LastFor(archive, f).content
  <2>1. Exact(ex, archive)
    BY <1>2 DEF ExtractInv
  <2>2. ex.copied <= MaxExtracted
    BY <2>1, BudgetIsPositive DEF Exact, Budget
  <2> QED
    BY <2>1, <2>2 DEF Exact, FilesOf
<1> QED
  BY <1>1, <1>2 DEF ExtractionExact

(* Below a common first segment nothing is confused.                       *)
LEMMA Below ==
  ASSUME NEW f \in FilePaths, Len(f) > 1
  PROVE  /\ Tail(f) \in FilePaths /\ Len(Tail(f)) = Len(f) - 1
         /\ \A i \in 1..(Len(f) - 1) : Tail(f)[i] = f[i + 1]
<1>1. f \in Seq(STRING) /\ f # <<>> /\ Len(f) \in Nat /\ Len(f) - 1 # 0
  BY DEF FilePaths
<1>2. /\ Tail(f) \in Seq(STRING) /\ Len(Tail(f)) = Len(f) - 1
      /\ \A i \in 1..(Len(f) - 1) : Tail(f)[i] = f[i + 1]
  BY <1>1
<1>3. Tail(f) # <<>>
  <2>1. Len(<<>>) = 0
    OBVIOUS
  <2> QED
    BY <1>1, <1>2, <2>1
<1> QED
  BY <1>2, <1>3 DEF FilePaths

LEMMA SameTail ==
  ASSUME NEW f \in FilePaths, NEW g \in FilePaths, Len(f) > 1, Len(g) > 1,
         f[1] = g[1], Tail(f) = Tail(g)
  PROVE  f = g
<1>1. f \in Seq(STRING) /\ g \in Seq(STRING) /\ Len(f) \in Nat /\ Len(g) \in Nat
  BY DEF FilePaths
<1>2. Len(f) = Len(g)
  <2>1. Len(Tail(f)) = Len(f) - 1 /\ Len(Tail(g)) = Len(g) - 1
    BY Below
  <2> QED
    BY <1>1, <2>1
<1>3. ASSUME NEW i \in 1..Len(f) PROVE f[i] = g[i]
  <2>1. CASE i = 1
    BY <2>1
  <2>2. CASE i # 1
    <3>1. i - 1 \in 1..(Len(f) - 1) /\ i - 1 \in 1..(Len(g) - 1) /\ (i - 1) + 1 = i
      BY <1>1, <1>2, <2>2
    <3>2. Tail(f)[i - 1] = f[i] /\ Tail(g)[i - 1] = g[i]
      BY <3>1, Below
    <3> QED
      BY <3>2
  <2> QED
    BY <2>1, <2>2
<1> QED
  BY <1>1, <1>2, <1>3

(* The parents of a path below the first segment are below it too.         *)
LEMMA ParentsBelow ==
  ASSUME NEW f \in FilePaths, Len(f) > 1, NEW p \in Parents(Tail(f))
  PROVE  \E q \in Parents(f) : Len(q) > 1 /\ p = Tail(q)
<1>1. f \in Seq(STRING) /\ Len(f) \in Nat /\ Tail(f) \in Seq(STRING) /\ Len(Tail(f)) = Len(f) - 1
      /\ \A k \in 1..(Len(f) - 1) : Tail(f)[k] = f[k + 1]
  BY Below DEF FilePaths
<1>2. PICK i \in 1..(Len(f) - 2) : p = SubSeq(Tail(f), 1, i)
  <2>1. (Len(f) - 1) - 1 = Len(f) - 2
    BY <1>1
  <2> QED
    BY <1>1, <2>1 DEF Parents
<1> DEFINE q == SubSeq(f, 1, i + 1)
           t == Tail(f)
<1>3. i \in Nat /\ i >= 1 /\ i + 1 \in 1..(Len(f) - 1) /\ i <= Len(f) - 1 /\ i + 1 <= Len(f)
  BY <1>1, <1>2
<1>4. q \in Parents(f)
  BY <1>3 DEF Parents
<1>5. q \in Seq(STRING) /\ Len(q) = i + 1 /\ \A k \in 1..(i + 1) : q[k] = f[k]
  BY <1>1, <1>3
<1> HIDE DEF q, t
<1>6. p \in Seq(STRING) /\ Len(p) = i /\ \A k \in 1..i : p[k] = t[k]
  <2>1. t \in Seq(STRING) /\ i <= Len(t)
    BY <1>1, <1>3 DEF t
  <2>2. p = SubSeq(t, 1, i)
    BY <1>2 DEF t
  <2> QED
    BY <1>3, <2>1, <2>2
<1>7. q # <<>> /\ Len(q) > 1
  BY <1>3, <1>5
<1>8. Tail(q) \in Seq(STRING) /\ Len(Tail(q)) = i /\ \A k \in 1..i : Tail(q)[k] = q[k + 1]
  BY <1>3, <1>5, <1>7
<1>9. ASSUME NEW k \in 1..i PROVE p[k] = Tail(q)[k]
  <2>1. k \in 1..(Len(f) - 1) /\ k + 1 \in 1..(i + 1)
    BY <1>1, <1>3
  <2> QED
    BY <1>1, <1>5, <1>6, <1>8, <2>1 DEF t
<1>10. p = Tail(q)
  BY <1>6, <1>8, <1>9
<1> QED
  BY <1>4, <1>7, <1>10

(* Without a first segment they all have, the tree is as nested as before. *)
LEMMA Rebased ==
  ASSUME NEW t, NEW d, Nested(t, d), NEW top, <<top>> \in d,
         \A f \in DOMAIN t \cup d : f[1] = top,
         NEW u, u = [q \in {Tail(f) : f \in DOMAIN t} |-> t[<<top>> \o q]]
  PROVE  Nested(u, {Tail(q) : q \in d} \ {<<>>})
<1> DEFINE low == {q \in d : Len(q) > 1}
           below == {Tail(q) : q \in d} \ {<<>>}
<1>1. DOMAIN t \cup d \subseteq FilePaths /\ DOMAIN t \cap d = {}
  BY DEF Nested
<1>2. ASSUME NEW f \in DOMAIN t \cup d, f # <<top>> PROVE Len(f) > 1
  <2>1. f \in Seq(STRING) /\ f # <<>> /\ Len(f) \in Nat /\ f[1] = top
    BY <1>1 DEF FilePaths
  <2>2. CASE Len(f) = 1
    <3>1. f = <<f[1]>>
      BY <2>1, <2>2
    <3> QED
      BY <1>2, <2>1, <3>1
  <2>3. CASE Len(f) = 0
    BY <2>1, <2>3
  <2> QED
    BY <2>1, <2>2, <2>3
<1>3. \A f \in DOMAIN t : Len(f) > 1
  BY <1>1, <1>2
<1>4. below = {Tail(q) : q \in low}
  <2>1. ASSUME NEW q \in low PROVE Tail(q) # <<>>
    BY <1>1, Below DEF FilePaths
  <2>2. Tail(<<top>>) = <<>>
    OBVIOUS
  <2>3. \A q \in d : q = <<top>> \/ q \in low
    BY <1>2
  <2> QED
    BY <2>1, <2>2, <2>3
<1>5. DOMAIN u = {Tail(f) : f \in DOMAIN t}
  OBVIOUS
<1> HIDE DEF below
<1>6. DOMAIN u \cup below \subseteq FilePaths
  BY <1>1, <1>3, <1>4, <1>5, Below
<1>7. DOMAIN u \cap below = {}
  <2>1. ASSUME NEW f \in DOMAIN t, NEW q \in low PROVE Tail(f) # Tail(q)
    <3>1. f \in FilePaths /\ q \in FilePaths /\ Len(f) > 1 /\ Len(q) > 1 /\ f[1] = q[1] /\ f # q
      BY <1>1, <1>3
    <3> QED
      BY <3>1, SameTail
  <2> QED
    BY <1>4, <1>5, <2>1
<1>8. ASSUME NEW p \in DOMAIN u \cup below PROVE Parents(p) \subseteq below
  <2>1. PICK f \in DOMAIN t \cup d : Len(f) > 1 /\ p = Tail(f)
    BY <1>3, <1>4, <1>5
  <2>2. f \in FilePaths /\ Parents(f) \subseteq d
    BY <1>1 DEF Nested
  <2>3. ASSUME NEW r \in Parents(p) PROVE r \in below
    <3>1. \E q \in Parents(f) : Len(q) > 1 /\ r = Tail(q)
      BY <2>1, <2>2, ParentsBelow
    <3> QED
      BY <1>4, <2>2, <3>1
  <2> QED
    BY <2>3
<1>9. IsFiniteSet(DOMAIN u) /\ IsFiniteSet(below)
  <2>1. IsFiniteSet(DOMAIN t) /\ IsFiniteSet(d) /\ low \subseteq d
    BY DEF Nested
  <2>2. IsFiniteSet(low)
    BY <2>1, FS_Subset
  <2>3. ASSUME NEW S, IsFiniteSet(S) PROVE IsFiniteSet({Tail(q) : q \in S})
    <3> DEFINE h == [q \in S |-> Tail(q)]
               T == {h[q] : q \in S}
    <3>1. h = [q \in S |-> h[q]] /\ T = {Tail(q) : q \in S}
      OBVIOUS
    <3> HIDE DEF h
    <3>2. IsFiniteSet(T)
      BY <2>3, <3>1, ImageSize
    <3> QED
      BY <3>1, <3>2
  <2> QED
    BY <1>4, <1>5, <2>1, <2>2, <2>3
<1> QED
  BY <1>6, <1>7, <1>8, <1>9 DEF Nested, below

(* The build root of an extracted tree is a tree.                          *)
LEMMA RootNested ==
  ASSUME NEW x, Nested(x.tree, x.dirs)
  PROVE  Nested(BuildRoot(x).tree, BuildRoot(x).dirs)
<1> DEFINE tops == {q[1] : q \in DOMAIN x.tree \cup x.dirs}
           top == CHOOSE t \in tops : TRUE
           u == [q \in {Tail(f) : f \in DOMAIN x.tree} |-> x.tree[<<top>> \o q]]
           e == {Tail(q) : q \in x.dirs} \ {<<>>}
           single == Cardinality(tops) = 1 /\ <<top>> \in x.dirs
                       /\ top \notin {"_worker.js", "functions"}
<1>1. BuildRoot(x) = IF single THEN [tree |-> u, dirs |-> e] ELSE [tree |-> x.tree, dirs |-> x.dirs]
  BY Zenon DEF BuildRoot
<1>2. CASE ~single
  <2>1. BuildRoot(x) = [tree |-> x.tree, dirs |-> x.dirs]
    BY <1>1, <1>2, Zenon
  <2> QED
    BY <2>1
<1>3. CASE single
  <2>1. BuildRoot(x) = [tree |-> u, dirs |-> e]
    BY <1>1, <1>3, Zenon
  <2>2. IsFiniteSet(tops)
    <3> DEFINE S == DOMAIN x.tree \cup x.dirs
               h == [q \in S |-> q[1]]
               T == {h[q] : q \in S}
    <3>1. h = [q \in S |-> h[q]] /\ T = tops
      OBVIOUS
    <3>2. IsFiniteSet(S)
      BY FS_Union DEF Nested
    <3> HIDE DEF h, S
    <3>3. IsFiniteSet(T)
      BY <3>1, <3>2, ImageSize
    <3> HIDE DEF T
    <3> QED
      BY <3>1, <3>3
  <2>3. \E t : tops = {t}
    <3> HIDE DEF tops
    <3> QED
      BY <1>3, <2>2, FS_Singleton
  <2>4. <<top>> \in x.dirs
    BY <1>3
  <2>5. \A f \in DOMAIN x.tree \cup x.dirs : f[1] = top
    <3>1. \A f \in DOMAIN x.tree \cup x.dirs : f[1] \in tops
      OBVIOUS
    <3>2. \A t \in tops : t = top
      <4> HIDE DEF tops
      <4> QED
        BY <2>3
    <3> HIDE DEF top, tops
    <3> QED
      BY <3>1, <3>2
  <2> HIDE DEF top
  <2>6. Nested(u, e)
    BY <2>4, <2>5, Rebased
  <2> HIDE DEF u, e
  <2> QED
    BY <2>1, <2>6
<1> QED
  BY <1>2, <1>3

(* A path of one segment, and the first directory of a longer one.         *)
LEMMA FirstSegment ==
  ASSUME NEW t, NEW d, Nested(t, d), NEW f \in DOMAIN t
  PROVE  /\ f \in FilePaths /\ (Len(f) <= 1 => f = <<f[1]>>)
         /\ Len(f) > 1 => <<f[1]>> \in d
<1>1. f \in FilePaths /\ f \in Seq(STRING) /\ f # <<>> /\ Len(f) \in Nat /\ Parents(f) \subseteq d
  BY DEF Nested, FilePaths
<1>2. ASSUME Len(f) <= 1 PROVE f = <<f[1]>>
  <2>1. Len(f) = 1
    BY <1>1, <1>2
  <2> QED
    BY <1>1, <2>1
<1>3. ASSUME Len(f) > 1 PROVE <<f[1]>> \in d
  <2>1. 1 \in 1..(Len(f) - 1)
    BY <1>1, <1>3
  <2>2. SubSeq(f, 1, 1) \in Parents(f)
    BY <2>1 DEF Parents
  <2>3. SubSeq(f, 1, 1) = <<f[1]>>
    <3> DEFINE g == SubSeq(f, 1, 1)
               h == <<f[1]>>
    <3>1. g \in Seq(STRING) /\ Len(g) = 1 /\ g[1] = f[1]
      BY <1>1, <1>3
    <3>2. h \in Seq(STRING) /\ Len(h) = 1 /\ h[1] = f[1]
      BY <1>1, <1>3
    <3>3. \A i \in 1..1 : i = 1
      OBVIOUS
    <3> HIDE DEF g, h
    <3>4. g = h
      BY <3>1, <3>2, <3>3
    <3> QED
      BY <3>4 DEF g, h
  <2> QED
    BY <1>1, <2>2, <2>3
<1> QED
  BY <1>1, <1>2, <1>3

(* The files below the root, as ScanPartitions divides them.               *)
ModuleFiles(root) == {f \in DOMAIN root.tree : f[1] = "_worker.js"}
SourceFiles(root) == {f \in DOMAIN root.tree : f[1] = "functions" /\ Len(f) > 1}
ConfigFiles(root) == DOMAIN root.tree \cap (Specials \cup Wranglers)
StaticFiles(b) == {s.path : s \in b.statics}
Partitioned(root, b) ==
  /\ StaticFiles(b) \cup ModuleFiles(root) \cup ConfigFiles(root) \cup SourceFiles(root)
       = DOMAIN root.tree
  /\ StaticFiles(b) \cap (ModuleFiles(root) \cup ConfigFiles(root) \cup SourceFiles(root)) = {}
  /\ Cardinality(ModuleFiles(root)) = Cardinality(b.workers)
  /\ SourceFiles(root) # {} => HasWorker(b)

(* The worker of a tree: as many modules as there are files, and one when  *)
(* functions/ has a file.                                                  *)
LEMMA WorkerComplete ==
  ASSUME NEW root, Nested(root.tree, root.dirs), scanWorker(root).err = "none"
  PROVE  /\ Cardinality(ModuleFiles(root)) = Cardinality(scanWorker(root).mods)
         /\ SourceFiles(root) # {} => scanWorker(root).mods # {}
<1> DEFINE files == DOMAIN root.tree
           under == {f \in files : Len(f) > 1 /\ f[1] = "_worker.js"}
           one == [path |-> <<"index.js">>, content |-> root.tree[<<"_worker.js">>]]
           many == {[path |-> Tail(f), content |-> root.tree[f]] : f \in under}
           w == scanWorker(root)
<1>1. files \cap root.dirs = {} /\ files \subseteq FilePaths
  BY DEF Nested
<1>2. <<"_worker.js">>[1] = "_worker.js" /\ Len(<<"_worker.js">>) = 1
  OBVIOUS
<1>3. \A f \in files : (Len(f) <= 1 => f = <<f[1]>>) /\ (Len(f) > 1 => <<f[1]>> \in root.dirs)
  BY FirstSegment
<1>4. \A f \in files : Len(f) <= 1 \/ Len(f) > 1
  BY <1>1 DEF FilePaths
<1>5. CASE <<"_worker.js">> \in files
  <2>1. w = [err |-> "none", mods |-> {one}]
    <3>1. ~(<<"_worker.js">> \in root.dirs \ files)
      BY <1>5
    <3> QED
      BY <1>5, <3>1, Zenon DEF scanWorker
  <2>2. ModuleFiles(root) = {<<"_worker.js">>}
    BY <1>1, <1>2, <1>3, <1>4, <1>5 DEF ModuleFiles
  <2>3. w.mods = {one}
    BY <2>1
  <2> HIDE DEF one, w
  <2> QED
    BY <2>2, <2>3, FS_Singleton DEF w
<1>6. CASE <<"_worker.js">> \in root.dirs \ files
  <2>1. w = IF <<"_worker.js", "index.js">> \notin files THEN [err |-> "400", mods |-> {}]
            ELSE [err |-> "none", mods |-> many]
    <3>1. ~(<<"_worker.js">> \in files)
      BY <1>6
    <3> QED
      BY <1>6, <3>1, Zenon DEF scanWorker
  <2>2. <<"_worker.js", "index.js">> \in files
    <3>1. ASSUME <<"_worker.js", "index.js">> \notin files PROVE FALSE
      <4>1. w = [err |-> "400", mods |-> {}]
        BY <2>1, <3>1, Zenon
      <4> QED
        BY <4>1
    <3> QED
      BY <3>1
  <2>3. w.mods = many
    <3>1. w = [err |-> "none", mods |-> many]
      BY <2>1, <2>2, Zenon
    <3> QED
      BY <3>1
  <2>4. <<"_worker.js", "index.js">> \in under
    BY <2>2
  <2>5. ModuleFiles(root) = under
    BY <1>1, <1>2, <1>3, <1>4, <1>6 DEF ModuleFiles
  <2>6. Cardinality(many) = Cardinality(under)
    <3> DEFINE h == [f \in under |-> [path |-> Tail(f), content |-> root.tree[f]]]
               T == {h[f] : f \in under}
    <3>1. h = [f \in under |-> h[f]] /\ T = many
      OBVIOUS
    <3>2. \A f, g \in under : h[f] = h[g] => f = g
      <4>1. ASSUME NEW f \in under, NEW g \in under, h[f] = h[g] PROVE f = g
        <5>1. Tail(f) = Tail(g)
          BY <4>1
        <5>2. f \in FilePaths /\ g \in FilePaths /\ Len(f) > 1 /\ Len(g) > 1 /\ f[1] = g[1]
          BY <1>1
        <5> QED
          BY <5>1, <5>2, SameTail
      <4> QED
        BY <4>1
    <3>3. IsFiniteSet(under)
      <4>1. IsFiniteSet(files) /\ under \subseteq files
        BY DEF Nested
      <4> QED
        BY <4>1, FS_Subset
    <3> HIDE DEF h, under, many, T
    <3>4. Cardinality(T) = Cardinality(under)
      <4>1. T = {h[f] : f \in under}
        BY DEF T
      <4> QED
        BY <3>1, <3>2, <3>3, <4>1, ImageSize
    <3> QED
      BY <3>1, <3>4
  <2>7. many # {}
    BY <2>4
  <2> HIDE DEF many, under, w
  <2> QED
    BY <2>3, <2>5, <2>6, <2>7 DEF w
<1>7. CASE <<"_worker.js">> \notin files /\ <<"_worker.js">> \notin root.dirs
  <2>1. w = [err |-> IF <<"functions">> \in root.dirs THEN "400" ELSE "none", mods |-> {}]
    <3>1. ~(<<"_worker.js">> \in files) /\ ~(<<"_worker.js">> \in root.dirs \ files)
      BY <1>7
    <3> QED
      BY <3>1, Zenon DEF scanWorker
  <2>2. w.mods = {} /\ <<"functions">> \notin root.dirs
    BY <2>1
  <2>3. ModuleFiles(root) = {}
    BY <1>3, <1>4, <1>7 DEF ModuleFiles
  <2>4. SourceFiles(root) = {}
    BY <1>3, <2>2 DEF SourceFiles
  <2> HIDE DEF w
  <2> QED
    BY <2>2, <2>3, <2>4 DEF w
<1> QED
  BY <1>5, <1>6, <1>7

(* A scanned tree leaves nothing out.                                      *)
LEMMA ScanComplete ==
  ASSUME NEW root, Nested(root.tree, root.dirs), NEW b, b = Scan(root), b.err = "none"
  PROVE  Partitioned(root, b)
<1> DEFINE files == DOMAIN root.tree
           bad == scanWorker(root).err # "none" \/ ~parseSpecials(root) \/ ~parseCompat(root)
           skippedDir(f) == f[1] \in {"_worker.js", "functions"} /\ Len(f) > 1
           kept == {g \in files :
                      g \notin Specials \cup Wranglers \cup {<<"_worker.js">>} /\ ~skippedDir(g)}
<1>1. b = IF bad THEN [err |-> "400", statics |-> {}, workers |-> {}]
          ELSE [err |-> "none", statics |-> scanStatics(root), workers |-> scanWorker(root).mods]
  BY Zenon DEF Scan
<1>2. ~bad
  <2>1. ASSUME bad PROVE FALSE
    <3>1. b = [err |-> "400", statics |-> {}, workers |-> {}]
      BY <1>1, <2>1, Zenon
    <3> QED
      BY <3>1
  <2> QED
    BY <2>1
<1>3. b = [err |-> "none", statics |-> scanStatics(root), workers |-> scanWorker(root).mods]
  BY <1>1, <1>2, Zenon
<1>4. b.statics = scanStatics(root) /\ b.workers = scanWorker(root).mods
  BY <1>3
<1>5. StaticFiles(b) = kept
  <2>1. scanStatics(root) = {[path |-> f, hash |-> root.tree[f]] : f \in kept}
    BY Zenon DEF scanStatics
  <2> DEFINE entry(f) == [path |-> f, hash |-> root.tree[f]]
  <2>2. \A f : entry(f).path = f
    OBVIOUS
  <2>3. b.statics = {entry(f) : f \in kept}
    BY <1>4, <2>1
  <2> HIDE DEF kept, entry
  <2> QED
    BY <2>2, <2>3 DEF StaticFiles
<1>6. \A f \in files : Len(f) \in Nat /\ (Len(f) <= 1 => f = <<f[1]>>)
  <2>1. \A f \in files : f \in FilePaths /\ (Len(f) <= 1 => f = <<f[1]>>)
    BY FirstSegment
  <2> QED
    BY <2>1 DEF FilePaths
<1>7. <<"_worker.js">>[1] = "_worker.js"
  OBVIOUS
<1>8. ASSUME NEW f \in files
      PROVE  f \in kept <=> f \notin ModuleFiles(root) \cup ConfigFiles(root) \cup SourceFiles(root)
  BY <1>6, <1>7 DEF ModuleFiles, ConfigFiles, SourceFiles
<1>9. ModuleFiles(root) \cup ConfigFiles(root) \cup SourceFiles(root) \subseteq files
  BY DEF ModuleFiles, ConfigFiles, SourceFiles
<1>10. kept \subseteq files
  OBVIOUS
<1> HIDE DEF kept
<1>11. /\ Cardinality(ModuleFiles(root)) = Cardinality(scanWorker(root).mods)
       /\ SourceFiles(root) # {} => scanWorker(root).mods # {}
  BY <1>2, WorkerComplete
<1> QED
  BY <1>4, <1>5, <1>8, <1>9, <1>10, <1>11 DEF HasWorker, Partitioned

LEMMA CompleteScan == ExtractInv => ScanPartitions
<1> SUFFICES ASSUME ExtractInv, ended, ex.err = "none", Scan(BuildRoot(ex)).err = "none"
             PROVE  ScanPartitions
  BY Zenon DEF ScanPartitions
<1>1. Nested(ex.tree, ex.dirs)
  BY DEF ExtractInv, Exact
<1>2. Nested(BuildRoot(ex).tree, BuildRoot(ex).dirs)
  BY <1>1, RootNested, Zenon
<1>3. Partitioned(BuildRoot(ex), Scan(BuildRoot(ex)))
  BY <1>2, ScanComplete, Zenon
<1> QED
  BY <1>3, Zenon
     DEF ScanPartitions, Partitioned, StaticFiles, ModuleFiles, ConfigFiles, SourceFiles

THEOREM BundleExactHolds == ExtractSpec => []BundleExact
<1>1. ExtractInv => BundleExact
  BY ExactExtraction, CompleteScan DEF BundleExact
<1> QED
  BY <1>1, ExtractInvariant, PTL
=============================================================================
