------------------------------- MODULE Deploy -------------------------------
(***************************************************************************)
(* The admin API (pkg/adminapi), the upload of a bundle to object storage  *)
(* (pkg/bundle/upload.go, pkg/storage) and duru's direct deploy mode       *)
(* (cmd/duru/deploy_direct.go), over one page provider.                    *)
(*                                                                         *)
(* A call is one HTTP request or one run of duru.  Every call of it to the *)
(* provider or to storage is a step of its own, so that calls interleave   *)
(* between a read of a page and the write that depends on it.  There is no *)
(* lock around a handler.                                                  *)
(***************************************************************************)
EXTENDS Provider, Bundle

CONSTANTS
  Calls,      \* the calls made
  Menu,       \* the requests each of them may be (records, see MCDeploy)
  WiredSets,  \* what New was given: subsets of {"admin", "storage"}
  Seed,       \* the deployment the page SeedPage already serves
  SeedPage, SeedTenant, SeedBuild,
  Env         \* faults: "provider", "storage", "crash"

VARIABLES
  backend,    \* the provider in use
  wired,      \* Options.Admin and Options.Storage that are set
  db,         \* the provider's database
  store,      \* object storage: a set of [key, name, body]
  call        \* the calls, Idle before they start

(* There are finitely many calls.  Each request carries well-formed values *)
(* (malformed ones are those with valid FALSE, answered 400) and the field *)
(* its operation is about; None stands for an omitted field and is none of *)
(* the values.                                                             *)
ASSUME FiniteCalls == IsFiniteSet(Calls)
ASSUME NoneIsNoValue ==
  /\ None \notin Pages \cup Tenants \cup Deps \cup Row
  /\ \A s \in SUBSET Secrets : s # None
  /\ \A hs \in SUBSET Hosts : hs # None
ASSUME RequestTypes ==
  \A c \in Calls : \A q \in Menu[c] :
    /\ q.page \in Pages /\ q.tenant \in Tenants /\ q.dep \in Deps
    /\ q.active \in Deps \cup {None} /\ q.drop \in SUBSET Secrets
    /\ q.secrets = None \/ q.secrets \in SUBSET Secrets
    /\ q.domains = None \/ q.domains \in SUBSET Hosts
    /\ q.op \in {"putSecret", "replaceSecrets", "patchSecrets"} => q.secrets # None
    /\ q.op = "setDomains" => q.domains # None
ASSUME SeedTypes ==
  SeedPage \in Pages /\ SeedTenant \in Tenants /\ Seed \in Deps /\ SeedBuild # None

vars == <<backend, wired, db, store, call>>

(* Storage keys: tenant/page/deployment and the object's name in it.       *)
Key(t, p, dep) == <<t, p, dep>>
Object(k, name, body) == [key |-> k, name |-> name, body |-> body]
(* Mutant: the existence check forgets which deployment it is for.         *)
HasAnywhere(st, k, name) == \E o \in st : o.name = name
Has(st, k, name) == \E o \in st : o.key = k /\ o.name = name
Put(st, k, name, body) ==
  {o \in st : ~(o.key = k /\ o.name = name)} \cup {Object(k, name, body)}

(* The build in an uploaded archive.                                       *)
Built(archive) == Scan(BuildRoot(Untar(archive)))

(* Static assets are named by their hash, which is the name of no other    *)
(* object.                                                                 *)
ASSUME BuildTypes ==
  /\ \A c \in Calls : \A q \in Menu[c] :
       Built(q.archive) # None /\ {"manifest", "worker"} \cap HashesOf(Built(q.archive)) = {}
  /\ {"manifest", "worker"} \cap HashesOf(SeedBuild) = {}

(* What an upload of build b leaves under k.                               *)
Objects(k, b) ==
  {Object(k, "manifest", b)} \cup {Object(k, h, h) : h \in HashesOf(b)}
    \cup (IF HasWorker(b) THEN {Object(k, "worker", b)} ELSE {})

(* One call: its request q, the next thing to do, the page as read and as  *)
(* to be written, the tenant of its objects, the build and the hashes left.*)
Start(q) == [q |-> q, pc |-> "start", seen |-> None, row |-> None, tenant |-> None,
             build |-> None, todo |-> {}, status |-> "none"]
Idle       == [Start(None) EXCEPT !.pc = "idle"]
Started(c) == call[c].pc # "idle"

(* A page that serves its first deployment, and a tenant with nothing.     *)
Init ==
  /\ backend \in Backends
  /\ wired \in WiredSets
  /\ db = [NewDB EXCEPT
             !.tenants = {SeedTenant},
             !.pages[SeedPage] = [tenant |-> SeedTenant, active |-> Seed,
                                  secrets |-> {}, domains |-> {}],
             !.deps = {<<SeedPage, Seed>>}]
  /\ store = Objects(Key(SeedTenant, SeedPage, Seed), SeedBuild)
  /\ call = [c \in Calls |-> Idle]

-----------------------------------------------------------------------------

Goes(c, pc)       == call' = [call EXCEPT ![c].pc = pc]
Answers(c, s)     == call' = [call EXCEPT ![c].pc = "done", ![c].status = s]
At(c, pc)         == call[c].pc = pc
(* writeProviderError.                                                     *)
StatusOf(err)     == IF err = "notFound" THEN "404" ELSE "500"
(* A provider call with result r: its error ends the call, and otherwise   *)
(* the call goes on at pc.                                                 *)
Applies(c, r, pc) ==
  /\ db' = r.db
  /\ IF r.err = "ok" THEN Goes(c, pc) ELSE Answers(c, StatusOf(r.err))
(* The same for the last provider call, answered with s.                   *)
Finishes(c, r, s) ==
  /\ db' = r.db
  /\ Answers(c, IF r.err = "ok" THEN s ELSE StatusOf(r.err))

Writes == {"upsertTenant", "deleteTenant", "upsertPage", "deletePage", "setDomains",
           "putSecret", "deleteSecret", "replaceSecrets", "patchSecrets",
           "deploy", "activate"}
SecretOps == {"putSecret", "deleteSecret", "replaceSecrets", "patchSecrets"}

(* requireAdmin and the storage check answer 501 before anything is read.  *)
NotImplemented(q) ==
  \/ q.op \in Writes /\ "admin" \notin wired
  \/ q.op = "deploy" /\ "storage" \notin wired

(* The request arrives: 501, then 400 for a malformed id, name or body.    *)
Arrive(c, q) ==
  /\ ~Started(c)
  /\ call' = [call EXCEPT ![c] =
       CASE NotImplemented(q) -> [Start(q) EXCEPT !.pc = "done", !.status = "501"]
         [] ~NotImplemented(q) /\ ~q.valid -> [Start(q) EXCEPT !.pc = "done", !.status = "400"]
         [] OTHER             -> Start(q)]
  /\ UNCHANGED <<backend, wired, db, store>>

-----------------------------------------------------------------------------
(* Tenants and deletions: a single provider call each.                     *)
handleUpsertTenant(c) ==
  /\ At(c, "start") /\ call[c].q.op = "upsertTenant"
  /\ Finishes(c, UpsertTenant(backend, db, call[c].q.tenant), "200")
  /\ UNCHANGED <<backend, wired, store>>

handleDeleteTenant(c) ==
  /\ At(c, "start") /\ call[c].q.op = "deleteTenant"
  /\ Finishes(c, DeleteTenant(backend, db, call[c].q.tenant), "204")
  /\ UNCHANGED <<backend, wired, store>>

handleDeletePage(c) ==
  /\ At(c, "start") /\ call[c].q.op = "deletePage"
  /\ Finishes(c, DeletePage(backend, db, call[c].q.page), "204")
  /\ UNCHANGED <<backend, wired, store>>

(* GET of a page: the page that is there.                                  *)
handleGetPage(c) ==
  /\ At(c, "start") /\ call[c].q.op = "getPage"
  /\ Answers(c, IF GetPage(backend, db, call[c].q.page) = None THEN "404" ELSE "200")
  /\ UNCHANGED <<backend, wired, db, store>>

(* GET of a tenant's pages: the tenant first, then the listing.            *)
handleListTenantPages(c) ==
  /\ At(c, "start") /\ call[c].q.op = "listPages"
  /\ IF call[c].q.tenant \in db.tenants THEN Goes(c, "list") ELSE Answers(c, "404")
  /\ UNCHANGED <<backend, wired, db, store>>

writePages(c) ==
  /\ At(c, "list")
  /\ call' = [call EXCEPT ![c].pc = "done", ![c].status = "200",
                          ![c].todo = ListPages(backend, db, call[c].q.tenant)]
  /\ UNCHANGED <<backend, wired, db, store>>

-----------------------------------------------------------------------------
(* A page's own row *)

(* Mutant: secrets the request omits are dropped.                          *)
MergedForgets(q, old) ==
  [tenant  |-> q.tenant,
   active  |-> IF q.active = None /\ old # None THEN old.active ELSE q.active,
   secrets |-> IF q.secrets # None THEN q.secrets ELSE {},
   domains |-> {}]

(* Mutant: an omitted deployment id is stored as the empty string.         *)
MergedEmpty(q, old) ==
  [tenant  |-> q.tenant,
   active  |-> IF q.active = None THEN "" ELSE q.active,
   secrets |-> IF q.secrets # None THEN q.secrets ELSE IF old = None THEN {} ELSE old.secrets,
   domains |-> {}]

(* handleUpsertPage: what the request omits comes from the page as read,   *)
(* or is empty for a new one.  The domains it carries are UpsertPage's to  *)
(* ignore.                                                                 *)
Merged(q, old) ==
  [tenant  |-> q.tenant,
   active  |-> IF q.active = None /\ old # None THEN old.active ELSE q.active,
   secrets |-> IF q.secrets # None THEN q.secrets ELSE IF old = None THEN {} ELSE old.secrets,
   domains |-> IF q.domains # None THEN q.domains ELSE IF old = None THEN {} ELSE old.domains]

mergePage(c) ==
  /\ At(c, "start") /\ call[c].q.op = "upsertPage"
  /\ LET old == GetPage(backend, db, call[c].q.page)
     IN  call' = [call EXCEPT ![c].pc = "write", ![c].seen = old,
                              ![c].row = Merged(call[c].q, old)]
  /\ UNCHANGED <<backend, wired, db, store>>

(* The secrets routes: what each does with the secrets of the page.        *)
putSecret(q, s)      == s \cup q.secrets
deleteSecret(q, s)   == s \ q.drop
replaceSecrets(q, s) == q.secrets
patchSecrets(q, s)   == (s \ q.drop) \cup q.secrets

apply(q, s) ==
  CASE q.op = "putSecret"      -> putSecret(q, s)
    [] q.op = "deleteSecret"   -> deleteSecret(q, s)
    [] q.op = "replaceSecrets" -> replaceSecrets(q, s)
    [] q.op = "patchSecrets"   -> patchSecrets(q, s)

(* updateSecrets: read the page, change its secrets, write it all back.    *)
updateSecrets(c) ==
  /\ At(c, "start") /\ call[c].q.op \in SecretOps
  /\ LET old == GetPage(backend, db, call[c].q.page)
     IN  IF old = None THEN Answers(c, "404")
         ELSE call' = [call EXCEPT ![c].pc = "write", ![c].seen = old,
                         ![c].row = [old EXCEPT !.secrets = apply(call[c].q, @)]]
  /\ UNCHANGED <<backend, wired, db, store>>

(* The write of both; a page's POST may go on to its domains.              *)
writeRow(c) ==
  /\ At(c, "write")
  /\ LET q == call[c].q
         r == UpsertPage(backend, db, q.page, call[c].row)
     IN  IF q.op = "upsertPage" /\ q.domains = None THEN Finishes(c, r, "200")
         ELSE Applies(c, r, IF q.op = "upsertPage" THEN "domains" ELSE "render")
  /\ UNCHANGED <<backend, wired, store>>

(* handleSetCustomDomains: the page must be there, then the set.           *)
checkPage(c) ==
  /\ At(c, "start") /\ call[c].q.op = "setDomains"
  /\ IF GetPage(backend, db, call[c].q.page) = None THEN Answers(c, "404") ELSE Goes(c, "domains")
  /\ UNCHANGED <<backend, wired, db, store>>

setDomains(c) ==
  /\ At(c, "domains")
  /\ LET q == call[c].q
         r == SetCustomDomains(backend, db, q.page, q.domains)
     IN  IF q.op = "setDomains" THEN Applies(c, r, "render") ELSE Finishes(c, r, "200")
  /\ UNCHANGED <<backend, wired, store>>

(* writePage: the page is read again for the answer, and may be gone.      *)
writePage(c) ==
  /\ At(c, "render")
  /\ Answers(c, IF GetPage(backend, db, call[c].q.page) = None THEN "404" ELSE "200")
  /\ UNCHANGED <<backend, wired, db, store>>
-----------------------------------------------------------------------------
(* Deployments *)

(* handleCreateDeployment: the tenant is that of the page as read now.     *)
createDeployment(c) ==
  /\ At(c, "start") /\ call[c].q.op = "deploy"
  /\ LET old == GetPage(backend, db, call[c].q.page)
     IN  IF old = None THEN Answers(c, "404")
         ELSE call' = [call EXCEPT ![c].pc = "extract", ![c].tenant = old.tenant]
  /\ UNCHANGED <<backend, wired, db, store>>

(* The body is extracted, which takes as long as the client does, and      *)
(* scanned.  duru scans the directory it is given.                         *)
extractUpload(c) ==
  /\ At(c, "extract")
  /\ LET ex == Untar(call[c].q.archive)
         b  == Built(call[c].q.archive)
     IN  IF ex.err # "none" THEN Answers(c, ex.err)
         ELSE IF b.err # "none" THEN Answers(c, b.err)
         ELSE call' = [call EXCEPT ![c].pc = "manifest", ![c].build = b, ![c].todo = HashesOf(b)]
  /\ UNCHANGED <<backend, wired, db, store>>

KeyOf(c) == Key(call[c].tenant, call[c].q.page, call[c].q.dep)

(* bundle.Upload: the manifest first, whatever is there already.           *)
putManifest(c) ==
  /\ At(c, "manifest")
  /\ store' = Put(store, KeyOf(c), "manifest", call[c].build)
  /\ Goes(c, "statics")
  /\ UNCHANGED <<backend, wired, db>>

(* One static asset: its object is written unless the key holds one.  The  *)
(* content is the key's, so the check and the write need not be one step.  *)
putStatic(c) ==
  /\ At(c, "statics")
  /\ \E h \in call[c].todo :
       /\ store' = IF Has(store, KeyOf(c), h) THEN store ELSE Put(store, KeyOf(c), h, h)
       /\ call' = [call EXCEPT ![c].todo = @ \ {h}]
  /\ UNCHANGED <<backend, wired, db>>

(* worker.tar when there is a worker; duru goes on with the tenant.        *)
putWorker(c) ==
  /\ At(c, "statics") /\ call[c].todo = {}
  /\ store' = IF HasWorker(call[c].build)
              THEN Put(store, KeyOf(c), "worker", call[c].build) ELSE store
  /\ Goes(c, IF call[c].q.op = "direct" THEN "ensureTenant" ELSE "record")
  /\ UNCHANGED <<backend, wired, db>>

record(c) ==
  /\ At(c, "record")
  /\ LET q == call[c].q
         r == CreateDeployment(backend, db, q.page, q.dep)
     IN  IF q.act THEN Applies(c, r, "activate") ELSE Finishes(c, r, "201")
  /\ UNCHANGED <<backend, wired, store>>

activate(c) ==
  /\ At(c, "activate")
  /\ LET q == call[c].q
         r == SetActiveDeployment(backend, db, q.page, q.dep)
     IN  CASE q.op = "deploy"   -> Finishes(c, r, "201")
           [] q.op = "activate" -> Applies(c, r, "render")
           [] q.op = "direct"   -> IF q.domains = None THEN Finishes(c, r, "201")
                                   ELSE Applies(c, r, "domains")
  /\ UNCHANGED <<backend, wired, store>>

(* handleActivateDeployment: the page, then its deployments, then the set. *)
checkActivation(c) ==
  /\ At(c, "start") /\ call[c].q.op = "activate"
  /\ IF GetPage(backend, db, call[c].q.page) = None THEN Answers(c, "404") ELSE Goes(c, "find")
  /\ UNCHANGED <<backend, wired, db, store>>

(* Mutant: any deployment id is accepted.                                  *)
findAny(c) ==
  /\ At(c, "find") /\ Goes(c, "activate") /\ UNCHANGED <<backend, wired, db, store>>

findDeployment(c) ==
  /\ At(c, "find")
  /\ IF call[c].q.dep \in ListDeployments(backend, db, call[c].q.page)
     THEN Goes(c, "activate") ELSE Answers(c, "404")
  /\ UNCHANGED <<backend, wired, db, store>>

-----------------------------------------------------------------------------
(* duru deploy in direct mode, always on PostgreSQL: the objects go under  *)
(* the tenant of the command line, before anything is read.                *)
deployDirect(c) ==
  /\ At(c, "start") /\ call[c].q.op = "direct" /\ backend = "postgres"
  /\ call' = [call EXCEPT ![c].pc = "extract", ![c].tenant = call[c].q.tenant]
  /\ UNCHANGED <<backend, wired, db, store>>

(* A tenant, then a page, is created when the read before found none.      *)
ensureTenant(c) ==
  /\ At(c, "ensureTenant")
  /\ Goes(c, IF call[c].q.tenant \in db.tenants THEN "ensurePage" ELSE "addTenant")
  /\ UNCHANGED <<backend, wired, db, store>>

addTenant(c) ==
  /\ At(c, "addTenant")
  /\ Applies(c, UpsertTenant(backend, db, call[c].q.tenant), "ensurePage")
  /\ UNCHANGED <<backend, wired, store>>

ensurePage(c) ==
  /\ At(c, "ensurePage")
  /\ Goes(c, IF GetPage(backend, db, call[c].q.page) = None THEN "addPage" ELSE "secrets")
  /\ UNCHANGED <<backend, wired, db, store>>

addPage(c) ==
  /\ At(c, "addPage")
  /\ Applies(c, UpsertPage(backend, db, call[c].q.page,
                           [tenant |-> call[c].q.tenant, active |-> None,
                            secrets |-> {}, domains |-> {}]), "secrets")
  /\ UNCHANGED <<backend, wired, store>>

(* The secrets are replaced in the page that is read here.                 *)
readSecrets(c) ==
  /\ At(c, "secrets")
  /\ LET q   == call[c].q
         old == GetPage(backend, db, q.page)
     IN  IF q.secrets = None THEN Goes(c, "record")
         ELSE IF old = None THEN Answers(c, "404")
         ELSE call' = [call EXCEPT ![c].pc = "writeSecrets", ![c].seen = old,
                                   ![c].row = [old EXCEPT !.secrets = q.secrets]]
  /\ UNCHANGED <<backend, wired, db, store>>

writeSecrets(c) ==
  /\ At(c, "writeSecrets")
  /\ Applies(c, UpsertPage(backend, db, call[c].q.page, call[c].row), "record")
  /\ UNCHANGED <<backend, wired, store>>

-----------------------------------------------------------------------------
(* Faults *)

ProviderSteps == {"list", "write", "domains", "render", "record", "activate", "find",
                  "ensureTenant", "addTenant", "ensurePage", "addPage", "writeSecrets"}
StorageSteps  == {"manifest", "statics"}

(* A provider or storage call fails, or the client has gone and with it    *)
(* the context of the request: the handler answers 500 and undoes nothing. *)
ProviderFails(c) ==
  /\ "provider" \in Env
  /\ call[c].pc \in ProviderSteps \/ (call[c].pc = "start" /\ call[c].q.op # "direct")
  /\ Answers(c, "500") /\ UNCHANGED <<backend, wired, db, store>>

StorageFails(c) ==
  /\ "storage" \in Env /\ call[c].pc \in StorageSteps
  /\ Answers(c, "500") /\ UNCHANGED <<backend, wired, db, store>>

(* The controller and duru die with the calls they were serving; database  *)
(* and storage stay.  (The in-memory provider is for tests.)               *)
Crash ==
  /\ "crash" \in Env /\ backend = "postgres"
  /\ \E c \in Calls : call[c].pc \notin {"idle", "done"}
  /\ call' = [c \in Calls |-> IF call[c].pc \in {"idle", "done"} THEN call[c]
                              ELSE [call[c] EXCEPT !.pc = "done", !.status = "lost"]]
  /\ UNCHANGED <<backend, wired, db, store>>

Step(c) ==
  \/ \E q \in Menu[c] : Arrive(c, q)
  \/ handleUpsertTenant(c) \/ handleDeleteTenant(c) \/ handleDeletePage(c)
  \/ handleGetPage(c) \/ handleListTenantPages(c) \/ writePages(c)
  \/ mergePage(c) \/ updateSecrets(c) \/ writeRow(c)
  \/ checkPage(c) \/ setDomains(c) \/ writePage(c)
  \/ createDeployment(c) \/ extractUpload(c)
  \/ putManifest(c) \/ putStatic(c) \/ putWorker(c)
  \/ record(c) \/ activate(c) \/ checkActivation(c) \/ findDeployment(c)
  \/ deployDirect(c) \/ ensureTenant(c) \/ addTenant(c) \/ ensurePage(c) \/ addPage(c)
  \/ readSecrets(c) \/ writeSecrets(c)
  \/ ProviderFails(c) \/ StorageFails(c)

Next == (\E c \in Calls : Step(c)) \/ Crash

Spec == Init /\ [][Next]_vars

-----------------------------------------------------------------------------
(* Properties *)

(* The calls that have begun to write the objects of dep on page p.        *)
Uploads(p, dep) ==
  {c \in Calls : Started(c) /\ call[c].build # None
                   /\ call[c].q.page = p /\ call[c].q.dep = dep}

(* Two different builds were given one deployment id.                      *)
Reused(p, dep) ==
  Cardinality({call[c].build : c \in Uploads(p, dep)} \cup
              (IF p = SeedPage /\ dep = Seed THEN {SeedBuild} ELSE {})) > 1

(* A whole build is in storage under k.                                    *)
Complete(k) == \E o \in store : o.key = k /\ o.name = "manifest" /\ Objects(k, o.body) \subseteq store

(***************************************************************************)
(* A deployment is recorded only once all its objects are in storage, the  *)
(* manifest, every static asset and the worker bundle of one build, and it *)
(* stays whole: whatever upload fails, is retried under the same id, or    *)
(* dies half way.  Giving one id to two different builds breaks this:      *)
(* nothing checks the id before the first object is overwritten.           *)
(***************************************************************************)
RecordedIsWhole ==
  \A r \in db.deps : ~Reused(r[1], r[2]) => \E t \in Tenants : Complete(Key(t, r[1], r[2]))

(* The requests that give page p a tenant disagree with each other or with *)
(* the page, or one of them names the active deployment itself.            *)
Overridden(p) ==
  LET naming == {c \in Calls : Started(c) /\ call[c].q.page = p
                                 /\ call[c].q.op \in {"upsertPage", "direct"}}
  IN  \/ Cardinality({call[c].q.tenant : c \in naming} \cup
                     (IF p = SeedPage THEN {SeedTenant} ELSE {})) > 1
      \/ \E c \in naming : call[c].q.active # None

(***************************************************************************)
(* What a page serves can be served: the active deployment of a page is    *)
(* whole under the keys of the page's tenant, which is where the router    *)
(* and the hub look.  This holds through activations, concurrent uploads,  *)
(* stale writes of the whole row by the secrets routes, and deletion and   *)
(* recreation of the page, and not when a request overrides the tenant or  *)
(* the active deployment, which the handlers do not check.                 *)
(***************************************************************************)
ActiveIsServable ==
  \A p \in Pages :
    LET row == db.pages[p]
    IN  row # None /\ row.active # None /\ ~Reused(p, row.active) /\ ~Overridden(p)
          => Complete(Key(row.tenant, p, row.active))

(* Nothing that is recorded or active lacks an object, whatever the        *)
(* handlers, the command and their failures do to each other.              *)
ServedIsWhole == RecordedIsWhole /\ ActiveIsServable

(***************************************************************************)
(* Every reference of the database leads somewhere, in both providers: a   *)
(* deployment row belongs to an existing page, a host resolves only to an  *)
(* existing page that it names or that lists it as a custom domain, and    *)
(* PostgreSQL's pages belong to existing tenants.                          *)
(***************************************************************************)
ReferencesHold ==
  /\ \A r \in db.deps : db.pages[r[1]] # None
  /\ \A h \in Hosts :
       /\ db.byDomain[h] # None => db.pages[db.byDomain[h]] # None
       /\ LET p == ResolvePage(backend, db, h)
          IN  p # None => LabelOf[h] = p \/ h \in GetPage(backend, db, p).domains
  /\ backend = "postgres" =>
       \A p \in Pages : db.pages[p] # None => db.pages[p].tenant \in db.tenants

(***************************************************************************)
(* A write of a page that nobody changed since it was read changes only    *)
(* what its request names: POST keeps the secrets and the active           *)
(* deployment it omits, a secrets route keeps everything but the secrets   *)
(* it names, and no write of the row touches the domains.                  *)
(***************************************************************************)
UndisturbedWriteIsLocal ==
  [][\A c \in Calls :
       LET q   == call[c].q
           old == GetPage(backend, db, q.page)
           new == GetPage(backend, db', q.page)
       IN  /\ call[c].pc = "write" /\ call'[c] # call[c]
           /\ call[c].seen = old /\ old # None /\ db' # db
           => /\ new.domains = old.domains
              /\ q.op # "upsertPage" \/ q.active = None => new.active = old.active
              /\ q.op # "upsertPage" => new.tenant = old.tenant
              /\ q.secrets = None => new.secrets \subseteq old.secrets
              /\ q.op # "replaceSecrets" /\ (q.op = "upsertPage" => q.secrets = None)
                   => old.secrets \ q.drop \subseteq new.secrets]_vars

(***************************************************************************)
(* The in-memory provider that the tests run against does what PostgreSQL  *)
(* does, for every operation in every state both can be in, outside the    *)
(* named differences: a tenant that does not exist, an id that is taken, a *)
(* page that is gone, a domain taken over from another page or bound under *)
(* the pages domain.                                                       *)
(***************************************************************************)
View(b, d) ==
  [tenants |-> d.tenants, deps |-> d.deps, pages |-> [p \in Pages |-> GetPage(b, d, p)],
   hosts |-> [h \in Hosts |-> ResolvePage(b, d, h)]]
Same(m, g) == m.err = g.err /\ View("mem", m.db) = View("postgres", g.db)

Comparable == backend = "mem" /\ View("mem", db) = View("postgres", db)

ProvidersAgree ==
  Comparable =>
    /\ \A t \in Tenants : /\ Same(memUpsertTenant(db, t), pgUpsertTenant(db, t))
                          /\ Same(memDeleteTenant(db, t), pgDeleteTenant(db, t))
                          /\ memListPages(db, t) = pgListPages(db, t)
    /\ \A p \in Pages :
         /\ Same(memDeletePage(db, p), pgDeletePage(db, p))
         /\ \A t \in db.tenants, s \in SUBSET Secrets :
              LET row == [tenant |-> t, active |-> None, secrets |-> s, domains |-> {}]
              IN  Same(memUpsertPage(db, p, row), pgUpsertPage(db, p, row))
         /\ \A hs \in SUBSET {h \in Hosts : db.byDomain[h] \in {p, None} /\ LabelOf[h] = None} :
              Live(db, p) => Same(memSetCustomDomains(db, p, hs), pgSetCustomDomains(db, p, hs))
         /\ \A dep \in Deps :
              /\ Live(db, p) /\ (\A r \in db.deps : r[2] # dep) =>
                   Same(memCreateDeployment(db, p, dep), pgCreateDeployment(db, p, dep))
              /\ Same(memSetActiveDeployment(db, p, dep), pgSetActiveDeployment(db, p, dep))

(* The database is consistent in itself, and the two providers answer      *)
(* every operation on it alike.                                            *)
ProvidersSound == ReferencesHold /\ ProvidersAgree

(* A call carries its request once it has started, and a row or a tenant   *)
(* once it has read one.                                                   *)
PCs == ProviderSteps \cup StorageSteps \cup {"idle", "start", "extract", "secrets", "done"}
TypeOK ==
  /\ backend \in Backends /\ wired \in WiredSets
  /\ db \in DB
  /\ \A o \in store : /\ o.key \in Tenants \X Pages \X Deps
                       /\ o = Object(o.key, o.name, o.body)
  /\ \A c \in Calls :
       /\ call[c].pc \in PCs /\ (Started(c) => call[c].q \in Menu[c])
       /\ call[c].seen \in Row \cup {None} /\ call[c].row \in Row \cup {None}
       /\ call[c].tenant \in Tenants \cup {None}
=============================================================================
