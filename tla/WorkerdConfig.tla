---------------------------- MODULE WorkerdConfig ----------------------------
(***************************************************************************)
(* The configuration workerd is started with: generateConfig for a load    *)
(* set and the entry worker that finds a page's service in it.  The text   *)
(* is a record of services; a service or binding name that ends in the     *)
(* index of its page is a pair.  Module names come in lexical order from   *)
(* ModuleNames, so that sorting is filtering.                              *)
(***************************************************************************)
EXTENDS SeqOps

CONSTANTS
  LoadSets,      \* the load sets: sequences of pages
  ModuleNames,   \* sequence of [stem, ext]: the module names, in lexical order
  IndexJs,       \* index.js among them
  Unreadable,    \* as the modules of a page: its worker directory cannot be walked
  DefaultCompatDate,
  NoConfig, BadBundle

(* No name twice.  The pages of a load set are the keys of the shim's map, *)
(* and "unloaded" stands for a page that is not among them.                *)
ASSUME ConfigAssumption ==
  /\ ModuleNames \in Seq(RangeOf(ModuleNames))
  /\ \A m, n \in DOMAIN ModuleNames : ModuleNames[m] = ModuleNames[n] => m = n
  /\ \A spec \in LoadSets :
       /\ \A i \in DOMAIN spec :
            /\ spec[i].page # "unloaded"
            /\ spec[i].modules \in {Unreadable} \cup SUBSET RangeOf(ModuleNames)
       /\ \A i, j \in DOMAIN spec : spec[i].page = spec[j].page => i = j

VARIABLES
  loadSet,
  config         \* NoConfig, then BadBundle or the configuration
configVars == <<loadSet, config>>

moduleKindFor(m) ==
  CASE m.ext \in {"js", "mjs", "cjs"} -> "esModule"
    [] m.ext = "wasm" -> "wasmModule"
    [] m.ext = "txt" -> "text"
    [] OTHER -> "data"

(* The files under worker/, index.js first: the first module is the entry. *)
discoverModules(found, i) ==
  LET inOrder(S) == Without(ModuleNames, RangeOf(ModuleNames) \ S)
      all == inOrder(found \cap {IndexJs}) \o inOrder(found \ {IndexJs})
  IN [n \in DOMAIN all |->
        [name |-> all[n], embed |-> <<"page", i, all[n]>>, kind |-> moduleKindFor(all[n])]]

(* Env and Secret; a secret wins.                                          *)
mergedBindings(p) ==
  [k \in DOMAIN p.env \cup DOMAIN p.secret |->
     IF k \in DOMAIN p.secret THEN p.secret[k] ELSE p.env[k]]

compatDate(p) == IF p.date = "" THEN DefaultCompatDate ELSE p.date

PageService(p, i) ==
  [modules |-> discoverModules(p.modules, i), compatDate |-> compatDate(p),
   compatFlags |-> p.flags, text |-> mergedBindings(p), assets |-> <<"assets", i>>,
   tails |-> {"tailworker"}]
AssetsService(p) == [address |-> "assetsEndpoint", page |-> p.page]

(* A page whose modules cannot be had fails the whole load set.            *)
Loadable(spec) == \A i \in DOMAIN spec : spec[i].modules \notin {Unreadable, {}}

\* Mutant of Routes: the services are numbered from the back.
RoutesReversed(spec) ==
  [page \in {spec[i].page : i \in DOMAIN spec} |->
     <<"svc", Len(spec) + 1 - CHOOSE i \in DOMAIN spec : spec[i].page = page>>]

Routes(spec) ==
  [page \in {spec[i].page : i \in DOMAIN spec} |->
     <<"svc", CHOOSE i \in DOMAIN spec : spec[i].page = page>>]

generateConfig(spec) ==
  IF ~Loadable(spec) THEN BadBundle
  ELSE [entry |-> [routes |-> Routes(spec),
                   services |-> [s \in {<<"svc", i>> : i \in DOMAIN spec} |-> <<"page", s[2]>>]],
        tailworker |-> [endpoint |-> "tailEndpoint", globalOutbound |-> "tail_out"],
        tail_out |-> [address |-> "tailEndpoint"],
        pages |-> [s \in {<<"page", i>> : i \in DOMAIN spec} |-> PageService(spec[s[2]], s[2])],
        assets |-> [s \in {<<"assets", i>> : i \in DOMAIN spec} |-> AssetsService(spec[s[2]])],
        socket |-> "entry"]

(* The links page_<i> that the embed paths go through.                     *)
Linked(spec, m) == [bundle |-> spec[m.embed[2]].page, file |-> m.embed[3]]

(* entry.js: the service of the page the header names, or 404.             *)
EntryFetch(cfg, page) ==
  LET routes == cfg.entry.routes
  IN IF page \notin DOMAIN routes THEN "404"
     ELSE cfg.pages[cfg.entry.services[routes[page]]]

ConfigInit == loadSet \in LoadSets /\ config = NoConfig
Generate == config = NoConfig /\ config' = generateConfig(loadSet) /\ UNCHANGED loadSet
ConfigNext == Generate
ConfigSpec == ConfigInit /\ [][ConfigNext]_configVars

(* Whatever else is loaded, a request for a page runs that page's files,   *)
(* index.js first, with that page's bindings, its secrets not hidden by    *)
(* its environment, and its ASSETS ask for its own page; its traces reach  *)
(* the shim, and a page that is not loaded is not found.                   *)
PageSeesItsOwn ==
  config \notin {NoConfig, BadBundle} =>
    /\ EntryFetch(config, "unloaded") = "404"
    /\ \A i \in DOMAIN loadSet :
         LET p == loadSet[i]
             s == EntryFetch(config, p.page)
         IN /\ {Linked(loadSet, s.modules[n]) : n \in DOMAIN s.modules} =
                 {[bundle |-> p.page, file |-> m] : m \in p.modules}
            /\ IndexJs \in p.modules => s.modules[1].name = IndexJs
            /\ DOMAIN s.text = DOMAIN p.env \cup DOMAIN p.secret
            /\ \A k \in DOMAIN p.secret : s.text[k] = p.secret[k]
            /\ \A k \in DOMAIN p.env \ DOMAIN p.secret : s.text[k] = p.env[k]
            /\ config.assets[s.assets].page = p.page
            /\ \A t \in s.tails : config[config[t].globalOutbound].address = "tailEndpoint"
=============================================================================
