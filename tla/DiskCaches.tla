----------------------------- MODULE DiskCaches -----------------------------
(***************************************************************************)
(* The two disk caches of the data plane side by side: the router's cache  *)
(* of static files and the hub's cache of bundles.  They share no state.   *)
(***************************************************************************)
EXTENDS StaticCache, HubCache

(* A file that was handed out is not pulled away by the eviction of the    *)
(* caller's own insertion: not in the static cache (Put), not in the hub   *)
(* (serveCached).                                                          *)
HandedOutIsThere == PutPathLive /\ EvictionNeverRefuses
=============================================================================
