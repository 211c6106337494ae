---------------------------- MODULE MCSyncEngine ----------------------------
(* Small instances of SyncEngine for TLC. *)
EXTENDS SyncEngine, TLC

CONSTANTS a1, a2, c1, c2, t1, t2

\* Two assets of different content.
DistinctContent == a1 :> c1 @@ a2 :> c2

AllReports  == [priority : Priority, barred : BOOLEAN]
\* Every source, one of them bringing what bars an asset.
MixedReports == {[priority |-> Webhook, barred |-> FALSE],
                 [priority |-> Reconcile, barred |-> TRUE],
                 [priority |-> Backfill, barred |-> FALSE]}
OnlyBackfill == {[priority |-> Backfill, barred |-> FALSE]}

OneTick == {1}
NoDelay == {}

\* Threads are alike; so are two assets swapped together with their contents,
\* where these are distinct.
Threads  == Permutations({t1, t2})
Swap     == a1 :> a2 @@ a2 :> a1 @@ c1 :> c2 @@ c2 :> c1
Symmetry == Threads \cup {Swap @@ p : p \in Threads}
=============================================================================
