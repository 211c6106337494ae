---------------------------- MODULE AlbumMirror ----------------------------
(***************************************************************************)
(* The mirror of one Immich album (sync/albums.py, store/albums.py): a     *)
(* chain of Google albums, because Google takes only so many items each.   *)
(* Albums share nothing, so one is enough.                                 *)
(*                                                                         *)
(* A pass runs on the loop thread: it reads the members, pushes those that *)
(* are new and have a media key in batches, records each batch in the      *)
(* chain and then marks its members, one statement at a time.  It can      *)
(* break off between any two of these, and what Google did stays done.     *)
(*                                                                         *)
(* An asset stands for its media key too.  The place of a Google album in  *)
(* google is its id, the place of a mapping in chain its key (the album's  *)
(* own id, then #2, #3 and so on), and an asset is in a Google album once  *)
(* however often it is added.                                              *)
(***************************************************************************)
EXTENDS Integers, Sequences, FiniteSets

CONSTANTS
    Asset,        \* the immich ids
    AlbumLimit,   \* GOOGLE_ALBUM_LIMIT
    BatchSize,    \* ALBUM_BATCH
    MaxAlbums,    \* bound: how many Google albums can come to be
    Budget        \* bound: how often a pass may break off

ASSUME MirrorAssumption ==
    /\ IsFiniteSet(Asset)
    /\ BatchSize \in Nat \ {0} /\ AlbumLimit \in Nat /\ BatchSize <= AlbumLimit
    /\ MaxAlbums \in Nat /\ Budget \in Nat

VARIABLES
    members,   \* Immich: what is in the album
    keyed,     \* the assets whose row has a media key
    google,    \* the Google albums this mirror made
    chain,     \* album_map: for each mapping its gp_album_id and item_count
    added,     \* album_member: the assets marked as added
    step,      \* where the pass is
    pending,   \* what sync_once still has to push
    batch,     \* what is being pushed, then what of it is still to be marked
    size,      \* how many that were
    left       \* bound: the failures still allowed

outside == <<members, keyed>>
job     == <<step, pending, batch, size>>
vars == <<outside, google, chain, added, job, left>>

Init ==
    /\ members = {} /\ keyed = {}
    /\ google = <<>> /\ chain = <<>> /\ added = {}
    /\ step = "idle" /\ pending = {} /\ batch = {} /\ size = 0
    /\ left = Budget

-----------------------------------------------------------------------------
(* Around the mirror. *)

Place(a) ==
    /\ a \notin members /\ members' = members \cup {a}
    /\ UNCHANGED <<keyed, google, chain, added, job, left>>

Remove(a) ==
    /\ a \in members /\ members' = members \ {a}
    /\ UNCHANGED <<keyed, google, chain, added, job, left>>

\* A worker marks the asset synced; its row keeps the key from then on.
GetKey(a) ==
    /\ a \notin keyed /\ keyed' = keyed \cup {a}
    /\ UNCHANGED <<members, google, chain, added, job, left>>

-----------------------------------------------------------------------------
(* The pass. *)

\* _pending_media_keys
PendingMediaKeys == (members \cap keyed) \ added

SyncOnce ==
    /\ step = "idle" /\ PendingMediaKeys # {}
    /\ pending' = PendingMediaKeys /\ step' = "push"
    /\ UNCHANGED <<outside, google, chain, added, batch, size, left>>

Last == chain[Len(chain)]

\* Slip: room for one is room for all.
RoomForOne(adding) == chain # <<>> /\ Last.count < AlbumLimit

\* _target: the last album of the chain, if there is one and the batch fits.
HasRoom(adding) == chain # <<>> /\ Last.count + adding <= AlbumLimit

\* Slip: everything in one batch.
OneBatch == {pending}

\* Immich lists the members in an order of its own, so a batch is any of them.
Batches ==
    {S \in SUBSET pending :
        Cardinality(S) = IF Cardinality(pending) < BatchSize
                         THEN Cardinality(pending) ELSE BatchSize}

AddToAlbum ==
    /\ step = "push"
    /\ \E S \in Batches :
          /\ HasRoom(Cardinality(S))
          /\ google' = [google EXCEPT ![Last.album] = @ \cup S]
          /\ batch' = S /\ size' = Cardinality(S) /\ pending' = pending \ S
    /\ step' = "bump"
    /\ UNCHANGED <<outside, chain, added, left>>

CreateAlbum ==
    /\ step = "push" /\ Len(google) < MaxAlbums
    /\ \E S \in Batches :
          /\ ~HasRoom(Cardinality(S))
          /\ google' = Append(google, S)
          /\ batch' = S /\ size' = Cardinality(S) /\ pending' = pending \ S
    /\ step' = "put"
    /\ UNCHANGED <<outside, chain, added, left>>

\* Slip: an overflow album is recorded under the album's own key.
PutUnderOwnKey ==
    /\ step = "put"
    /\ chain' = IF chain = <<>> THEN <<[album |-> Len(google), count |-> size]>>
                ELSE [chain EXCEPT ![1].album = Len(google)]
    /\ step' = "mark"
    /\ UNCHANGED <<outside, google, added, pending, batch, size, left>>

\* put, under the key that continues the chain.
Put ==
    /\ step = "put"
    /\ chain' = Append(chain, [album |-> Len(google), count |-> size])
    /\ step' = "mark"
    /\ UNCHANGED <<outside, google, added, pending, batch, size, left>>

Bump ==
    /\ step = "bump"
    /\ chain' = [chain EXCEPT ![Len(chain)].count = @ + size]
    /\ step' = "mark"
    /\ UNCHANGED <<outside, google, added, pending, batch, size, left>>

Proceed(rest) ==
    /\ batch' = rest
    /\ IF rest # {} THEN UNCHANGED <<step, size>>
       ELSE /\ size' = 0
            /\ step' = IF pending = {} THEN "idle" ELSE "push"

\* Slip: members are marked under the key of the overflow album they went to.
MarkAddedUnderTarget(a) ==
    /\ step = "mark" /\ a \in batch
    /\ added' = IF Len(chain) = 1 THEN added \cup {a} ELSE added
    /\ Proceed(batch \ {a})
    /\ UNCHANGED <<outside, google, chain, pending, left>>

MarkAdded(a) ==
    /\ step = "mark" /\ a \in batch
    /\ added' = added \cup {a}
    /\ Proceed(batch \ {a})
    /\ UNCHANGED <<outside, google, chain, pending, left>>

\* Google, Immich or the database fails, or the process dies.  After AddToAlbum or
\* CreateAlbum this is also a call that took effect although it failed.
BreakOff ==
    /\ step # "idle" /\ left > 0
    /\ left' = left - 1
    /\ step' = "idle" /\ pending' = {} /\ batch' = {} /\ size' = 0
    /\ UNCHANGED <<outside, google, chain, added>>

MirrorStep ==
    \/ SyncOnce \/ AddToAlbum \/ CreateAlbum \/ Put \/ Bump \/ BreakOff
    \/ \E a \in batch : MarkAdded(a)

Next ==
    \/ \E a \in Asset : Place(a) \/ Remove(a) \/ GetKey(a)
    \/ MirrorStep

Spec == Init /\ [][Next]_vars

\* The loop thread comes back to the mirror on every reconciling pass.
FairSpec == Spec /\ WF_vars(MirrorStep)
-----------------------------------------------------------------------------
(* Properties. *)

TypeOK ==
    /\ members \subseteq Asset /\ keyed \subseteq Asset /\ added \subseteq Asset
    /\ google \in Seq(SUBSET Asset) /\ Len(google) <= MaxAlbums
    /\ chain \in Seq([album : DOMAIN google, count : Nat])
    /\ step \in {"idle", "push", "put", "bump", "mark"}
    /\ pending \subseteq Asset /\ batch \subseteq Asset
    /\ size \in 0 .. BatchSize
    /\ left \in 0 .. Budget

InChain == {chain[i].album : i \in DOMAIN chain}

\* A member marked as added is in an album the chain knows, whatever broke off.
AddedIsThere == \A a \in added : \E g \in InChain : a \in google[g]

\* A pass that breaks off costs at most one album nobody will ever add to again.
AlbumsLostToFailures ==
    Cardinality(DOMAIN google \ InChain)
        <= Budget - left + IF step = "put" THEN 1 ELSE 0

\* Until a pass breaks off the mirror is exact: no asset is in two albums, none of
\* the albums is over the limit, and the counts are Google's.
UndisturbedIsExact ==
    left = Budget =>
        /\ \A g, h \in DOMAIN google : g # h => google[g] \cap google[h] = {}
        /\ \A g \in DOMAIN google : Cardinality(google[g]) <= AlbumLimit
        /\ step \notin {"put", "bump"} =>
              \A i \in DOMAIN chain : chain[i].count = Cardinality(google[chain[i].album])

\* No Google album is ever asked to hold more than it can.
WithinLimit == \A g \in DOMAIN google : Cardinality(google[g]) <= AlbumLimit

\* A member with a media key is mirrored in the end, unless it is taken out first.
MembersAreMirrored ==
    \A a \in Asset : a \in members \cap keyed ~> a \in added \/ a \notin members
=============================================================================
