----------------------------- MODULE Discovery -----------------------------
(***************************************************************************)
(* How an account learns of Immich's assets: the webhook, which may be     *)
(* lost or late, the reconciler (sync/reconciler.py), which re-reads what  *)
(* changed since its cursor, and the backfill (sync/backfill.py), which    *)
(* walks the whole library one page at a time.                             *)
(*                                                                         *)
(* Immich stamps an asset with the time of its last change.  A change may  *)
(* show up a little later than its stamp says, and a webhook carries the   *)
(* asset as it was when it was created.  Search results are pages of a     *)
(* result that is computed afresh for each request, in an order of the     *)
(* assets that does not change.  Nothing tells the program how far that    *)
(* result moved between two requests: it grows with every new asset, and   *)
(* it shrinks when an asset is trashed or deleted for good.                *)
(*                                                                         *)
(* A row is reduced to the stamp it was last refreshed with.  Times count  *)
(* from 1; 0 is "never".                                                   *)
(***************************************************************************)
EXTENDS Integers, FiniteSets

CONSTANTS
    Asset,            \* the immich ids, numbered in the order of search results
    PageSize,         \* settings.reconcile_page_size
    Overlap,          \* settings.reconcile_overlap
    DeletionsEnabled, \* settings.deletions_enabled
    TrashingAllowed,  \* whether users trash and restore assets meanwhile
    Deletable,        \* the assets they may delete for good (a bound if not all)
    MaxSkew,          \* how much later than its stamp a change may show up
    MaxDelay,         \* how late a webhook may arrive
    MaxTime,          \* bound: the clock stops there
    Budget            \* bound: how often a pass or a slice may break off

ASSUME DiscoveryAssumption ==
    /\ Asset \subseteq Nat /\ IsFiniteSet(Asset)
    /\ PageSize \in Nat \ {0}
    /\ Overlap \in Nat /\ MaxSkew \in Nat /\ MaxDelay \in Nat
    /\ DeletionsEnabled \in BOOLEAN
    /\ TrashingAllowed \in BOOLEAN /\ Deletable \subseteq Asset
    /\ MaxTime \in Nat \ {0} /\ Budget \in Nat

\* Five minutes of overlap are there to be more than the two together.
ASSUME OverlapIsEnough == MaxSkew + MaxDelay < Overlap

VARIABLES
    now,      \* the clock
    stamp,    \* Immich: when each asset last changed, 0 before it exists
    trash,    \* Immich: the assets in its trash
    gone,     \* Immich: the assets deleted for good; an id is never used again
    hooks,    \* the webhooks on their way
    row,      \* the stamp each asset's row was refreshed with, 0 without a row
    cursor,   \* CursorRepo "reconcile", 0 if unset
    origin,   \* history: the cursor's first value
    walkAt,   \* CursorRepo "backfill": the next page, 0 if unset
    toWalk,   \* history: what the walk owes a row to
    job,      \* what the loop thread is doing
    started,  \* run_once's started
    page,     \* the page being read
    fetched,  \* the assets of it that still have to be upserted
    more,     \* whether the answer named a next page
    slipped,  \* history: the assets that moved to a page already read
    left      \* bound: the failures still allowed

immich   == <<stamp, trash, gone, hooks>>
walk     == <<walkAt, toWalk>>
reading  == <<job, started, page, fetched, more>>
vars == <<now, immich, row, cursor, origin, walk, reading, slipped, left>>

Live == {a \in Asset : stamp[a] # 0} \ (trash \cup gone)
Jobs == {"idle", "ask", "store"}
Snapshot == [asset : Asset, stamp : 1 .. MaxTime]

Init ==
    /\ now = 1
    /\ stamp \in [Asset -> 0 .. 1] /\ trash = {} /\ gone = {} /\ hooks = {}
    /\ row = [a \in Asset |-> 0]
    /\ cursor = 0 /\ origin = 0
    /\ walkAt = 0 /\ toWalk = {}
    /\ job = [kind |-> "none", at |-> "idle"]
    /\ started = 0 /\ page = 1 /\ fetched = {} /\ more = FALSE /\ slipped = {}
    /\ left = Budget

-----------------------------------------------------------------------------
(* Search. *)

\* What a search finds: a reconciling pass asks for changes after updated_after
\* and, with deletions on, for the trash as well; the backfill for all but the trash.
UpdatedAfter == cursor - Overlap
Matches(kind) ==
    {a \in Asset : /\ stamp[a] # 0 /\ a \notin gone
                   /\ a \in trash => kind = "reconcile" /\ DeletionsEnabled
                   /\ kind = "reconcile" => stamp[a] > UpdatedAfter}

PageOf(a, found) == 1 + Cardinality({b \in found : b < a}) \div PageSize

\* Slip: a last page that is full announces one more.
HasMoreLate(found, p) == Cardinality(found) >= p * PageSize

HasMore(found, p) == Cardinality(found) > p * PageSize

\* When a leaves the result of a pass under way the later assets move up.  These move
\* from a page still to be asked for to one that has been, with a change that is not
\* stored yet and that the next pass is not to look for.
PagesRead == IF job.at = "ask" THEN page - 1 ELSE page
SlipsPast(a) ==
    LET found == Matches("reconcile") IN
    {b \in found \ {a} : /\ job.kind = "reconcile"
                         /\ row[b] # stamp[b] /\ stamp[b] <= started - Overlap
                         /\ PageOf(b, found) > PagesRead
                         /\ PageOf(b, found \ {a}) <= PagesRead}

-----------------------------------------------------------------------------
(* The loop thread.  job.kind is whose pages it reads, job.at the step it is at. *)

At(kind, step) == job = [kind |-> kind, at |-> step]
Go(kind, step) == job' = [kind |-> kind, at |-> step]
Idle == job.kind = "none"
EndJob ==
    /\ Go("none", "idle")
    /\ started' = 0 /\ page' = 1 /\ fetched' = {} /\ more' = FALSE

\* run_once without a cursor only plants one: the past is the backfill's.
PlantCursor ==
    /\ Idle /\ cursor = 0
    /\ cursor' = now /\ origin' = now
    /\ UNCHANGED <<now, immich, row, walk, reading, slipped, left>>

BeginPass ==
    /\ Idle /\ cursor # 0
    /\ Go("reconcile", "ask") /\ started' = now /\ page' = 1
    /\ UNCHANGED <<now, immich, row, cursor, origin, walk, fetched, more, slipped, left>>

\* iterate runs a slice when the cursor is set; run_slice reads it again.
BeginSlice ==
    /\ Idle /\ walkAt # 0
    /\ Go("backfill", "ask") /\ page' = walkAt
    /\ UNCHANGED <<now, immich, row, cursor, origin, walk, started, fetched, more, slipped, left>>

AskPage ==
    /\ job.at = "ask"
    /\ LET found == Matches(job.kind) IN
          /\ fetched' = {[asset |-> a, stamp |-> stamp[a]] :
                            a \in {b \in found : PageOf(b, found) = page}}
          /\ more' = HasMore(found, page)
    /\ Go(job.kind, "store")
    /\ UNCHANGED <<now, immich, row, cursor, origin, walk, started, page, slipped, left>>

\* One upsert_pending of the page.  It refreshes the row whatever the row says.
StoreAsset(s) ==
    /\ job.at = "store" /\ s \in fetched
    /\ row' = [row EXCEPT ![s.asset] = s.stamp]
    /\ fetched' = fetched \ {s} /\ slipped' = slipped \ {s.asset}
    /\ UNCHANGED <<now, immich, cursor, origin, walk, job, started, page, more, left>>

NextPage ==
    /\ At("reconcile", "store") /\ fetched = {} /\ more
    /\ Go("reconcile", "ask") /\ page' = page + 1
    /\ UNCHANGED <<now, immich, row, cursor, origin, walk, started, fetched, more, slipped, left>>

\* Slip: the cursor moves to the end of the pass.
EndPassNow ==
    /\ At("reconcile", "store") /\ fetched = {} /\ ~more
    /\ cursor' = now /\ EndJob
    /\ UNCHANGED <<now, immich, row, origin, walk, slipped, left>>

\* The cursor moves to the time the pass began.
EndPass ==
    /\ At("reconcile", "store") /\ fetched = {} /\ ~more
    /\ cursor' = started /\ EndJob
    /\ UNCHANGED <<now, immich, row, origin, walk, slipped, left>>

\* Slip: the next slice starts two pages on.
EndSliceSkipping ==
    /\ At("backfill", "store") /\ fetched = {}
    /\ walkAt' = IF more THEN page + 2 ELSE 0
    /\ EndJob
    /\ UNCHANGED <<now, immich, row, cursor, origin, toWalk, slipped, left>>

\* A slice is one page.  What it stores is computed from what it read at its start.
EndSlice ==
    /\ At("backfill", "store") /\ fetched = {}
    /\ walkAt' = IF more THEN page + 1 ELSE 0
    /\ EndJob
    /\ UNCHANGED <<now, immich, row, cursor, origin, toWalk, slipped, left>>

\* Immich does not answer, a write fails, or the process dies: the pass or slice
\* is over, its cursor stays, and what it upserted stays.  Nothing slipped past a pass
\* that is done over.
BreakOff ==
    /\ ~Idle /\ left > 0
    /\ left' = left - 1
    /\ slipped' = {b \in slipped : stamp[b] <= UpdatedAfter}
    /\ EndJob
    /\ UNCHANGED <<now, immich, row, cursor, origin, walk>>

ReadStep ==
    \/ BeginPass \/ BeginSlice \/ AskPage \/ NextPage \/ EndPass \/ EndSlice \/ BreakOff
    \/ \E s \in fetched : StoreAsset(s)

-----------------------------------------------------------------------------
(* The API. *)

\* Pressed in the middle of a slice, it is undone when the slice stores its page.
PressStart ==
    /\ walkAt' = 1
    /\ toWalk' = IF job.kind = "backfill" THEN {} ELSE Live
    /\ UNCHANGED <<now, immich, row, cursor, origin, reading, slipped, left>>

PressReset ==
    /\ walkAt' = 0
    /\ toWalk' = {}
    /\ UNCHANGED <<now, immich, row, cursor, origin, reading, slipped, left>>

ReceiveWebhook(h) ==
    /\ h \in hooks
    /\ hooks' = hooks \ {h}
    /\ row' = [row EXCEPT ![h.asset] = h.stamp]
    /\ UNCHANGED <<now, stamp, trash, gone, cursor, origin, walk, reading, slipped, left>>

-----------------------------------------------------------------------------
(* Immich and the clock. *)

\* A stamp is never later than the change shows up, nor earlier by more than MaxSkew.
Stamps == {s \in 1 .. now : s >= now - MaxSkew}

\* A new asset; its webhook is sent once, or never.
Appear(a) ==
    /\ stamp[a] = 0
    /\ \E s \in Stamps :
          /\ stamp' = [stamp EXCEPT ![a] = s]
          /\ \/ UNCHANGED hooks
             \/ hooks' = hooks \cup {[asset |-> a, stamp |-> s, until |-> now + MaxDelay]}
    /\ UNCHANGED <<now, trash, gone, row, cursor, origin, walk, reading, slipped, left>>

\* An asset that goes to the trash leaves the result the backfill is walking, and
\* every later one moves up: from then on the walk owes nothing.  With deletions on
\* it stays in the reconciler's.
Change(a) ==
    /\ stamp[a] # 0 /\ a \notin gone
    /\ \E s \in Stamps : s > stamp[a] /\ stamp' = [stamp EXCEPT ![a] = s]
    /\ \/ /\ UNCHANGED <<trash, toWalk>> /\ slipped' = slipped \ {a}
       \/ /\ TrashingAllowed /\ a \notin trash
          /\ trash' = trash \cup {a} /\ toWalk' = {}
          /\ slipped' = (slipped \cup IF DeletionsEnabled THEN {} ELSE SlipsPast(a)) \ {a}
       \/ /\ TrashingAllowed /\ a \in trash
          /\ trash' = trash \ {a} /\ slipped' = slipped \ {a} /\ UNCHANGED toWalk
    /\ UNCHANGED <<now, gone, hooks, row, cursor, origin, walkAt, reading, left>>

\* Deleted for good, past the trash or out of it, an asset is in no result any more.
DeleteForGood(a) ==
    /\ a \in Deletable /\ stamp[a] # 0 /\ a \notin gone
    /\ gone' = gone \cup {a} /\ trash' = trash \ {a}
    /\ toWalk' = IF a \in Live THEN {} ELSE toWalk
    /\ slipped' = (slipped \cup SlipsPast(a)) \ {a}
    /\ UNCHANGED <<now, stamp, hooks, row, cursor, origin, walkAt, reading, left>>

\* A webhook that has not arrived in time never does: Immich sends it once.
Clock ==
    /\ now < MaxTime
    /\ now' = now + 1
    /\ hooks' = {h \in hooks : h.until > now}
    /\ UNCHANGED <<stamp, trash, gone, row, cursor, origin, walk, reading, slipped, left>>

Next ==
    \/ PlantCursor \/ ReadStep
    \/ PressStart \/ PressReset
    \/ \E h \in hooks : ReceiveWebhook(h)
    \/ \E a \in Asset : Appear(a) \/ Change(a) \/ DeleteForGood(a)
    \/ Clock

Spec == Init /\ [][Next]_vars
-----------------------------------------------------------------------------
(* Properties. *)

MaxPages == IF Asset = {} THEN 1 ELSE 1 + (Cardinality(Asset) - 1) \div PageSize

TypeOK ==
    /\ now \in 1 .. MaxTime
    /\ stamp \in [Asset -> 0 .. now]
    /\ trash \subseteq Asset /\ gone \subseteq Asset
    /\ hooks \subseteq [asset : Asset, stamp : 1 .. MaxTime, until : 1 .. MaxTime + MaxDelay]
    /\ row \in [Asset -> 0 .. now]
    /\ cursor \in 0 .. now /\ origin \in 0 .. now
    /\ walkAt \in 0 .. MaxPages
    /\ toWalk \subseteq Asset
    /\ job \in [kind : {"none", "reconcile", "backfill"}, at : Jobs]
    /\ started \in 0 .. now
    /\ page \in 1 .. MaxPages
    /\ fetched \subseteq Snapshot
    /\ more \in BOOLEAN
    /\ slipped \subseteq Asset
    /\ left \in 0 .. Budget

\* An asset the reconciler is to report: live, or trashed with deletions on.
Reported(a) == stamp[a] # 0 /\ a \notin gone /\ (a \in trash => DeletionsEnabled)

\* The next pass asks for it.
WillBeReread(a) == cursor # 0 /\ stamp[a] > UpdatedAfter

\* It changed since the first pass, its row is older, and no pass will read it again.
Forgotten(a) ==
    /\ cursor # 0 /\ Reported(a) /\ stamp[a] > origin - Overlap
    /\ row[a] # stamp[a] /\ ~WillBeReread(a)

\* What README.md promises of the reconciler: nothing it reports is ever out of sight.
\* It does not hold when a result shrinks between two of its pages.
NothingForgotten == \A a \in Asset : ~Forgotten(a)

\* And a result that shrinks is all that can go wrong: what is forgotten moved, between
\* two pages of one pass, from the page to come to the page just read.  Lost webhooks,
\* late ones that put an old row back, pages read before a change and stored after it,
\* and passes that broke off are all made good by where the cursor is.
ForgottenOnlyBySlipping == \A a \in Asset : Forgotten(a) => a \in slipped

\* When the backfill is through, everything that was in the library when it was
\* started has a row, unless something live was trashed or deleted for good meanwhile,
\* or Start pressed under a slice.
WalkReachesAll == walkAt = 0 => \A a \in toWalk : row[a] # 0
=============================================================================
