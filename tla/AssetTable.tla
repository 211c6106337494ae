----------------------------- MODULE AssetTable -----------------------------
(***************************************************************************)
(* The row operations of store/assets.py (AssetRepo), as pure operators on *)
(* one row.  The asset table is also the work queue; every method of       *)
(* AssetRepo is one SQL statement run under the connection's lock, so one  *)
(* operator is one atomic change of a row.                                 *)
(*                                                                         *)
(* Times are kept relative to the clock, because every reader only ever    *)
(* compares them with now():                                               *)
(*   wait      how long until next_attempt_at has passed; 0 also stands    *)
(*             for a NULL or past next_attempt_at (claim_next treats the   *)
(*             three alike);                                               *)
(*   claimAge  how long ago claimed_at is, or Null when claimed_at is.     *)
(*                                                                         *)
(* capDeferred stands for "bandwidth_deferred_at IS NOT NULL", hasKey for  *)
(* "media_key IS NOT NULL", and barred for the columns check_eligibility   *)
(* refuses an asset by that upsert_pending refreshes (is_trashed,          *)
(* is_offline, visibility, tags).  Every ineligible_reason other than      *)
(* album_excluded is permanent and is kept as "hard".                      *)
(*                                                                         *)
(* An operator commented "Slip" is a plausible mistake in the operator     *)
(* after it.  No specification uses it; it is there to be put in the       *)
(* place of that operator, to see that a property notices.                 *)
(***************************************************************************)
EXTENDS Integers

Null == -1

Webhook   == 0
Reconcile == 1
Backfill  == 2
Priority  == {Webhook, Reconcile, Backfill}

\* "unknown": the table has no row for the asset.
RowState == {"unknown", "pending", "uploading", "synced", "ineligible", "failed"}
Reason   == {"none", "album_excluded", "hard"}

Row == [state       : RowState,
        reason      : Reason,
        priority    : Priority,
        attempts    : Nat,
        wait        : Nat,
        claimAge    : Nat \cup {Null},
        capDeferred : BOOLEAN,
        hasKey      : BOOLEAN,
        barred      : BOOLEAN]

NoRow == [state |-> "unknown", reason |-> "none", priority |-> Backfill,
          attempts |-> 0, wait |-> 0, claimAge |-> Null,
          capDeferred |-> FALSE, hasKey |-> FALSE, barred |-> FALSE]

SoftlyExcluded(r) == r.state = "ineligible" /\ r.reason = "album_excluded"
Settled(r) == r.state = "synced" \/ (r.state = "ineligible" /\ ~SoftlyExcluded(r))

\* Slip: reopens an ineligible row whatever its reason.
UpsertReopening(r, p, barred) ==
    IF r.state = "unknown"
    THEN [NoRow EXCEPT !.state = "pending", !.priority = p, !.barred = barred]
    ELSE [r EXCEPT !.state = IF @ = "ineligible" THEN "pending" ELSE @,
                   !.barred = barred]

\* INSERT ... ON CONFLICT DO UPDATE: a settled row keeps its state and priority,
\* a soft exclusion is reopened, the mutable columns are refreshed in all cases.
UpsertPending(r, p, barred) ==
    IF r.state = "unknown"
    THEN [NoRow EXCEPT !.state = "pending", !.priority = p, !.barred = barred]
    ELSE [r EXCEPT
            !.state    = IF SoftlyExcluded(r) THEN "pending" ELSE @,
            !.reason   = IF SoftlyExcluded(r) THEN "none" ELSE @,
            !.priority = IF Settled(r) \/ @ < p THEN @ ELSE p,
            !.barred   = barred]

Claimable(r) == r.state = "pending" /\ r.wait = 0

\* Slip: a claim that leaves bandwidth_deferred_at set.
ClaimKeepingMarker(r) == [r EXCEPT !.state = "uploading", !.claimAge = 0]

Claim(r) == [r EXCEPT !.state = "uploading", !.claimAge = 0, !.capDeferred = FALSE]

MarkSynced(r) ==
    [r EXCEPT !.state = "synced", !.hasKey = TRUE, !.claimAge = Null]

MarkIneligible(r, why) ==
    [r EXCEPT !.state = "ineligible", !.reason = why, !.claimAge = Null]

MarkRetry(r, delay) ==
    [r EXCEPT !.state = "pending", !.attempts = @ + 1, !.wait = delay, !.claimAge = Null]

Requeue(r, delay) ==
    [r EXCEPT !.state = "pending", !.wait = delay, !.claimAge = Null]

DeferForBandwidth(r, delay) == [Requeue(r, delay) EXCEPT !.capDeferred = TRUE]

ReleaseBandwidthDeferral(r) ==
    IF r.state = "pending" /\ r.capDeferred
    THEN [r EXCEPT !.wait = 0, !.capDeferred = FALSE]
    ELSE r

MarkFailed(r) ==
    [r EXCEPT !.state = "failed", !.attempts = @ + 1, !.claimAge = Null]

\* Slip: a state no other query knows.
MarkDeletedApart(r) == [r EXCEPT !.state = "deleted", !.reason = "hard"]

MarkDeleted(r) == [r EXCEPT !.state = "ineligible", !.reason = "hard"]

\* Slip: retries a row that is not failed.
RetryAnyNow(r) ==
    IF r.state # "unknown"
    THEN [r EXCEPT !.state = "pending", !.attempts = 0, !.wait = 0]
    ELSE r

RetryNow(r) ==
    IF r.state = "failed"
    THEN [r EXCEPT !.state = "pending", !.attempts = 0, !.wait = 0]
    ELSE r

\* requeue_stale_uploading: next_attempt_at is left as it was, in the past.
RequeueStaleUploading(r, age) ==
    IF r.state = "uploading" /\ r.claimAge >= age
    THEN [r EXCEPT !.state = "pending", !.claimAge = Null]
    ELSE r

\* Slip: a deadline that runs on below now.
ElapseUnfloored(r, oldest) ==
    [r EXCEPT !.wait = @ - 1,
              !.claimAge = IF @ = Null \/ @ >= oldest THEN @ ELSE @ + 1]

\* One unit of the clock, as the row's comparisons with now() see it.  An age
\* is told apart only up to oldest, the greatest age anything compares it with.
Elapse(r, oldest) ==
    [r EXCEPT !.wait     = IF @ > 0 THEN @ - 1 ELSE 0,
              !.claimAge = IF @ = Null \/ @ >= oldest THEN @ ELSE @ + 1]
=============================================================================
