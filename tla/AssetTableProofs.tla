-------------------------- MODULE AssetTableProofs --------------------------
(* What the row operations of AssetTable preserve, for every row. *)
EXTENDS AssetTable, TLAPS

\* The empty row is well typed.
LEMMA NoRowIsRow == NoRow \in Row
  BY DEF NoRow, Row, RowState, Reason, Priority, Backfill, Null

\* upsert_pending keeps a row well typed.
LEMMA UpsertIsRow ==
  ASSUME NEW r \in Row, NEW p \in Priority, NEW b \in BOOLEAN
  PROVE  UpsertPending(r, p, b) \in Row
  BY DEF UpsertPending, NoRow, SoftlyExcluded, Settled, Row, RowState, Reason, Priority,
         Backfill, Null

\* So do claim_next and the marks a worker or the retry button leaves.
LEMMA MarksAreRows ==
  ASSUME NEW r \in Row, NEW d \in Nat, NEW why \in Reason
  PROVE  /\ Claim(r) \in Row
         /\ MarkSynced(r) \in Row
         /\ MarkIneligible(r, why) \in Row
         /\ MarkRetry(r, d) \in Row
         /\ Requeue(r, d) \in Row
         /\ DeferForBandwidth(r, d) \in Row
         /\ MarkFailed(r) \in Row
         /\ RetryNow(r) \in Row
  <1>1. Claim(r) \in Row  BY DEF Claim, Row, RowState, Null
  <1>2. MarkSynced(r) \in Row  BY DEF MarkSynced, Row, RowState, Null
  <1>3. MarkIneligible(r, why) \in Row  BY DEF MarkIneligible, Row, RowState, Null
  <1>a. r.attempts + 1 \in Nat  BY DEF Row
  <1>4. MarkRetry(r, d) \in Row  BY <1>a DEF MarkRetry, Row, RowState, Null
  <1>5. Requeue(r, d) \in Row  BY DEF Requeue, Row, RowState, Null
  <1>6. DeferForBandwidth(r, d) \in Row  BY DEF DeferForBandwidth, Requeue, Row, RowState, Null
  <1>7. MarkFailed(r) \in Row  BY <1>a DEF MarkFailed, Row, RowState, Null
  <1>8. RetryNow(r) \in Row  BY DEF RetryNow, Row, RowState, Null
  <1> QED  BY <1>1, <1>2, <1>3, <1>4, <1>5, <1>6, <1>7, <1>8

\* So do the sweep of stale claims and the passage of time.
LEMMA SweepIsRow ==
  ASSUME NEW r \in Row, NEW age \in Nat
  PROVE  RequeueStaleUploading(r, age) \in Row
  BY DEF RequeueStaleUploading, Row, RowState, Null

LEMMA ElapseIsRow ==
  ASSUME NEW r \in Row, NEW age \in Nat
  PROVE  Elapse(r, age) \in Row
  <1> DEFINE w == IF r.wait > 0 THEN r.wait - 1 ELSE 0
             c == IF r.claimAge = Null \/ r.claimAge >= age THEN r.claimAge ELSE r.claimAge + 1
  <1>1. w \in Nat  BY DEF Row
  <1>2. c \in Nat \cup {Null}  BY DEF Row, Null
  <1> HIDE DEF w, c
  <1>3. [r EXCEPT !.wait = w, !.claimAge = c] \in Row  BY <1>1, <1>2 DEF Row
  <1> QED  BY <1>3 DEF Elapse, w, c

\* Only mark_synced gives a row its media key.
LEMMA KeysKept ==
  ASSUME NEW r \in Row, NEW d \in Nat, NEW why \in Reason, NEW p \in Priority, NEW b \in BOOLEAN
  PROVE  /\ UpsertPending(r, p, b).hasKey => r.hasKey
         /\ Claim(r).hasKey = r.hasKey
         /\ MarkIneligible(r, why).hasKey = r.hasKey
         /\ MarkRetry(r, d).hasKey = r.hasKey
         /\ Requeue(r, d).hasKey = r.hasKey
         /\ DeferForBandwidth(r, d).hasKey = r.hasKey
         /\ MarkFailed(r).hasKey = r.hasKey
         /\ RetryNow(r).hasKey = r.hasKey
         /\ RequeueStaleUploading(r, d).hasKey = r.hasKey
         /\ Elapse(r, d).hasKey = r.hasKey
  <1>1. UpsertPending(r, p, b).hasKey => r.hasKey
    BY DEF UpsertPending, NoRow, SoftlyExcluded, Settled, Row
  <1>2. Claim(r).hasKey = r.hasKey  BY DEF Claim, Row
  <1>3. MarkIneligible(r, why).hasKey = r.hasKey  BY DEF MarkIneligible, Row
  <1>4. MarkRetry(r, d).hasKey = r.hasKey  BY DEF MarkRetry, Row
  <1>5. Requeue(r, d).hasKey = r.hasKey  BY DEF Requeue, Row
  <1>6. DeferForBandwidth(r, d).hasKey = r.hasKey  BY DEF DeferForBandwidth, Requeue, Row
  <1>7. MarkFailed(r).hasKey = r.hasKey  BY DEF MarkFailed, Row
  <1>8. RetryNow(r).hasKey = r.hasKey  BY DEF RetryNow, Row
  <1>9. RequeueStaleUploading(r, d).hasKey = r.hasKey  BY DEF RequeueStaleUploading, Row
  <1>10. Elapse(r, d).hasKey = r.hasKey  BY DEF Elapse, Row
  <1> QED  BY <1>1, <1>2, <1>3, <1>4, <1>5, <1>6, <1>7, <1>8, <1>9, <1>10

\* An upsert and the clock leave a claimed row claimed, with the attempts it had.
LEMMA ClaimedStays ==
  ASSUME NEW r \in Row, r.state = "uploading", NEW p \in Priority, NEW b \in BOOLEAN,
         NEW age \in Nat
  PROVE  /\ UpsertPending(r, p, b).state = "uploading"
         /\ UpsertPending(r, p, b).attempts = r.attempts
         /\ Elapse(r, age).state = "uploading"
         /\ Elapse(r, age).attempts = r.attempts
  <1>1. /\ UpsertPending(r, p, b).state = "uploading"
        /\ UpsertPending(r, p, b).attempts = r.attempts
    BY DEF UpsertPending, SoftlyExcluded, Settled, Row
  <1>2. Elapse(r, age).state = "uploading" /\ Elapse(r, age).attempts = r.attempts
    BY DEF Elapse, Row
  <1> QED  BY <1>1, <1>2

\* An upsert, the sweep and the clock leave a settled row's verdict and priority alone.
LEMMA SettledRowStays ==
  ASSUME NEW r \in Row, Settled(r), NEW p \in Priority, NEW b \in BOOLEAN, NEW age \in Nat,
         NEW s \in {UpsertPending(r, p, b), RequeueStaleUploading(r, age), Elapse(r, age)}
  PROVE  s.state = r.state /\ s.reason = r.reason /\ s.priority = r.priority
  <1>1. CASE s = UpsertPending(r, p, b)
    BY <1>1 DEF UpsertPending, SoftlyExcluded, Settled, Row
  <1>2. CASE s = RequeueStaleUploading(r, age)
    BY <1>2 DEF RequeueStaleUploading, Settled, Row
  <1>3. CASE s = Elapse(r, age)  BY <1>3 DEF Elapse, Row
  <1> QED  BY <1>1, <1>2, <1>3
=============================================================================
