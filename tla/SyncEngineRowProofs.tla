------------------------- MODULE SyncEngineRowProofs -------------------------
(***************************************************************************)
(* More theorems about SyncEngine, for any number of assets, threads and   *)
(* disruptions: what the rows say of an asset, what the workers remember   *)
(* of one, and what outages cost.                                          *)
(***************************************************************************)
EXTENDS SyncEngineProofs

-----------------------------------------------------------------------------
(* All that can happen to one row. *)

\* What the job on thread t may leave of its row.
JobLeaves(t, r) ==
    \/ r \in {MarkIneligible(RowOf(t), "hard"), MarkIneligible(RowOf(t), "album_excluded"),
              MarkSynced(RowOf(t))}
    \/ \E d \in Nat : r \in {Requeue(RowOf(t), d), DeferForBandwidth(RowOf(t), d)}
    \/ /\ pc[t] = "failing" /\ item[t].attempts + 1 >= MaxAttempts
       /\ r = MarkFailed(RowOf(t))
    \/ /\ pc[t] = "failing" /\ item[t].attempts + 1 < MaxAttempts
       /\ \E d \in Nat : r = MarkRetry(RowOf(t), d)

\* What anyone else may do to a row.
QueueStep(a) ==
    \/ table'[a] = table[a]
    \/ ClaimNext /\ Claimable(table[a]) /\ table'[a] = Claim(table[a])
    \/ \E p \in Priority, b \in BOOLEAN : table'[a] = UpsertPending(table[a], p, b)
    \/ table'[a] \in {RetryNow(table[a]), RequeueStaleUploading(table[a], StaleAge),
                      Elapse(table[a], StaleAge)}
    \/ \E i \in batch : i.asset = a /\ table'[a] = Requeue(table[a], 0)

RowStep(a) == QueueStep(a) \/ \E t \in Running : Id(t) = a /\ JobLeaves(t, table'[a])

\* How a job's step leaves the table.
LEMMA JobRowStep ==
  ASSUME TypeInv, NEW t \in Thread, JobStep(t)
  PROVE  \/ UNCHANGED table
         \/ \E r : table' = [table EXCEPT ![Id(t)] = r] /\ JobLeaves(t, r)
  <1> USE EngineAssumption
  <1>0. pc[t] \in Working  BY JobRuns
  <1>1. CASE ChecksRaise(t) \/ HandlerRaises(t)
    <2>1. table' = [table EXCEPT ![Id(t)] = table[Id(t)]]
      BY <1>1 DEF ChecksRaise, HandlerRaises, Finish, RowOf
    <2> QED  BY <2>1 DEF TypeInv, TypeOK
  <1>2. CASE ExcludeBarred(t) \/ ExcludeByAlbum(t) \/ ResolveLocally(t) \/ MarkSyncedRow(t)
    BY <1>2 DEF ExcludeBarred, ExcludeByAlbum, ResolveLocally, MarkSyncedRow, Finish, JobLeaves
  <1>3. CASE DeferToWindow(t) \/ DeferToCap(t) \/ HandleHalt(t)
    BY <1>3 DEF DeferToWindow, DeferToCap, HandleHalt, Finish, JobLeaves
  <1>4. CASE HandleFailure(t)
    BY <1>4 DEF HandleFailure, Finish, JobLeaves
  <1>5. CASE \/ PassLocalChecks(t) \/ GoogleHasIt(t) \/ GoogleLacksIt(t) \/ PassThrottle(t)
             \/ UploadLands(t) \/ UploadAnswerLost(t) \/ CallFails(t) \/ AccountRefuses(t)
             \/ WriteFails(t)
    BY <1>5 DEF PassLocalChecks, GoogleHasIt, GoogleLacksIt, PassThrottle, UploadLands,
               UploadAnswerLost, CallFails, AccountRefuses, WriteFails
  <1> QED  BY <1>1, <1>2, <1>3, <1>4, <1>5 DEF JobStep

\* Every step that is not a worker's does one of these things to a row.
LEMMA OthersRowStep ==
  ASSUME TypeInv, [Next]_vars, ~ \E t \in Thread : JobStep(t), NEW a \in Asset
  PROVE  QueueStep(a)
  <1> USE EngineAssumption
  <1>0. table \in [Asset -> Row] /\ Webhook \in Priority
    BY DEF TypeInv, TypeOK, Priority
  <1>1. CASE LoopStep
    <2>1. CASE ClaimNext
      <3>1. table'[a] = table[a] \/ (Claimable(table[a]) /\ table'[a] = Claim(table[a]))
        BY <2>1 DEF ClaimNext, Claims
      <3> QED  BY <2>1, <3>1 DEF QueueStep
    <2>2. ASSUME NEW i \in batch, HandBack(i) PROVE QueueStep(a)
      <3>1. table'[a] = table[a] \/ (i.asset = a /\ table'[a] = Requeue(table[a], 0))
        BY <2>2, <1>0 DEF HandBack
      <3> QED  BY <3>1 DEF QueueStep
    <2>3. CASE Upkeep  BY <2>3 DEF Upkeep, QueueStep
    <2>4. CASE \/ Iterate \/ ClaimFails \/ AllowlistFails \/ HandBackFails \/ HandedBack
               \/ StartWave \/ WaveEnds \/ WaveHalts \/ WaveRaises \/ UpkeepFails
      BY <2>4 DEF Iterate, ClaimFails, AllowlistFails, HandBackFails, HandedBack, StartWave,
                  WaveEnds, WaveHalts, WaveRaises, UpkeepFails, QueueStep
    <2> QED  BY <1>1, <2>1, <2>2, <2>3, <2>4 DEF LoopStep
  <1>2. CASE \E c \in Asset : Enqueue(c) \/ ReceiveWebhook(c)
    <2>1. \/ table'[a] = table[a]
          \/ \E p \in Priority, b \in BOOLEAN : table'[a] = UpsertPending(table[a], p, b)
      BY <1>2, <1>0 DEF Enqueue, ReceiveWebhook
    <2> QED  BY <2>1 DEF QueueStep
  <1>3. CASE \E c \in Asset : PressRetry(c)
    <2>1. table'[a] = table[a] \/ table'[a] = RetryNow(table[a])
      BY <1>3, <1>0 DEF PressRetry
    <2> QED  BY <2>1 DEF QueueStep
  <1>4. CASE Crash \/ Clock  BY <1>4 DEF Crash, Clock, QueueStep
  <1>5. CASE UNCHANGED vars  BY <1>5 DEF vars, QueueStep
  <1> QED  BY <1>1, <1>2, <1>3, <1>4, <1>5 DEF Next

\* Every step at all does one of these.
LEMMA EveryRowStep ==
  ASSUME TypeInv, [Next]_vars, NEW a \in Asset
  PROVE  RowStep(a)
  <1>0. table \in [Asset -> Row]  BY DEF TypeInv, TypeOK
  <1>1. ASSUME NEW t \in Thread, JobStep(t) PROVE RowStep(a)
    <2>1. t \in Running  BY <1>1, JobRuns
    <2>2. CASE UNCHANGED table  BY <2>2 DEF RowStep, QueueStep
    <2>3. ASSUME NEW r, table' = [table EXCEPT ![Id(t)] = r], JobLeaves(t, r)
          PROVE  RowStep(a)
      <3>1. a # Id(t) => table'[a] = table[a]  BY <2>3, <1>0
      <3>2. a = Id(t) => table'[a] = r  BY <2>3, <1>0
      <3> QED  BY <2>1, <2>3, <3>1, <3>2 DEF RowStep, QueueStep
    <2> QED  BY <1>1, <2>2, <2>3, JobRowStep
  <1> QED  BY <1>1, OthersRowStep DEF RowStep

\* The claims OwnInv speaks of, as RowStep meets them.
LEMMA HeldIsClaimed ==
  ASSUME TypeInv, OwnInv
  PROVE  /\ \A i \in batch : table[i.asset].state = "uploading"
         /\ \A t \in Running : /\ RowOf(t).state = "uploading"
                               /\ RowOf(t).attempts = item[t].attempts
  BY DEF OwnInv, WorkOwnsItsRow, HeldItems, RowOf, Id

-----------------------------------------------------------------------------
(* The columns of a row tell one story. *)

Consistent(r) ==
    /\ r.state = "uploading" <=> r.claimAge # Null
    /\ r.capDeferred => r.state = "pending"
    /\ r.state = "synced" => r.hasKey
    /\ r.state = "ineligible" => r.reason # "none"

\* An upsert, a claim, the retry button, the sweep and the clock keep it.
LEMMA AroundConsistent ==
  ASSUME NEW r \in Row, Consistent(r), NEW p \in Priority, NEW b \in BOOLEAN, NEW age \in Nat
  PROVE  /\ Consistent(UpsertPending(r, p, b))
         /\ Consistent(Claim(r))
         /\ Consistent(RetryNow(r))
         /\ Consistent(RequeueStaleUploading(r, age))
         /\ Consistent(Elapse(r, age))
  <1>1. Consistent(UpsertPending(r, p, b))
    BY DEF Consistent, UpsertPending, NoRow, SoftlyExcluded, Settled, Row, RowState, Null
  <1>2. Consistent(Claim(r))  BY DEF Consistent, Claim, Row, Null
  <1>3. Consistent(RetryNow(r))  BY DEF Consistent, RetryNow, Row, Null
  <1>4. Consistent(RequeueStaleUploading(r, age))
    BY DEF Consistent, RequeueStaleUploading, Row, Null
  <1>5. Consistent(Elapse(r, age))
    <2>1. /\ Elapse(r, age).state = r.state
          /\ Elapse(r, age).reason = r.reason
          /\ Elapse(r, age).capDeferred => r.capDeferred
          /\ r.hasKey => Elapse(r, age).hasKey
      BY DEF Elapse, Row
    <2>2. Elapse(r, age).claimAge =
            IF r.claimAge = Null \/ r.claimAge >= age THEN r.claimAge ELSE r.claimAge + 1
      BY DEF Elapse, Row
    <2>3. Elapse(r, age).claimAge = Null <=> r.claimAge = Null
      BY <2>2 DEF Row, Null
    <2> QED  BY <2>1, <2>3 DEF Consistent
  <1> QED  BY <1>1, <1>2, <1>3, <1>4, <1>5

\* So do the marks left on a claimed row, which carries no bandwidth marker.
LEMMA MarksConsistent ==
  ASSUME NEW r \in Row, Consistent(r), r.state = "uploading", NEW d \in Nat
  PROVE  /\ Consistent(MarkIneligible(r, "hard"))
         /\ Consistent(MarkIneligible(r, "album_excluded"))
         /\ Consistent(MarkSynced(r))
         /\ Consistent(Requeue(r, d))
         /\ Consistent(DeferForBandwidth(r, d))
         /\ Consistent(MarkFailed(r))
         /\ Consistent(MarkRetry(r, d))
  <1>0. ~ r.capDeferred  BY DEF Consistent
  <1>1. /\ Consistent(MarkIneligible(r, "hard"))
        /\ Consistent(MarkIneligible(r, "album_excluded"))
    BY <1>0 DEF Consistent, MarkIneligible, Row, Null
  <1>2. Consistent(MarkSynced(r))  BY <1>0 DEF Consistent, MarkSynced, Row, Null
  <1>3. Consistent(Requeue(r, d))  BY <1>0 DEF Consistent, Requeue, Row, Null
  <1>4. Consistent(DeferForBandwidth(r, d))
    BY <1>0 DEF Consistent, DeferForBandwidth, Requeue, Row, Null
  <1>5. Consistent(MarkFailed(r))  BY <1>0 DEF Consistent, MarkFailed, Row, Null
  <1>6. Consistent(MarkRetry(r, d))  BY <1>0 DEF Consistent, MarkRetry, Row, Null
  <1> QED  BY <1>1, <1>2, <1>3, <1>4, <1>5, <1>6

LEMMA ConsistentNext ==
  ASSUME TypeInv, OwnInv, RowsConsistent, [Next]_vars
  PROVE  RowsConsistent'
  <1> SUFFICES ASSUME NEW a \in Asset PROVE Consistent(table'[a])
    BY DEF RowsConsistent, Consistent
  <1>0. table[a] \in Row /\ Consistent(table[a]) /\ StaleAge \in Nat /\ 0 \in Nat
    BY EngineAssumption DEF TypeInv, TypeOK, RowsConsistent, Consistent
  <1>1. RowStep(a)  BY EveryRowStep
  <1>2. CASE table'[a] = table[a]  BY <1>0, <1>2
  <1>3. CASE \/ table'[a] = Claim(table[a])
             \/ \E p \in Priority, b \in BOOLEAN : table'[a] = UpsertPending(table[a], p, b)
             \/ table'[a] \in {RetryNow(table[a]), RequeueStaleUploading(table[a], StaleAge),
                               Elapse(table[a], StaleAge)}
    <2>1. Webhook \in Priority  BY DEF Priority
    <2> QED  BY <1>0, <1>3, <2>1, AroundConsistent
  <1>4. CASE \E i \in batch : i.asset = a /\ table'[a] = Requeue(table[a], 0)
    BY <1>0, <1>4, HeldIsClaimed, MarksConsistent
  <1>5. ASSUME NEW t \in Running, Id(t) = a, JobLeaves(t, table'[a])
        PROVE  Consistent(table'[a])
    <2>1. RowOf(t) = table[a] /\ table[a].state = "uploading"
      BY <1>5, HeldIsClaimed DEF RowOf
    <2> QED  BY <1>0, <1>5, <2>1, MarksConsistent DEF JobLeaves
  <1> QED  BY <1>1, <1>2, <1>3, <1>4, <1>5 DEF RowStep, QueueStep

\* As long as no database write fails, the columns of every row agree after every step:
\* claimed_at is set exactly while the row is uploading, bandwidth_deferred_at only on
\* a row still parked, and a verdict has its media key or its reason.
THEOREM RowsTellOneStory ==
  ASSUME "database" \notin Disruptions
  PROVE  Spec => []RowsConsistent
  <1>1. Init => RowsConsistent  BY DEF Init, RowsConsistent, NoRow, Null
  <1>2. TypeInv /\ OwnInv /\ [Next]_vars => OwnInv'  BY OwnNext DEF Strike
  <1>3. TypeInv /\ OwnInv /\ RowsConsistent /\ [Next]_vars => RowsConsistent'
    BY ConsistentNext
  <1> QED  BY <1>1, <1>2, <1>3, OwnInit, TypeCorrect, PTL DEF Spec

-----------------------------------------------------------------------------
(* The attempts of a row. *)

Exhausted(r) == r.attempts <= MaxAttempts /\ (r.state = "failed" <=> r.attempts = MaxAttempts)

\* Nothing but a worker's verdict and the retry button touches the count of a row
\* that is there.
LEMMA CountKept ==
  ASSUME NEW r \in Row, Exhausted(r), NEW p \in Priority, NEW b \in BOOLEAN, NEW age \in Nat
  PROVE  /\ Exhausted(UpsertPending(r, p, b))
         /\ Claimable(r) => Exhausted(Claim(r))
         /\ Exhausted(RetryNow(r))
         /\ Exhausted(RequeueStaleUploading(r, age))
         /\ Exhausted(Elapse(r, age))
  <1>0. MaxAttempts \in Nat \ {0}  BY EngineAssumption
  <1>1. Exhausted(UpsertPending(r, p, b))
    BY <1>0 DEF Exhausted, UpsertPending, NoRow, SoftlyExcluded, Settled, Row, RowState
  <1>2. Claimable(r) => Exhausted(Claim(r))  BY DEF Exhausted, Claimable, Claim, Row
  <1>3. Exhausted(RetryNow(r))  BY <1>0 DEF Exhausted, RetryNow, Row
  <1>4. Exhausted(RequeueStaleUploading(r, age))
    BY DEF Exhausted, RequeueStaleUploading, Row
  <1>5. Elapse(r, age).state = r.state /\ Elapse(r, age).attempts = r.attempts
    BY DEF Elapse, Row
  <1>6. Exhausted(Elapse(r, age))  BY <1>5 DEF Exhausted
  <1> QED  BY <1>1, <1>2, <1>3, <1>4, <1>6

\* A worker's mark on a claimed row spends an attempt exactly when it is a failure, and
\* fails the row exactly with the last one.
LEMMA MarksCount ==
  ASSUME NEW r \in Row, Exhausted(r), r.state = "uploading", NEW d \in Nat
  PROVE  /\ Exhausted(MarkIneligible(r, "hard"))
         /\ Exhausted(MarkIneligible(r, "album_excluded"))
         /\ Exhausted(MarkSynced(r))
         /\ Exhausted(Requeue(r, d))
         /\ Exhausted(DeferForBandwidth(r, d))
         /\ r.attempts + 1 >= MaxAttempts => Exhausted(MarkFailed(r))
         /\ r.attempts + 1 < MaxAttempts => Exhausted(MarkRetry(r, d))
  <1>0. MaxAttempts \in Nat \ {0} /\ r.attempts \in Nat /\ r.attempts < MaxAttempts
    BY EngineAssumption DEF Exhausted, Row
  <1>1. /\ Exhausted(MarkIneligible(r, "hard"))
        /\ Exhausted(MarkIneligible(r, "album_excluded"))
    BY <1>0 DEF Exhausted, MarkIneligible, Row
  <1>2. Exhausted(MarkSynced(r))  BY <1>0 DEF Exhausted, MarkSynced, Row
  <1>3. Exhausted(Requeue(r, d))  BY <1>0 DEF Exhausted, Requeue, Row
  <1>4. Exhausted(DeferForBandwidth(r, d))
    BY <1>0 DEF Exhausted, DeferForBandwidth, Requeue, Row
  <1>5. MarkFailed(r).state = "failed" /\ MarkFailed(r).attempts = r.attempts + 1
    BY DEF MarkFailed, Row
  <1>6. MarkRetry(r, d).state = "pending" /\ MarkRetry(r, d).attempts = r.attempts + 1
    BY DEF MarkRetry, Row
  <1>7. r.attempts + 1 >= MaxAttempts => Exhausted(MarkFailed(r))
    BY <1>0, <1>5 DEF Exhausted
  <1>8. r.attempts + 1 < MaxAttempts => Exhausted(MarkRetry(r, d))
    BY <1>0, <1>6 DEF Exhausted
  <1> QED  BY <1>1, <1>2, <1>3, <1>4, <1>7, <1>8

LEMMA ExhaustedNext ==
  ASSUME TypeInv, OwnInv, FailedMeansExhausted, [Next]_vars
  PROVE  FailedMeansExhausted'
  <1> SUFFICES ASSUME NEW a \in Asset PROVE Exhausted(table'[a])
    BY DEF FailedMeansExhausted, Exhausted
  <1>0. table[a] \in Row /\ Exhausted(table[a]) /\ StaleAge \in Nat /\ 0 \in Nat
        /\ Webhook \in Priority
    BY EngineAssumption DEF TypeInv, TypeOK, FailedMeansExhausted, Exhausted, Priority
  <1>1. RowStep(a)  BY EveryRowStep
  <1>2. CASE table'[a] = table[a]  BY <1>0, <1>2
  <1>3. CASE \/ Claimable(table[a]) /\ table'[a] = Claim(table[a])
             \/ \E p \in Priority, b \in BOOLEAN : table'[a] = UpsertPending(table[a], p, b)
             \/ table'[a] \in {RetryNow(table[a]), RequeueStaleUploading(table[a], StaleAge),
                               Elapse(table[a], StaleAge)}
    BY <1>0, <1>3, CountKept
  <1>4. CASE \E i \in batch : i.asset = a /\ table'[a] = Requeue(table[a], 0)
    BY <1>0, <1>4, HeldIsClaimed, MarksCount
  <1>5. ASSUME NEW t \in Running, Id(t) = a, JobLeaves(t, table'[a])
        PROVE  Exhausted(table'[a])
    <2>1. /\ RowOf(t) = table[a] /\ table[a].state = "uploading"
          /\ table[a].attempts = item[t].attempts
      BY <1>5, HeldIsClaimed DEF RowOf
    <2> QED  BY <1>0, <1>5, <2>1, MarksCount DEF JobLeaves
  <1> QED  BY <1>1, <1>2, <1>3, <1>4, <1>5 DEF RowStep, QueueStep

\* As long as no database write fails, a row is quarantined exactly when it has used up
\* its attempts, although the count that decides is the one its worker read at the claim.
THEOREM QuarantineIsEarned ==
  ASSUME "database" \notin Disruptions
  PROVE  Spec => []FailedMeansExhausted
  <1>1. Init => FailedMeansExhausted
    BY EngineAssumption DEF Init, FailedMeansExhausted, NoRow
  <1>2. TypeInv /\ OwnInv /\ [Next]_vars => OwnInv'  BY OwnNext DEF Strike
  <1>3. TypeInv /\ OwnInv /\ FailedMeansExhausted /\ [Next]_vars => FailedMeansExhausted'
    BY ExhaustedNext
  <1> QED  BY <1>1, <1>2, <1>3, OwnInit, TypeCorrect, PTL DEF Spec

-----------------------------------------------------------------------------
(* The charges the throttle remembers. *)

Waiting == {"pending", "uploading"}

\* What is not a worker's verdict leaves a waiting row waiting.
LEMMA WaitingStays ==
  ASSUME NEW r \in Row, r.state \in Waiting, NEW p \in Priority, NEW b \in BOOLEAN,
         NEW age \in Nat
  PROVE  /\ UpsertPending(r, p, b).state \in Waiting
         /\ Claim(r).state \in Waiting
         /\ RetryNow(r).state \in Waiting
         /\ RequeueStaleUploading(r, age).state \in Waiting
         /\ Elapse(r, age).state \in Waiting
         /\ Requeue(r, age).state \in Waiting
  <1>1. UpsertPending(r, p, b).state \in Waiting
    BY DEF UpsertPending, SoftlyExcluded, Settled, Waiting, Row
  <1>2. Claim(r).state \in Waiting  BY DEF Claim, Waiting, Row
  <1>3. RetryNow(r).state \in Waiting  BY DEF RetryNow, Waiting, Row
  <1>4. RequeueStaleUploading(r, age).state \in Waiting
    BY DEF RequeueStaleUploading, Waiting, Row
  <1>5. Elapse(r, age).state \in Waiting  BY DEF Elapse, Waiting, Row
  <1>6. Requeue(r, age).state \in Waiting  BY DEF Requeue, Waiting, Row
  <1> QED  BY <1>1, <1>2, <1>3, <1>4, <1>5, <1>6

\* After a step of its worker an asset's charge is remembered only if the row was left
\* alone or handed back to wait.
LEMMA JobPrepaid ==
  ASSUME TypeInv, NEW t \in Thread, JobStep(t)
  PROVE  /\ prepaid' \ {Id(t)} \subseteq prepaid
         /\ Id(t) \in prepaid' => \/ UNCHANGED table /\ Id(t) \in prepaid
                                 \/ table'[Id(t)].state = "pending"
  <1> USE EngineAssumption
  <1>0. pc[t] \in Working  BY JobRuns
  <1>1. RowOf(t) \in Row /\ Id(t) \in Asset /\ table \in [Asset -> Row]
    BY <1>0, JobReads DEF TypeInv, TypeOK
  <1>2. CASE \/ ExcludeBarred(t) \/ ExcludeByAlbum(t) \/ ResolveLocally(t) \/ ChecksRaise(t)
             \/ PassThrottle(t) \/ MarkSyncedRow(t) \/ HandleHalt(t) \/ HandleFailure(t)
             \/ HandlerRaises(t)
    <2>1. DropPrepaid(t)
      BY <1>2 DEF ExcludeBarred, ExcludeByAlbum, ResolveLocally, ChecksRaise, PassThrottle,
                  MarkSyncedRow, HandleHalt, HandleFailure, HandlerRaises
    <2> QED  BY <2>1 DEF DropPrepaid
  <1>3. CASE DeferToWindow(t)
    <2>1. Requeue(RowOf(t), WindowDelay).state = "pending"  BY <1>1 DEF Requeue, Row
    <2>2. prepaid' = prepaid /\ table'[Id(t)] = Requeue(RowOf(t), WindowDelay)
      BY <1>1, <1>3 DEF DeferToWindow, Finish
    <2> QED  BY <2>1, <2>2
  <1>4. CASE DeferToCap(t)
    <2>1. PICK d \in CapDelays : Finish(t, DeferForBandwidth(RowOf(t), d), "ok")
      BY <1>4 DEF DeferToCap
    <2>2. DeferForBandwidth(RowOf(t), d).state = "pending"
      BY <1>1 DEF DeferForBandwidth, Requeue, Row
    <2>3. table'[Id(t)] = DeferForBandwidth(RowOf(t), d)  BY <1>1, <2>1 DEF Finish
    <2>4. prepaid' = prepaid \cup {Id(t)}  BY <1>4 DEF DeferToCap
    <2> QED  BY <2>2, <2>3, <2>4
  <1>5. CASE \/ PassLocalChecks(t) \/ GoogleHasIt(t) \/ GoogleLacksIt(t) \/ UploadLands(t)
             \/ UploadAnswerLost(t) \/ CallFails(t) \/ AccountRefuses(t) \/ WriteFails(t)
    BY <1>5 DEF PassLocalChecks, GoogleHasIt, GoogleLacksIt, UploadLands, UploadAnswerLost,
                CallFails, AccountRefuses, WriteFails
  <1> QED  BY <1>2, <1>3, <1>4, <1>5 DEF JobStep

\* Nobody but a worker remembers a charge.
LEMMA OthersPrepaid ==
  ASSUME [Next]_vars, ~ \E t \in Thread : JobStep(t)
  PROVE  prepaid' \subseteq prepaid
  BY DEF Next, LoopStep, Iterate, ClaimNext, ClaimFails, AllowlistFails, HandBack,
         HandBackFails, HandedBack, StartWave, WaveEnds, WaveHalts, WaveRaises,
         Upkeep, UpkeepFails, Enqueue, ReceiveWebhook, PressRetry, Crash, Clock, vars

LEMMA PrepaidNext ==
  ASSUME TypeInv, PrepaidInFlight, [Next]_vars
  PROVE  PrepaidInFlight'
  <1> SUFFICES ASSUME NEW a \in Asset, a \in prepaid' PROVE table'[a].state \in Waiting
    <2>1. prepaid' \subseteq Asset  BY NextTypes DEF TypeInv, TypeOK
    <2> QED  BY <2>1 DEF PrepaidInFlight, Waiting
  <1>0. table \in [Asset -> Row] /\ table[a] \in Row /\ StaleAge \in Nat /\ 0 \in Nat
        /\ Webhook \in Priority
    BY EngineAssumption DEF TypeInv, TypeOK, Priority
  <1>1. a \in prepaid => table[a].state \in Waiting
    BY DEF PrepaidInFlight, Waiting
  <1>2. ASSUME NEW t \in Thread, JobStep(t) PROVE table'[a].state \in Waiting
    <2>1. CASE a # Id(t)
      <3>1. a \in prepaid  BY <1>2, <2>1, JobPrepaid
      <3>2. table'[a] = table[a]  BY <1>0, <1>2, <2>1, JobRowStep
      <3> QED  BY <1>1, <3>1, <3>2
    <2>2. CASE a = Id(t)
      BY <1>1, <1>2, <2>2, JobPrepaid DEF Waiting
    <2> QED  BY <2>1, <2>2
  <1>3. CASE ~ \E t \in Thread : JobStep(t)
    <2>1. table[a].state \in Waiting  BY <1>1, <1>3, OthersPrepaid
    <2>2. QueueStep(a)  BY <1>3, OthersRowStep
    <2> QED  BY <1>0, <2>1, <2>2, WaitingStays DEF QueueStep
  <1> QED  BY <1>2, <1>3

\* Whatever fails or dies, a charge is remembered only for an asset that was handed back
\* to wait, or was claimed again since: every verdict a worker gives drops it.
THEOREM ChargesAreForWaiting == Spec => []PrepaidInFlight
  <1>1. Init => PrepaidInFlight  BY DEF Init, PrepaidInFlight
  <1>2. TypeInv /\ PrepaidInFlight /\ [Next]_vars => PrepaidInFlight'  BY PrepaidNext
  <1> QED  BY <1>1, <1>2, TypeCorrect, PTL DEF Spec

-----------------------------------------------------------------------------
(* Bytes move once. *)

\* MovedOnce is not inductive alone: what landed must still be there for the next
\* exists() to find, and a job that was told Google lacks the content must still be
\* right when it uploads.
LandedIsThere == \A c \in Checksum : landed[c] > 0 => c \in google
LackingIsTrue == \A t \in Thread : pc[t] \in {"bytes", "upload"} => Content(t) \notin google
MovedInv == MovedOnce /\ LandedIsThere /\ LackingIsTrue

DistinctContents == \A a, b \in Asset : ChecksumOf[a] = ChecksumOf[b] => a = b

\* A step that lands nothing and lets nobody past exists() with the content missing.
LEMMA MovedStep ==
  ASSUME TypeInv, MovedInv, UNCHANGED remote,
         \A t \in Thread : pc'[t] \in {"bytes", "upload"} =>
            \/ pc[t] \in {"bytes", "upload"} /\ item'[t] = item[t]
            \/ ChecksumOf[item'[t].asset] \notin google
  PROVE  MovedInv'
  BY DEF MovedInv, MovedOnce, LandedIsThere, LackingIsTrue, Content, Id, remote

\* An upload lands what nobody else is uploading.
LEMMA MovedLands ==
  ASSUME TypeInv, OwnInv, MovedInv, DistinctContents, NEW t \in Thread,
         UploadLands(t) \/ UploadAnswerLost(t)
  PROVE  MovedInv'
  <1>0. /\ pc[t] = "upload" /\ UNCHANGED item
        /\ google' = google \cup {Content(t)}
        /\ landed' = [landed EXCEPT ![Content(t)] = IF @ < 2 THEN @ + 1 ELSE @]
        /\ \E label \in {"mark", "failing"} : Goto(t, label)
    BY DEF UploadLands, UploadAnswerLost, Land
  <1>1. Content(t) \in Checksum /\ Content(t) \notin google /\ t \in Running
    BY <1>0, JobReads DEF MovedInv, LackingIsTrue, Working, Running
  <1>2. landed \in [Checksum -> 0 .. 2] /\ landed[Content(t)] = 0
    BY <1>1 DEF TypeInv, TypeOK, MovedInv, LandedIsThere
  <1>3. landed'[Content(t)] = 1  BY <1>0, <1>1, <1>2
  <1>4. \A c \in Checksum : c # Content(t) => landed'[c] = landed[c]
    BY <1>0, <1>2
  <1>5. MovedOnce' /\ LandedIsThere'
    BY <1>0, <1>3, <1>4 DEF MovedInv, MovedOnce, LandedIsThere
  <1>6. \A u \in Thread : pc'[u] \in {"bytes", "upload"} => u # t /\ pc[u] = pc'[u]
    BY <1>0 DEF Goto, TypeInv, TypeOK
  <1>7. ASSUME NEW u \in Thread, pc'[u] \in {"bytes", "upload"}
        PROVE  Content(u)' \notin google'
    <2>1. u # t /\ pc[u] \in {"bytes", "upload"} /\ u \in Running
      BY <1>6, <1>7 DEF Running, Working
    <2>2. Id(u) # Id(t)  BY <1>1, <2>1 DEF OwnInv, WorkOwnsItsRow
    <2>3. Id(u) \in Asset /\ Id(t) \in Asset  BY <1>1, <2>1, JobReads DEF Running
    <2>4. Content(u) # Content(t)  BY <2>2, <2>3 DEF DistinctContents, Content
    <2>5. Content(u) \notin google  BY <2>1 DEF MovedInv, LackingIsTrue
    <2>6. Content(u)' = Content(u)  BY <1>0 DEF Content, Id
    <2> QED  BY <1>0, <2>4, <2>5, <2>6
  <1> QED  BY <1>5, <1>7 DEF MovedInv, LackingIsTrue

LEMMA MovedNext ==
  ASSUME TypeInv, OwnInv, MovedInv, DistinctContents, [Next]_vars
  PROVE  MovedInv'
  <1>0. pc \in [Thread -> Working \cup Over \cup {"idle"}] /\ item \in [Thread -> Item \cup {NoItem}]
    BY DEF TypeInv, TypeOK
  <1>1. ASSUME NEW t \in Thread, JobStep(t), ~ UploadLands(t), ~ UploadAnswerLost(t)
        PROVE  MovedInv'
    <2>1. UNCHANGED remote
      BY <1>1 DEF JobStep, ExcludeBarred, ExcludeByAlbum, ResolveLocally, PassLocalChecks,
           ChecksRaise, GoogleHasIt, GoogleLacksIt, DeferToWindow, PassThrottle, DeferToCap,
           MarkSyncedRow, CallFails, AccountRefuses, WriteFails, HandleHalt, HandleFailure,
           HandlerRaises
    <2>2. \A u \in Thread \ {t} : pc'[u] = pc[u] /\ item'[u] = item[u]
      BY <1>0, <1>1 DEF JobStep, ExcludeBarred, ExcludeByAlbum, ResolveLocally, PassLocalChecks,
           ChecksRaise, GoogleHasIt, GoogleLacksIt, DeferToWindow, PassThrottle, DeferToCap,
           MarkSyncedRow, CallFails, AccountRefuses, WriteFails, HandleHalt, HandleFailure,
           HandlerRaises, Finish, Goto
    <2>3. pc'[t] \in {"bytes", "upload"} =>
            /\ item'[t] = item[t]
            /\ pc[t] = "bytes" \/ Content(t) \notin google
      BY <1>0, <1>1 DEF JobStep, ExcludeBarred, ExcludeByAlbum, ResolveLocally, PassLocalChecks,
           ChecksRaise, GoogleHasIt, GoogleLacksIt, DeferToWindow, PassThrottle, DeferToCap,
           MarkSyncedRow, CallFails, AccountRefuses, WriteFails, HandleHalt, HandleFailure,
           HandlerRaises, Finish, Goto
    <2> QED  BY <2>1, <2>2, <2>3, MovedStep DEF Content, Id
  <1>2. CASE ~ \E t \in Thread : JobStep(t)
    <2>1. UNCHANGED remote
      BY <1>2 DEF Next, LoopStep, Iterate, ClaimNext, ClaimFails, AllowlistFails, HandBack,
                 HandBackFails, HandedBack, StartWave, WaveEnds, WaveHalts, WaveRaises,
                 Upkeep, UpkeepFails, Enqueue, ReceiveWebhook, PressRetry, Crash,
                 Clock, vars, remote
    <2>2. \A t \in Thread : pc'[t] \in {"bytes", "upload"} => pc[t] = pc'[t] /\ item'[t] = item[t]
      BY <1>0, <1>2
      DEF Next, LoopStep, Iterate, ClaimNext, ClaimFails, AllowlistFails, HandBack,
          HandBackFails, HandedBack, StartWave, WaveEnds, WaveHalts, WaveRaises,
          Upkeep, UpkeepFails, Enqueue, ReceiveWebhook, PressRetry, Crash,
          Clock, CollectWave, IdleThreads, vars, jobVars
    <2> QED  BY <2>1, <2>2, MovedStep
  <1> QED  BY <1>1, <1>2, MovedLands

\* As long as no database write fails and no two assets share their content, an upload of
\* a content lands at most once, however often an answer is lost, a process dies or an
\* attempt is repeated: every attempt asks Google first, and only one asks at a time.
THEOREM BytesMoveOnce ==
  ASSUME "database" \notin Disruptions, DistinctContents
  PROVE  Spec => []MovedOnce
  <1>1. Init => MovedInv
    BY DEF Init, MovedInv, MovedOnce, LandedIsThere, LackingIsTrue
  <1>2. TypeInv /\ OwnInv /\ [Next]_vars => OwnInv'  BY OwnNext DEF Strike
  <1>3. TypeInv /\ OwnInv /\ MovedInv /\ [Next]_vars => MovedInv'  BY MovedNext
  <1> QED  BY <1>1, <1>2, <1>3, OwnInit, TypeCorrect, PTL DEF Spec, MovedInv

-----------------------------------------------------------------------------
(* Nobody is stranded.  This and the next are about a world in which writes fail  *)
(* and processes die only so often: they speak of a run in which none has yet.    *)

\* What holds until a process dies or a write fails.
NobodyStranded ==
    \A a \in Asset : table[a].state = "uploading" => \E i \in HeldItems : i.asset = a
StrandInv == left <= Budget /\ (left = Budget => OwnInv /\ NobodyStranded)

\* The budget never grows, so a step from a run that has spent some of it spends it too.
LEMMA BudgetSpent ==
  ASSUME TypeInv, [Next]_vars
  PROVE  left' = left \/ left' = left - 1
  BY DEF Next, LoopStep, Iterate, ClaimNext, ClaimFails, AllowlistFails, HandBack,
         HandBackFails, HandedBack, StartWave, WaveEnds, WaveHalts, WaveRaises,
         Upkeep, UpkeepFails, JobStep, ExcludeBarred, ExcludeByAlbum, ResolveLocally,
         PassLocalChecks, ChecksRaise, GoogleHasIt, GoogleLacksIt, DeferToWindow,
         PassThrottle, DeferToCap, UploadLands, UploadAnswerLost, MarkSyncedRow, CallFails,
         AccountRefuses, WriteFails, HandleHalt, HandleFailure, HandlerRaises,
         Enqueue, ReceiveWebhook, PressRetry, Crash, Clock, Strike, vars

\* A disruption that may not come back costs some of it.
LEMMA StrikeCosts ==
  ASSUME TypeInv, NEW kind, kind \notin Recurring, Strike(kind)
  PROVE  left' # left
  BY DEF TypeInv, TypeOK, Strike

\* Only a claim or a verdict moves a row into or out of uploading, so a step that
\* claims nothing and lets go of nothing strands nobody.
LEMMA StrandedStep ==
  ASSUME NobodyStranded, HeldItems \subseteq HeldItems',
         \A a \in Asset : table'[a].state = "uploading" => table[a].state = "uploading"
  PROVE  NobodyStranded'
  BY DEF NobodyStranded

\* What is not a claim makes no row uploading.
LEMMA QueueKeepsOut ==
  ASSUME TypeInv, OwnInv, [Next]_vars, ~ ClaimNext, ~ \E t \in Thread : JobStep(t),
         NEW a \in Asset, table'[a].state = "uploading"
  PROVE  table[a].state = "uploading"
  <1>0. table[a] \in Row /\ StaleAge \in Nat
    BY EngineAssumption DEF TypeInv, TypeOK
  <1>1. QueueStep(a)  BY OthersRowStep
  <1>2. CASE \E p \in Priority, b \in BOOLEAN : table'[a] = UpsertPending(table[a], p, b)
    BY <1>0, <1>2 DEF UpsertPending, NoRow, SoftlyExcluded, Row
  <1>3. CASE table'[a] = RetryNow(table[a])  BY <1>0, <1>3 DEF RetryNow, Row
  <1>4. CASE table'[a] = RequeueStaleUploading(table[a], StaleAge)
    BY <1>0, <1>4 DEF RequeueStaleUploading, Row
  <1>5. CASE table'[a] = Elapse(table[a], StaleAge)  BY <1>0, <1>5 DEF Elapse, Row
  <1>6. CASE table'[a] = Requeue(table[a], 0)  BY <1>0, <1>6 DEF Requeue, Row
  <1> QED  BY <1>1, <1>2, <1>3, <1>4, <1>5, <1>6 DEF QueueStep

\* A worker lets go of its asset with a verdict only.
LEMMA JobEnds ==
  ASSUME TypeInv, ~ Strike("database"), NEW t \in Thread, JobStep(t)
  PROVE  /\ UNCHANGED batch
         /\ \/ \E r : Finish(t, r, "ok") /\ JobLeaves(t, r)
            \/ \E r : Finish(t, r, "halted") /\ JobLeaves(t, r)
            \/ \E label \in Working : Goto(t, label) /\ UNCHANGED <<table, item>>
  <1> USE EngineAssumption
  <1>1. CASE ExcludeBarred(t) \/ ExcludeByAlbum(t) \/ ResolveLocally(t) \/ MarkSyncedRow(t)
    BY <1>1 DEF ExcludeBarred, ExcludeByAlbum, ResolveLocally, MarkSyncedRow, JobLeaves, tickVars
  <1>2. CASE DeferToWindow(t) \/ DeferToCap(t) \/ HandleHalt(t)
    BY <1>2 DEF DeferToWindow, DeferToCap, HandleHalt, JobLeaves, tickVars
  <1>3. CASE HandleFailure(t)
    BY <1>3 DEF HandleFailure, JobLeaves, tickVars
  <1>4. CASE \/ PassLocalChecks(t) \/ GoogleHasIt(t) \/ GoogleLacksIt(t) \/ PassThrottle(t)
             \/ UploadLands(t) \/ UploadAnswerLost(t) \/ CallFails(t) \/ AccountRefuses(t)
             \/ WriteFails(t)
    BY <1>4 DEF PassLocalChecks, GoogleHasIt, GoogleLacksIt, PassThrottle, UploadLands,
               UploadAnswerLost, CallFails, AccountRefuses, WriteFails, tickVars, Working
  <1>5. ~ ChecksRaise(t) /\ ~ HandlerRaises(t)  BY DEF ChecksRaise, HandlerRaises
  <1> QED  BY <1>1, <1>2, <1>3, <1>4, <1>5 DEF JobStep

\* No verdict leaves its row claimed.
LEMMA VerdictReleases ==
  ASSUME NEW t \in Thread, NEW r, RowOf(t) \in Row, JobLeaves(t, r)
  PROVE  r.state # "uploading"
  BY DEF JobLeaves, MarkIneligible, MarkSynced, Requeue, DeferForBandwidth, MarkFailed,
         MarkRetry, Row

LEMMA StrandedJob ==
  ASSUME TypeInv, OwnInv, NobodyStranded, ~ Strike("database"), NEW t \in Thread, JobStep(t)
  PROVE  NobodyStranded'
  <1>0. /\ pc[t] \in Working /\ t \in Running
        /\ pc \in [Thread -> Working \cup Over \cup {"idle"}] /\ table \in [Asset -> Row]
        /\ item \in [Thread -> Item \cup {NoItem}]
    BY JobRuns DEF TypeInv, TypeOK
  <1>1. Id(t) \in Asset /\ RowOf(t) \in Row  BY <1>0, JobReads
  <1>2. UNCHANGED batch  BY JobEnds
  <1>3. ASSUME NEW r, NEW result \in {"ok", "halted"}, Finish(t, r, result), JobLeaves(t, r)
        PROVE  NobodyStranded'
    <2>1. r.state # "uploading"  BY <1>1, <1>3, VerdictReleases
    <2>2. \A u \in Running \ {t} : u \in Running' /\ item'[u] = item[u]
      BY <1>0, <1>3 DEF Finish, Goto, Running
    <2>3. \A i \in HeldItems : i.asset # Id(t) => i \in HeldItems'
      BY <1>2, <2>2 DEF HeldItems, Id
    <2>4. \A a \in Asset : table'[a] = IF a = Id(t) THEN r ELSE table[a]
      BY <1>0, <1>3 DEF Finish
    <2> QED  BY <2>1, <2>3, <2>4 DEF NobodyStranded
  <1>4. ASSUME NEW label \in Working, Goto(t, label), UNCHANGED <<table, item>>
        PROVE  NobodyStranded'
    <2>1. Running' = Running  BY <1>0, <1>4 DEF Goto, Running
    <2> QED  BY <1>2, <1>4, <2>1, StrandedStep DEF HeldItems
  <1> QED  BY <1>3, <1>4, JobEnds

LEMMA StrandedClaim ==
  ASSUME TypeInv, OwnInv, NobodyStranded, ClaimNext
  PROVE  NobodyStranded'
  <1>1. batch = {} /\ Running = {}  BY NothingHeld DEF ClaimNext, InTick
  <1>2. \A a \in Asset : table[a].state # "uploading"
    BY <1>1 DEF NobodyStranded, HeldItems
  <1>3. PICK S \in Claims, open \in BOOLEAN :
          /\ table' = [a \in Asset |-> IF a \in S THEN Claim(table[a]) ELSE table[a]]
          /\ batch' = {[asset |-> a, attempts |-> table[a].attempts,
                        barred |-> table[a].barred, open |-> open] : a \in S}
    BY DEF ClaimNext
  <1>4. \A a \in Asset : table'[a].state = "uploading" => a \in S
    BY <1>2, <1>3
  <1>5. \A a \in S : \E i \in batch' : i.asset = a
    <2> TAKE a \in S
    <2> DEFINE i == [asset |-> a, attempts |-> table[a].attempts,
                     barred |-> table[a].barred, open |-> open]
    <2>1. i \in batch' /\ i.asset = a  BY <1>3
    <2> QED  BY <2>1
  <1> QED  BY <1>4, <1>5 DEF NobodyStranded, HeldItems

LEMMA StrandedWave ==
  ASSUME TypeInv, OwnInv, NobodyStranded, StartWave
  PROVE  NobodyStranded'
  <1>1. PICK T \in SUBSET IdleThreads : \E give \in [T -> batch] :
          /\ batch' = batch \ {give[t] : t \in T}
          /\ pc' = [t \in Thread |-> IF t \in T THEN "check" ELSE pc[t]]
          /\ item' = [t \in Thread |-> IF t \in T THEN give[t] ELSE item[t]]
    BY DEF StartWave
  <1>2. PICK give \in [T -> batch] :
          /\ batch' = batch \ {give[t] : t \in T}
          /\ pc' = [t \in Thread |-> IF t \in T THEN "check" ELSE pc[t]]
          /\ item' = [t \in Thread |-> IF t \in T THEN give[t] ELSE item[t]]
    BY <1>1
  <1>3. T \subseteq Thread  BY DEF IdleThreads
  <1>4. \A t \in T : t \in Running' /\ item'[t] = give[t]
    BY <1>2, <1>3 DEF Running, Working
  <1>5. \A t \in Running : t \in Running' /\ (t \notin T => item'[t] = item[t]) /\ t \notin T
    BY <1>2 DEF Running, IdleThreads, Working
  <1>6. HeldItems \subseteq HeldItems'
    <2>1. ASSUME NEW i \in batch PROVE i \in HeldItems'
      BY <1>2, <1>4 DEF HeldItems
    <2>2. ASSUME NEW t \in Running PROVE item[t] \in HeldItems'
      BY <1>5 DEF HeldItems
    <2> QED  BY <2>1, <2>2 DEF HeldItems
  <1>7. UNCHANGED table  BY DEF StartWave
  <1> QED  BY <1>6, <1>7, StrandedStep

LEMMA StrandedNext ==
  ASSUME TypeInv, OwnInv, NobodyStranded, ~ Strike("database"), ~ Crash, [Next]_vars
  PROVE  NobodyStranded'
  <1>0. table \in [Asset -> Row]  BY DEF TypeInv, TypeOK
  <1>1. ASSUME NEW t \in Thread, JobStep(t) PROVE NobodyStranded'  BY <1>1, StrandedJob
  <1>2. CASE ClaimNext  BY <1>2, StrandedClaim
  <1>3. CASE StartWave  BY <1>3, StrandedWave
  <1>4. CASE ~ ClaimNext /\ ~ StartWave /\ ~ \E t \in Thread : JobStep(t)
    <2>0. \A a \in Asset : table'[a].state = "uploading" => table[a].state = "uploading"
      BY <1>4, QueueKeepsOut
    <2>1. ASSUME NEW i \in batch, HandBack(i) PROVE NobodyStranded'
      <3>1. /\ batch' = batch \ {i} /\ Running' = Running /\ item' = item
            /\ table' = [table EXCEPT ![i.asset] = Requeue(@, 0)]
        BY <2>1 DEF HandBack, jobVars, Running
      <3>2. i.asset \in Asset /\ table[i.asset] \in Row  BY DEF TypeInv, TypeOK, Item
      <3>3. table'[i.asset].state # "uploading"
        BY <1>0, <3>1, <3>2 DEF Requeue, Row
      <3>4. \A j \in HeldItems : j.asset # i.asset => j \in HeldItems'
        BY <3>1 DEF HeldItems
      <3> QED  BY <2>0, <3>3, <3>4 DEF NobodyStranded
    <2>2. CASE WaveEnds \/ WaveHalts
      <3>1. Running = {} /\ UNCHANGED batch
        BY <2>2, OwnWaveOver DEF WaveEnds, WaveHalts
      <3> QED  BY <2>0, <3>1, StrandedStep DEF HeldItems
    <2>3. ~ WaveRaises
      BY DEF WaveRaises, EndedIn, OwnInv, AllAwaited, TypeInv, TypeOK
    <2>4. CASE HandedBack \/ Iterate \/ AllowlistFails \/ Upkeep
      <3>1. UNCHANGED <<jobVars, batch>>
        BY <2>4 DEF HandedBack, Iterate, AllowlistFails, Upkeep, tickVars
      <3> QED  BY <2>0, <3>1, StrandedStep DEF HeldItems, Running, jobVars
    <2>5. ~ ClaimFails /\ ~ HandBackFails /\ ~ UpkeepFails
      BY DEF ClaimFails, HandBackFails, UpkeepFails
    <2>6. CASE ~ LoopStep
      <3>1. UNCHANGED <<jobVars, batch>>
        BY <1>4, <2>6 DEF Next, Enqueue, ReceiveWebhook, PressRetry, Clock, vars, tickVars
      <3> QED  BY <2>0, <3>1, StrandedStep DEF HeldItems, Running, jobVars
    <2> QED  BY <1>4, <2>1, <2>2, <2>3, <2>4, <2>5, <2>6 DEF LoopStep
  <1> QED  BY <1>1, <1>2, <1>3, <1>4

\* Where processes die and writes fail only so often: until the first of them does, every
\* row that is claimed is held by a worker or waits in the batch, whatever halts, refused
\* accounts, failing uploads and Immich outages there were before.
THEOREM ClaimsAreWorkedOn ==
  ASSUME "database" \notin Recurring, "crash" \notin Recurring
  PROVE  Spec => []NothingStranded
  <1>1. Init => StrandInv
    BY OwnInit, EngineAssumption DEF Init, StrandInv, NobodyStranded, NoRow
  <1>2. ASSUME TypeInv, StrandInv, [Next]_vars PROVE StrandInv'
    <2>0. left \in Nat /\ Budget \in Nat  BY <1>2, EngineAssumption DEF TypeInv, TypeOK
    <2>1. left' <= Budget /\ (left' = Budget => left' = left)
      BY <1>2, <2>0, BudgetSpent DEF StrandInv
    <2>2. ASSUME left' = left PROVE ~ Strike("database") /\ ~ Crash
      BY <1>2, <2>2, StrikeCosts DEF Crash
    <2>3. ASSUME left' = Budget PROVE OwnInv' /\ NobodyStranded'
      <3>1. OwnInv /\ NobodyStranded /\ ~ Strike("database") /\ ~ Crash
        BY <1>2, <2>1, <2>2, <2>3 DEF StrandInv
      <3> QED  BY <1>2, <3>1, OwnNext, StrandedNext
    <2> QED  BY <2>1, <2>3 DEF StrandInv
  <1>3. StrandInv => NothingStranded  BY DEF StrandInv, NobodyStranded, NothingStranded
  <1> QED  BY <1>1, <1>2, <1>3, TypeCorrect, PTL DEF Spec

-----------------------------------------------------------------------------
(* What an outage costs. *)

\* Until something happens that belongs to one asset.
Uncharged(r) == r.attempts = 0 /\ r.state # "failed"
Unspent == /\ \A t \in Thread : pc[t] # "failing"
           /\ \A a \in Asset : Uncharged(table[a])
OutageInv == left <= Budget /\ (left = Budget => Unspent)

\* A row that has not failed is charged and quarantined by the failure handler alone.
LEMMA UnchargedStays ==
  ASSUME NEW r \in Row, Uncharged(r), NEW p \in Priority, NEW b \in BOOLEAN, NEW d \in Nat
  PROVE  /\ Uncharged(UpsertPending(r, p, b))
         /\ Uncharged(Claim(r))
         /\ Uncharged(RetryNow(r))
         /\ Uncharged(RequeueStaleUploading(r, d))
         /\ Uncharged(Elapse(r, d))
         /\ Uncharged(Requeue(r, d))
         /\ Uncharged(DeferForBandwidth(r, d))
         /\ Uncharged(MarkSynced(r))
         /\ Uncharged(MarkIneligible(r, "hard"))
         /\ Uncharged(MarkIneligible(r, "album_excluded"))
  <1>1. Uncharged(UpsertPending(r, p, b))
    BY DEF Uncharged, UpsertPending, NoRow, SoftlyExcluded, Settled, Row
  <1>2. Uncharged(Claim(r)) /\ Uncharged(RetryNow(r))
    BY DEF Uncharged, Claim, RetryNow, Row
  <1>3. Uncharged(RequeueStaleUploading(r, d))
    BY DEF Uncharged, RequeueStaleUploading, Row
  <1>4. Uncharged(Elapse(r, d))  BY DEF Uncharged, Elapse, Row
  <1>5. Uncharged(Requeue(r, d)) /\ Uncharged(DeferForBandwidth(r, d))
    BY DEF Uncharged, Requeue, DeferForBandwidth, Row
  <1>6. /\ Uncharged(MarkSynced(r))
        /\ Uncharged(MarkIneligible(r, "hard"))
        /\ Uncharged(MarkIneligible(r, "album_excluded"))
    BY DEF Uncharged, MarkSynced, MarkIneligible, Row
  <1> QED  BY <1>1, <1>2, <1>3, <1>4, <1>5, <1>6

LEMMA UnspentNext ==
  ASSUME TypeInv, Unspent, ~ Strike("database"), ~ Strike("asset"), [Next]_vars
  PROVE  Unspent'
  <1>0. /\ pc \in [Thread -> Working \cup Over \cup {"idle"}] /\ table \in [Asset -> Row]
        /\ StaleAge \in Nat /\ 0 \in Nat /\ Webhook \in Priority /\ TRUE \in BOOLEAN
    BY EngineAssumption DEF TypeInv, TypeOK, Priority
  <1>1. ASSUME NEW t \in Thread PROVE pc'[t] # "failing"
    <2>1. pc[t] # "failing"  BY DEF Unspent
    <2>2. CASE \E u \in Thread : JobStep(u)
      BY <1>0, <2>1, <2>2
      DEF JobStep, ExcludeBarred, ExcludeByAlbum, ResolveLocally, PassLocalChecks,
          ChecksRaise, GoogleHasIt, GoogleLacksIt, DeferToWindow, PassThrottle, DeferToCap,
          UploadLands, UploadAnswerLost, MarkSyncedRow, CallFails, AccountRefuses,
          WriteFails, HandleHalt, HandleFailure, HandlerRaises, Finish, Goto
    <2>3. CASE ~ \E u \in Thread : JobStep(u)
      BY <1>0, <2>1, <2>3
      DEF Next, LoopStep, Iterate, ClaimNext, ClaimFails, AllowlistFails, HandBack,
          HandBackFails, HandedBack, StartWave, WaveEnds, WaveHalts, WaveRaises,
          Upkeep, UpkeepFails, Enqueue, ReceiveWebhook, PressRetry, Crash,
          Clock, CollectWave, vars, jobVars
    <2> QED  BY <2>2, <2>3
  <1>2. ASSUME NEW a \in Asset PROVE Uncharged(table'[a])
    <2>0. table[a] \in Row /\ Uncharged(table[a])  BY <1>0 DEF Unspent
    <2>1. RowStep(a)  BY EveryRowStep
    <2>2. CASE QueueStep(a)
      BY <1>0, <2>0, <2>2, UnchargedStays DEF QueueStep
    <2>3. ASSUME NEW t \in Running, Id(t) = a, JobLeaves(t, table'[a])
          PROVE  Uncharged(table'[a])
      <3>1. RowOf(t) = table[a] /\ pc[t] # "failing"
        BY <2>3 DEF RowOf, Unspent, Running
      <3> QED  BY <1>0, <2>0, <2>3, <3>1, UnchargedStays DEF JobLeaves
    <2> QED  BY <2>1, <2>2, <2>3 DEF RowStep
  <1> QED  BY <1>1, <1>2 DEF Unspent

\* Refused accounts, exhausted quotas, Immich outages, closed windows and crashes, however
\* many and in whatever order, burn no attempt and quarantine nothing; only failing
\* writes and failures that belong to an asset do.
THEOREM OutagesAreFree ==
  ASSUME "database" \notin Recurring, "asset" \notin Recurring
  PROVE  Spec => []OutageCostsNothing
  <1>1. Init => OutageInv  BY EngineAssumption DEF Init, OutageInv, Unspent, Uncharged, NoRow
  <1>2. ASSUME TypeInv, OutageInv, [Next]_vars PROVE OutageInv'
    <2>0. left \in Nat /\ Budget \in Nat  BY <1>2, EngineAssumption DEF TypeInv, TypeOK
    <2>1. left' <= Budget /\ (left' = Budget => left' = left)
      BY <1>2, <2>0, BudgetSpent DEF OutageInv
    <2>2. ASSUME left' = left PROVE ~ Strike("database") /\ ~ Strike("asset")
      BY <1>2, <2>2, StrikeCosts
    <2>3. ASSUME left' = Budget PROVE Unspent'
      BY <1>2, <2>1, <2>2, <2>3, UnspentNext DEF OutageInv
    <2> QED  BY <2>1, <2>3 DEF OutageInv
  <1>3. OutageInv => OutageCostsNothing  BY DEF OutageInv, Unspent, Uncharged, OutageCostsNothing
  <1> QED  BY <1>1, <1>2, <1>3, TypeCorrect, PTL DEF Spec

\* As long as no database write fails, no job outlives the wave that started it: what the
\* engine_orphans run shows of a failing write takes a failing write.
THEOREM WavesAreAwaited ==
  ASSUME "database" \notin Disruptions
  PROVE  Spec => []WaveAwaited
  <1>1. TypeInv /\ OwnInv /\ [Next]_vars => OwnInv'  BY OwnNext DEF Strike
  <1>2. OwnInv => WaveAwaited
    BY DEF OwnInv, AllAwaited, WaveAwaited, Running, Working
  <1> QED  BY <1>1, <1>2, OwnInit, TypeCorrect, PTL DEF Spec
=============================================================================
