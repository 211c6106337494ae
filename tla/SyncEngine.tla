----------------------------- MODULE SyncEngine -----------------------------
(***************************************************************************)
(* One account's engine: the background loop (sync/loops.py) that ticks    *)
(* the runtime (sync/runtime.py), the worker threads a tick fans its batch *)
(* out to (sync/worker.py), the asset table they share (store/assets.py),  *)
(* and what happens around them: webhooks, the retry button, the clock,    *)
(* Google's answers, failing database writes and crashes.                  *)
(*                                                                         *)
(* The thread interleavings are those of the code: a job advances by one   *)
(* database statement or one remote call at a time; the loop thread waits  *)
(* for a wave and runs its upkeep only between ticks.                      *)
(***************************************************************************)
EXTENDS AssetTable, FiniteSets

CONSTANTS
    Asset,           \* the immich ids
    Checksum,        \* the contents
    ChecksumOf,      \* the content of each asset
    Thread,          \* threads that can run Worker.process
    NoItem,          \* what a thread without an asset holds
    WorkerThreads,   \* the values settings.worker_threads may have
    BatchLimit,      \* tick's limit on a claim
    MaxAttempts,     \* RetryPolicy.max_attempts
    RetryDelays,     \* what next_delay may return (it is jittered)
    HaltDelay,       \* HALT_RETRY_DELAY
    WindowDelay,     \* WINDOW_RETRY_DELAY
    CapDelays,       \* waits of the bandwidth cap too long to sleep out; {}: no cap
    PauseRetryAfter, \* PAUSE_RETRY_AFTER
    StaleAge,        \* STALE_UPLOAD_AGE
    ReconcileEvery,  \* settings.reconcile_interval
    Reports,         \* what an upsert may carry: whence it comes, whether it bars
    AlbumAllowlist,  \* whether filters.album_allowlist is set
    Disruptions,     \* the kinds of disruption that can strike
    Recurring,       \* those of them that may come back forever
    Budget           \* bound: how often the others may strike

ASSUME EngineAssumption ==
    /\ ChecksumOf \in [Asset -> Checksum]
    /\ NoItem \notin [asset : Asset, attempts : Nat, barred : BOOLEAN, open : BOOLEAN]
    /\ WorkerThreads \subseteq Nat \ {0} /\ BatchLimit \in Nat \ {0}
    /\ MaxAttempts \in Nat \ {0}
    /\ RetryDelays \subseteq Nat /\ CapDelays \subseteq Nat
    /\ HaltDelay \in Nat /\ WindowDelay \in Nat /\ PauseRetryAfter \in Nat
    /\ StaleAge \in Nat \ {0} /\ ReconcileEvery \in Nat
    /\ Reports \subseteq [priority : Priority, barred : BOOLEAN]
    /\ AlbumAllowlist \in BOOLEAN
    /\ Disruptions \subseteq {"crash", "database", "immich", "account", "window", "asset"}
    /\ Recurring \subseteq Disruptions /\ Budget \in Nat

VARIABLES
    table,      \* the asset table
    google,     \* the contents in the Google library
    landed,     \* history: the uploads Google accepted, per content, up to 2
    pc,         \* where each thread is in Worker.process
    item,       \* the asset it was given
    wave,       \* the threads whose futures the tick is waiting for
    poolSize,   \* tick's pool_size; it stays what it was at boot
    batch,      \* the claimed assets no thread was given, and not handed back
    loop,       \* where the loop thread is in BackgroundLoops.iterate
    paused,     \* Runtime._paused_reason is set
    pausedFor,  \* how long ago _paused_at is, or Null
    sweepIn,    \* how long until _next_reconcile
    sweepDue,   \* this pass of iterate found _next_reconcile past
    prepaid,    \* Worker._throttle_prepaid
    left        \* bound: the disruptions still allowed to strike

jobVars   == <<pc, item>>
tickVars  == <<batch, wave>>
pauseVars == <<paused, pausedFor>>
sweepVars == <<sweepIn, sweepDue>>
remote    == <<google, landed>>
vars == <<table, remote, jobVars, prepaid, tickVars, poolSize, loop, pauseVars, sweepVars, left>>

\* A claimed row as its worker will see it, however the row changes later, with
\* the tick's answer of transfer_allowed.
Item == [asset : Asset, attempts : Nat, barred : BOOLEAN, open : BOOLEAN]

\* The steps of process, then the three ways it ends: it returned, it returned
\* with halt=True, or an exception escaped it.
Working == {"check", "remote", "bytes", "upload", "mark", "failing", "halting"}
Over    == {"ok", "halted", "raised"}

IdleThreads == {t \in Thread : pc[t] = "idle"}
Running     == {t \in Thread : pc[t] \in Working}
Id(t)       == item[t].asset
RowOf(t)    == table[Id(t)]
Content(t)  == ChecksumOf[Id(t)]

Init ==
    /\ table = [a \in Asset |-> NoRow]
    /\ google \in SUBSET Checksum
    /\ landed = [c \in Checksum |-> 0]
    /\ pc = [t \in Thread |-> "idle"]
    /\ item = [t \in Thread |-> NoItem]
    /\ wave = {} /\ batch = {} /\ prepaid = {}
    /\ poolSize \in WorkerThreads
    /\ loop = "top" /\ paused = FALSE /\ pausedFor = Null
    /\ sweepIn = 0 /\ sweepDue = FALSE
    /\ left = Budget

\* What the environment does to the engine: a crash, a failing database write, an
\* Immich outage, the Google account refusing (auth or quota), a closed window, or
\* a call failing for a reason of its asset's own.
Strike(kind) ==
    /\ kind \in Disruptions
    /\ IF kind \in Recurring THEN UNCHANGED left ELSE left > 0 /\ left' = left - 1

-----------------------------------------------------------------------------
(* The loop thread. *)

\* The head of iterate: age a pause, decide whether this pass reconciles, and
\* tick unless the runtime is still paused.
Iterate ==
    /\ loop = "top"
    /\ sweepDue' = (sweepIn = 0)
    /\ sweepIn' = IF sweepIn = 0 THEN ReconcileEvery ELSE sweepIn
    /\ \/ /\ ~paused
          /\ pausedFor' = Null /\ loop' = "claim" /\ UNCHANGED paused
       \/ /\ paused /\ pausedFor = Null
          /\ pausedFor' = 0 /\ loop' = "upkeep" /\ UNCHANGED paused
       \/ /\ paused /\ pausedFor \in 0 .. PauseRetryAfter - 1
          /\ loop' = "upkeep" /\ UNCHANGED pauseVars
       \/ /\ paused /\ pausedFor >= PauseRetryAfter
          /\ paused' = FALSE /\ pausedFor' = Null /\ loop' = "claim"
    /\ UNCHANGED <<table, remote, jobVars, prepaid, tickVars, left>>

\* The rows claim_next may take: as many claimable ones as the limit allows, none
\* passed over for one of lower priority.  (first_seen_at only breaks ties.)
Claims ==
    LET ready == {a \in Asset : Claimable(table[a])}
    IN {S \in SUBSET ready :
          /\ Cardinality(S) = IF Cardinality(ready) < BatchLimit
                              THEN Cardinality(ready) ELSE BatchLimit
          /\ \A a \in S, b \in ready \ S : table[a].priority <= table[b].priority}

ClaimNext ==
    /\ loop = "claim"
    /\ \E S \in Claims, open \in BOOLEAN :
          /\ IF open THEN UNCHANGED left ELSE Strike("window")
          /\ table' = [a \in Asset |-> IF a \in S THEN Claim(table[a]) ELSE table[a]]
          /\ batch' = {[asset |-> a, attempts |-> table[a].attempts,
                        barred |-> table[a].barred, open |-> open] : a \in S}
          /\ loop' = IF S = {} THEN "upkeep" ELSE "resolve"
    /\ UNCHANGED <<remote, jobVars, wave, prepaid, pauseVars, sweepVars>>

\* claim_next raises: nothing was claimed, and the pass goes on.
ClaimFails ==
    /\ loop = "claim"
    /\ Strike("database")
    /\ loop' = "upkeep"
    /\ UNCHANGED <<table, remote, jobVars, tickVars, prepaid, pauseVars, sweepVars>>

\* _album_allowlist_ids asks Immich; if that raises, the tick hands its claims
\* back before it lets the exception out.
AllowlistFails ==
    /\ loop = "resolve" /\ AlbumAllowlist
    /\ Strike("immich")
    /\ loop' = "abandon"
    /\ UNCHANGED <<table, remote, jobVars, tickVars, prepaid, pauseVars, sweepVars>>

\* One row of what is left of the batch goes back to the queue, claimable at once.
HandBack(i) ==
    /\ loop \in {"abandon", "halt"} /\ i \in batch
    /\ table' = [table EXCEPT ![i.asset] = Requeue(@, 0)]
    /\ batch' = batch \ {i}
    /\ UNCHANGED <<remote, jobVars, wave, prepaid, loop, pauseVars, sweepVars, left>>

\* A failing requeue takes the tick with it: the others stay claimed, and a halted
\* runtime is not even paused.
HandBackFails ==
    /\ loop \in {"abandon", "halt"} /\ batch # {}
    /\ Strike("database")
    /\ batch' = {} /\ loop' = "upkeep"
    /\ UNCHANGED <<table, remote, jobVars, wave, prepaid, pauseVars, sweepVars>>

\* With its claims handed back the tick ends; after a halt it pauses the runtime.
HandedBack ==
    /\ loop \in {"abandon", "halt"} /\ batch = {}
    /\ loop' = "upkeep"
    /\ paused' = (paused \/ loop = "halt")
    /\ UNCHANGED <<table, remote, jobVars, tickVars, prepaid, pausedFor, sweepVars, left>>

\* RETURNING promises no order, so a wave is any poolSize of what is left.
StartWave ==
    /\ loop \in {"resolve", "dispatch"} /\ batch # {}
    /\ \E T \in SUBSET IdleThreads : \E give \in [T -> batch] :
          /\ Cardinality(T) = IF Cardinality(batch) < poolSize
                              THEN Cardinality(batch) ELSE poolSize
          /\ \A t, u \in T : give[t] = give[u] => t = u
          /\ wave' = T
          /\ batch' = batch \ {give[t] : t \in T}
          /\ pc' = [t \in Thread |-> IF t \in T THEN "check" ELSE pc[t]]
          /\ item' = [t \in Thread |-> IF t \in T THEN give[t] ELSE item[t]]
    /\ loop' = "wave"
    /\ UNCHANGED <<table, remote, prepaid, pauseVars, sweepVars, left>>

WaveOver == loop = "wave" /\ \A t \in wave : pc[t] \in Over
EndedIn(result) == \E t \in wave : pc[t] = result
CollectWave ==
    /\ pc' = [t \in Thread |-> IF t \in wave /\ pc[t] \in Over THEN "idle" ELSE pc[t]]
    /\ wave' = {}

WaveEnds ==
    /\ WaveOver /\ ~EndedIn("raised") /\ ~EndedIn("halted")
    /\ CollectWave
    /\ loop' = IF batch = {} THEN "upkeep" ELSE "dispatch"
    /\ UNCHANGED <<table, remote, item, prepaid, batch, pauseVars, sweepVars, left>>

\* Slip: the waves never dispatched are let go of without being handed back.
WaveHaltsAlone ==
    /\ WaveOver /\ ~EndedIn("raised") /\ EndedIn("halted")
    /\ CollectWave
    /\ batch' = {} /\ loop' = "halt"
    /\ UNCHANGED <<table, remote, item, prepaid, pauseVars, sweepVars, left>>

\* A halt: the waves never dispatched are handed back.
WaveHalts ==
    /\ WaveOver /\ ~EndedIn("raised") /\ EndedIn("halted")
    /\ CollectWave
    /\ loop' = "halt"
    /\ UNCHANGED <<table, remote, item, prepaid, batch, pauseVars, sweepVars, left>>

\* future.result() rethrows what escaped Worker.process as soon as the loop thread
\* reaches that future: the rest of the wave keeps running with nobody waiting for
\* it, the rest of the batch stays claimed, and iterate carries on after the tick.
WaveRaises ==
    /\ loop = "wave" /\ EndedIn("raised")
    /\ CollectWave
    /\ batch' = {} /\ loop' = "upkeep"
    /\ UNCHANGED <<table, remote, item, prepaid, pauseVars, sweepVars, left>>

\* The reconciler (on a reconciling pass) and the backfill slice enqueue what
\* Immich reports from the loop thread, between the tick and the end of the pass.
Enqueue(a) ==
    /\ loop = "upkeep"
    /\ \E r \in Reports :
          /\ r.priority # Webhook
          /\ r.priority = Reconcile => sweepDue
          /\ table' = [table EXCEPT ![a] = UpsertPending(@, r.priority, r.barred)]
    /\ UNCHANGED <<remote, jobVars, prepaid, tickVars, poolSize, loop, pauseVars, sweepVars, left>>

\* Slip: stale claims are recovered at boot only.
UpkeepWithoutSweep ==
    /\ loop = "upkeep"
    /\ loop' = "top" /\ sweepDue' = FALSE
    /\ UNCHANGED <<table, remote, jobVars, prepaid, tickVars, pauseVars, sweepIn, left>>

\* The end of the pass: the sweep of stale claims, when it is a reconciling one.
Upkeep ==
    /\ loop = "upkeep"
    /\ table' = [a \in Asset |-> IF sweepDue THEN RequeueStaleUploading(table[a], StaleAge)
                                 ELSE table[a]]
    /\ loop' = "top" /\ sweepDue' = FALSE
    /\ UNCHANGED <<remote, jobVars, prepaid, tickVars, pauseVars, sweepIn, left>>

\* The sweep itself fails; _next_reconcile moves on all the same.
UpkeepFails ==
    /\ loop = "upkeep" /\ sweepDue
    /\ Strike("database")
    /\ loop' = "top" /\ sweepDue' = FALSE
    /\ UNCHANGED <<table, remote, jobVars, prepaid, tickVars, pauseVars, sweepIn>>

LoopStep ==
    /\ UNCHANGED poolSize
    /\ \/ Iterate \/ ClaimNext \/ ClaimFails \/ AllowlistFails
       \/ HandBackFails \/ HandedBack \/ \E i \in batch : HandBack(i)
       \/ StartWave \/ WaveEnds \/ WaveHalts \/ WaveRaises
       \/ Upkeep \/ UpkeepFails

-----------------------------------------------------------------------------
(* Worker.process, on thread t. *)

Goto(t, label) == pc' = [pc EXCEPT ![t] = label]

\* process ends and leaves its asset's row as r.  A result nobody waits for is
\* dropped with its future.
Finish(t, r, result) ==
    /\ table' = [table EXCEPT ![Id(t)] = r]
    /\ Goto(t, IF t \in wave THEN result ELSE "idle")
    /\ item' = [item EXCEPT ![t] = NoItem]

\* Slip: the finally block is forgotten.
KeepPrepaid(t) == UNCHANGED prepaid

\* The finally block: the prepaid mark outlives only the calls that handed their
\* asset back to wait.
DropPrepaid(t) == prepaid' = prepaid \ {Id(t)}

ExcludeBarred(t) ==
    /\ pc[t] = "check" /\ item[t].barred
    /\ Finish(t, MarkIneligible(RowOf(t), "hard"), "ok") /\ DropPrepaid(t)
    /\ UNCHANGED <<remote, tickVars, loop, pauseVars, sweepVars, left>>

ExcludeByAlbum(t) ==
    /\ pc[t] = "check" /\ ~item[t].barred /\ AlbumAllowlist
    /\ Finish(t, MarkIneligible(RowOf(t), "album_excluded"), "ok") /\ DropPrepaid(t)
    /\ UNCHANGED <<remote, tickVars, loop, pauseVars, sweepVars, left>>

\* Some row with this content, in whatever state, has a media key.
HasLocalKey(c) == \E a \in Asset : ChecksumOf[a] = c /\ table[a].hasKey

ResolveLocally(t) ==
    /\ pc[t] = "check" /\ ~item[t].barred /\ HasLocalKey(Content(t))
    /\ Finish(t, MarkSynced(RowOf(t)), "ok") /\ DropPrepaid(t)
    /\ UNCHANGED <<remote, tickVars, loop, pauseVars, sweepVars, left>>

\* Slip: bytes are moved without asking Google for the hash first.
PassLocalChecksUnasked(t) ==
    /\ pc[t] = "check" /\ ~item[t].barred /\ ~HasLocalKey(Content(t))
    /\ Goto(t, "bytes")
    /\ UNCHANGED <<table, remote, item, prepaid, tickVars, loop, pauseVars, sweepVars, left>>

PassLocalChecks(t) ==
    /\ pc[t] = "check" /\ ~item[t].barred /\ ~HasLocalKey(Content(t))
    /\ Goto(t, "remote")
    /\ UNCHANGED <<table, remote, item, prepaid, tickVars, loop, pauseVars, sweepVars, left>>

\* The checks' own database calls sit outside the try: the error escapes process.
ChecksRaise(t) ==
    /\ pc[t] = "check"
    /\ Strike("database")
    /\ Finish(t, RowOf(t), "raised") /\ DropPrepaid(t)
    /\ UNCHANGED <<remote, tickVars, loop, pauseVars, sweepVars>>

GoogleHasIt(t) ==
    /\ pc[t] = "remote" /\ Content(t) \in google
    /\ Goto(t, "mark")
    /\ UNCHANGED <<table, remote, item, prepaid, tickVars, loop, pauseVars, sweepVars, left>>

GoogleLacksIt(t) ==
    /\ pc[t] = "remote" /\ Content(t) \notin google /\ item[t].open
    /\ Goto(t, "bytes")
    /\ UNCHANGED <<table, remote, item, prepaid, tickVars, loop, pauseVars, sweepVars, left>>

DeferToWindow(t) ==
    /\ pc[t] = "remote" /\ Content(t) \notin google /\ ~item[t].open
    /\ Finish(t, Requeue(RowOf(t), WindowDelay), "ok")
    /\ UNCHANGED <<remote, prepaid, tickVars, loop, pauseVars, sweepVars, left>>

\* _throttle_upload lets the upload go: no cap, a wait slept out inline, or a
\* charge an earlier call already paid.
PassThrottle(t) ==
    /\ pc[t] = "bytes"
    /\ Goto(t, "upload") /\ DropPrepaid(t)
    /\ UNCHANGED <<table, remote, item, tickVars, loop, pauseVars, sweepVars, left>>

\* Slip: the retry of a deferred upload is charged again.
DeferToCapUnremembered(t) ==
    /\ pc[t] = "bytes" /\ Id(t) \notin prepaid
    /\ \E d \in CapDelays : Finish(t, DeferForBandwidth(RowOf(t), d), "ok")
    /\ UNCHANGED <<remote, prepaid, tickVars, loop, pauseVars, sweepVars, left>>

\* The bucket is charged and the wait is too long to sleep out.
DeferToCap(t) ==
    /\ pc[t] = "bytes" /\ Id(t) \notin prepaid
    /\ \E d \in CapDelays : Finish(t, DeferForBandwidth(RowOf(t), d), "ok")
    /\ prepaid' = prepaid \cup {Id(t)}
    /\ UNCHANGED <<remote, tickVars, loop, pauseVars, sweepVars, left>>

Land(c) ==
    /\ google' = google \cup {c}
    /\ landed' = [landed EXCEPT ![c] = IF @ < 2 THEN @ + 1 ELSE @]

UploadLands(t) ==
    /\ pc[t] = "upload"
    /\ Land(Content(t))
    /\ Goto(t, "mark")
    /\ UNCHANGED <<table, item, prepaid, tickVars, loop, pauseVars, sweepVars, left>>

\* Google took the bytes, but what reaches the client is an error.
UploadAnswerLost(t) ==
    /\ pc[t] = "upload"
    /\ Strike("asset")
    /\ Land(Content(t))
    /\ Goto(t, "failing")
    /\ UNCHANGED <<table, item, prepaid, tickVars, loop, pauseVars, sweepVars>>

MarkSyncedRow(t) ==
    /\ pc[t] = "mark"
    /\ Finish(t, MarkSynced(RowOf(t)), "ok") /\ DropPrepaid(t)
    /\ UNCHANGED <<remote, tickVars, loop, pauseVars, sweepVars, left>>

\* Slip: an error of upload that does not reach the handler.
CallFailsUnnoticed(t) ==
    /\ pc[t] \in {"remote", "bytes", "upload"}
    /\ Strike("asset")
    /\ Goto(t, IF pc[t] = "upload" THEN "mark" ELSE "failing")
    /\ UNCHANGED <<table, remote, item, prepaid, tickVars, loop, pauseVars, sweepVars>>

\* exists, reading the bytes and upload can all fail for a reason of the asset's own.
CallFails(t) ==
    /\ pc[t] \in {"remote", "bytes", "upload"}
    /\ Strike("asset")
    /\ Goto(t, "failing")
    /\ UNCHANGED <<table, remote, item, prepaid, tickVars, loop, pauseVars, sweepVars>>

\* Slip: an account error taken for one of the asset's.
AccountRefusesAsset(t) ==
    /\ pc[t] \in {"remote", "upload"}
    /\ Strike("account")
    /\ Goto(t, "failing")
    /\ UNCHANGED <<table, remote, item, prepaid, tickVars, loop, pauseVars, sweepVars>>

\* exists and upload can be refused for a reason of the account's (AUTH_INVALID,
\* QUOTA_EXHAUSTED).
AccountRefuses(t) ==
    /\ pc[t] \in {"remote", "upload"}
    /\ Strike("account")
    /\ Goto(t, "halting")
    /\ UNCHANGED <<table, remote, item, prepaid, tickVars, loop, pauseVars, sweepVars>>

\* A database error inside the try counts against the asset: on the requeue of a
\* deferral, or on mark_synced although Google has the content.
WriteFails(t) ==
    /\ \/ pc[t] = "remote" /\ Content(t) \notin google /\ ~item[t].open
       \/ pc[t] = "bytes" /\ CapDelays # {} /\ Id(t) \notin prepaid
       \/ pc[t] = "mark"
    /\ Strike("database")
    /\ Goto(t, "failing")
    /\ UNCHANGED <<table, remote, item, prepaid, tickVars, loop, pauseVars, sweepVars>>

\* _handle_failure, for an error that belongs to the account.
HandleHalt(t) ==
    /\ pc[t] = "halting"
    /\ Finish(t, Requeue(RowOf(t), HaltDelay), "halted") /\ DropPrepaid(t)
    /\ UNCHANGED <<remote, tickVars, loop, pauseVars, sweepVars, left>>

\* Slip: off by one on the attempts.
HandleFailureLate(t) ==
    /\ pc[t] = "failing"
    /\ \/ /\ item[t].attempts >= MaxAttempts
          /\ Finish(t, MarkFailed(RowOf(t)), "ok")
       \/ /\ item[t].attempts < MaxAttempts
          /\ \E d \in RetryDelays : Finish(t, MarkRetry(RowOf(t), d), "ok")
    /\ DropPrepaid(t)
    /\ UNCHANGED <<remote, tickVars, loop, pauseVars, sweepVars, left>>

\* _handle_failure, for one that belongs to the asset: the count that decides is
\* the claimed row's, as it was at the claim.
HandleFailure(t) ==
    /\ pc[t] = "failing"
    /\ \/ /\ item[t].attempts + 1 >= MaxAttempts
          /\ Finish(t, MarkFailed(RowOf(t)), "ok")
       \/ /\ item[t].attempts + 1 < MaxAttempts
          /\ \E d \in RetryDelays : Finish(t, MarkRetry(RowOf(t), d), "ok")
    /\ DropPrepaid(t)
    /\ UNCHANGED <<remote, tickVars, loop, pauseVars, sweepVars, left>>

\* Nothing catches a database error in _handle_failure.
HandlerRaises(t) ==
    /\ pc[t] \in {"failing", "halting"}
    /\ Strike("database")
    /\ Finish(t, RowOf(t), "raised") /\ DropPrepaid(t)
    /\ UNCHANGED <<remote, tickVars, loop, pauseVars, sweepVars>>

JobStep(t) ==
    /\ UNCHANGED poolSize
    /\ \/ ExcludeBarred(t) \/ ExcludeByAlbum(t) \/ ResolveLocally(t) \/ PassLocalChecks(t)
       \/ ChecksRaise(t) \/ GoogleHasIt(t) \/ GoogleLacksIt(t) \/ DeferToWindow(t)
       \/ PassThrottle(t) \/ DeferToCap(t) \/ UploadLands(t) \/ UploadAnswerLost(t)
       \/ MarkSyncedRow(t) \/ CallFails(t) \/ AccountRefuses(t) \/ WriteFails(t)
       \/ HandleHalt(t) \/ HandleFailure(t) \/ HandlerRaises(t)

-----------------------------------------------------------------------------
(* Around the engine. *)

\* The webhook route upserts from its own thread, at any moment.
ReceiveWebhook(a) ==
    /\ \E r \in Reports :
          /\ r.priority = Webhook
          /\ table' = [table EXCEPT ![a] = UpsertPending(@, Webhook, r.barred)]
    /\ UNCHANGED <<remote, jobVars, prepaid, tickVars, poolSize, loop, pauseVars, sweepVars, left>>

\* The dashboard's retry button.
PressRetry(a) ==
    /\ table' = [table EXCEPT ![a] = RetryNow(@)]
    /\ UNCHANGED <<remote, jobVars, prepaid, tickVars, poolSize, loop, pauseVars, sweepVars, left>>

\* The process dies and is started again: the table and Google stay, every thread
\* and everything in memory goes, and the boot recovers the claims already stale.
Crash ==
    /\ Strike("crash")
    /\ table' = [a \in Asset |-> RequeueStaleUploading(table[a], StaleAge)]
    /\ pc' = [t \in Thread |-> "idle"] /\ item' = [t \in Thread |-> NoItem]
    /\ wave' = {} /\ batch' = {} /\ prepaid' = {}
    /\ loop' = "top" /\ paused' = FALSE /\ pausedFor' = Null
    /\ sweepIn' = 0 /\ sweepDue' = FALSE
    /\ UNCHANGED <<remote, poolSize>>

\* Ages are told apart up to the one thing each is compared with.
Clock ==
    /\ table' = [a \in Asset |-> Elapse(table[a], StaleAge)]
    /\ pausedFor' = IF pausedFor \in 0 .. PauseRetryAfter - 1 THEN pausedFor + 1 ELSE pausedFor
    /\ sweepIn' = IF sweepIn > 0 THEN sweepIn - 1 ELSE 0
    /\ UNCHANGED <<remote, jobVars, prepaid, tickVars, poolSize, loop, paused, sweepDue, left>>

Next ==
    \/ LoopStep
    \/ \E t \in Thread : JobStep(t)
    \/ \E a \in Asset : Enqueue(a) \/ ReceiveWebhook(a) \/ PressRetry(a)
    \/ Crash
    \/ Clock

Spec == Init /\ [][Next]_vars

\* The loop thread, the worker threads and the clock keep going: run_forever never
\* leaves its loop, and every call process makes returns or raises.  Nothing is
\* asked of the webhook, the user, Immich's contents or the disruptions.
Fairness ==
    /\ WF_vars(LoopStep)
    /\ \A t \in Thread : WF_vars(JobStep(t))
    /\ WF_vars(Clock)

FairSpec == Spec /\ Fairness
-----------------------------------------------------------------------------
(* Properties. *)

TypeOK ==
    /\ table \in [Asset -> Row]
    /\ google \in SUBSET Checksum
    /\ landed \in [Checksum -> 0 .. 2]
    /\ pc \in [Thread -> Working \cup Over \cup {"idle"}]
    /\ item \in [Thread -> Item \cup {NoItem}]
    /\ wave \in SUBSET Thread
    /\ batch \in SUBSET Item
    /\ poolSize \in WorkerThreads
    /\ loop \in {"top", "claim", "resolve", "dispatch", "wave", "upkeep",
                "abandon", "halt"}
    /\ paused \in BOOLEAN
    /\ pausedFor \in Nat \cup {Null}
    /\ sweepIn \in Nat /\ sweepDue \in BOOLEAN
    /\ prepaid \in SUBSET Asset
    /\ left \in Nat

\* The columns of a row tell one story: claimed_at is set exactly while the row is
\* uploading, the bandwidth marker only marks a row still parked (the promise of
\* defer_for_bandwidth), a synced row has its media key, an excluded one a reason.
RowsConsistent ==
    \A a \in Asset :
        /\ table[a].state = "uploading" <=> table[a].claimAge # Null
        /\ table[a].capDeferred => table[a].state = "pending"
        /\ table[a].state = "synced" => table[a].hasKey
        /\ table[a].state = "ineligible" => table[a].reason # "none"

\* The point of the program: a row that has a media key, and so every synced row,
\* names content the Google library holds.
BackedUp == \A a \in Asset : table[a].hasKey => ChecksumOf[a] \in google

\* A claim is exclusive and its snapshot good for as long as work on it goes on:
\* the row of every claimed or running asset is still uploading with the attempts
\* it was claimed with, and no asset is held twice.  The sweep of stale claims has
\* no idea of liveness; what keeps it off a slow upload is that it runs on the
\* thread that waits for the wave.
HeldItems == batch \cup {item[t] : t \in Running}
WorkOwnsItsRow ==
    /\ \A i \in HeldItems : /\ table[i.asset].state = "uploading"
                            /\ table[i.asset].attempts = i.attempts
    /\ \A i, j \in batch : i.asset = j.asset => i = j
    /\ \A t, u \in Running : Id(t) = Id(u) => t = u
    /\ \A t \in Running, i \in batch : Id(t) # i.asset

\* Content is moved to Google at most once, whatever dies when, as long as no two
\* assets share it: a repeated attempt asks Google first.
MovedOnce == \A c \in Checksum : landed[c] <= 1

\* A row is failed exactly when it has used up its attempts.
FailedMeansExhausted ==
    \A a \in Asset : /\ table[a].attempts <= MaxAttempts
                     /\ table[a].state = "failed" <=> table[a].attempts = MaxAttempts

\* Only an asset handed back to wait, or claimed again since, still has its charge
\* remembered: nothing terminal is left in _throttle_prepaid.
PrepaidInFlight == \A a \in prepaid : table[a].state \in {"pending", "uploading"}

\* Until a process dies or a database write fails, no row is claimed with nobody
\* working on it, whatever halts and Immich outages there were.
NothingStranded ==
    left = Budget => \A a \in Asset :
        table[a].state = "uploading" => \E i \in HeldItems : i.asset = a

\* Outages of the account, of Immich, and closed windows burn no attempt and
\* quarantine nothing, however many there are.
OutageCostsNothing ==
    left = Budget => \A a \in Asset : table[a].attempts = 0 /\ table[a].state # "failed"

\* No job runs once the tick that started it has let go of its wave.
WaveAwaited == \A t \in Running : loop = "wave" /\ t \in wave

\* A settled row is never reopened, and its priority never moves.
SettledStays ==
    [][\A a \in Asset : Settled(table[a]) =>
          /\ table'[a].state = table[a].state
          /\ table'[a].reason = table[a].reason
          /\ table'[a].priority = table[a].priority]_vars

\* No claim is forever, whatever keeps going wrong.
ClaimsEnd ==
    \A a \in Asset : table[a].state = "uploading" ~> table[a].state # "uploading"

\* A step in which something goes wrong, recurring disruptions included, or a tick
\* that finds the window closed.
Disrupted ==
    \/ left' # left
    \/ \E t \in Thread : pc[t] # "halting" /\ pc'[t] = "halting"
    \/ loop = "resolve" /\ loop' = "abandon"
    \/ \E i \in batch' : ~i.open

\* If disruptions stop for good, every queued asset is done with: backed up,
\* excluded, or quarantined for the user to look at.
EveryAssetIsDecided ==
    <>[][~Disrupted]_vars =>
        \A a \in Asset : table[a].state = "pending"
                            ~> table[a].state \in {"synced", "ineligible", "failed"}
=============================================================================
