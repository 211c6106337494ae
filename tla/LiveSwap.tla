------------------------------- MODULE LiveSwap -------------------------------
(***************************************************************************)
(* The live swap (composition.py): a settings save or a step of the wizard *)
(* builds a new graph of one account and puts it in the place of the       *)
(* running one, while the loop thread may be anywhere in a tick of the     *)
(* outgoing graph (sync/runtime.py, sync/loops.py).  The two threads share *)
(* no lock.                                                                *)
(*                                                                         *)
(* Saves come one at a time, as Accounts does not assume.  A job is one    *)
(* step here: what it did when it was done.                                *)
(***************************************************************************)
EXTENDS AssetTable, FiniteSets, Sequences

CONSTANTS
    Asset,      \* the immich ids
    NoAsset,
    BatchLimit, \* tick's limit on a claim
    Threads,    \* the values of settings.worker_threads
    Caps,       \* the bandwidth caps
    NoCap,
    CapDelay,   \* a wait of the cap too long to sleep out
    HaltDelay,  \* HALT_RETRY_DELAY
    RetryDelay, \* what next_delay returns
    Saves       \* bound: the number of saves

ASSUME SwapAssumption ==
    /\ NoAsset \notin Asset /\ NoCap \notin Caps
    /\ BatchLimit \in Nat \ {0} /\ Threads \subseteq Nat \ {0}
    /\ CapDelay \in Nat /\ HaltDelay \in Nat /\ RetryDelay \in Nat /\ Saves \in Nat

VARIABLES
    table,     \* the asset table
    graph,     \* the graphs built so far, in order; only the settings that matter
    current,   \* services.runtime, and all else rebuild_runtime assigns
    handle,    \* LoopsHandle.current
    paused,    \* of each graph's Runtime: _paused_reason is set
    armed,     \* of each graph's BackgroundLoops: _paused_at is set
    pool,      \* of each graph's Runtime: whether its thread pool exists, or was shut down
    closing,   \* of each graph's Runtime: the event _closing
    prepaid,   \* of each graph's Worker: _throttle_prepaid
    shut,      \* the Immich clients that were closed
    closers,   \* graphs whose client waits, on a thread of its own, to be closed
    save,      \* how far the save under way is, or "none"
    at,        \* where the loop thread is
    ticking,   \* the graph whose iterate it is in
    batch,     \* claimed, and of no wave yet
    wave,      \* of this wave, and not dispatched yet
    pooled,    \* being processed by the pool
    inline,    \* being processed by the loop thread
    halted,    \* a result of this wave has halt=True
    metered,   \* history: the cap each asset was deferred under, until it is claimed again
    lateHalt,  \* history: the outgoing runtime was paused after the save read it
    strays     \* history: deferred by a tick of a graph already released

perGraph == <<graph, paused, armed, pool, closing, prepaid>>
tick     == <<at, ticking, batch, wave, pooled, inline, halted>>
history  == <<metered, lateHalt, strays>>
vars == <<table, perGraph, current, handle, shut, closers, save, tick, history>>

\* Clients are numbered with the graph they first appear in.
Settings == [client : 1 .. Saves + 1, cap : Caps \cup {NoCap}, threads : Threads]
New == Len(graph)
Old == New - 1

Init ==
    /\ table = [a \in Asset |-> UpsertPending(NoRow, Backfill, FALSE)]
    /\ \E cap \in Caps \cup {NoCap}, n \in Threads :
          graph = <<[client |-> 1, cap |-> cap, threads |-> n]>>
    /\ current = 1 /\ handle = 1
    /\ paused = <<FALSE>> /\ armed = <<FALSE>> /\ pool = <<"none">>
    /\ closing = <<FALSE>> /\ prepaid = <<{}>>
    /\ shut = {} /\ closers = {} /\ save = "none"
    /\ at = "top" /\ ticking = 1
    /\ batch = {} /\ wave = {} /\ pooled = {} /\ inline = NoAsset /\ halted = FALSE
    /\ metered = [a \in Asset |-> NoCap] /\ lateHalt = FALSE /\ strays = {}

-----------------------------------------------------------------------------
(* The request thread, in rebuild_runtime. *)

\* A new client, a new cap, or another number of threads.
Build ==
    /\ save = "none" /\ Len(graph) <= Saves
    /\ \E g \in Settings :
          /\ g # graph[current]
          /\ g.client \in {graph[current].client, Len(graph) + 1}
          /\ graph' = Append(graph, g)
    /\ paused' = Append(paused, FALSE) /\ armed' = Append(armed, FALSE)
    /\ pool' = Append(pool, "none") /\ closing' = Append(closing, FALSE)
    /\ prepaid' = Append(prepaid, {})
    /\ save' = "read pause" /\ lateHalt' = FALSE
    /\ UNCHANGED <<table, current, handle, shut, closers, tick, metered, strays>>

\* Slip: the fresh runtime starts unpaused.
ReadPauseForgotten ==
    /\ save = "read pause"
    /\ save' = "read time"
    /\ UNCHANGED <<table, perGraph, current, handle, shut, closers, tick, history>>

ReadPause ==
    /\ save = "read pause"
    /\ paused' = [paused EXCEPT ![New] = paused[current]]
    /\ save' = "read time"
    /\ UNCHANGED <<table, graph, armed, pool, closing, prepaid, current, handle, shut, closers,
                   tick, history>>

ReadPausedAt ==
    /\ save = "read time"
    /\ armed' = [armed EXCEPT ![New] = armed[handle]]
    /\ save' = "install"
    /\ UNCHANGED <<table, graph, paused, pool, closing, prepaid, current, handle, shut, closers,
                   tick, history>>

Install ==
    /\ save = "install"
    /\ current' = New
    /\ save' = "replace"
    /\ UNCHANGED <<table, perGraph, handle, shut, closers, tick, history>>

Replace ==
    /\ save = "replace"
    /\ handle' = New
    /\ save' = "close"
    /\ UNCHANGED <<table, perGraph, current, shut, closers, tick, history>>

\* Runtime.close of the outgoing runtime: the event first, then the pool.
Close ==
    /\ save = "close"
    /\ closing' = [closing EXCEPT ![Old] = TRUE]
    /\ save' = "shut down"
    /\ UNCHANGED <<table, graph, paused, armed, pool, prepaid, current, handle, shut, closers,
                   tick, history>>

ShutDown ==
    /\ save = "shut down"
    /\ pool' = [pool EXCEPT ![Old] = IF @ = "none" THEN "none" ELSE "shut"]
    /\ save' = "release"
    /\ UNCHANGED <<table, graph, paused, armed, closing, prepaid, current, handle, shut, closers,
                   tick, history>>

\* Slip: released only if there is a cap to meter the rows again.
ReleaseUnderCap ==
    /\ save = "release"
    /\ table' = [a \in Asset |-> IF graph[Old].cap # graph[New].cap /\ graph[New].cap # NoCap
                                 THEN ReleaseBandwidthDeferral(table[a]) ELSE table[a]]
    /\ save' = "close client"
    /\ UNCHANGED <<perGraph, current, handle, shut, closers, tick, history>>

\* A changed cap lets go of the rows parked on the old one.
Release ==
    /\ save = "release"
    /\ table' = [a \in Asset |-> IF graph[Old].cap # graph[New].cap
                                 THEN ReleaseBandwidthDeferral(table[a]) ELSE table[a]]
    /\ save' = "close client"
    /\ UNCHANGED <<perGraph, current, handle, shut, closers, tick, history>>

\* Slip: the client is closed at once, pool or no pool.
CloseClientAtOnce ==
    /\ save = "close client"
    /\ shut' = IF graph[Old].client = graph[New].client THEN shut
               ELSE shut \cup {graph[Old].client}
    /\ save' = "none"
    /\ UNCHANGED <<table, perGraph, current, handle, closers, tick, history>>

\* A client that was replaced is closed: here, if there is no pool to wait for.
CloseClient ==
    /\ save = "close client"
    /\ IF graph[Old].client = graph[New].client
       THEN UNCHANGED <<shut, closers>>
       ELSE IF pool[Old] = "none"
       THEN shut' = shut \cup {graph[Old].client} /\ UNCHANGED closers
       ELSE closers' = closers \cup {Old} /\ UNCHANGED shut
    /\ save' = "none"
    /\ UNCHANGED <<table, perGraph, current, handle, tick, history>>

\* The thread that closes it shuts the pool once more, for the tick may have made it
\* after close() had found none.
CloserShuts(g) ==
    /\ g \in closers /\ pool[g] = "open"
    /\ pool' = [pool EXCEPT ![g] = "shut"]
    /\ UNCHANGED <<table, graph, paused, armed, closing, prepaid, current, handle, shut, closers,
                   save, tick, history>>

\* It has waited for what the pool was still at.
CloseDrained(g) ==
    /\ g \in closers /\ pool[g] = "shut" /\ (ticking = g => pooled = {})
    /\ shut' = shut \cup {graph[g].client}
    /\ closers' = closers \ {g}
    /\ UNCHANGED <<table, perGraph, current, handle, save, tick, history>>

Closer(g) == CloserShuts(g) \/ CloseDrained(g)

SaveStep ==
    \/ Build \/ ReadPause \/ ReadPausedAt \/ Install \/ Replace
    \/ Close \/ ShutDown \/ Release \/ CloseClient

-----------------------------------------------------------------------------
(* The loop thread. *)

\* It reads the handle once per pass; a paused graph may have cooled down.  What the
\* graphs before it remembered is garbage from here on.
Iterate ==
    /\ at = "top"
    /\ ticking' = handle
    /\ \/ /\ paused[handle]
          /\ armed' = [g \in 1 .. New |-> IF g < handle THEN FALSE ELSE g = handle \/ armed[g]]
          /\ paused' = [g \in 1 .. New |-> g >= handle /\ paused[g]]
          /\ UNCHANGED at
       \/ /\ paused[handle] => armed[handle]
          /\ paused' = [g \in 1 .. New |-> g > handle /\ paused[g]]
          /\ armed' = [g \in 1 .. New |-> g > handle /\ armed[g]]
          /\ at' = "claim"
    /\ prepaid' = [g \in 1 .. New |-> IF g < handle THEN {} ELSE prepaid[g]]
    /\ UNCHANGED <<table, graph, pool, closing, current, handle, shut, closers, save,
                   batch, wave, pooled, inline, halted, history>>

ClaimNext ==
    /\ at = "claim"
    /\ LET ready == {a \in Asset : Claimable(table[a])}
       IN \E S \in SUBSET ready :
             /\ Cardinality(S) = IF Cardinality(ready) < BatchLimit
                                 THEN Cardinality(ready) ELSE BatchLimit
             /\ table' = [a \in Asset |-> IF a \in S THEN Claim(table[a]) ELSE table[a]]
             /\ batch' = S
             /\ at' = IF S = {} THEN "top" ELSE "wave"
             /\ metered' = [a \in Asset |-> IF a \in S THEN NoCap ELSE metered[a]]
             /\ strays' = strays \ S
    /\ UNCHANGED <<perGraph, current, handle, shut, closers, save, ticking, wave, pooled, inline,
                   halted, lateHalt>>

\* A wave goes to the pool, unless it is of one asset or the runtime is closing.
StartWave ==
    /\ at = "wave"
    /\ \E W \in SUBSET batch :
          /\ Cardinality(W) = IF Cardinality(batch) < graph[ticking].threads
                              THEN Cardinality(batch) ELSE graph[ticking].threads
          /\ wave' = W /\ batch' = batch \ W
          /\ at' = IF Cardinality(W) = 1 \/ closing[ticking] THEN "inline" ELSE "executor"
    /\ UNCHANGED <<table, perGraph, current, handle, shut, closers, save, ticking, pooled, inline,
                   halted, history>>

\* _executor: the pool is made when it is first needed, closing or not.
Executor ==
    /\ at = "executor"
    /\ pool' = [pool EXCEPT ![ticking] = IF @ = "none" THEN "open" ELSE @]
    /\ at' = "submit"
    /\ UNCHANGED <<table, graph, paused, armed, closing, prepaid, current, handle, shut, closers,
                   save, ticking, batch, wave, pooled, inline, halted, history>>

Submit(a) ==
    /\ at = "submit" /\ a \in wave /\ pool[ticking] = "open"
    /\ pooled' = pooled \cup {a} /\ wave' = wave \ {a}
    /\ at' = IF wave = {a} THEN "await" ELSE "submit"
    /\ UNCHANGED <<table, perGraph, current, handle, shut, closers, save, ticking, batch, inline,
                   halted, history>>

\* Slip: what the pool refuses is left for the next tick.
SubmitDropped ==
    /\ at = "submit" /\ pool[ticking] = "shut"
    /\ wave' = {}
    /\ at' = "drain"
    /\ UNCHANGED <<table, perGraph, current, handle, shut, closers, save, ticking, batch, pooled,
                   inline, halted, history>>

\* The pool was shut down under the dispatch: the wave's submitted assets are waited
\* for, and the loop thread takes the others.
SubmitRefused ==
    /\ at = "submit" /\ pool[ticking] = "shut"
    /\ at' = "drain"
    /\ UNCHANGED <<table, perGraph, current, handle, shut, closers, save, ticking, batch, wave,
                   pooled, inline, halted, history>>

Drained ==
    /\ at = "drain" /\ pooled = {}
    /\ at' = "inline"
    /\ UNCHANGED <<table, perGraph, current, handle, shut, closers, save, ticking, batch, wave,
                   pooled, inline, halted, history>>

RunInline(a) ==
    /\ at = "inline" /\ inline = NoAsset /\ a \in wave
    /\ inline' = a /\ wave' = wave \ {a}
    /\ UNCHANGED <<table, perGraph, current, handle, shut, closers, save, at, ticking, batch,
                   pooled, halted, history>>

WaveOver ==
    \/ at = "inline" /\ inline = NoAsset /\ wave = {}
    \/ at = "await" /\ pooled = {}

WaveEnds ==
    /\ WaveOver /\ ~halted
    /\ at' = IF batch = {} THEN "top" ELSE "wave"
    /\ UNCHANGED <<table, perGraph, current, handle, shut, closers, save, ticking, batch, wave,
                   pooled, inline, halted, history>>

\* A halt: the rest of the batch is handed back, and the runtime pauses, be it the
\* installed one or not.
WaveHalts ==
    /\ WaveOver /\ halted
    /\ table' = [a \in Asset |-> IF a \in batch THEN Requeue(table[a], 0) ELSE table[a]]
    /\ batch' = {} /\ halted' = FALSE /\ at' = "top"
    /\ paused' = [paused EXCEPT ![ticking] = TRUE]
    /\ lateHalt' = (lateHalt \/ save \notin {"none", "read pause"})
    /\ UNCHANGED <<graph, armed, pool, closing, prepaid, current, handle, shut, closers, save,
                   ticking, wave, pooled, inline, metered, strays>>

LoopStep ==
    \/ Iterate \/ ClaimNext \/ StartWave \/ Executor \/ SubmitRefused \/ Drained
    \/ WaveEnds \/ WaveHalts
    \/ \E a \in Asset : Submit(a) \/ RunInline(a)

-----------------------------------------------------------------------------
(* Worker.process of one asset, in the pool or on the loop thread. *)

InProcess == pooled \cup (IF inline = NoAsset THEN {} ELSE {inline})
ClientShut == graph[ticking].client \in shut

\* The job of a ends, and leaves its row as r.
Finish(a, r) ==
    /\ a \in InProcess
    /\ table' = [table EXCEPT ![a] = r]
    /\ pooled' = pooled \ {a} /\ inline' = IF inline = a THEN NoAsset ELSE inline
    /\ UNCHANGED <<graph, paused, armed, pool, closing, current, handle, shut, closers, save, at,
                   ticking, batch, wave, lateHalt>>

DropPrepaid(a) == prepaid' = [prepaid EXCEPT ![ticking] = @ \ {a}]

\* Of bytes it had before its client was closed, or with no need of any.
BackUp(a) ==
    /\ Finish(a, MarkSynced(table[a])) /\ DropPrepaid(a)
    /\ UNCHANGED <<halted, metered, strays>>

\* The bucket is charged, for this graph's first call, and the wait is long.
DeferToCap(a) ==
    /\ graph[ticking].cap # NoCap /\ a \notin prepaid[ticking]
    /\ Finish(a, DeferForBandwidth(table[a], CapDelay))
    /\ prepaid' = [prepaid EXCEPT ![ticking] = @ \cup {a}]
    /\ metered' = [metered EXCEPT ![a] = graph[ticking].cap]
    /\ strays' = IF \/ ticking < Old
                    \/ ticking = Old /\ save \in {"close client", "none"}
                 THEN strays \cup {a} ELSE strays
    /\ UNCHANGED halted

\* The account refuses.
Refuse(a) ==
    /\ Finish(a, Requeue(table[a], HaltDelay)) /\ DropPrepaid(a)
    /\ halted' = TRUE
    /\ UNCHANGED <<metered, strays>>

\* A download finds its client closed: an error of the asset's, and an attempt.
ClientGone(a) ==
    /\ ClientShut
    /\ Finish(a, MarkRetry(table[a], RetryDelay)) /\ DropPrepaid(a)
    /\ UNCHANGED <<halted, metered, strays>>

JobStep(a) == BackUp(a) \/ DeferToCap(a) \/ Refuse(a) \/ ClientGone(a)

Clock ==
    /\ table' = [a \in Asset |-> Elapse(table[a], 0)]
    /\ UNCHANGED <<perGraph, current, handle, shut, closers, save, tick, history>>

Next ==
    \/ SaveStep \/ \E g \in 1 .. New : Closer(g)
    \/ LoopStep \/ \E a \in Asset : JobStep(a)
    \/ Clock

Spec == Init /\ [][Next]_vars
-----------------------------------------------------------------------------
(* Properties. *)

\* Wherever a swap catches a tick, each asset it claimed is in exactly one place until
\* it was processed, and no claim is let go of with nobody left to process it.
ClaimedOnce ==
    /\ {a \in Asset : table[a].state = "uploading"} = batch \cup wave \cup InProcess
    /\ batch \cap wave = {} /\ batch \cap InProcess = {} /\ wave \cap InProcess = {}
    /\ inline \notin pooled

\* A save is no reason to resume: the graph put in the place of a halted one is
\* halted, unless the outgoing tick halted after the save had looked.
SaveResumesNothing ==
    [][handle' # handle /\ paused[handle] /\ ~lateHalt => paused'[handle']]_vars

\* With no save under way, a row waits on a deadline of a cap that is no more only
\* if the outgoing tick parked it after the save had released the others.
DeadlinesFollowTheCap ==
    save = "none" =>
        \A a \in Asset : table[a].state = "pending" /\ table[a].capDeferred =>
            metered[a] = graph[current].cap \/ a \in strays

\* The installed client is open.  The pool works with a closed one only if the tick
\* made it after close() had found none, or if the client outlived the pool's own
\* graph and went with a later save.  And the tick that every swap may break costs an
\* asset at most one attempt for each client replaced.
ClientOutlivesItsCalls ==
    /\ graph[current].client \notin shut
    /\ pooled # {} /\ ClientShut =>
          \/ closing[ticking] /\ pool[ticking] = "open"
          \/ graph[ticking + 1].client = graph[ticking].client
    /\ \A a \in Asset : table[a].attempts <= Cardinality(shut)
=============================================================================
