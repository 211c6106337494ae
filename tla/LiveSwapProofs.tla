--------------------------- MODULE LiveSwapProofs ---------------------------
(***************************************************************************)
(* Proofs about the live swap, for any assets, pools, caps and number of   *)
(* saves: no claim is lost or doubled, a halt is carried over, rows follow *)
(* the new cap, and a client is closed after its calls but for two windows.*)
(***************************************************************************)
EXTENDS LiveSwap, AssetTableProofs, SequenceTheorems, FiniteSetTheorems

\* What the marks of a job, the claim and the other writers make of a row's state.
LEMMA StatesLeft ==
  ASSUME NEW r \in Row, NEW d \in Nat
  PROVE  /\ Claim(r) \in Row /\ Claim(r).state = "uploading"
         /\ MarkSynced(r) \in Row /\ MarkSynced(r).state # "uploading"
         /\ MarkRetry(r, d) \in Row /\ MarkRetry(r, d).state # "uploading"
         /\ Requeue(r, d) \in Row /\ Requeue(r, d).state # "uploading"
         /\ DeferForBandwidth(r, d) \in Row /\ DeferForBandwidth(r, d).state # "uploading"
         /\ ReleaseBandwidthDeferral(r) \in Row
         /\ ReleaseBandwidthDeferral(r).state = r.state
         /\ Elapse(r, 0) \in Row /\ Elapse(r, 0).state = r.state
  <1>1. /\ Claim(r) \in Row /\ Claim(r).state = "uploading"
        /\ MarkSynced(r) \in Row /\ MarkSynced(r).state # "uploading"
    BY DEF Claim, MarkSynced, Row, RowState, Null
  <1>2. MarkRetry(r, d) \in Row /\ MarkRetry(r, d).state # "uploading"
    <2>1. MarkRetry(r, d) \in Row
      BY MarksAreRows DEF Reason
    <2>2. MarkRetry(r, d).state = "pending"
      BY DEF MarkRetry, Row
    <2> QED  BY <2>1, <2>2
  <1>3. Requeue(r, d) \in Row /\ Requeue(r, d).state # "uploading"
    BY DEF Requeue, Row, RowState, Null
  <1>4. DeferForBandwidth(r, d) \in Row /\ DeferForBandwidth(r, d).state # "uploading"
    BY DEF DeferForBandwidth, Requeue, Row, RowState, Null
  <1>5. /\ ReleaseBandwidthDeferral(r) \in Row
        /\ ReleaseBandwidthDeferral(r).state = r.state
    BY DEF ReleaseBandwidthDeferral, Row
  <1>6. Elapse(r, 0) \in Row
    BY ElapseIsRow
  <1>7. Elapse(r, 0).state = r.state
    BY DEF Elapse, Row
  <1> QED  BY <1>1, <1>2, <1>3, <1>4, <1>5, <1>6, <1>7

-----------------------------------------------------------------------------
ClaimTypes ==
    /\ table \in [Asset -> Row]
    /\ batch \in SUBSET Asset /\ wave \in SUBSET Asset /\ pooled \in SUBSET Asset
    /\ inline \in Asset \cup {NoAsset}
    /\ at \in {"top", "claim", "wave", "executor", "submit", "await", "drain", "inline"}

\* Where the loop thread is says which of the places can be occupied.
Phases ==
    /\ at \in {"top", "claim"} => batch = {}
    /\ at \in {"top", "claim", "wave", "await"} => wave = {}
    /\ at \in {"top", "claim", "wave", "executor", "inline"} => pooled = {}
    /\ at # "inline" => inline = NoAsset

SwapInv == ClaimTypes /\ Phases /\ ClaimedOnce

\* What the invariant reads.
held == <<table, batch, wave, pooled, inline, at>>

LEMMA SwapInit == Init => SwapInv
  <1> SUFFICES ASSUME Init PROVE SwapInv
    OBVIOUS
  <1>1. UpsertPending(NoRow, Backfill, FALSE) \in Row
    BY NoRowIsRow, UpsertIsRow DEF Priority
  <1>2. UpsertPending(NoRow, Backfill, FALSE).state = "pending"
    BY DEF UpsertPending, NoRow
  <1>3. table \in [Asset -> Row] /\ \A a \in Asset : table[a].state = "pending"
    BY <1>1, <1>2 DEF Init
  <1> QED  BY <1>3 DEF Init, SwapInv, ClaimTypes, Phases, ClaimedOnce, InProcess

\* A step that leaves states and places alone.
LEMMA StatesKept ==
  ASSUME SwapInv, UNCHANGED <<batch, wave, pooled, inline, at>>, table' \in [Asset -> Row],
         \A a \in Asset : table'[a].state = table[a].state
  PROVE  SwapInv'
  BY DEF SwapInv, ClaimTypes, Phases, ClaimedOnce, InProcess

LEMMA SaveStepHolds == ASSUME SwapInv, SaveStep PROVE SwapInv'
  <1>1. CASE Release
    <2>1. UNCHANGED <<batch, wave, pooled, inline, at>>
      BY <1>1 DEF Release, tick
    <2>2. \A a \in Asset : ReleaseBandwidthDeferral(table[a]) \in Row
                        /\ ReleaseBandwidthDeferral(table[a]).state = table[a].state
      BY StatesLeft DEF SwapInv, ClaimTypes
    <2>3. /\ table' \in [Asset -> Row]
          /\ \A a \in Asset : table'[a].state = table[a].state
      BY <1>1, <2>2 DEF Release, SwapInv, ClaimTypes
    <2> QED  BY <2>1, <2>3, StatesKept
  <1>2. CASE ~Release
    <2>1. UNCHANGED held
      BY <1>2, SaveStep DEF SaveStep, Build, ReadPause, ReadPausedAt, Install, Replace, Close,
         ShutDown, CloseClient, held, tick
    <2> QED  BY <2>1 DEF held, SwapInv, ClaimTypes, Phases, ClaimedOnce, InProcess
  <1> QED  BY <1>1, <1>2

-----------------------------------------------------------------------------
(* The loop thread. *)

LEMMA ClaimHolds == ASSUME SwapInv, ClaimNext PROVE SwapInv'
  <1>1. PICK S \in SUBSET {a \in Asset : Claimable(table[a])} :
          /\ table' = [a \in Asset |-> IF a \in S THEN Claim(table[a]) ELSE table[a]]
          /\ batch' = S
          /\ at' = IF S = {} THEN "top" ELSE "wave"
    BY DEF ClaimNext
  <1>2. UNCHANGED <<wave, pooled, inline>> /\ at = "claim"
    BY DEF ClaimNext
  <1>3. wave = {} /\ pooled = {} /\ inline = NoAsset /\ batch = {}
    BY <1>2 DEF SwapInv, Phases
  <1>4. \A a \in Asset : table[a].state # "uploading"
    BY <1>3 DEF SwapInv, ClaimedOnce, InProcess
  <1>5. \A a \in Asset : Claim(table[a]) \in Row /\ Claim(table[a]).state = "uploading"
    BY StatesLeft DEF SwapInv, ClaimTypes
  <1>6. ClaimTypes'
    BY <1>1, <1>2, <1>5 DEF SwapInv, ClaimTypes
  <1>7. Phases'
    BY <1>1, <1>2, <1>3 DEF Phases
  <1>8. {a \in Asset : table'[a].state = "uploading"} = batch'
    BY <1>1, <1>4, <1>5
  <1>9. ClaimedOnce'
    BY <1>2, <1>3, <1>8 DEF ClaimedOnce, InProcess
  <1> QED  BY <1>6, <1>7, <1>9 DEF SwapInv

LEMMA DispatchHolds ==
  ASSUME SwapInv, SwapAssumption,
         StartWave \/ \E a \in Asset : Submit(a) \/ RunInline(a)
  PROVE  SwapInv'
  <1>1. CASE StartWave
    <2>1. PICK W \in SUBSET batch : /\ wave' = W /\ batch' = batch \ W
                                   /\ at' \in {"inline", "executor"}
      BY <1>1 DEF StartWave
    <2>2. at = "wave" /\ UNCHANGED <<table, pooled, inline>>
      BY <1>1 DEF StartWave
    <2> QED  BY <2>1, <2>2 DEF SwapInv, ClaimTypes, Phases, ClaimedOnce, InProcess
  <1>2. ASSUME NEW a \in Asset, Submit(a) PROVE SwapInv'
    <2>1. /\ at = "submit" /\ a \in wave /\ UNCHANGED <<table, batch, inline>>
          /\ pooled' = pooled \cup {a} /\ wave' = wave \ {a}
          /\ at' \in {"await", "submit"} /\ (at' = "await" => wave = {a})
      BY <1>2 DEF Submit
    <2>2. inline = NoAsset /\ NoAsset \notin Asset
      BY <2>1 DEF SwapInv, Phases, SwapAssumption
    <2> QED  BY <2>1, <2>2 DEF SwapInv, ClaimTypes, Phases, ClaimedOnce, InProcess
  <1>3. ASSUME NEW a \in Asset, RunInline(a) PROVE SwapInv'
    <2>1. /\ at = "inline" /\ inline = NoAsset /\ a \in wave
          /\ UNCHANGED <<table, batch, pooled, at>>
          /\ inline' = a /\ wave' = wave \ {a}
      BY <1>3 DEF RunInline
    <2>2. pooled = {} /\ a # NoAsset
      BY <2>1 DEF SwapInv, Phases, SwapAssumption
    <2> QED  BY <2>1, <2>2 DEF SwapInv, ClaimTypes, Phases, ClaimedOnce, InProcess
  <1> QED  BY <1>1, <1>2, <1>3

\* A wave is over with nothing left in it.
LEMMA WaveOverIsEmpty ==
  ASSUME SwapInv, WaveOver PROVE wave = {} /\ pooled = {} /\ inline = NoAsset
  BY DEF WaveOver, SwapInv, Phases

LEMMA WaveHaltsHolds == ASSUME SwapInv, SwapAssumption, WaveHalts PROVE SwapInv'
  <1>1. /\ table' = [a \in Asset |-> IF a \in batch THEN Requeue(table[a], 0) ELSE table[a]]
        /\ batch' = {} /\ at' = "top" /\ UNCHANGED <<wave, pooled, inline>>
    BY DEF WaveHalts
  <1>2. wave = {} /\ pooled = {} /\ inline = NoAsset
    BY WaveOverIsEmpty DEF WaveHalts
  <1>3. \A a \in Asset : Requeue(table[a], 0) \in Row /\ Requeue(table[a], 0).state # "uploading"
    BY StatesLeft DEF SwapInv, ClaimTypes
  <1>4. table' \in [Asset -> Row]
    BY <1>1, <1>3 DEF SwapInv, ClaimTypes
  <1>5. {a \in Asset : table[a].state = "uploading"} = batch
    BY <1>2 DEF SwapInv, ClaimedOnce, InProcess
  <1>6. {a \in Asset : table'[a].state = "uploading"} = {}
    BY <1>1, <1>3, <1>5
  <1> QED  BY <1>1, <1>2, <1>4, <1>6 DEF SwapInv, ClaimTypes, Phases, ClaimedOnce, InProcess

LEMMA LoopStepHolds == ASSUME SwapInv, SwapAssumption, LoopStep PROVE SwapInv'
  <1>1. CASE Iterate
    <2>1. at = "top" /\ at' \in {"top", "claim"}
          /\ UNCHANGED <<table, batch, wave, pooled, inline>>
      BY <1>1 DEF Iterate
    <2> QED  BY <2>1 DEF SwapInv, ClaimTypes, Phases, ClaimedOnce, InProcess
  <1>2. CASE Executor \/ SubmitRefused \/ Drained
    <2>1. /\ UNCHANGED <<table, batch, wave, pooled, inline>>
          /\ \/ at = "executor" /\ at' = "submit"
             \/ at = "submit" /\ at' = "drain"
             \/ at = "drain" /\ at' = "inline" /\ pooled = {}
      BY <1>2 DEF Executor, SubmitRefused, Drained
    <2> QED  BY <2>1 DEF SwapInv, ClaimTypes, Phases, ClaimedOnce, InProcess
  <1>3. CASE WaveEnds
    <2>1. /\ UNCHANGED <<table, batch, wave, pooled, inline>>
          /\ at' = IF batch = {} THEN "top" ELSE "wave"
      BY <1>3 DEF WaveEnds
    <2>2. wave = {} /\ pooled = {} /\ inline = NoAsset
      BY <1>3, WaveOverIsEmpty DEF WaveEnds
    <2> QED  BY <2>1, <2>2 DEF SwapInv, ClaimTypes, Phases, ClaimedOnce, InProcess
  <1> QED  BY <1>1, <1>2, <1>3, ClaimHolds, DispatchHolds, WaveHaltsHolds DEF LoopStep

-----------------------------------------------------------------------------
(* The jobs. *)

\* However a job ends, it gives up its place and its claim together.
LEMMA FinishHolds ==
  ASSUME SwapInv, SwapAssumption, NEW a \in Asset, NEW r \in Row, r.state # "uploading",
         Finish(a, r)
  PROVE  SwapInv'
  <1>1. /\ table' = [table EXCEPT ![a] = r]
        /\ pooled' = pooled \ {a} /\ inline' = IF inline = a THEN NoAsset ELSE inline
        /\ UNCHANGED <<at, batch, wave>>
    BY DEF Finish
  <1>2. a \in InProcess /\ a \notin batch /\ a \notin wave /\ a # NoAsset
    BY DEF Finish, SwapInv, ClaimedOnce, SwapAssumption
  <1>3. ClaimTypes' /\ Phases'
    BY <1>1 DEF SwapInv, ClaimTypes, Phases
  <1>4. InProcess' = InProcess \ {a}
    BY <1>1, <1>2 DEF InProcess
  <1>5. {b \in Asset : table'[b].state = "uploading"}
          = {b \in Asset : table[b].state = "uploading"} \ {a}
    BY <1>1 DEF SwapInv, ClaimTypes
  <1>6. inline' \notin pooled'
    BY <1>1, <1>2 DEF SwapInv, ClaimTypes, ClaimedOnce, SwapAssumption
  <1>7. ClaimedOnce'
    BY <1>1, <1>2, <1>4, <1>5, <1>6 DEF SwapInv, ClaimedOnce
  <1> QED  BY <1>3, <1>7 DEF SwapInv

LEMMA JobHolds ==
  ASSUME SwapInv, SwapAssumption, NEW a \in Asset, JobStep(a) PROVE SwapInv'
  <1>1. table[a] \in Row /\ CapDelay \in Nat /\ HaltDelay \in Nat /\ RetryDelay \in Nat
    BY DEF SwapInv, ClaimTypes, SwapAssumption
  <1>2. CASE BackUp(a)
    BY <1>1, <1>2, StatesLeft, FinishHolds DEF BackUp
  <1>3. CASE DeferToCap(a)
    BY <1>1, <1>3, StatesLeft, FinishHolds DEF DeferToCap
  <1>4. CASE Refuse(a)
    BY <1>1, <1>4, StatesLeft, FinishHolds DEF Refuse
  <1>5. CASE ClientGone(a)
    BY <1>1, <1>5, StatesLeft, FinishHolds DEF ClientGone
  <1> QED  BY <1>2, <1>3, <1>4, <1>5 DEF JobStep

-----------------------------------------------------------------------------
LEMMA SwapNext == ASSUME SwapAssumption, SwapInv, [Next]_vars PROVE SwapInv'
  <1>1. CASE \E g \in 1 .. New : Closer(g)
    <2>1. UNCHANGED held
      BY <1>1 DEF Closer, CloserShuts, CloseDrained, held, tick
    <2> QED  BY <2>1 DEF held, SwapInv, ClaimTypes, Phases, ClaimedOnce, InProcess
  <1>2. CASE Clock
    <2>1. UNCHANGED <<batch, wave, pooled, inline, at>>
      BY <1>2 DEF Clock, tick
    <2>2. \A a \in Asset : Elapse(table[a], 0) \in Row /\ Elapse(table[a], 0).state = table[a].state
      BY StatesLeft DEF SwapInv, ClaimTypes
    <2>3. table' \in [Asset -> Row] /\ \A a \in Asset : table'[a].state = table[a].state
      BY <1>2, <2>2 DEF Clock
    <2> QED  BY <2>1, <2>3, StatesKept
  <1>3. CASE UNCHANGED vars
    <2>1. UNCHANGED held
      BY <1>3 DEF vars, held, tick
    <2> QED  BY <2>1 DEF held, SwapInv, ClaimTypes, Phases, ClaimedOnce, InProcess
  <1> QED  BY <1>1, <1>2, <1>3, SaveStepHolds, LoopStepHolds, JobHolds DEF Next

\* Wherever a save catches a tick, and however many saves there are, each claimed
\* asset is in exactly one place (the batch, the wave, the pool or the loop thread)
\* until its row says what became of it.
THEOREM SwapLosesNoClaim == Spec => []ClaimedOnce
  <1>1. Init => SwapInv
    BY SwapInit
  <1>2. SwapInv /\ [Next]_vars => SwapInv'
    BY SwapNext, SwapAssumption
  <1>3. SwapInv => ClaimedOnce
    BY DEF SwapInv
  <1> QED  BY <1>1, <1>2, <1>3, PTL DEF Spec

-----------------------------------------------------------------------------
(* The graphs, and how far the save is. *)

Looking == {"read pause", "read time", "install"}
Closing == {"close", "shut down", "release", "close client"}

\* Once the new graph is built, a save is done with the old one piece by piece.
GraphTypes ==
    /\ graph \in Seq(Settings)
    /\ paused \in [1 .. New -> BOOLEAN] /\ lateHalt \in BOOLEAN
    /\ current \in 1 .. New /\ handle \in 1 .. New /\ ticking \in 1 .. New
    /\ save \in {"none", "replace"} \cup Looking \cup Closing
    /\ current = IF save \in Looking THEN Old ELSE New
    /\ handle = IF save \in Looking \cup {"replace"} THEN Old ELSE New

\* Append, to a sequence of truth values kept as a function.
LEMMA AppendToFunction ==
  ASSUME NEW n \in Nat, NEW s \in [1 .. n -> BOOLEAN], NEW e \in BOOLEAN
  PROVE  /\ Append(s, e) \in [1 .. n + 1 -> BOOLEAN]
         /\ \A i \in 1 .. n : Append(s, e)[i] = s[i]
  <1>1. s \in Seq(BOOLEAN) /\ Len(s) = n
    BY IsASeq, LenProperties
  <1>2. /\ Append(s, e) \in Seq(BOOLEAN) /\ Len(Append(s, e)) = n + 1
        /\ \A i \in 1 .. n : Append(s, e)[i] = s[i]
    BY <1>1, AppendProperties
  <1> QED  BY <1>2, LenProperties

LEMMA BuildGrows ==
  ASSUME GraphTypes, Build
  PROVE  /\ graph' \in Seq(Settings) /\ New' = New + 1 /\ Old' = New
         /\ \A g \in 1 .. New : graph'[g] = graph[g] /\ paused'[g] = paused[g]
         /\ paused' \in [1 .. New + 1 -> BOOLEAN]
  <1>1. PICK g \in Settings : graph' = Append(graph, g)
    BY DEF Build
  <1>2. /\ graph' \in Seq(Settings) /\ Len(graph') = Len(graph) + 1 /\ Len(graph) \in Nat
        /\ \A i \in 1 .. Len(graph) : graph'[i] = graph[i]
    BY <1>1, AppendProperties, LenProperties DEF GraphTypes
  <1>3. paused' = Append(paused, FALSE)
    BY DEF Build
  <1>4. New \in Nat /\ paused \in [1 .. New -> BOOLEAN]
    BY <1>2 DEF GraphTypes, New
  <1>5. /\ paused' \in [1 .. New + 1 -> BOOLEAN]
        /\ \A i \in 1 .. New : paused'[i] = paused[i]
    BY <1>3, <1>4, AppendToFunction
  <1>6. New' = New + 1
    BY <1>2 DEF New
  <1>7. Old' = New
    BY <1>4, <1>6 DEF Old
  <1>8. \A i \in 1 .. New : graph'[i] = graph[i]
    BY <1>2 DEF New
  <1> QED  BY <1>2, <1>5, <1>6, <1>7, <1>8

LEMMA GraphInit == SwapAssumption /\ Init => GraphTypes
  <1> SUFFICES ASSUME SwapAssumption, Init PROVE GraphTypes
    OBVIOUS
  <1>1. PICK cap \in Caps \cup {NoCap}, n \in Threads :
          graph = <<[client |-> 1, cap |-> cap, threads |-> n]>>
    BY DEF Init
  <1>2. [client |-> 1, cap |-> cap, threads |-> n] \in Settings
    BY DEF Settings, SwapAssumption
  <1>3. graph \in Seq(Settings) /\ New = 1
    BY <1>1, <1>2 DEF New
  <1>4. paused \in [1 .. New -> BOOLEAN]
    <2>1. paused \in Seq(BOOLEAN) /\ Len(paused) = 1
      BY DEF Init
    <2> QED  BY <1>3, <2>1, LenProperties
  <1>5. current = New /\ handle = New /\ ticking = New /\ New \in 1 .. New
    BY <1>3 DEF Init
  <1>6. save = "none" /\ lateHalt = FALSE
    BY DEF Init
  <1> QED  BY <1>3, <1>4, <1>5, <1>6 DEF GraphTypes, Looking, Closing

LEMMA GraphSave == ASSUME GraphTypes, SaveStep PROVE GraphTypes'
  <1>0. New \in Nat /\ New >= 1
    BY LenProperties DEF GraphTypes, New
  <1>1. CASE Build
    <2>1. current' = Old' /\ handle' = Old' /\ save' \in Looking /\ ticking' = ticking
      BY <1>1, BuildGrows DEF Build, GraphTypes, Looking, Closing, tick
    <2>2. lateHalt' \in BOOLEAN
      BY <1>1 DEF Build
    <2>3. ticking \in 1 .. New + 1
      BY <1>0 DEF GraphTypes
    <2>4. New \in 1 .. New + 1
      BY <1>0
    <2> QED  BY <1>1, <2>1, <2>2, <2>3, <2>4, BuildGrows DEF GraphTypes
  <1>2. CASE ReadPause
    <2>1. graph' = graph /\ New' = New /\ Old' = Old
      BY <1>2 DEF ReadPause, New, Old
    <2>2. paused' \in [1 .. New -> BOOLEAN]
      BY <1>2 DEF ReadPause, GraphTypes
    <2> QED  BY <1>2, <2>1, <2>2 DEF ReadPause, GraphTypes, Looking, Closing, tick, history
  <1>3. CASE ~Build /\ ~ReadPause
    <2>1. UNCHANGED <<graph, paused, lateHalt, ticking>>
      BY <1>3, SaveStep DEF SaveStep, ReadPausedAt, Install, Replace, Close, ShutDown, Release,
         CloseClient, perGraph, tick, history
    <2>2. New' = New /\ Old' = Old
      BY <2>1 DEF New, Old
    <2>3. \/ save = "read time" /\ save' = "install" /\ UNCHANGED <<current, handle>>
          \/ save = "install" /\ save' = "replace" /\ current' = New /\ UNCHANGED handle
          \/ save = "replace" /\ save' = "close" /\ handle' = New /\ UNCHANGED current
          \/ save \in Closing /\ save' \in Closing \cup {"none"} /\ UNCHANGED <<current, handle>>
      BY <1>3, SaveStep DEF SaveStep, ReadPausedAt, Install, Replace, Close, ShutDown, Release,
         CloseClient, Closing
    <2>4. New \in 1 .. New
      BY <1>0
    <2> QED  BY <2>1, <2>2, <2>3, <2>4 DEF GraphTypes, Looking, Closing
  <1> QED  BY <1>1, <1>2, <1>3

\* What the other steps do to the graphs.
LEMMA GraphRest ==
  ASSUME GraphTypes, [Next]_vars, ~SaveStep
  PROVE  /\ GraphTypes' /\ UNCHANGED <<graph, current, handle, save, New, Old>>
         /\ \/ Iterate
            \/ WaveHalts
            \/ UNCHANGED <<paused, lateHalt>>
  <1>1. UNCHANGED <<graph, current, handle, save>>
    BY DEF Next, LoopStep, JobStep, Closer, CloserShuts, CloseDrained, Iterate, ClaimNext, StartWave, Executor,
       SubmitRefused, Drained, WaveEnds, WaveHalts, Submit, RunInline, BackUp, DeferToCap, Refuse,
       ClientGone, Finish, Clock, vars, perGraph
  <1>2. UNCHANGED <<New, Old>>
    BY <1>1 DEF New, Old
  <1>3. CASE Iterate
    <2>1. paused' \in [1 .. New -> BOOLEAN]
      BY <1>3 DEF Iterate
    <2>2. ticking' = handle /\ UNCHANGED lateHalt
      BY <1>3 DEF Iterate, history
    <2> QED  BY <1>1, <1>2, <1>3, <2>1, <2>2 DEF GraphTypes
  <1>4. CASE WaveHalts
    <2>1. paused' \in [1 .. New -> BOOLEAN] /\ lateHalt' \in BOOLEAN /\ UNCHANGED ticking
      BY <1>4 DEF WaveHalts, GraphTypes
    <2> QED  BY <1>1, <1>2, <1>4, <2>1 DEF GraphTypes
  <1>5. CASE ~Iterate /\ ~WaveHalts
    <2>1. UNCHANGED <<paused, lateHalt, ticking>>
      BY <1>5 DEF Next, LoopStep, JobStep, Closer, CloserShuts, CloseDrained, ClaimNext, StartWave, Executor,
         SubmitRefused, Drained, WaveEnds, Submit, RunInline, BackUp, DeferToCap, Refuse,
         ClientGone, Finish, Clock, vars, perGraph, tick, history
    <2> QED  BY <1>1, <1>2, <2>1 DEF GraphTypes
  <1> QED  BY <1>3, <1>4, <1>5

-----------------------------------------------------------------------------
(* Halts. *)

\* From the moment the save has looked, the new graph is as halted as the old one.
HaltCarried ==
    save \in {"read time", "install", "replace"} /\ paused[handle] /\ ~lateHalt => paused[New]

HaltInv == GraphTypes /\ HaltCarried

LEMMA HaltNext == ASSUME HaltInv, [Next]_vars PROVE HaltInv'
  <1>0. New \in Nat /\ New >= 1
    BY LenProperties DEF HaltInv, GraphTypes, New
  <1>1. CASE SaveStep
    <2>1. GraphTypes'
      BY <1>1, GraphSave DEF HaltInv
    <2>2. CASE ReadPause
      <3>a. /\ save = "read pause" /\ UNCHANGED <<handle, graph>>
            /\ paused' = [paused EXCEPT ![New] = paused[current]]
        BY <2>2 DEF ReadPause
      <3>b. handle = Old /\ current = Old
        BY <3>a DEF HaltInv, GraphTypes, Looking
      <3>c. Old # New
        BY <1>0 DEF Old
      <3>1. /\ handle = current /\ UNCHANGED <<handle, graph>>
            /\ paused' = [paused EXCEPT ![New] = paused[current]]
            /\ handle # New
        BY <3>a, <3>b, <3>c
      <3>2. paused'[New] = paused[handle] /\ paused'[handle] = paused[handle]
        BY <1>0, <3>1 DEF HaltInv, GraphTypes
      <3> QED  BY <2>1, <3>1, <3>2 DEF HaltInv, HaltCarried, New
    <2>3. CASE ReadPausedAt \/ Install
      <3>1. UNCHANGED <<graph, paused, handle, lateHalt>> /\ save \in {"read time", "install"}
        BY <2>3 DEF ReadPausedAt, Install, perGraph, history
      <3> QED  BY <2>1, <3>1 DEF HaltInv, HaltCarried, New
    <2>4. CASE ~ReadPause /\ ~ReadPausedAt /\ ~Install
      <3>1. save' \notin {"read time", "install", "replace"}
        BY <1>1, <2>4 DEF SaveStep, Build, Replace, Close, ShutDown, Release, CloseClient
      <3> QED  BY <2>1, <3>1 DEF HaltInv, HaltCarried
    <2> QED  BY <2>2, <2>3, <2>4
  <1>2. CASE ~SaveStep
    <2>1. GraphTypes' /\ UNCHANGED <<graph, handle, save, New>>
      BY <1>2, GraphRest DEF HaltInv
    <2>2. CASE Iterate
      <3>1. /\ \/ paused' = [g \in 1 .. New |-> g >= handle /\ paused[g]]
               \/ paused' = [g \in 1 .. New |-> g > handle /\ paused[g]]
            /\ UNCHANGED lateHalt
        BY <2>2 DEF Iterate, history
      <3>2. /\ paused'[handle] => paused[handle]
            /\ paused[New] /\ paused'[handle] => paused'[New]
        BY <1>0, <3>1 DEF HaltInv, GraphTypes
      <3> QED  BY <2>1, <3>1, <3>2 DEF HaltInv, HaltCarried
    <2>3. CASE WaveHalts
      <3>1. save \notin {"none", "read pause"} => lateHalt'
        BY <2>3 DEF WaveHalts
      <3> QED  BY <2>1, <3>1 DEF HaltInv, HaltCarried
    <2>4. CASE UNCHANGED <<paused, lateHalt>>
      BY <2>1, <2>4 DEF HaltInv, HaltCarried
    <2> QED  BY <1>2, <2>2, <2>3, <2>4, GraphRest DEF HaltInv
  <1> QED  BY <1>1, <1>2

LEMMA HandleMoves ==
  ASSUME HaltInv, [Next]_vars, handle' # handle, paused[handle], ~lateHalt
  PROVE  paused'[handle']
  <1>1. SaveStep
    BY GraphRest DEF HaltInv
  <1>2. Replace
    BY <1>1 DEF SaveStep, Build, ReadPause, ReadPausedAt, Install, Close, ShutDown, Release,
       CloseClient
  <1> QED  BY <1>2 DEF Replace, perGraph, HaltInv, HaltCarried

\* No save resumes a halted account, but for a halt that came after it had looked.
THEOREM HaltsAreCarried == Spec => SaveResumesNothing
  <1>1. Init => HaltInv
    BY GraphInit, SwapAssumption DEF HaltInv, HaltCarried, Init
  <1>2. HaltInv /\ [Next]_vars => HaltInv'
    BY HaltNext
  <1>3. HaltInv /\ [Next]_vars =>
          [handle' # handle /\ paused[handle] /\ ~lateHalt => paused'[handle']]_vars
    BY HandleMoves
  <1> QED  BY <1>1, <1>2, <1>3, PTL DEF Spec, SaveResumesNothing

-----------------------------------------------------------------------------
(* Deadlines. *)

Parked(a) == table[a].state = "pending" /\ table[a].capDeferred

\* A row is parked on the newest graph's cap; until the save has released the rows,
\* it may be the cap before that.
ParkedOnCap(a) ==
    \/ metered[a] = graph[New].cap
    \/ save \notin {"none", "close client"} /\ metered[a] = graph[Old].cap

\* The claim is what takes the mark off a row, so a job starts without one.
DeadlineInv ==
    /\ \A a \in Asset : table[a].state = "uploading" => ~table[a].capDeferred
    /\ metered \in [Asset -> Caps \cup {NoCap}] /\ strays \in SUBSET Asset
    /\ \A a \in Asset : Parked(a) /\ a \notin strays => ParkedOnCap(a)

CapInv == SwapInv /\ GraphTypes /\ DeadlineInv

LEMMA CapTypes ==
  ASSUME GraphTypes PROVE \A g \in 1 .. New : graph[g].cap \in Caps \cup {NoCap}
  <1>1. \A g \in 1 .. New : graph[g] \in Settings
    BY ElementOfSeq DEF GraphTypes, New
  <1> QED  BY <1>1 DEF Settings

\* What the operators leave of a row's mark.
LEMMA MarksLeft ==
  ASSUME NEW r \in Row, NEW d \in Nat
  PROVE  /\ ~Claim(r).capDeferred
         /\ Requeue(r, d).capDeferred => r.capDeferred
         /\ MarkRetry(r, d).capDeferred => r.capDeferred
         /\ MarkSynced(r).state = "synced"
         /\ Elapse(r, 0).capDeferred => r.capDeferred
         /\ DeferForBandwidth(r, d).state = "pending"
         /\ r.state = "pending" => ~ReleaseBandwidthDeferral(r).capDeferred
         /\ r.state = "uploading" => ReleaseBandwidthDeferral(r) = r
  <1>1. /\ ~Claim(r).capDeferred /\ MarkSynced(r).state = "synced"
        /\ Requeue(r, d).capDeferred => r.capDeferred
    BY DEF Claim, MarkSynced, Requeue, Row
  <1>2. MarkRetry(r, d).capDeferred => r.capDeferred
    BY DEF MarkRetry, Row
  <1>3. Elapse(r, 0).capDeferred => r.capDeferred
    BY DEF Elapse, Row
  <1>4. DeferForBandwidth(r, d).state = "pending"
    BY DEF DeferForBandwidth, Requeue, Row
  <1>5. /\ r.state = "pending" => ~ReleaseBandwidthDeferral(r).capDeferred
        /\ r.state = "uploading" => ReleaseBandwidthDeferral(r) = r
    BY DEF ReleaseBandwidthDeferral, Row
  <1> QED  BY <1>1, <1>2, <1>3, <1>4, <1>5

\* A step that parks nothing more, and moves neither the caps nor the release.
LEMMA NothingParked ==
  ASSUME DeadlineInv, UNCHANGED <<graph, save, metered, strays>>,
         \A a \in Asset : /\ table'[a].state = "uploading" => ~table'[a].capDeferred
                          /\ Parked(a)' => Parked(a)
  PROVE  DeadlineInv'
  BY DEF DeadlineInv, ParkedOnCap, New, Old

LEMMA DeadlineSave == ASSUME CapInv, SaveStep PROVE DeadlineInv'
  <1>1. CASE Build
    <2>1. /\ UNCHANGED <<table, metered, strays>>
          /\ save = "none" /\ save' \notin {"none", "close client"}
      BY <1>1 DEF Build
    <2>2. graph'[Old'] = graph[New]
      <3>1. New \in 1 .. New
        BY LenProperties DEF CapInv, GraphTypes, New
      <3> QED  BY <1>1, <3>1, BuildGrows DEF CapInv
    <2> QED  BY <2>1, <2>2 DEF CapInv, DeadlineInv, Parked, ParkedOnCap
  <1>2. CASE Release
    <2>1. /\ UNCHANGED <<graph, metered, strays>> /\ save = "release" /\ save' = "close client"
          /\ table' = [a \in Asset |-> IF graph[Old].cap # graph[New].cap
                                       THEN ReleaseBandwidthDeferral(table[a]) ELSE table[a]]
      BY <1>2 DEF Release, perGraph, history
    <2>2. \A a \in Asset : table[a] \in Row
      BY DEF CapInv, SwapInv, ClaimTypes
    <2>3. CASE graph[Old].cap # graph[New].cap
      <3>1. ASSUME NEW a \in Asset
            PROVE  /\ ~Parked(a)'
                   /\ table'[a].state = "uploading" => ~table'[a].capDeferred
        <4>1. table'[a] = ReleaseBandwidthDeferral(table[a])
          BY <2>1, <2>3
        <4>2. table'[a].state = table[a].state
          BY <2>2, <4>1, StatesLeft
        <4>3. /\ table[a].state = "pending" => ~table'[a].capDeferred
              /\ table[a].state = "uploading" => table'[a] = table[a]
          BY <2>2, <4>1, MarksLeft
        <4> QED  BY <4>2, <4>3 DEF CapInv, DeadlineInv, Parked
      <3> QED  BY <2>1, <3>1 DEF CapInv, DeadlineInv
    <2>4. CASE graph[Old].cap = graph[New].cap
      <3>1. \A a \in Asset : table'[a] = table[a]
        BY <2>1, <2>4
      <3> QED  BY <2>1, <2>4, <3>1 DEF CapInv, DeadlineInv, Parked, ParkedOnCap, New, Old
    <2> QED  BY <2>3, <2>4
  <1>3. CASE ~Build /\ ~Release
    <2>1. UNCHANGED <<table, graph, metered, strays>>
      BY <1>3, SaveStep DEF SaveStep, ReadPause, ReadPausedAt, Install, Replace, Close, ShutDown,
         CloseClient, perGraph, history
    <2>2. save \notin {"none", "close client"} => save' \notin {"none", "close client"}
      BY <1>3, SaveStep DEF SaveStep, ReadPause, ReadPausedAt, Install, Replace, Close, ShutDown,
         CloseClient
    <2> QED  BY <2>1, <2>2 DEF CapInv, DeadlineInv, Parked, ParkedOnCap, New, Old
  <1> QED  BY <1>1, <1>2, <1>3

LEMMA DeadlineLoop == ASSUME CapInv, LoopStep PROVE DeadlineInv'
  <1>0. \A a \in Asset : table[a] \in Row
    BY DEF CapInv, SwapInv, ClaimTypes
  <1>1. CASE ClaimNext
    <2>1. PICK S \in SUBSET {a \in Asset : Claimable(table[a])} :
            /\ table' = [a \in Asset |-> IF a \in S THEN Claim(table[a]) ELSE table[a]]
            /\ metered' = [a \in Asset |-> IF a \in S THEN NoCap ELSE metered[a]]
            /\ strays' = strays \ S
      BY <1>1 DEF ClaimNext
    <2>2. UNCHANGED <<graph, save>>
      BY <1>1 DEF ClaimNext, perGraph
    <2>3. \A a \in S : Claim(table[a]).state = "uploading" /\ ~Claim(table[a]).capDeferred
      BY <1>0, StatesLeft, MarksLeft
    <2>4. metered' \in [Asset -> Caps \cup {NoCap}]
      BY <2>1 DEF CapInv, DeadlineInv
    <2>5. ASSUME NEW a \in Asset, Parked(a)', a \notin strays' PROVE ParkedOnCap(a)'
      <3>1. a \notin S /\ table'[a] = table[a] /\ metered'[a] = metered[a]
        BY <2>1, <2>3, <2>5 DEF Parked
      <3> QED  BY <2>1, <2>2, <2>5, <3>1
               DEF CapInv, DeadlineInv, Parked, ParkedOnCap, New, Old
    <2>6. \A a \in Asset : table'[a].state = "uploading" => ~table'[a].capDeferred
      BY <2>1, <2>3 DEF CapInv, DeadlineInv
    <2> QED  BY <2>1, <2>4, <2>5, <2>6 DEF CapInv, DeadlineInv
  <1>2. CASE WaveHalts
    <2>1. /\ table' = [a \in Asset |-> IF a \in batch THEN Requeue(table[a], 0) ELSE table[a]]
          /\ UNCHANGED <<graph, save, metered, strays>>
      BY <1>2 DEF WaveHalts
    <2>2. \A a \in batch : ~Requeue(table[a], 0).capDeferred
      BY <1>0, MarksLeft DEF CapInv, SwapInv, ClaimTypes, ClaimedOnce, DeadlineInv
    <2>3. \A a \in Asset : /\ table'[a].state = "uploading" => ~table'[a].capDeferred
                           /\ Parked(a)' => Parked(a)
      BY <2>1, <2>2 DEF CapInv, DeadlineInv, Parked
    <2> QED  BY <2>1, <2>3, NothingParked DEF CapInv
  <1>3. CASE ~ClaimNext /\ ~WaveHalts
    <2>1. UNCHANGED <<table, graph, save, metered, strays>>
      BY <1>3, LoopStep DEF LoopStep, Iterate, StartWave, Executor, SubmitRefused, Drained,
         WaveEnds, Submit, RunInline, perGraph, history
    <2> QED  BY <2>1 DEF CapInv, DeadlineInv, Parked, ParkedOnCap, New, Old
  <1> QED  BY <1>1, <1>2, <1>3

LEMMA LastTwo ==
  ASSUME NEW n \in Nat, NEW g \in 1 .. n, ~(g < n - 1)
  PROVE  g = n - 1 \/ g = n
  OBVIOUS

LEMMA DeadlineJob ==
  ASSUME CapInv, SwapAssumption, NEW a \in Asset, JobStep(a) PROVE DeadlineInv'
  <1>1. /\ table[a] \in Row /\ table \in [Asset -> Row]
        /\ CapDelay \in Nat /\ HaltDelay \in Nat /\ RetryDelay \in Nat
    BY DEF CapInv, SwapInv, ClaimTypes, SwapAssumption
  <1>2. a \in InProcess
    BY DEF JobStep, BackUp, DeferToCap, Refuse, ClientGone, Finish
  <1>3. ~table[a].capDeferred
    BY <1>2 DEF CapInv, SwapInv, ClaimedOnce, DeadlineInv
  <1>4. ASSUME NEW r \in Row, Finish(a, r), r.state # "uploading",
               r.state = "pending" => ~r.capDeferred, UNCHANGED <<metered, strays>>
        PROVE  DeadlineInv'
    <2>1. table' = [table EXCEPT ![a] = r] /\ UNCHANGED <<graph, save>>
      BY <1>4 DEF Finish
    <2>2. \A b \in Asset : /\ table'[b].state = "uploading" => ~table'[b].capDeferred
                           /\ Parked(b)' => Parked(b)
      BY <1>1, <1>4, <2>1 DEF CapInv, DeadlineInv, Parked
    <2> QED  BY <1>4, <2>1, <2>2, NothingParked DEF CapInv
  <1>5. CASE BackUp(a)
    BY <1>1, <1>4, <1>5, StatesLeft, MarksLeft DEF BackUp
  <1>6. CASE Refuse(a)
    <2>1. Finish(a, Requeue(table[a], HaltDelay)) /\ UNCHANGED <<metered, strays>>
      BY <1>6 DEF Refuse
    <2>2. /\ Requeue(table[a], HaltDelay) \in Row
          /\ Requeue(table[a], HaltDelay).state # "uploading"
          /\ ~Requeue(table[a], HaltDelay).capDeferred
      BY <1>1, <1>3, StatesLeft, MarksLeft
    <2> QED  BY <1>4, <2>1, <2>2
  <1>7. CASE ClientGone(a)
    <2>1. Finish(a, MarkRetry(table[a], RetryDelay)) /\ UNCHANGED <<metered, strays>>
      BY <1>7 DEF ClientGone
    <2>2. /\ MarkRetry(table[a], RetryDelay) \in Row
          /\ MarkRetry(table[a], RetryDelay).state # "uploading"
          /\ ~MarkRetry(table[a], RetryDelay).capDeferred
      BY <1>1, <1>3, StatesLeft, MarksLeft
    <2> QED  BY <1>4, <2>1, <2>2
  <1>8. CASE DeferToCap(a)
    <2>1. /\ table' = [table EXCEPT ![a] = DeferForBandwidth(table[a], CapDelay)]
          /\ UNCHANGED <<graph, save>>
          /\ metered' = [metered EXCEPT ![a] = graph[ticking].cap]
      BY <1>8 DEF DeferToCap, Finish
    <2>2. strays' = IF \/ ticking < Old
                       \/ ticking = Old /\ save \in {"close client", "none"}
                    THEN strays \cup {a} ELSE strays
      BY <1>8 DEF DeferToCap
    <2>3. graph[ticking].cap \in Caps \cup {NoCap}
      BY CapTypes DEF CapInv, GraphTypes
    <2>4. metered' \in [Asset -> Caps \cup {NoCap}] /\ strays' \in SUBSET Asset
      BY <2>1, <2>2, <2>3 DEF CapInv, DeadlineInv
    <2>5. \A b \in Asset : table'[b].state = "uploading" => ~table'[b].capDeferred
      BY <1>1, <2>1, MarksLeft DEF CapInv, DeadlineInv
    <2>6. ASSUME NEW b \in Asset \ {a}, Parked(b)', b \notin strays' PROVE ParkedOnCap(b)'
      <3>1. table'[b] = table[b] /\ metered'[b] = metered[b] /\ b \notin strays
        BY <1>1, <2>1, <2>2, <2>6 DEF CapInv, DeadlineInv
      <3> QED  BY <2>1, <2>6, <3>1 DEF CapInv, DeadlineInv, Parked, ParkedOnCap, New, Old
    <2>7. ASSUME a \notin strays' PROVE ParkedOnCap(a)'
      <3>1. metered'[a] = graph[ticking].cap
        BY <2>1 DEF CapInv, DeadlineInv
      <3>2. ~(ticking < Old) /\ ~(ticking = Old /\ save \in {"close client", "none"})
        BY <2>2, <2>7
      <3>3. ticking = Old \/ ticking = New
        <4>1. New \in Nat /\ ticking \in 1 .. New
          BY LenProperties DEF CapInv, GraphTypes, New
        <4> QED  BY <3>2, <4>1, LastTwo DEF Old
      <3> QED  BY <2>1, <3>1, <3>2, <3>3 DEF ParkedOnCap, New, Old
    <2> QED  BY <2>4, <2>5, <2>6, <2>7 DEF DeadlineInv
  <1> QED  BY <1>5, <1>6, <1>7, <1>8 DEF JobStep

LEMMA CapNext == ASSUME SwapAssumption, CapInv, [Next]_vars PROVE CapInv'
  <1>1. SwapInv'
    BY SwapNext DEF CapInv
  <1>2. GraphTypes'
    BY GraphSave, GraphRest DEF CapInv
  <1>3. CASE \E g \in 1 .. New : Closer(g)
    <2>1. UNCHANGED <<table, graph, save, metered, strays>>
      BY <1>3 DEF Closer, CloserShuts, CloseDrained, perGraph, history
    <2> QED  BY <1>1, <1>2, <2>1 DEF CapInv, DeadlineInv, Parked, ParkedOnCap, New, Old
  <1>4. CASE Clock
    <2>1. /\ UNCHANGED <<graph, save, metered, strays>>
          /\ table' = [a \in Asset |-> Elapse(table[a], 0)]
      BY <1>4 DEF Clock, perGraph, history
    <2>2. \A a \in Asset : /\ table'[a].state = table[a].state
                           /\ table'[a].capDeferred => table[a].capDeferred
      BY <2>1, StatesLeft, MarksLeft DEF CapInv, SwapInv, ClaimTypes
    <2>3. DeadlineInv'
      BY <2>1, <2>2, NothingParked DEF CapInv, DeadlineInv, Parked
    <2> QED  BY <1>1, <1>2, <2>3 DEF CapInv
  <1>5. CASE UNCHANGED vars
    BY <1>1, <1>2, <1>5
       DEF CapInv, DeadlineInv, Parked, ParkedOnCap, New, Old, vars, perGraph, history
  <1> QED  BY <1>1, <1>2, <1>3, <1>4, <1>5, DeadlineSave, DeadlineLoop, DeadlineJob
           DEF Next, CapInv

\* After a save, no row waits for a cap that is no more, unless the outgoing tick
\* parked it after the others were released.
THEOREM RowsFollowTheCap == Spec => []DeadlinesFollowTheCap
  <1>1. Init => CapInv
    <2> SUFFICES ASSUME Init PROVE CapInv
      OBVIOUS
    <2>1. SwapInv /\ GraphTypes
      BY SwapInit, GraphInit, SwapAssumption
    <2>2. \A a \in Asset : table[a].state = "pending" /\ ~table[a].capDeferred
      BY DEF Init, UpsertPending, NoRow
    <2>3. metered \in [Asset -> Caps \cup {NoCap}] /\ strays = {}
      BY DEF Init
    <2> QED  BY <2>1, <2>2, <2>3 DEF CapInv, DeadlineInv, Parked
  <1>2. CapInv /\ [Next]_vars => CapInv'
    BY CapNext, SwapAssumption
  <1>3. CapInv => DeadlinesFollowTheCap
    <2>1. ASSUME GraphTypes, save = "none" PROVE current = New
      BY <2>1 DEF GraphTypes, Looking
    <2> QED  BY <2>1 DEF CapInv, DeadlineInv, DeadlinesFollowTheCap, Parked, ParkedOnCap
  <1> QED  BY <1>1, <1>2, <1>3, PTL DEF Spec

-----------------------------------------------------------------------------
(* Clients. *)

PoolState == {"none", "open", "shut"}

\* The client of g goes with it: the next graph has another.
Goes(g) == graph[g + 1].client # graph[g].client

\* The save that replaced g is through with it.
Over(g) == g \in 1 .. Old /\ (g = Old => save = "none")

ClientTypes ==
    /\ pool \in [1 .. New -> PoolState] /\ closing \in [1 .. New -> BOOLEAN]
    /\ save # "none" => Old \in 1 .. New
    /\ shut \in SUBSET Nat /\ IsFiniteSet(shut)
    /\ \A g, h \in 1 .. New : g <= h => graph[g].client <= graph[h].client
    /\ \A g \in 1 .. New : graph[g].client <= g

\* A client is closed with the last graph that has it, once the save is through with that
\* graph: only a pool made after Close then works on.  Until the pool is drained it is open.
ClosersOver  == \A g \in closers : Over(g) /\ Goes(g)
ClosersOpen  == \A g \in closers : graph[g].client \notin shut
ShutOver     == \A c \in shut : \E g \in 1 .. Old : Over(g) /\ Goes(g) /\ graph[g].client = c
OverCloses   == /\ \A g \in 1 .. Old : Over(g) => closing[g]
                /\ save \in {"shut down", "release", "close client"} => closing[Old]
PoolMade     == at \in {"submit", "await", "drain"} => pool[ticking] # "none"
Broken(g)    == g = ticking /\ Over(g) /\ Goes(g) /\ graph[g].client \in shut /\ pool[g] = "shut"
ShutIsIdle   == \A g \in 1 .. Old : Broken(g) => pooled = {}

ShutInv == ClosersOver /\ ClosersOpen /\ ShutOver /\ OverCloses /\ PoolMade /\ ShutIsIdle

\* The clients closed before the one the tick works with.
Earlier == {c \in shut : c < graph[ticking].client}

\* An asset still to be processed has met none but earlier clients closed.
AttemptInv ==
    /\ \A a \in Asset : table[a].attempts <= Cardinality(shut)
    /\ \A a \in Asset : at = "claim" \/ table[a].state = "uploading"
                           => table[a].attempts <= Cardinality(Earlier)

ClientInv == SwapInv /\ GraphTypes /\ ClientTypes /\ ShutInv /\ AttemptInv

LEMMA NewIsNat ==
  ASSUME GraphTypes
  PROVE  /\ New \in Nat /\ New >= 1 /\ Old \in Nat /\ Old = New - 1
         /\ \A g \in 1 .. New : graph[g] \in Settings /\ graph[g].client \in Nat
  <1>1. New \in Nat /\ New >= 1  BY LenProperties DEF GraphTypes, New
  <1>2. \A g \in 1 .. New : graph[g] \in Settings  BY ElementOfSeq DEF GraphTypes, New
  <1> QED  BY <1>1, <1>2 DEF Old, Settings

\* A closed client is older than those of the graphs after the one it went with.
LEMMA ShutIsOlder ==
  ASSUME GraphTypes, ClientTypes, ShutInv, NEW c \in shut,
         NEW h \in 1 .. New, \A g \in 1 .. Old : Over(g) => g < h
  PROVE  c < graph[h].client
  <1>1. PICK g \in 1 .. Old : Over(g) /\ Goes(g) /\ graph[g].client = c  BY DEF ShutInv, ShutOver
  <1>2. g < h  BY <1>1
  <1>3. g \in 1 .. New /\ g + 1 \in 1 .. New /\ g <= g + 1 /\ g + 1 <= h
    BY <1>1, <1>2, NewIsNat
  <1>4. graph[g].client <= graph[g + 1].client /\ graph[g + 1].client <= graph[h].client
    BY <1>3 DEF ClientTypes
  <1>5. graph[g].client \in Nat /\ graph[g + 1].client \in Nat /\ graph[h].client \in Nat
    BY <1>3, NewIsNat
  <1>6. graph[g + 1].client # graph[g].client  BY <1>1 DEF Goes
  <1> QED  BY <1>1, <1>4, <1>5, <1>6

LEMMA OverIsBehind ==
  ASSUME GraphTypes, ClientTypes, NEW g \in 1 .. Old, Over(g)
  PROVE  g < current /\ g < handle
  <1>1. CASE save = "none"
    BY <1>1, NewIsNat DEF GraphTypes, Looking
  <1>2. CASE save # "none"
    <2>1. g < Old  BY <1>2, NewIsNat DEF Over
    <2>2. current \in {Old, New} /\ handle \in {Old, New}  BY DEF GraphTypes
    <2> QED  BY <2>1, <2>2, NewIsNat
  <1> QED  BY <1>1, <1>2

\* A client goes with one graph only.
LEMMA GoesOnce ==
  ASSUME GraphTypes, ClientTypes, NEW g \in 1 .. Old, NEW h \in 1 .. Old,
         Goes(g), Goes(h), graph[g].client = graph[h].client
  PROVE  g = h
  <1>1. ASSUME NEW x \in 1 .. Old, NEW y \in 1 .. Old, Goes(x), graph[x].client = graph[y].client
        PROVE  ~ (x < y)
    <2> SUFFICES ASSUME x < y PROVE FALSE
      OBVIOUS
    <2>1. x \in 1 .. New /\ x + 1 \in 1 .. New /\ y \in 1 .. New /\ x <= x + 1 /\ x + 1 <= y
      BY NewIsNat
    <2>2. graph[x].client <= graph[x + 1].client /\ graph[x + 1].client <= graph[y].client
      BY <2>1 DEF ClientTypes
    <2>3. graph[x].client \in Nat /\ graph[x + 1].client \in Nat
      BY <2>1, NewIsNat
    <2> QED  BY <1>1, <2>2, <2>3 DEF Goes
  <1>2. ~ (g < h) /\ ~ (h < g)  BY <1>1
  <1> QED  BY <1>2, NewIsNat

\* Append, to a sequence of pool states kept as a function.
LEMMA AppendPool ==
  ASSUME NEW n \in Nat, NEW s \in [1 .. n -> PoolState], NEW e \in PoolState
  PROVE  /\ Append(s, e) \in [1 .. n + 1 -> PoolState]
         /\ \A i \in 1 .. n : Append(s, e)[i] = s[i]
  <1>1. s \in Seq(PoolState) /\ Len(s) = n
    BY IsASeq, LenProperties
  <1>2. /\ Append(s, e) \in Seq(PoolState) /\ Len(Append(s, e)) = n + 1
        /\ \A i \in 1 .. n : Append(s, e)[i] = s[i]
    BY <1>1, AppendProperties
  <1> QED  BY <1>2, LenProperties

LEMMA ClientBuild ==
  ASSUME GraphTypes, ClientTypes, Build
  PROVE  /\ ClientTypes'
         /\ New' = New + 1 /\ Old' = New /\ save = "none" /\ save' = "read pause"
         /\ \A g \in 1 .. New : graph'[g] = graph[g] /\ closing'[g] = closing[g]
                                /\ pool'[g] = pool[g]
  <1>1. /\ save = "none" /\ save' = "read pause" /\ shut' = shut
        /\ pool' = Append(pool, "none") /\ closing' = Append(closing, FALSE)
    BY DEF Build
  <1>2. /\ New \in Nat /\ New >= 1 /\ current = New
        /\ \A g \in 1 .. New : graph[g] \in Settings /\ graph[g].client \in Nat
    BY <1>1, NewIsNat DEF GraphTypes, Looking
  <1>3. /\ New' = New + 1 /\ Old' = New /\ graph' \in Seq(Settings)
        /\ \A g \in 1 .. New : graph'[g] = graph[g]
    BY BuildGrows
  <1>4. /\ pool' \in [1 .. New + 1 -> PoolState] /\ closing' \in [1 .. New + 1 -> BOOLEAN]
        /\ \A g \in 1 .. New : pool'[g] = pool[g] /\ closing'[g] = closing[g]
    BY <1>1, <1>2, AppendPool, AppendToFunction DEF ClientTypes, PoolState
  <1>5. graph'[New + 1].client \in {graph[New].client, New + 1}
    <2>1. PICK g \in Settings : /\ g.client \in {graph[current].client, Len(graph) + 1}
                                /\ graph' = Append(graph, g)
      BY DEF Build
    <2>2. graph'[Len(graph) + 1] = g  BY <2>1, AppendProperties DEF GraphTypes
    <2> QED  BY <1>2, <2>1, <2>2 DEF New
  <1>6. \A g \in 1 .. New : graph[g].client <= g /\ graph[g].client <= graph[New].client
    BY <1>2 DEF ClientTypes
  <1>7. graph[New].client <= graph'[New + 1].client /\ graph'[New + 1].client <= New + 1
        /\ graph'[New + 1].client \in Nat
    BY <1>2, <1>5, <1>6
  <1>8. ASSUME NEW g \in 1 .. New + 1, NEW h \in 1 .. New + 1, g <= h
        PROVE  graph'[g].client <= graph'[h].client
    <2>1. CASE h \in 1 .. New
      <3>1. g \in 1 .. New  BY <1>2, <1>8, <2>1
      <3> QED  BY <1>3, <1>8, <2>1, <3>1 DEF ClientTypes
    <2>2. CASE h = New + 1 /\ g \in 1 .. New
      BY <1>2, <1>3, <1>6, <1>7, <2>2
    <2>3. CASE h = New + 1 /\ g = New + 1
      BY <1>7, <2>3
    <2> QED  BY <1>2, <2>1, <2>2, <2>3
  <1>9. ASSUME NEW g \in 1 .. New + 1 PROVE graph'[g].client <= g
    BY <1>2, <1>3, <1>6, <1>7
  <1>10. Old' \in 1 .. New'  BY <1>2, <1>3
  <1>11. ClientTypes'  BY <1>1, <1>3, <1>4, <1>8, <1>9, <1>10 DEF ClientTypes
  <1> QED  BY <1>1, <1>3, <1>4, <1>11

\* The steps that do not touch the graphs' clients.
LEMMA ClientTypesKept ==
  ASSUME GraphTypes, ClientTypes, UNCHANGED <<graph, shut>>, save = "none" => save' = "none",
         pool' \in [1 .. New -> PoolState], closing' \in [1 .. New -> BOOLEAN]
  PROVE  ClientTypes'
  <1>1. New' = New /\ Old' = Old  BY DEF New, Old
  <1> QED  BY <1>1 DEF ClientTypes

\* A step that leaves the graphs, the save and the clients alone, shuts no pool and opens
\* no call of a tick whose client is closed.
LEMMA ShutKept ==
  ASSUME ClientInv, UNCHANGED <<graph, shut, closers>>,
         save' = save \/ (save # "none" /\ save' # "none"),
         save' \in {"shut down", "release", "close client"} => closing'[Old],
         \A g \in 1 .. Old : closing[g] => closing'[g],
         PoolMade',
         \A g \in 1 .. Old : g = ticking' /\ Over(g) /\ pool'[g] = "shut"
                               => pooled' = {} \/ (g = ticking /\ pool[g] = "shut" /\ pooled # {})
  PROVE  ShutInv'
  <1>1. New' = New /\ Old' = Old  BY DEF New, Old
  <1>2. ASSUME NEW g PROVE /\ Over(g)' <=> Over(g)
                           /\ Goes(g)' <=> Goes(g)
    BY <1>1 DEF Over, Goes
  <1>3. ClosersOver'
    <2>1. ASSUME NEW g \in closers' PROVE Over(g)' /\ Goes(g)'
      BY <1>2, <2>1 DEF ClientInv, ShutInv, ClosersOver
    <2> QED  BY <2>1 DEF ClosersOver
  <1>4. ShutOver'
    <2>1. ASSUME NEW c \in shut' PROVE \E g \in 1 .. Old' : Over(g)' /\ Goes(g)' /\ graph'[g].client = c
      <3>1. PICK g \in 1 .. Old : Over(g) /\ Goes(g) /\ graph[g].client = c
        BY DEF ClientInv, ShutInv, ShutOver
      <3> QED  BY <1>1, <1>2, <3>1
    <2> QED  BY <2>1 DEF ShutOver
  <1>5. OverCloses'
    <2>1. ASSUME NEW g \in 1 .. Old, Over(g)' PROVE closing'[g]
      BY <1>2, <2>1 DEF ClientInv, ShutInv, OverCloses
    <2> QED  BY <1>1, <2>1 DEF OverCloses
  <1>6. ShutIsIdle'
    <2>1. ASSUME NEW g \in 1 .. Old, Broken(g)' PROVE pooled' = {}
      <3>1. /\ g = ticking' /\ Over(g) /\ Goes(g) /\ graph[g].client \in shut
            /\ pool'[g] = "shut"
        BY <1>2, <2>1 DEF Broken
      <3>2. g = ticking /\ pool[g] = "shut" => pooled = {}
        BY <3>1 DEF ClientInv, ShutInv, ShutIsIdle, Broken
      <3> QED  BY <3>1, <3>2
    <2> QED  BY <1>1, <2>1 DEF ShutIsIdle
  <1>7. ClosersOpen'  BY DEF ClientInv, ShutInv, ClosersOpen
  <1> QED  BY <1>3, <1>4, <1>5, <1>6, <1>7 DEF ShutInv

LEMMA ClientSave ==
  ASSUME ClientInv, SaveStep, ~Build, ~CloseClient
  PROVE  ClientTypes' /\ ShutInv'
  <1>1. /\ UNCHANGED <<graph, shut, closers, at, ticking, pooled>>
        /\ save # "none" /\ save' # "none"
    BY SaveStep DEF SaveStep, ReadPause, ReadPausedAt, Install, Replace, Close, ShutDown, Release,
       perGraph, tick
  <1>2. /\ Old \in 1 .. New /\ pool \in [1 .. New -> PoolState] /\ ticking \in 1 .. New
        /\ closing \in [1 .. New -> BOOLEAN] /\ \A g \in 1 .. Old : g \in 1 .. New
    BY <1>1, NewIsNat DEF ClientInv, ClientTypes, GraphTypes
  <1>3. ASSUME NEW g, Over(g) PROVE g # Old
    BY <1>1, <1>3 DEF Over
  <1>4. /\ closing' \in [1 .. New -> BOOLEAN]
        /\ \A g \in 1 .. New : closing[g] => closing'[g]
        /\ save' \in {"shut down", "release", "close client"} => closing'[Old]
    <2>1. CASE Close
      <3>1. closing' = [closing EXCEPT ![Old] = TRUE]  BY <2>1 DEF Close
      <3> QED  BY <1>2, <3>1
    <2>2. CASE ~Close
      <3>1. /\ closing' = closing
            /\ save' \in {"shut down", "release", "close client"}
                => save \in {"shut down", "release", "close client"}
        BY <2>2, SaveStep DEF SaveStep, ReadPause, ReadPausedAt, Install, Replace, Release,
           ShutDown, perGraph
      <3> QED  BY <1>2, <3>1 DEF ClientInv, ShutInv, OverCloses
    <2> QED  BY <2>1, <2>2
  <1>5. /\ pool' \in [1 .. New -> PoolState]
        /\ \A g \in 1 .. New : /\ pool'[g] = "none" <=> pool[g] = "none"
                               /\ g # Old => pool'[g] = pool[g]
    <2>1. CASE ShutDown
      <3>1. pool' = [pool EXCEPT ![Old] = IF @ = "none" THEN "none" ELSE "shut"]
        BY <2>1 DEF ShutDown
      <3> QED  BY <1>2, <3>1 DEF PoolState
    <2>2. CASE ~ShutDown
      <3>1. pool' = pool
        BY <2>2, SaveStep DEF SaveStep, ReadPause, ReadPausedAt, Install, Replace, Release,
           Close, perGraph
      <3> QED  BY <1>2, <3>1
    <2> QED  BY <2>1, <2>2
  <1>6. ClientTypes'  BY <1>1, <1>4, <1>5, ClientTypesKept DEF ClientInv
  <1>7. PoolMade'  BY <1>1, <1>2, <1>5 DEF ClientInv, ShutInv, PoolMade
  <1>8. ASSUME NEW g \in 1 .. Old, g = ticking', Over(g), pool'[g] = "shut"
        PROVE  pooled' = {} \/ (g = ticking /\ pool[g] = "shut" /\ pooled # {})
    BY <1>1, <1>2, <1>3, <1>5, <1>8
  <1>9. ShutInv'  BY <1>1, <1>2, <1>4, <1>7, <1>8, ShutKept
  <1> QED  BY <1>6, <1>9

LEMMA BeforeLast ==
  ASSUME NEW n \in Nat
  PROVE  /\ \A g \in 1 .. n - 1 : g \in 1 .. n /\ g + 1 \in 1 .. n /\ g # n
         /\ \A g \in 1 .. n : g # n => g \in 1 .. n - 1
  OBVIOUS

LEMMA ShutBuild == ASSUME ClientInv, Build PROVE ClientTypes' /\ ShutInv'
  <1>1. /\ ClientTypes' /\ New' = New + 1 /\ Old' = New /\ save = "none" /\ save' = "read pause"
        /\ \A g \in 1 .. New : graph'[g] = graph[g] /\ closing'[g] = closing[g]
                               /\ pool'[g] = pool[g]
    BY ClientBuild DEF ClientInv
  <1>2. UNCHANGED <<shut, closers, at, ticking, pooled>>  BY DEF Build, tick
  <1>3. New \in Nat /\ New >= 1 /\ Old = New - 1 /\ Old \in Nat  BY NewIsNat DEF ClientInv
  <1>4. ASSUME NEW g \in 1 .. Old
        PROVE  /\ g \in 1 .. New /\ g + 1 \in 1 .. New /\ Over(g)
               /\ Over(g)' /\ (Goes(g)' <=> Goes(g))
               /\ graph'[g] = graph[g] /\ closing'[g] = closing[g] /\ pool'[g] = pool[g]
    <2>0. g \in 1 .. New - 1  BY <1>3
    <2>1. g \in 1 .. New /\ g + 1 \in 1 .. New /\ g # Old'  BY <1>1, <1>3, <2>0, BeforeLast
    <2>2. Over(g) /\ Over(g)'  BY <1>1, <2>1 DEF Over
    <2>3. Goes(g)' <=> Goes(g)  BY <1>1, <2>1 DEF Goes
    <2> QED  BY <1>1, <2>1, <2>2, <2>3
  <1>5. ASSUME NEW g, Over(g)' PROVE g \in 1 .. Old
    <2>1. g \in 1 .. New /\ (g = New => save' = "none")  BY <1>1, <1>5 DEF Over
    <2>2. g # New  BY <1>1, <2>1
    <2>3. g \in 1 .. New - 1  BY <1>3, <2>1, <2>2, BeforeLast
    <2> QED  BY <1>3, <2>3
  <1>6. ClosersOver'
    <2>1. ASSUME NEW g \in closers' PROVE Over(g)' /\ Goes(g)'
      <3>1. Goes(g) /\ g \in 1 .. Old  BY <1>2, <2>1 DEF ClientInv, ShutInv, ClosersOver, Over
      <3> QED  BY <1>4, <3>1
    <2> QED  BY <2>1 DEF ClosersOver
  <1>7. ShutOver'
    <2>1. ASSUME NEW c \in shut'
          PROVE  \E g \in 1 .. Old' : Over(g)' /\ Goes(g)' /\ graph'[g].client = c
      <3>1. PICK g \in 1 .. Old : Over(g) /\ Goes(g) /\ graph[g].client = c
        BY <1>2, <2>1 DEF ClientInv, ShutInv, ShutOver
      <3>2. g \in 1 .. Old' /\ Over(g)' /\ Goes(g)' /\ graph'[g].client = c
        BY <1>1, <1>4, <3>1
      <3> QED  BY <3>2
    <2> QED  BY <2>1 DEF ShutOver
  <1>8. OverCloses'
    <2>1. ASSUME NEW g \in 1 .. Old', Over(g)' PROVE closing'[g]
      <3>1. g \in 1 .. Old  BY <1>5, <2>1
      <3>2. closing[g]  BY <1>4, <3>1 DEF ClientInv, ShutInv, OverCloses
      <3> QED  BY <1>4, <3>1, <3>2
    <2> QED  BY <1>1, <2>1 DEF OverCloses
  <1>9. PoolMade'
    <2>1. ticking \in 1 .. New  BY DEF ClientInv, GraphTypes
    <2> QED  BY <1>1, <1>2, <2>1 DEF ClientInv, ShutInv, PoolMade
  <1>10. ShutIsIdle'
    <2>1. ASSUME NEW g \in 1 .. Old', Broken(g)' PROVE pooled' = {}
      <3>1. g \in 1 .. Old  BY <1>5, <2>1 DEF Broken
      <3>2. Broken(g)  BY <1>2, <1>4, <2>1, <3>1 DEF Broken
      <3> QED  BY <1>2, <3>1, <3>2 DEF ClientInv, ShutInv, ShutIsIdle
    <2> QED  BY <2>1 DEF ShutIsIdle
  <1>11. ClosersOpen'
    <2>1. ASSUME NEW g \in closers' PROVE graph'[g].client \notin shut'
      <3>1. g \in closers /\ g \in 1 .. Old
        BY <1>2, <2>1 DEF ClientInv, ShutInv, ClosersOver, Over
      <3> QED  BY <1>2, <1>4, <3>1 DEF ClientInv, ShutInv, ClosersOpen
    <2> QED  BY <2>1 DEF ClosersOpen
  <1> QED  BY <1>1, <1>6, <1>7, <1>8, <1>9, <1>10, <1>11 DEF ShutInv

\* The save is through with the old graph: without a pool its client is closed at once.
LEMMA ShutClient == ASSUME ClientInv, CloseClient PROVE ClientTypes' /\ ShutInv'
  <1>1. /\ save = "close client" /\ save' = "none"
        /\ UNCHANGED <<graph, pool, closing, at, ticking, pooled>>
        /\ \/ shut' = shut /\ closers' = closers
           \/ Goes(Old) /\ pool[Old] = "none" /\ shut' = shut \cup {graph[Old].client}
              /\ closers' = closers
           \/ Goes(Old) /\ closers' = closers \cup {Old} /\ shut' = shut
    <2>1. New \in Nat /\ Old + 1 = New  BY NewIsNat DEF ClientInv
    <2> QED  BY <2>1 DEF CloseClient, perGraph, tick, Goes
  <1>2. New' = New /\ Old' = Old  BY <1>1 DEF New, Old
  <1>3. Old \in 1 .. New /\ Old \in 1 .. Old
    <2>1. Old \in 1 .. New  BY <1>1 DEF ClientInv, ClientTypes
    <2> QED  BY <2>1, NewIsNat DEF ClientInv
  <1>4. graph[Old].client \in Nat  BY <1>3, NewIsNat DEF ClientInv
  <1>5. ClientTypes'
    <2>1. IsFiniteSet(shut) /\ shut \in SUBSET Nat  BY DEF ClientInv, ClientTypes
    <2>2. IsFiniteSet(shut \cup {graph[Old].client})  BY <2>1, FS_AddElement
    <2>3. IsFiniteSet(shut') /\ shut' \in SUBSET Nat  BY <1>1, <1>4, <2>1, <2>2
    <2> QED  BY <1>1, <1>2, <2>3 DEF ClientInv, ClientTypes
  <1>6. ASSUME NEW g \in 1 .. Old PROVE Over(g)' /\ (Over(g) \/ g = Old) /\ (Goes(g)' <=> Goes(g))
    BY <1>1, <1>2 DEF Over, Goes
  <1>7. ClosersOver'
    <2>1. ASSUME NEW g \in closers' PROVE Over(g)' /\ Goes(g)'
      <3>1. CASE g \in closers
        <4>1. Goes(g) /\ g \in 1 .. Old
          BY <3>1 DEF ClientInv, ShutInv, ClosersOver, Over
        <4> QED  BY <1>6, <4>1
      <3>2. CASE g = Old /\ Goes(Old)
        BY <1>3, <1>6, <3>2
      <3> QED  BY <1>1, <2>1, <3>1, <3>2
    <2> QED  BY <2>1 DEF ClosersOver
  <1>8. ShutOver'
    <2>1. ASSUME NEW c \in shut'
          PROVE  \E g \in 1 .. Old' : Over(g)' /\ Goes(g)' /\ graph'[g].client = c
      <3>1. CASE c \in shut
        <4>1. PICK g \in 1 .. Old : Over(g) /\ Goes(g) /\ graph[g].client = c
          BY <3>1 DEF ClientInv, ShutInv, ShutOver
        <4> QED  BY <1>1, <1>2, <1>6, <4>1
      <3>2. CASE c = graph[Old].client /\ Goes(Old)
        BY <1>1, <1>2, <1>3, <1>6, <3>2
      <3> QED  BY <1>1, <2>1, <3>1, <3>2
    <2> QED  BY <2>1 DEF ShutOver
  <1>9. OverCloses'
    <2>1. ASSUME NEW g \in 1 .. Old PROVE closing'[g]
      BY <1>1, <1>6 DEF ClientInv, ShutInv, OverCloses
    <2> QED  BY <1>1, <1>2, <2>1 DEF OverCloses
  <1>10. PoolMade'  BY <1>1 DEF ClientInv, ShutInv, PoolMade
  <1>11. ShutIsIdle'
    <2>1. ASSUME NEW g \in 1 .. Old, g = ticking, Goes(g), graph[g].client \in shut',
                 pool[g] = "shut"
          PROVE  pooled = {}
      <3>1. graph[g].client \in shut
        <4>1. CASE graph[g].client = graph[Old].client /\ Goes(Old) /\ pool[Old] = "none"
          <5>1. g = Old  BY <1>3, <2>1, <4>1, GoesOnce DEF ClientInv
          <5> QED  BY <2>1, <4>1, <5>1
        <4> QED  BY <1>1, <2>1, <4>1
      <3>2. PICK h \in 1 .. Old : Over(h) /\ Goes(h) /\ graph[h].client = graph[g].client
        BY <3>1 DEF ClientInv, ShutInv, ShutOver
      <3>3. h = g  BY <2>1, <3>2, GoesOnce DEF ClientInv
      <3> QED  BY <2>1, <3>1, <3>2, <3>3 DEF ClientInv, ShutInv, ShutIsIdle, Broken
    <2>2. ASSUME NEW g \in 1 .. Old', Broken(g)' PROVE pooled' = {}
      BY <1>1, <1>2, <1>6, <2>1, <2>2 DEF Broken
    <2> QED  BY <2>2 DEF ShutIsIdle
  <1>12. ClosersOpen'
    <2>1. ASSUME NEW g \in 1 .. Old, Over(g), Goes(g), Goes(Old)
          PROVE  graph[g].client # graph[Old].client
      <3>1. g # Old  BY <1>1, <2>1 DEF Over
      <3> QED  BY <1>3, <2>1, <3>1, GoesOnce DEF ClientInv
    <2>2. ASSUME NEW g \in closers PROVE graph[g].client \notin shut'
      <3>1. g \in 1 .. Old /\ Over(g) /\ Goes(g) /\ graph[g].client \notin shut
        BY <2>2 DEF ClientInv, ShutInv, ClosersOver, ClosersOpen, Over
      <3> QED  BY <1>1, <2>1, <3>1
    <2>3. Goes(Old) => graph[Old].client \notin shut
      BY <2>1 DEF ClientInv, ShutInv, ShutOver
    <2>4. ASSUME NEW g \in closers' PROVE graph'[g].client \notin shut'
      BY <1>1, <2>2, <2>3, <2>4
    <2> QED  BY <2>4 DEF ClosersOpen
  <1> QED  BY <1>5, <1>7, <1>8, <1>9, <1>10, <1>11, <1>12 DEF ShutInv

\* The thread that is to close a client shuts a pool made late while the client is open:
\* the client goes with this graph only.
LEMMA ShutByCloser ==
  ASSUME ClientInv, NEW x \in 1 .. New, CloserShuts(x)
  PROVE  ClientTypes' /\ ShutInv'
  <1>1. /\ x \in closers /\ pool[x] = "open"
        /\ pool' = [pool EXCEPT ![x] = "shut"]
        /\ UNCHANGED <<graph, closing, shut, closers, save, at, ticking, pooled>>
    BY DEF CloserShuts, tick
  <1>2. New' = New /\ Old' = Old  BY <1>1 DEF New, Old
  <1>3. pool \in [1 .. New -> PoolState]  BY DEF ClientInv, ClientTypes
  <1>4. /\ pool' \in [1 .. New -> PoolState]
        /\ \A g \in 1 .. New : /\ pool'[g] = "none" <=> pool[g] = "none"
                               /\ g # x => pool'[g] = pool[g]
    BY <1>1, <1>3 DEF PoolState
  <1>5. ClientTypes'  BY <1>1, <1>2, <1>4 DEF ClientInv, ClientTypes
  <1>6. ASSUME NEW g PROVE (Over(g)' <=> Over(g)) /\ (Goes(g)' <=> Goes(g))
    BY <1>1, <1>2 DEF Over, Goes
  <1>7. ClosersOver'
    <2>1. ASSUME NEW g \in closers' PROVE Over(g)' /\ Goes(g)'
      BY <1>1, <1>6, <2>1 DEF ClientInv, ShutInv, ClosersOver
    <2> QED  BY <2>1 DEF ClosersOver
  <1>8. ShutOver'
    <2>1. ASSUME NEW c \in shut'
          PROVE  \E g \in 1 .. Old' : Over(g)' /\ Goes(g)' /\ graph'[g].client = c
      <3>1. PICK g \in 1 .. Old : Over(g) /\ Goes(g) /\ graph[g].client = c
        BY <1>1 DEF ClientInv, ShutInv, ShutOver
      <3> QED  BY <1>1, <1>2, <1>6, <3>1
    <2> QED  BY <2>1 DEF ShutOver
  <1>9. OverCloses'
    <2>1. ASSUME NEW g \in 1 .. Old, Over(g)' PROVE closing'[g]
      BY <1>1, <1>6, <2>1 DEF ClientInv, ShutInv, OverCloses
    <2>2. save' \in {"shut down", "release", "close client"} => closing'[Old']
      BY <1>1, <1>2 DEF ClientInv, ShutInv, OverCloses
    <2> QED  BY <1>2, <2>1, <2>2 DEF OverCloses
  <1>10. PoolMade'
    <2>1. ticking \in 1 .. New  BY DEF ClientInv, GraphTypes
    <2> QED  BY <1>1, <1>4, <2>1 DEF ClientInv, ShutInv, PoolMade
  <1>11. ShutIsIdle'
    <2>1. ASSUME NEW g \in 1 .. Old', Broken(g)' PROVE pooled' = {}
      <3>1. /\ g \in 1 .. Old /\ g = ticking /\ Over(g) /\ Goes(g) /\ pool'[g] = "shut"
            /\ graph[g].client \in shut
        BY <1>1, <1>2, <1>6, <2>1 DEF Broken
      <3>2. g # x  BY <1>1, <3>1 DEF ClientInv, ShutInv, ClosersOpen
      <3>3. g \in 1 .. New  BY <3>1 DEF ClientInv, GraphTypes
      <3>4. pool[g] = "shut"  BY <1>4, <3>1, <3>2, <3>3
      <3> QED  BY <1>1, <3>1, <3>4 DEF ClientInv, ShutInv, ShutIsIdle, Broken
    <2> QED  BY <2>1 DEF ShutIsIdle
  <1> QED  BY <1>1, <1>2, <1>5, <1>7, <1>8, <1>9, <1>10, <1>11 DEF ClientInv, ShutInv, ClosersOpen

LEMMA ShutDrained ==
  ASSUME ClientInv, NEW x \in 1 .. New, CloseDrained(x)
  PROVE  ClientTypes' /\ ShutInv'
  <1>1. /\ x \in closers /\ pool[x] = "shut" /\ (ticking = x => pooled = {})
        /\ shut' = shut \cup {graph[x].client} /\ closers' = closers \ {x}
        /\ UNCHANGED <<graph, pool, closing, save, at, ticking, pooled>>
    BY DEF CloseDrained, perGraph, tick
  <1>2. New' = New /\ Old' = Old  BY <1>1 DEF New, Old
  <1>3. Over(x) /\ Goes(x) /\ x \in 1 .. Old
    BY <1>1 DEF ClientInv, ShutInv, ClosersOver, Over
  <1>4. graph[x].client \in Nat  BY NewIsNat DEF ClientInv
  <1>5. ClientTypes'
    <2>1. IsFiniteSet(shut) /\ shut \in SUBSET Nat  BY DEF ClientInv, ClientTypes
    <2>2. IsFiniteSet(shut') /\ shut' \in SUBSET Nat  BY <1>1, <1>4, <2>1, FS_AddElement
    <2> QED  BY <1>1, <1>2, <2>2 DEF ClientInv, ClientTypes
  <1>6. ASSUME NEW g PROVE (Over(g)' <=> Over(g)) /\ (Goes(g)' <=> Goes(g))
    BY <1>1, <1>2 DEF Over, Goes
  <1>7. ClosersOver'
    <2>1. ASSUME NEW g \in closers' PROVE Over(g)' /\ Goes(g)'
      BY <1>1, <1>6, <2>1 DEF ClientInv, ShutInv, ClosersOver
    <2> QED  BY <2>1 DEF ClosersOver
  <1>8. ShutOver'
    <2>1. ASSUME NEW c \in shut'
          PROVE  \E g \in 1 .. Old' : Over(g)' /\ Goes(g)' /\ graph'[g].client = c
      <3>1. CASE c \in shut
        <4>1. PICK g \in 1 .. Old : Over(g) /\ Goes(g) /\ graph[g].client = c
          BY <3>1 DEF ClientInv, ShutInv, ShutOver
        <4> QED  BY <1>1, <1>2, <1>6, <4>1
      <3>2. CASE c = graph[x].client
        BY <1>1, <1>2, <1>3, <1>6, <3>2
      <3> QED  BY <1>1, <2>1, <3>1, <3>2
    <2> QED  BY <2>1 DEF ShutOver
  <1>9. OverCloses'
    <2>1. ASSUME NEW g \in 1 .. Old, Over(g)' PROVE closing'[g]
      BY <1>1, <1>6, <2>1 DEF ClientInv, ShutInv, OverCloses
    <2>2. save' \in {"shut down", "release", "close client"} => closing'[Old']
      BY <1>1, <1>2 DEF ClientInv, ShutInv, OverCloses
    <2> QED  BY <1>2, <2>1, <2>2 DEF OverCloses
  <1>10. PoolMade'  BY <1>1 DEF ClientInv, ShutInv, PoolMade
  <1>11. ShutIsIdle'
    <2>1. ASSUME NEW g \in 1 .. Old', Broken(g)' PROVE pooled' = {}
      <3>1. g \in 1 .. Old /\ g = ticking /\ Over(g) /\ Goes(g) /\ pool[g] = "shut"
            /\ graph[g].client \in shut'
        BY <1>1, <1>2, <1>6, <2>1 DEF Broken
      <3>2. CASE graph[g].client = graph[x].client
        <4>1. g = x  BY <1>3, <3>1, <3>2, GoesOnce DEF ClientInv
        <4> QED  BY <1>1, <3>1, <4>1
      <3>3. CASE graph[g].client \in shut
        BY <1>1, <3>1, <3>3 DEF ClientInv, ShutInv, ShutIsIdle, Broken
      <3> QED  BY <1>1, <3>1, <3>2, <3>3
    <2> QED  BY <2>1 DEF ShutIsIdle
  <1>12. ClosersOpen'
    <2>1. ASSUME NEW g \in closers' PROVE graph'[g].client \notin shut'
      <3>1. /\ g # x /\ g \in 1 .. Old /\ Goes(g) /\ graph[g].client \notin shut
        BY <1>1, <2>1 DEF ClientInv, ShutInv, ClosersOver, ClosersOpen, Over
      <3>2. graph[g].client # graph[x].client  BY <1>3, <3>1, GoesOnce DEF ClientInv
      <3> QED  BY <1>1, <3>1, <3>2
    <2> QED  BY <2>1 DEF ClosersOpen
  <1> QED  BY <1>5, <1>7, <1>8, <1>9, <1>10, <1>11, <1>12 DEF ShutInv

\* The loop thread, the jobs and the clock close nothing; a tick begins with no call open.
LEMMA ShutLoop ==
  ASSUME ClientInv, LoopStep \/ (\E a \in Asset : JobStep(a)) \/ Clock \/ UNCHANGED vars
  PROVE  ClientTypes' /\ ShutInv'
  <1>1. UNCHANGED <<graph, shut, closers, save, closing>>
    BY DEF LoopStep, JobStep, Iterate, ClaimNext, StartWave, Executor, SubmitRefused, Drained,
       WaveEnds, WaveHalts, Submit, RunInline, BackUp, DeferToCap, Refuse, ClientGone, Finish,
       Clock, vars, perGraph
  <1>2. /\ pool \in [1 .. New -> PoolState] /\ closing \in [1 .. New -> BOOLEAN]
        /\ ticking \in 1 .. New /\ \A g \in 1 .. Old : g \in 1 .. New
    BY NewIsNat DEF ClientInv, ClientTypes, GraphTypes
  <1>3. save' \in {"shut down", "release", "close client"} => closing'[Old]
    BY <1>1 DEF ClientInv, ShutInv, OverCloses
  <1>4. CASE Iterate
    <2>1. pool' = pool /\ at = "top" /\ at' \in {"top", "claim"} /\ pooled' = pooled
      BY <1>4 DEF Iterate
    <2>2. pooled' = {}  BY <2>1 DEF ClientInv, SwapInv, Phases
    <2>3. PoolMade'  BY <2>1 DEF PoolMade
    <2>4. ClientTypes'  BY <1>1, <1>2, <2>1, ClientTypesKept DEF ClientInv
    <2> QED  BY <1>1, <1>3, <2>2, <2>3, <2>4, ShutKept
  <1>5. CASE Executor
    <2>1. /\ pool' = [pool EXCEPT ![ticking] = IF @ = "none" THEN "open" ELSE @]
          /\ at = "executor" /\ ticking' = ticking /\ pooled' = pooled
      BY <1>5 DEF Executor
    <2>2. pooled' = {}  BY <2>1 DEF ClientInv, SwapInv, Phases
    <2>3. pool' \in [1 .. New -> PoolState] /\ pool'[ticking] # "none"
      BY <1>2, <2>1 DEF PoolState
    <2>4. PoolMade'  BY <2>1, <2>3 DEF PoolMade
    <2>5. ClientTypes'  BY <1>1, <1>2, <2>3, ClientTypesKept DEF ClientInv
    <2> QED  BY <1>1, <1>3, <2>2, <2>4, <2>5, ShutKept
  <1>6. ASSUME NEW a \in Asset, Submit(a) PROVE ClientTypes' /\ ShutInv'
    <2>1. pool' = pool /\ ticking' = ticking /\ pool[ticking] = "open"
      BY <1>6 DEF Submit, perGraph
    <2>2. PoolMade'  BY <2>1 DEF PoolMade
    <2>3. ClientTypes'  BY <1>1, <1>2, <2>1, ClientTypesKept DEF ClientInv
    <2> QED  BY <1>1, <1>3, <2>1, <2>2, <2>3, ShutKept
  <1>7. CASE ~Iterate /\ ~Executor /\ ~(\E a \in Asset : Submit(a))
    <2>1. pool' = pool /\ ticking' = ticking
      BY <1>7 DEF LoopStep, JobStep, ClaimNext, StartWave, SubmitRefused, Drained,
         WaveEnds, WaveHalts, RunInline, BackUp, DeferToCap, Refuse, ClientGone, Finish,
         Clock, vars, perGraph, tick
    <2>2. pooled' \subseteq pooled
      BY <1>7 DEF LoopStep, JobStep, ClaimNext, StartWave, SubmitRefused, Drained,
         WaveEnds, WaveHalts, RunInline, BackUp, DeferToCap, Refuse, ClientGone, Finish,
         Clock, vars, perGraph, tick
    <2>3. at' \in {"submit", "await", "drain"} => at \in {"submit", "await", "drain"}
      BY <1>7 DEF LoopStep, JobStep, ClaimNext, StartWave, SubmitRefused, Drained,
         WaveEnds, WaveHalts, RunInline, BackUp, DeferToCap, Refuse, ClientGone, Finish,
         Clock, vars, perGraph, tick
    <2>4. PoolMade'  BY <2>1, <2>3 DEF ClientInv, ShutInv, PoolMade
    <2>5. ClientTypes'  BY <1>1, <1>2, <2>1, ClientTypesKept DEF ClientInv
    <2>6. ASSUME NEW g \in 1 .. Old, g = ticking', Over(g), pool'[g] = "shut"
          PROVE  pooled' = {} \/ (g = ticking /\ pool[g] = "shut" /\ pooled # {})
      BY <2>1, <2>2, <2>6
    <2> QED  BY <1>1, <1>3, <2>4, <2>5, <2>6, ShutKept
  <1> QED  BY <1>4, <1>5, <1>6, <1>7

-----------------------------------------------------------------------------
(* Attempts. *)

\* Only an error costs an attempt.
LEMMA AttemptsLeft ==
  ASSUME NEW r \in Row, NEW d \in Nat
  PROVE  /\ r.attempts \in Nat
         /\ Claim(r).attempts = r.attempts
         /\ MarkSynced(r).attempts = r.attempts
         /\ Requeue(r, d).attempts = r.attempts
         /\ DeferForBandwidth(r, d).attempts = r.attempts
         /\ ReleaseBandwidthDeferral(r).attempts = r.attempts
         /\ Elapse(r, 0).attempts = r.attempts
         /\ MarkRetry(r, d).attempts = r.attempts + 1
  <1>1. Claim(r).attempts = r.attempts /\ MarkSynced(r).attempts = r.attempts
        /\ r.attempts \in Nat
    BY DEF Claim, MarkSynced, Row
  <1>2. /\ Requeue(r, d).attempts = r.attempts
        /\ DeferForBandwidth(r, d).attempts = r.attempts
    BY DEF Requeue, DeferForBandwidth, Row
  <1>3. ReleaseBandwidthDeferral(r).attempts = r.attempts
    BY DEF ReleaseBandwidthDeferral, Row
  <1>4. Elapse(r, 0).attempts = r.attempts
    BY DEF Elapse, Row
  <1>5. MarkRetry(r, d).attempts = r.attempts + 1
    BY DEF MarkRetry, Row
  <1> QED  BY <1>1, <1>2, <1>3, <1>4, <1>5

LEMMA EarlierIsShut ==
  ASSUME ClientTypes
  PROVE  /\ Cardinality(shut) \in Nat /\ IsFiniteSet(Earlier)
         /\ Cardinality(Earlier) \in Nat /\ Cardinality(Earlier) <= Cardinality(shut)
  <1>1. IsFiniteSet(shut) /\ Earlier \subseteq shut  BY DEF ClientTypes, Earlier
  <1> QED  BY <1>1, FS_Subset, FS_CardinalityType

\* A step that costs no attempt, and lets nothing be claimed but by a tick.
LEMMA AttemptKept ==
  ASSUME ClientInv, ClientTypes', \A a \in Asset : table'[a].attempts = table[a].attempts,
         shut \subseteq shut', Earlier \subseteq Earlier',
         \A a \in Asset : at' = "claim" \/ table'[a].state = "uploading"
                             => at = "claim" \/ table[a].state = "uploading"
  PROVE  AttemptInv'
  <1>1. IsFiniteSet(shut') /\ IsFiniteSet(Earlier')
    <2>1. IsFiniteSet(shut') /\ Earlier' \subseteq shut'  BY DEF ClientTypes, Earlier
    <2> QED  BY <2>1, FS_Subset
  <1>2. /\ Cardinality(shut) <= Cardinality(shut')
        /\ Cardinality(Earlier) <= Cardinality(Earlier')
    BY <1>1, FS_Subset
  <1>3. /\ Cardinality(shut) \in Nat /\ Cardinality(Earlier) \in Nat
        /\ Cardinality(shut') \in Nat /\ Cardinality(Earlier') \in Nat
    BY <1>1, EarlierIsShut, FS_CardinalityType DEF ClientInv
  <1>4. ASSUME NEW a \in Asset
        PROVE  /\ table'[a].attempts <= Cardinality(shut')
               /\ at' = "claim" \/ table'[a].state = "uploading"
                     => table'[a].attempts <= Cardinality(Earlier')
    <2>1. table[a].attempts \in Nat
      BY AttemptsLeft DEF ClientInv, SwapInv, ClaimTypes
    <2>2. table[a].attempts <= Cardinality(shut)
      BY DEF ClientInv, AttemptInv
    <2>3. at = "claim" \/ table[a].state = "uploading" => table[a].attempts <= Cardinality(Earlier)
      BY DEF ClientInv, AttemptInv
    <2>4. table'[a].attempts = table[a].attempts  OBVIOUS
    <2>5. table'[a].attempts <= Cardinality(shut')
      BY <1>2, <1>3, <2>1, <2>2, <2>4
    <2>6. at = "claim" \/ table[a].state = "uploading" => table'[a].attempts <= Cardinality(Earlier')
      BY <1>2, <1>3, <2>1, <2>3, <2>4
    <2> QED  BY <2>5, <2>6
  <1> QED  BY <1>4 DEF AttemptInv

LEMMA AttemptSave ==
  ASSUME ClientInv, SaveStep, ClientTypes' PROVE AttemptInv'
  <1>1. UNCHANGED <<at, ticking>>
    BY SaveStep DEF SaveStep, Build, ReadPause, ReadPausedAt, Install, Replace, Close, ShutDown,
       Release, CloseClient, tick
  <1>2. \A a \in Asset : /\ table'[a].attempts = table[a].attempts
                         /\ table'[a].state = table[a].state
    <2>1. CASE Release
      <3>1. ASSUME NEW a \in Asset
            PROVE  /\ ReleaseBandwidthDeferral(table[a]).attempts = table[a].attempts
                   /\ ReleaseBandwidthDeferral(table[a]).state = table[a].state
        BY AttemptsLeft, StatesLeft DEF ClientInv, SwapInv, ClaimTypes
      <3> QED  BY <2>1, <3>1 DEF Release
    <2>2. CASE ~Release
      <3>1. table' = table
        BY <2>2, SaveStep DEF SaveStep, Build, ReadPause, ReadPausedAt, Install, Replace, Close,
           ShutDown, CloseClient
      <3> QED  BY <3>1
    <2> QED  BY <2>1, <2>2
  <1>3. shut \subseteq shut'
    BY SaveStep DEF SaveStep, Build, ReadPause, ReadPausedAt, Install, Replace, Close, ShutDown,
       Release, CloseClient
  <1>4. graph'[ticking] = graph[ticking]
    <2>1. CASE Build
      BY <2>1, ClientBuild DEF ClientInv, GraphTypes
    <2>2. CASE ~Build
      BY <2>2, SaveStep DEF SaveStep, ReadPause, ReadPausedAt, Install, Replace, Close, ShutDown,
         Release, CloseClient, perGraph
    <2> QED  BY <2>1, <2>2
  <1>5. Earlier \subseteq Earlier'  BY <1>1, <1>3, <1>4 DEF Earlier
  <1> QED  BY <1>1, <1>2, <1>3, <1>5, AttemptKept

LEMMA AttemptDrained ==
  ASSUME ClientInv, NEW x \in 1 .. New, Closer(x), ClientTypes'
  PROVE  AttemptInv'
  <1>1. UNCHANGED <<table, graph, at, ticking>> /\ shut \subseteq shut'
    BY DEF Closer, CloserShuts, CloseDrained, perGraph, tick
  <1>2. Earlier \subseteq Earlier'  BY <1>1 DEF Earlier
  <1> QED  BY <1>1, <1>2, AttemptKept

\* A tick begins with a client newer than any that was closed.
LEMMA AttemptIterate ==
  ASSUME ClientInv, Iterate PROVE AttemptInv'
  <1>1. UNCHANGED <<table, graph, shut>> /\ ticking' = handle
    BY DEF Iterate
  <1>2. handle \in 1 .. New /\ \A g \in 1 .. Old : Over(g) => g < handle
    BY OverIsBehind DEF ClientInv, GraphTypes
  <1>3. \A c \in shut : c < graph[handle].client
    BY <1>2, ShutIsOlder DEF ClientInv
  <1>4. Earlier' = shut  BY <1>1, <1>3 DEF Earlier
  <1> QED  BY <1>1, <1>4 DEF ClientInv, AttemptInv

\* An asset met a closed client: its earlier ones, and the tick's, are among the closed.
LEMMA AttemptGone ==
  ASSUME ClientInv, SwapAssumption, NEW a \in Asset, ClientGone(a) PROVE AttemptInv'
  <1>1. /\ a \in InProcess /\ graph[ticking].client \in shut
        /\ table' = [table EXCEPT ![a] = MarkRetry(table[a], RetryDelay)]
        /\ UNCHANGED <<at, ticking, shut, graph>>
    BY DEF ClientGone, Finish, ClientShut
  <1>2. table[a].state = "uploading"
    BY <1>1 DEF ClientInv, SwapInv, ClaimedOnce
  <1>3. at # "claim"
    BY <1>1, <1>2 DEF ClientInv, SwapInv, Phases, InProcess
  <1>4. /\ table \in [Asset -> Row] /\ table[a] \in Row /\ RetryDelay \in Nat
        /\ table[a].attempts \in Nat
    BY AttemptsLeft DEF ClientInv, SwapInv, ClaimTypes, SwapAssumption
  <1>5. /\ MarkRetry(table[a], RetryDelay).attempts = table[a].attempts + 1
        /\ MarkRetry(table[a], RetryDelay).state # "uploading"
    BY <1>4, AttemptsLeft, StatesLeft
  <1>6. Cardinality(Earlier) <= Cardinality(shut) - 1
    <2>1. IsFiniteSet(shut) /\ graph[ticking].client \in Nat
      BY NewIsNat DEF ClientInv, ClientTypes, GraphTypes
    <2>2. /\ IsFiniteSet(shut \ {graph[ticking].client})
          /\ Cardinality(shut \ {graph[ticking].client}) = Cardinality(shut) - 1
      BY <1>1, <2>1, FS_RemoveElement
    <2>3. Earlier \subseteq shut \ {graph[ticking].client}
      BY <2>1 DEF Earlier
    <2> QED  BY <2>2, <2>3, FS_Subset
  <1>7. Cardinality(shut) \in Nat /\ Cardinality(Earlier) \in Nat
    BY EarlierIsShut DEF ClientInv
  <1>8. table[a].attempts <= Cardinality(Earlier)
    BY <1>2 DEF ClientInv, AttemptInv
  <1>9. Earlier' = Earlier  BY <1>1 DEF Earlier
  <1>10. ASSUME NEW b \in Asset
         PROVE  /\ table'[b].attempts <= Cardinality(shut')
                /\ at' = "claim" \/ table'[b].state = "uploading"
                      => table'[b].attempts <= Cardinality(Earlier')
    <2>1. CASE b = a
      <3>1. table'[b] = MarkRetry(table[a], RetryDelay)  BY <1>1, <1>4, <2>1
      <3>2. table'[b].attempts <= Cardinality(shut')
        BY <1>1, <1>4, <1>5, <1>6, <1>7, <1>8, <3>1
      <3>3. ~(at' = "claim" \/ table'[b].state = "uploading")
        BY <1>1, <1>3, <1>5, <3>1
      <3> QED  BY <3>2, <3>3
    <2>2. CASE b # a
      <3>1. table'[b] = table[b]  BY <1>1, <1>4, <2>2
      <3> QED  BY <1>1, <1>9, <3>1 DEF ClientInv, AttemptInv
    <2> QED  BY <2>1, <2>2
  <1> QED  BY <1>10 DEF AttemptInv

\* The other ends of a job leave the row's attempts.
LEMMA AttemptJob ==
  ASSUME ClientInv, SwapAssumption, NEW a \in Asset, BackUp(a) \/ DeferToCap(a) \/ Refuse(a),
         ClientTypes'
  PROVE  AttemptInv'
  <1>1. UNCHANGED <<at, ticking, shut, graph>>
    BY DEF BackUp, DeferToCap, Refuse, Finish
  <1>2. /\ table \in [Asset -> Row] /\ table[a] \in Row
        /\ CapDelay \in Nat /\ HaltDelay \in Nat
    BY DEF ClientInv, SwapInv, ClaimTypes, SwapAssumption
  <1>3. PICK r : /\ table' = [table EXCEPT ![a] = r]
                 /\ r.attempts = table[a].attempts /\ r.state # "uploading"
    <2>1. CASE BackUp(a)
      BY <1>2, <2>1, AttemptsLeft, StatesLeft DEF BackUp, Finish
    <2>2. CASE DeferToCap(a)
      BY <1>2, <2>2, AttemptsLeft, StatesLeft DEF DeferToCap, Finish
    <2>3. CASE Refuse(a)
      BY <1>2, <2>3, AttemptsLeft, StatesLeft DEF Refuse, Finish
    <2> QED  BY <2>1, <2>2, <2>3
  <1>4. \A b \in Asset : /\ table'[b].attempts = table[b].attempts
                         /\ table'[b].state = "uploading" => table[b].state = "uploading"
    BY <1>2, <1>3
  <1>5. Earlier \subseteq Earlier'  BY <1>1 DEF Earlier
  <1> QED  BY <1>1, <1>4, <1>5, AttemptKept

LEMMA AttemptLoop ==
  ASSUME ClientInv, SwapAssumption, LoopStep \/ Clock \/ UNCHANGED vars, ~Iterate, ClientTypes'
  PROVE  AttemptInv'
  <1>1. UNCHANGED <<shut, graph, ticking>>
    BY DEF LoopStep, ClaimNext, StartWave, Executor, SubmitRefused, Drained,
       WaveEnds, WaveHalts, Submit, RunInline, Clock, vars, perGraph, tick
  <1>2. Earlier \subseteq Earlier'  BY <1>1 DEF Earlier
  <1>3. table \in [Asset -> Row] /\ \A a \in Asset : table[a] \in Row
    BY DEF ClientInv, SwapInv, ClaimTypes
  <1>4. CASE ClaimNext
    <2>1. PICK S \in SUBSET Asset :
            /\ table' = [a \in Asset |-> IF a \in S THEN Claim(table[a]) ELSE table[a]]
            /\ at = "claim"
      BY <1>4 DEF ClaimNext
    <2>2. \A a \in Asset : Claim(table[a]).attempts = table[a].attempts
      BY <1>3, AttemptsLeft
    <2>3. \A a \in Asset : table'[a].attempts = table[a].attempts
      BY <2>1, <2>2
    <2> QED  BY <1>1, <1>2, <2>1, <2>3, AttemptKept
  <1>5. CASE WaveHalts
    <2>1. /\ table' = [a \in Asset |-> IF a \in batch THEN Requeue(table[a], 0) ELSE table[a]]
          /\ at' = "top"
      BY <1>5 DEF WaveHalts
    <2>2. \A a \in Asset : /\ Requeue(table[a], 0).attempts = table[a].attempts
                           /\ Requeue(table[a], 0).state # "uploading"
      BY <1>3, AttemptsLeft, StatesLeft
    <2>3. \A a \in Asset : /\ table'[a].attempts = table[a].attempts
                           /\ table'[a].state = "uploading" => table[a].state = "uploading"
      BY <2>1, <2>2
    <2> QED  BY <1>1, <1>2, <2>1, <2>3, AttemptKept
  <1>6. CASE Clock
    <2>1. table' = [a \in Asset |-> Elapse(table[a], 0)] /\ at' = at
      BY <1>6 DEF Clock, tick
    <2>2. \A a \in Asset : /\ Elapse(table[a], 0).attempts = table[a].attempts
                           /\ Elapse(table[a], 0).state = table[a].state
      BY <1>3, AttemptsLeft, StatesLeft
    <2>3. \A a \in Asset : /\ table'[a].attempts = table[a].attempts
                           /\ table'[a].state = table[a].state
      BY <2>1, <2>2
    <2> QED  BY <1>1, <1>2, <2>1, <2>3, AttemptKept
  <1>7. CASE ~ClaimNext /\ ~WaveHalts /\ ~Clock
    <2>1. table' = table /\ (at' = "claim" => at = "claim")
      BY <1>7 DEF LoopStep, StartWave, Executor, SubmitRefused, Drained,
         WaveEnds, Submit, RunInline, vars, perGraph, tick
    <2> QED  BY <1>1, <1>2, <2>1, AttemptKept
  <1> QED  BY <1>4, <1>5, <1>6, <1>7

-----------------------------------------------------------------------------
LEMMA ClientInit == SwapAssumption /\ Init => ClientInv
  <1> SUFFICES ASSUME SwapAssumption, Init PROVE ClientInv
    OBVIOUS
  <1>1. SwapInv /\ GraphTypes  BY SwapInit, GraphInit
  <1>2. New = 1 /\ Old = 0 /\ graph[1].client = 1
    BY DEF Init, New, Old
  <1>3. ClientTypes
    <2>1. pool \in [1 .. New -> PoolState] /\ closing \in [1 .. New -> BOOLEAN]
      <3>1. /\ pool \in Seq(PoolState) /\ Len(pool) = 1
            /\ closing \in Seq(BOOLEAN) /\ Len(closing) = 1
        BY DEF Init, PoolState
      <3> QED  BY <1>2, <3>1, LenProperties
    <2>2. shut = {} /\ save = "none"  BY DEF Init
    <2> QED  BY <1>2, <2>1, <2>2, FS_EmptySet DEF ClientTypes
  <1>4. \A g \in 1 .. Old : FALSE  BY <1>2
  <1>5. ShutInv
    <2>1. closers = {} /\ shut = {} /\ save = "none" /\ at = "top"  BY DEF Init
    <2> QED  BY <1>4, <2>1 DEF ShutInv, ClosersOver, ClosersOpen, ShutOver, OverCloses, PoolMade, ShutIsIdle
  <1>6. AttemptInv
    <2>1. UpsertPending(NoRow, Backfill, FALSE).attempts = 0
      BY DEF UpsertPending, NoRow
    <2>2. \A a \in Asset : table[a].attempts = 0  BY <2>1 DEF Init
    <2>3. shut = {} /\ Earlier = {}  BY DEF Init, Earlier
    <2>4. Cardinality(shut) = 0 /\ Cardinality(Earlier) = 0  BY <2>3, FS_EmptySet
    <2> QED  BY <2>2, <2>4 DEF AttemptInv
  <1> QED  BY <1>1, <1>3, <1>5, <1>6 DEF ClientInv

LEMMA ClientNext == ASSUME SwapAssumption, ClientInv, [Next]_vars PROVE ClientInv'
  <1>1. SwapInv'  BY SwapNext DEF ClientInv
  <1>2. GraphTypes'
    <2>1. CASE SaveStep  BY <2>1, GraphSave DEF ClientInv
    <2>2. CASE ~SaveStep  BY <2>2, GraphRest DEF ClientInv
    <2> QED  BY <2>1, <2>2
  <1>3. ClientTypes' /\ ShutInv'
    <2>1. CASE SaveStep
      BY <2>1, ShutBuild, ShutClient, ClientSave
    <2>2. CASE \E g \in 1 .. New : Closer(g)
      BY <2>2, ShutByCloser, ShutDrained DEF Closer
    <2>3. CASE LoopStep \/ (\E a \in Asset : JobStep(a)) \/ Clock \/ UNCHANGED vars
      BY <2>3, ShutLoop
    <2> QED  BY <2>1, <2>2, <2>3 DEF Next
  <1>4. AttemptInv'
    <2>1. CASE SaveStep  BY <1>3, <2>1, AttemptSave
    <2>2. CASE \E g \in 1 .. New : Closer(g)  BY <1>3, <2>2, AttemptDrained
    <2>3. ASSUME NEW a \in Asset, JobStep(a) PROVE AttemptInv'
      BY <1>3, <2>3, AttemptJob, AttemptGone DEF JobStep
    <2>4. CASE LoopStep \/ Clock \/ UNCHANGED vars
      BY <1>3, <2>4, AttemptLoop, AttemptIterate
    <2> QED  BY <2>1, <2>2, <2>3, <2>4 DEF Next
  <1> QED  BY <1>1, <1>2, <1>3, <1>4 DEF ClientInv

LEMMA ClientSafe == ASSUME ClientInv PROVE ClientOutlivesItsCalls
  <1>1. current \in 1 .. New /\ ticking \in 1 .. New
    BY DEF ClientInv, GraphTypes
  <1>2. ASSUME NEW h \in 1 .. New, \A g \in 1 .. Old : Over(g) => g < h
        PROVE  graph[h].client \notin shut
    <2>1. \A c \in shut : c < graph[h].client  BY <1>2, ShutIsOlder DEF ClientInv
    <2>2. graph[h].client \in Nat  BY NewIsNat DEF ClientInv
    <2> QED  BY <2>1, <2>2
  <1>3. graph[current].client \notin shut
    <2>1. \A g \in 1 .. Old : Over(g) => g < current  BY OverIsBehind DEF ClientInv
    <2> QED  BY <1>1, <1>2, <2>1
  <1>4. ASSUME pooled # {}, ClientShut, graph[ticking + 1].client # graph[ticking].client
        PROVE  closing[ticking] /\ pool[ticking] = "open"
    <2>1. Goes(ticking) /\ graph[ticking].client \in shut  BY <1>4 DEF Goes, ClientShut
    <2>2. ticking \in 1 .. Old
      <3>1. New \in Nat /\ Old = New - 1  BY NewIsNat DEF ClientInv
      <3>2. \A g \in 1 .. Old : g < New  BY <3>1
      <3>3. New \in 1 .. New  BY <1>1, <3>1
      <3>4. graph[New].client \notin shut  BY <1>2, <3>2, <3>3
      <3>5. ticking # New  BY <2>1, <3>4
      <3> QED  BY <1>1, <3>1, <3>5, BeforeLast
    <2>3. PICK g \in 1 .. Old : Over(g) /\ Goes(g) /\ graph[g].client = graph[ticking].client
      BY <2>1 DEF ClientInv, ShutInv, ShutOver
    <2>4. g = ticking  BY <2>1, <2>2, <2>3, GoesOnce DEF ClientInv
    <2>5. closing[ticking]  BY <2>2, <2>3, <2>4 DEF ClientInv, ShutInv, OverCloses
    <2>6. pool[ticking] # "shut"
      BY <1>4, <2>1, <2>2, <2>3, <2>4 DEF ClientInv, ShutInv, ShutIsIdle, Broken
    <2>7. at \in {"submit", "await", "drain"}
      BY <1>4 DEF ClientInv, SwapInv, ClaimTypes, Phases
    <2>8. pool[ticking] # "none"  BY <2>7 DEF ClientInv, ShutInv, PoolMade
    <2>9. pool[ticking] \in PoolState  BY <1>1 DEF ClientInv, ClientTypes
    <2> QED  BY <2>5, <2>6, <2>8, <2>9 DEF PoolState
  <1>5. \A a \in Asset : table[a].attempts <= Cardinality(shut)
    BY DEF ClientInv, AttemptInv
  <1> QED  BY <1>3, <1>4, <1>5 DEF ClientOutlivesItsCalls

\* However many saves replace the Immich client, and wherever they catch the tick: the
\* installed client is open; the pool works with a closed one only where _executor made a
\* pool after close() had looked for one, or the client was shared with a later graph; and
\* an asset loses no more attempts than there were clients closed.
THEOREM ClientsOutliveTheirCalls == Spec => []ClientOutlivesItsCalls
  <1>1. Init => ClientInv
    BY ClientInit, SwapAssumption
  <1>2. ClientInv /\ [Next]_vars => ClientInv'
    BY ClientNext, SwapAssumption
  <1>3. ClientInv => ClientOutlivesItsCalls
    BY ClientSafe
  <1> QED  BY <1>1, <1>2, <1>3, PTL DEF Spec
=============================================================================
