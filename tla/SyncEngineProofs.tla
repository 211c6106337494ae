-------------------------- MODULE SyncEngineProofs --------------------------
(***************************************************************************)
(* Theorems about SyncEngine, for any number of assets, threads and        *)
(* disruptions, and any delays and limits.                                 *)
(***************************************************************************)
EXTENDS SyncEngine, AssetTableProofs

-----------------------------------------------------------------------------
(* Types. *)

\* TypeOK is not inductive alone: a step of a running job writes the row of its
\* item, so the item must be there.
JobsHaveItems == \A t \in Thread : pc[t] \in Working => item[t] \in Item
TypeInv == TypeOK /\ JobsHaveItems

LEMMA InitTypes == Init => TypeInv
  <1> SUFFICES ASSUME Init PROVE TypeInv  OBVIOUS
  <1> USE EngineAssumption DEF Init
  <1>1. table \in [Asset -> Row]  BY NoRowIsRow
  <1>2. landed \in [Checksum -> 0 .. 2]  OBVIOUS
  <1>3. pc \in [Thread -> Working \cup Over \cup {"idle"}]  OBVIOUS
  <1>4. item \in [Thread -> Item \cup {NoItem}]  OBVIOUS
  <1>5. TypeOK  BY <1>1, <1>2, <1>3, <1>4 DEF TypeOK, Null
  <1>6. JobsHaveItems  BY DEF JobsHaveItems, Working
  <1> QED  BY <1>5, <1>6 DEF TypeInv

\* What a job's last step leaves well typed, whatever row and result it ends with.
LEMMA FinishTypes ==
  ASSUME TypeInv, NEW t \in Thread, pc[t] \in Working,
         NEW r \in Row, NEW result \in Over, Finish(t, r, result)
  PROVE  /\ table' \in [Asset -> Row]
         /\ pc' \in [Thread -> Working \cup Over \cup {"idle"}]
         /\ item' \in [Thread -> Item \cup {NoItem}]
         /\ JobsHaveItems'
  <1>1. Id(t) \in Asset  BY DEF TypeInv, JobsHaveItems, Item, Id
  <1>2. table' \in [Asset -> Row]  BY <1>1 DEF TypeInv, TypeOK, Finish
  <1>3. pc' \in [Thread -> Working \cup Over \cup {"idle"}]
    BY DEF TypeInv, TypeOK, Finish, Goto
  <1>4. item' \in [Thread -> Item \cup {NoItem}]  BY DEF TypeInv, TypeOK, Finish
  <1>5. pc'[t] \notin Working  BY DEF TypeInv, TypeOK, Finish, Goto, Working, Over
  <1>6. \A u \in Thread \ {t} : pc'[u] = pc[u] /\ item'[u] = item[u]
    BY DEF TypeInv, TypeOK, Finish, Goto
  <1>7. JobsHaveItems'  BY <1>5, <1>6 DEF TypeInv, JobsHaveItems
  <1> QED  BY <1>2, <1>3, <1>4, <1>7

\* What a step that only moves a job on leaves well typed.
LEMMA GotoTypes ==
  ASSUME TypeInv, NEW t \in Thread, pc[t] \in Working,
         NEW label \in Working, Goto(t, label), UNCHANGED item
  PROVE  /\ pc' \in [Thread -> Working \cup Over \cup {"idle"}]
         /\ JobsHaveItems'
  BY DEF TypeInv, TypeOK, JobsHaveItems, Goto

\* Typing of what a job step reads.
LEMMA JobReads ==
  ASSUME TypeInv, NEW t \in Thread, pc[t] \in Working
  PROVE  /\ Id(t) \in Asset
         /\ RowOf(t) \in Row
         /\ Content(t) \in Checksum
  BY EngineAssumption DEF TypeInv, TypeOK, JobsHaveItems, Item, Id, RowOf, Content

LEMMA StrikeTypes ==
  ASSUME TypeInv, NEW kind, Strike(kind)
  PROVE  left' \in Nat
  BY DEF TypeInv, TypeOK, Strike

LEMMA CollectWaveTypes ==
  ASSUME TypeInv, CollectWave, UNCHANGED item
  PROVE  /\ pc' \in [Thread -> Working \cup Over \cup {"idle"}]
         /\ wave' \in SUBSET Thread
         /\ JobsHaveItems'
  <1>1. \A t \in Thread : pc'[t] \in {pc[t], "idle"}  BY DEF TypeInv, TypeOK, CollectWave
  <1> QED  BY <1>1 DEF TypeInv, TypeOK, CollectWave, JobsHaveItems, Working

\* A step of the loop thread keeps the types.
LEMMA LoopStepTypes ==
  ASSUME TypeInv, LoopStep
  PROVE  TypeInv'
  <1>0. poolSize' \in WorkerThreads  BY DEF LoopStep, TypeInv, TypeOK
  <1> USE EngineAssumption, <1>0
  <1>1. CASE Iterate
    <2>1. sweepIn' \in Nat /\ sweepDue' \in BOOLEAN  BY <1>1 DEF Iterate, TypeInv, TypeOK
    <2>2. \/ UNCHANGED paused \/ paused' = FALSE
      BY <1>1 DEF Iterate, pauseVars
    <2>3. \/ UNCHANGED pausedFor \/ pausedFor' = Null \/ pausedFor' = 0
      BY <1>1 DEF Iterate, pauseVars
    <2>4. loop' \in {"claim", "upkeep"}  BY <1>1 DEF Iterate
    <2>5. UNCHANGED <<table, remote, jobVars, prepaid, tickVars, left>>
      BY <1>1 DEF Iterate
    <2>6. paused' \in BOOLEAN  BY <2>2, Zenon DEF TypeInv, TypeOK
    <2>7. pausedFor' \in Nat \cup {Null}  BY <2>3 DEF TypeInv, TypeOK
    <2> QED
      BY <2>1, <2>4, <2>5, <2>6, <2>7
      DEF TypeInv, TypeOK, JobsHaveItems, remote, jobVars, tickVars
  <1>2. CASE ClaimNext
    <2> PICK S \in Claims, open \in BOOLEAN :
          /\ IF open THEN UNCHANGED left ELSE Strike("window")
          /\ table' = [a \in Asset |-> IF a \in S THEN Claim(table[a]) ELSE table[a]]
          /\ batch' = {[asset |-> a, attempts |-> table[a].attempts,
                        barred |-> table[a].barred, open |-> open] : a \in S}
          /\ loop' = IF S = {} THEN "upkeep" ELSE "resolve"
      BY <1>2 DEF ClaimNext
    <2>1. S \subseteq Asset  BY DEF Claims
    <2>2. table' \in [Asset -> Row]  BY MarksAreRows DEF TypeInv, TypeOK, Reason
    <2>3. \A a \in S : [asset |-> a, attempts |-> table[a].attempts,
                        barred |-> table[a].barred, open |-> open] \in Item
      BY <2>1 DEF TypeInv, TypeOK, Row, Item
    <2>4. batch' \in SUBSET Item  BY <2>3
    <2>5. left' \in Nat  BY StrikeTypes DEF TypeInv, TypeOK
    <2> QED
      BY <1>2, <2>2, <2>4, <2>5
      DEF ClaimNext, TypeInv, TypeOK, JobsHaveItems, remote, jobVars, pauseVars, sweepVars
  <1>3. CASE AllowlistFails
    BY <1>3, StrikeTypes
    DEF AllowlistFails, TypeInv, TypeOK, JobsHaveItems, remote, jobVars, tickVars, pauseVars,
        sweepVars
  <1>4. CASE StartWave
    <2> PICK T \in SUBSET IdleThreads : \E give \in [T -> batch] :
          /\ wave' = T
          /\ batch' = batch \ {give[t] : t \in T}
          /\ pc' = [t \in Thread |-> IF t \in T THEN "check" ELSE pc[t]]
          /\ item' = [t \in Thread |-> IF t \in T THEN give[t] ELSE item[t]]
      BY <1>4 DEF StartWave
    <2> PICK give \in [T -> batch] :
          /\ wave' = T
          /\ batch' = batch \ {give[t] : t \in T}
          /\ pc' = [t \in Thread |-> IF t \in T THEN "check" ELSE pc[t]]
          /\ item' = [t \in Thread |-> IF t \in T THEN give[t] ELSE item[t]]
      OBVIOUS
    <2>1. T \subseteq Thread  BY DEF IdleThreads
    <2>2. \A t \in T : give[t] \in Item  BY DEF TypeInv, TypeOK
    <2>3. pc' \in [Thread -> Working \cup Over \cup {"idle"}]
      BY DEF TypeInv, TypeOK, Working
    <2>4. item' \in [Thread -> Item \cup {NoItem}]  BY <2>2 DEF TypeInv, TypeOK
    <2>5. JobsHaveItems'  BY <2>2 DEF TypeInv, JobsHaveItems
    <2> QED
      BY <1>4, <2>1, <2>3, <2>4, <2>5
      DEF StartWave, TypeInv, TypeOK, remote, pauseVars, sweepVars
  <1>5. CASE WaveEnds
    BY <1>5, CollectWaveTypes
    DEF WaveEnds, TypeInv, TypeOK, remote, pauseVars, sweepVars
  <1>6. CASE WaveHalts
    BY <1>6, CollectWaveTypes
    DEF WaveHalts, TypeInv, TypeOK, remote, pauseVars, sweepVars
  <1>7. CASE WaveRaises
    BY <1>7, CollectWaveTypes
    DEF WaveRaises, TypeInv, TypeOK, remote, pauseVars, sweepVars
  <1>8. CASE Upkeep
    <2>1. table' \in [Asset -> Row]
      BY <1>8, SweepIsRow DEF Upkeep, TypeInv, TypeOK
    <2> QED
      BY <1>8, <2>1
      DEF Upkeep, TypeInv, TypeOK, JobsHaveItems, remote, jobVars, tickVars, pauseVars
  <1>9. CASE ClaimFails
    BY <1>9, StrikeTypes
    DEF ClaimFails, TypeInv, TypeOK, JobsHaveItems, remote, jobVars, tickVars, pauseVars,
        sweepVars
  <1>10. ASSUME NEW i \in batch, HandBack(i) PROVE TypeInv'
    <2>1. i.asset \in Asset  BY DEF TypeInv, TypeOK, Item
    <2>2. Requeue(table[i.asset], 0) \in Row
      BY <2>1, MarksAreRows DEF TypeInv, TypeOK, Reason
    <2>3. table' \in [Asset -> Row]  BY <1>10, <2>1, <2>2 DEF HandBack, TypeInv, TypeOK
    <2> QED
      BY <1>10, <2>3
      DEF HandBack, TypeInv, TypeOK, JobsHaveItems, remote, jobVars, pauseVars, sweepVars
  <1>11. CASE HandBackFails
    BY <1>11, StrikeTypes
    DEF HandBackFails, TypeInv, TypeOK, JobsHaveItems, remote, jobVars, pauseVars, sweepVars
  <1>12. CASE HandedBack
    <2>1. paused' \in BOOLEAN  BY <1>12, Zenon DEF HandedBack
    <2>2. loop' = "upkeep" /\ UNCHANGED <<table, remote, jobVars, tickVars, prepaid, pausedFor,
                                         sweepVars, left>>
      BY <1>12 DEF HandedBack
    <2> QED
      BY <2>1, <2>2 DEF TypeInv, TypeOK, JobsHaveItems, remote, jobVars, tickVars, sweepVars
  <1>13. CASE UpkeepFails
    BY <1>13, StrikeTypes
    DEF UpkeepFails, TypeInv, TypeOK, JobsHaveItems, remote, jobVars, tickVars, pauseVars
  <1> QED
    BY <1>1, <1>2, <1>3, <1>4, <1>5, <1>6, <1>7, <1>8, <1>9, <1>10, <1>11, <1>12, <1>13
    DEF LoopStep

\* A job step that ends its job keeps the types, provided that what else it changes does.
LEMMA EndingTypes ==
  ASSUME TypeInv, NEW t \in Thread, pc[t] \in Working,
         NEW r \in Row, NEW result \in Over, Finish(t, r, result),
         UNCHANGED <<remote, tickVars, loop, pauseVars, sweepVars>>,
         prepaid' \in SUBSET Asset, left' \in Nat, poolSize' \in WorkerThreads
  PROVE  TypeInv'
  BY FinishTypes DEF TypeInv, TypeOK, remote, tickVars, pauseVars, sweepVars

\* So does one that moves its job on.
LEMMA MovingTypes ==
  ASSUME TypeInv, NEW t \in Thread, pc[t] \in Working,
         NEW label \in Working, Goto(t, label),
         UNCHANGED <<table, item, tickVars, loop, pauseVars, sweepVars>>,
         google' \in SUBSET Checksum, landed' \in [Checksum -> 0 .. 2],
         prepaid' \in SUBSET Asset, left' \in Nat, poolSize' \in WorkerThreads
  PROVE  TypeInv'
  BY GotoTypes DEF TypeInv, TypeOK, tickVars, pauseVars, sweepVars

LEMMA LandTypes ==
  ASSUME TypeInv, NEW c \in Checksum, Land(c)
  PROVE  google' \in SUBSET Checksum /\ landed' \in [Checksum -> 0 .. 2]
  BY DEF TypeInv, TypeOK, Land

\* Only a running job steps.
LEMMA JobRuns ==
  ASSUME NEW t \in Thread, JobStep(t)
  PROVE  pc[t] \in Working /\ t \in Running
  BY DEF JobStep, ExcludeBarred, ExcludeByAlbum, ResolveLocally, PassLocalChecks,
         ChecksRaise, GoogleHasIt, GoogleLacksIt, DeferToWindow, PassThrottle, DeferToCap,
         UploadLands, UploadAnswerLost, MarkSyncedRow, CallFails, AccountRefuses,
         WriteFails, HandleHalt, HandleFailure, HandlerRaises, Working, Running

\* A step of a worker keeps the types.
LEMMA JobStepTypes ==
  ASSUME TypeInv, NEW t \in Thread, JobStep(t)
  PROVE  TypeInv'
  <1> USE EngineAssumption
  <1>0. pc[t] \in Working  BY JobRuns
  <1>1. /\ Id(t) \in Asset /\ RowOf(t) \in Row /\ Content(t) \in Checksum
        /\ prepaid \in SUBSET Asset /\ left \in Nat
        /\ google \in SUBSET Checksum /\ landed \in [Checksum -> 0 .. 2]
        /\ poolSize' \in WorkerThreads
    BY <1>0, JobReads DEF JobStep, TypeInv, TypeOK
  <1>2. DropPrepaid(t) => prepaid' \in SUBSET Asset  BY <1>1 DEF DropPrepaid
  <1>3. /\ "ok" \in Over /\ "halted" \in Over /\ "raised" \in Over
        /\ {"remote", "bytes", "upload", "mark", "failing", "halting"} \subseteq Working
    BY DEF Over, Working
  <1>4. /\ MarkIneligible(RowOf(t), "hard") \in Row
        /\ MarkIneligible(RowOf(t), "album_excluded") \in Row
        /\ MarkSynced(RowOf(t)) \in Row
        /\ MarkFailed(RowOf(t)) \in Row
        /\ \A d \in Nat : /\ Requeue(RowOf(t), d) \in Row
                          /\ DeferForBandwidth(RowOf(t), d) \in Row
                          /\ MarkRetry(RowOf(t), d) \in Row
    <2>1. "hard" \in Reason /\ "album_excluded" \in Reason  BY DEF Reason
    <2> QED  BY <1>1, <2>1, MarksAreRows
  <1>a. CASE ExcludeBarred(t)
    BY <1>a, <1>0, <1>1, <1>2, <1>3, <1>4, EndingTypes DEF ExcludeBarred
  <1>b. CASE ExcludeByAlbum(t)
    BY <1>b, <1>0, <1>1, <1>2, <1>3, <1>4, EndingTypes DEF ExcludeByAlbum
  <1>c. CASE ResolveLocally(t)
    BY <1>c, <1>0, <1>1, <1>2, <1>3, <1>4, EndingTypes DEF ResolveLocally
  <1>d. CASE PassLocalChecks(t)
    BY <1>d, <1>0, <1>1, <1>3, MovingTypes DEF PassLocalChecks, remote
  <1>e. CASE ChecksRaise(t)
    BY <1>e, <1>0, <1>1, <1>2, <1>3, StrikeTypes, EndingTypes DEF ChecksRaise
  <1>f. CASE GoogleHasIt(t)
    BY <1>f, <1>0, <1>1, <1>3, MovingTypes DEF GoogleHasIt, remote
  <1>g. CASE GoogleLacksIt(t)
    BY <1>g, <1>0, <1>1, <1>3, MovingTypes DEF GoogleLacksIt, remote
  <1>h. CASE DeferToWindow(t)
    BY <1>h, <1>0, <1>1, <1>3, <1>4, EndingTypes DEF DeferToWindow
  <1>i. CASE PassThrottle(t)
    BY <1>i, <1>0, <1>1, <1>2, <1>3, MovingTypes DEF PassThrottle, remote
  <1>j. CASE DeferToCap(t)
    <2>1. PICK d \in CapDelays : Finish(t, DeferForBandwidth(RowOf(t), d), "ok")
      BY <1>j DEF DeferToCap
    <2>2. DeferForBandwidth(RowOf(t), d) \in Row  BY <1>4
    <2>3. prepaid' \in SUBSET Asset  BY <1>j, <1>1 DEF DeferToCap
    <2> QED  BY <1>j, <1>0, <1>1, <1>3, <2>1, <2>2, <2>3, EndingTypes DEF DeferToCap
  <1>k. CASE UploadLands(t)
    BY <1>k, <1>0, <1>1, <1>3, LandTypes, MovingTypes DEF UploadLands
  <1>l. CASE UploadAnswerLost(t)
    BY <1>l, <1>0, <1>1, <1>3, LandTypes, StrikeTypes, MovingTypes DEF UploadAnswerLost
  <1>m. CASE MarkSyncedRow(t)
    BY <1>m, <1>0, <1>1, <1>2, <1>3, <1>4, EndingTypes DEF MarkSyncedRow
  <1>n. CASE CallFails(t)
    BY <1>n, <1>0, <1>1, <1>3, StrikeTypes, MovingTypes DEF CallFails, remote
  <1>o. CASE AccountRefuses(t)
    BY <1>o, <1>0, <1>1, <1>3, StrikeTypes, MovingTypes DEF AccountRefuses, remote
  <1>p. CASE WriteFails(t)
    BY <1>p, <1>0, <1>1, <1>3, StrikeTypes, MovingTypes DEF WriteFails, remote
  <1>q. CASE HandleHalt(t)
    BY <1>q, <1>0, <1>1, <1>2, <1>3, <1>4, EndingTypes DEF HandleHalt
  <1>r. CASE HandleFailure(t)
    <2>1. PICK r \in Row : Finish(t, r, "ok")
      BY <1>r, <1>4 DEF HandleFailure
    <2> QED  BY <1>r, <1>0, <1>1, <1>2, <1>3, <2>1, EndingTypes DEF HandleFailure
  <1>s. CASE HandlerRaises(t)
    BY <1>s, <1>0, <1>1, <1>2, <1>3, StrikeTypes, EndingTypes DEF HandlerRaises
  <1> QED
    BY <1>a, <1>b, <1>c, <1>d, <1>e, <1>f, <1>g, <1>h, <1>i, <1>j, <1>k, <1>l, <1>m, <1>n,
       <1>o, <1>p, <1>q, <1>r, <1>s
    DEF JobStep

\* A change of some rows and nothing else keeps the types, if they stay rows.
LEMMA TableOnlyTypes ==
  ASSUME TypeInv, NEW a \in Asset, NEW r \in Row,
         table' = [table EXCEPT ![a] = r],
         UNCHANGED <<remote, jobVars, prepaid, tickVars, poolSize, loop, pauseVars, sweepVars, left>>
  PROVE  TypeInv'
  BY DEF TypeInv, TypeOK, JobsHaveItems, remote, jobVars, tickVars, pauseVars, sweepVars

LEMMA NextTypes == TypeInv /\ [Next]_vars => TypeInv'
  <1> SUFFICES ASSUME TypeInv, [Next]_vars PROVE TypeInv'  OBVIOUS
  <1> USE EngineAssumption
  <1>1. CASE LoopStep  BY <1>1, LoopStepTypes
  <1>2. ASSUME NEW t \in Thread, JobStep(t) PROVE TypeInv'  BY <1>2, JobStepTypes
  <1>3. ASSUME NEW a \in Asset, Enqueue(a) PROVE TypeInv'
    <2>1. PICK r \in Reports : table' = [table EXCEPT ![a] = UpsertPending(@, r.priority, r.barred)]
      BY <1>3 DEF Enqueue
    <2>2. UpsertPending(table[a], r.priority, r.barred) \in Row
      BY UpsertIsRow DEF TypeInv, TypeOK
    <2> QED  BY <1>3, <2>1, <2>2, TableOnlyTypes DEF Enqueue
  <1>4. ASSUME NEW a \in Asset, ReceiveWebhook(a) PROVE TypeInv'
    <2>1. PICK r \in Reports : table' = [table EXCEPT ![a] = UpsertPending(@, Webhook, r.barred)]
      BY <1>4 DEF ReceiveWebhook
    <2>2. UpsertPending(table[a], Webhook, r.barred) \in Row
      BY UpsertIsRow DEF TypeInv, TypeOK, Priority
    <2> QED  BY <1>4, <2>1, <2>2, TableOnlyTypes DEF ReceiveWebhook
  <1>5. ASSUME NEW a \in Asset, PressRetry(a) PROVE TypeInv'
    <2>1. RetryNow(table[a]) \in Row  BY MarksAreRows DEF TypeInv, TypeOK, Reason
    <2> QED  BY <1>5, <2>1, TableOnlyTypes DEF PressRetry
  <1>6. CASE Crash
    <2>1. table' \in [Asset -> Row]  BY <1>6, SweepIsRow DEF Crash, TypeInv, TypeOK
    <2>2. JobsHaveItems'  BY <1>6 DEF Crash, JobsHaveItems, Working
    <2> QED  BY <1>6, <2>1, <2>2, StrikeTypes DEF Crash, TypeInv, TypeOK, remote, Null
  <1>7. CASE Clock
    <2>1. table' \in [Asset -> Row]  BY <1>7, ElapseIsRow DEF Clock, TypeInv, TypeOK
    <2>2. pausedFor' \in Nat \cup {Null}  BY <1>7 DEF Clock, TypeInv, TypeOK
    <2>3. sweepIn' \in Nat  BY <1>7 DEF Clock, TypeInv, TypeOK
    <2> QED
      BY <1>7, <2>1, <2>2, <2>3
      DEF Clock, TypeInv, TypeOK, JobsHaveItems, remote, jobVars, tickVars
  <1>8. CASE UNCHANGED vars
    BY <1>8
    DEF vars, TypeInv, TypeOK, JobsHaveItems, remote, jobVars, tickVars, pauseVars, sweepVars
  <1> QED  BY <1>1, <1>2, <1>3, <1>4, <1>5, <1>6, <1>7, <1>8 DEF Next

\* Every variable keeps its type, and a running job always has its item.
THEOREM TypeCorrect == Spec => []TypeInv
  BY InitTypes, NextTypes, PTL DEF Spec

\* The type invariant that TLC checks.
COROLLARY TypesHold == Spec => []TypeOK
  BY TypeCorrect, PTL DEF TypeInv

-----------------------------------------------------------------------------
(* A media key is only ever given to content that Google has. *)

\* BackedUp is not inductive alone: the thread about to run mark_synced must have
\* seen Google say that it has the content.
MarksAreTrue == \A t \in Thread : pc[t] = "mark" => Content(t) \in google
BackedInv == BackedUp /\ MarksAreTrue

\* What a step must show: Google loses nothing, a row that gets its key names content
\* Google has, and so does a job that gets as far as marking its row.
LEMMA BackedStep ==
  ASSUME TypeInv, BackedInv, google \subseteq google',
         \A a \in Asset : table'[a].hasKey => table[a].hasKey \/ ChecksumOf[a] \in google,
         \A t \in Thread : pc'[t] = "mark" =>
            \/ pc[t] = "mark" /\ item'[t] = item[t]
            \/ ChecksumOf[item'[t].asset] \in google'
  PROVE  BackedInv'
  BY DEF BackedInv, BackedUp, MarksAreTrue, Content, Id

\* The two ways a step can leave the threads alone, or end the job of one.
LEMMA BackedFinish ==
  ASSUME TypeInv, BackedInv, NEW t \in Thread, pc[t] \in Working,
         NEW r \in Row, NEW result \in Over, Finish(t, r, result), UNCHANGED google,
         r.hasKey => RowOf(t).hasKey \/ Content(t) \in google
  PROVE  BackedInv'
  <1>1. Id(t) \in Asset  BY JobReads
  <1>2. \A a \in Asset : table'[a] = IF a = Id(t) THEN r ELSE table[a]
    BY <1>1 DEF Finish, TypeInv, TypeOK
  <1>3. \A a \in Asset : table'[a].hasKey => table[a].hasKey \/ ChecksumOf[a] \in google
    BY <1>2 DEF RowOf, Content
  <1>4. \A u \in Thread : pc'[u] = "mark" => pc[u] = "mark" /\ item'[u] = item[u]
    BY DEF Finish, Goto, Over, TypeInv, TypeOK
  <1> QED  BY <1>3, <1>4, BackedStep

LEMMA BackedGoto ==
  ASSUME TypeInv, BackedInv, NEW t \in Thread, NEW label, Goto(t, label),
         UNCHANGED <<table, item>>, google \subseteq google',
         label = "mark" => Content(t) \in google'
  PROVE  BackedInv'
  <1>1. \A u \in Thread : pc'[u] = IF u = t THEN label ELSE pc[u]
    BY DEF Goto, TypeInv, TypeOK
  <1> QED  BY <1>1, BackedStep DEF Content, Id

\* A step of a worker gives a key only to what Google has.
LEMMA BackedJobStep ==
  ASSUME TypeInv, BackedInv, NEW t \in Thread, JobStep(t)
  PROVE  BackedInv'
  <1> USE EngineAssumption
  <1>1. CASE \/ ExcludeBarred(t) \/ ExcludeByAlbum(t) \/ ChecksRaise(t) \/ DeferToWindow(t)
             \/ DeferToCap(t) \/ HandleHalt(t) \/ HandleFailure(t) \/ HandlerRaises(t)
    <2>0. pc[t] \in Working /\ google' = google
      BY <1>1 DEF ExcludeBarred, ExcludeByAlbum, ChecksRaise, DeferToWindow, DeferToCap,
                 HandleHalt, HandleFailure, HandlerRaises, Working, remote
    <2>1. RowOf(t) \in Row  BY <2>0, JobReads
    <2>2. /\ MarkIneligible(RowOf(t), "hard") \in Row
          /\ MarkIneligible(RowOf(t), "hard").hasKey = RowOf(t).hasKey
          /\ MarkIneligible(RowOf(t), "album_excluded") \in Row
          /\ MarkIneligible(RowOf(t), "album_excluded").hasKey = RowOf(t).hasKey
      <3>1. "hard" \in Reason /\ "album_excluded" \in Reason /\ Backfill \in Priority
        BY DEF Reason, Priority
      <3> QED  BY <2>1, <3>1, MarksAreRows, KeysKept
    <2>3. \A d \in Nat : /\ Requeue(RowOf(t), d) \in Row
                        /\ Requeue(RowOf(t), d).hasKey = RowOf(t).hasKey
                        /\ DeferForBandwidth(RowOf(t), d) \in Row
                        /\ DeferForBandwidth(RowOf(t), d).hasKey = RowOf(t).hasKey
                        /\ MarkRetry(RowOf(t), d) \in Row
                        /\ MarkRetry(RowOf(t), d).hasKey = RowOf(t).hasKey
                        /\ MarkFailed(RowOf(t)) \in Row
                        /\ MarkFailed(RowOf(t)).hasKey = RowOf(t).hasKey
      <3>1. "hard" \in Reason /\ Backfill \in Priority  BY DEF Reason, Priority
      <3> QED  BY <2>1, <3>1, MarksAreRows, KeysKept
    <2>4. PICK r \in Row, result \in Over : Finish(t, r, result) /\ r.hasKey = RowOf(t).hasKey
      <3>1. "ok" \in Over /\ "halted" \in Over /\ "raised" \in Over  BY DEF Over
      <3> QED
        BY <1>1, <2>1, <2>2, <2>3, <3>1
        DEF ExcludeBarred, ExcludeByAlbum, ChecksRaise, DeferToWindow, DeferToCap,
            HandleHalt, HandleFailure, HandlerRaises
    <2> QED  BY <2>0, <2>4, BackedFinish
  <1>2. CASE ResolveLocally(t)
    <2>0. pc[t] \in Working /\ google' = google /\ "ok" \in Over
      BY <1>2 DEF ResolveLocally, Working, remote, Over
    <2>1. Content(t) \in google
      BY <1>2 DEF ResolveLocally, HasLocalKey, BackedInv, BackedUp
    <2>2. MarkSynced(RowOf(t)) \in Row  BY <2>0, JobReads, MarksAreRows DEF Reason
    <2> QED  BY <1>2, <2>0, <2>1, <2>2, BackedFinish DEF ResolveLocally
  <1>3. CASE MarkSyncedRow(t)
    <2>0. pc[t] \in Working /\ google' = google /\ "ok" \in Over
      BY <1>3 DEF MarkSyncedRow, Working, remote, Over
    <2>1. Content(t) \in google
      BY <1>3 DEF MarkSyncedRow, BackedInv, MarksAreTrue
    <2>2. MarkSynced(RowOf(t)) \in Row  BY <2>0, JobReads, MarksAreRows DEF Reason
    <2> QED  BY <1>3, <2>0, <2>1, <2>2, BackedFinish DEF MarkSyncedRow
  <1>4. CASE \/ PassLocalChecks(t) \/ GoogleHasIt(t) \/ GoogleLacksIt(t) \/ PassThrottle(t)
             \/ UploadLands(t) \/ UploadAnswerLost(t) \/ CallFails(t) \/ AccountRefuses(t)
             \/ WriteFails(t)
    <2>1. /\ UNCHANGED <<table, item>> /\ google \subseteq google'
          /\ \E label : Goto(t, label) /\ (label = "mark" => Content(t) \in google')
      BY <1>4 DEF PassLocalChecks, GoogleHasIt, GoogleLacksIt, PassThrottle, UploadLands,
                 UploadAnswerLost, CallFails, AccountRefuses, WriteFails, Land, remote
    <2> QED  BY <2>1, BackedGoto
  <1> QED  BY <1>1, <1>2, <1>3, <1>4 DEF JobStep

\* So does every other step: none of them moves a job on, and none gives a key.
LEMMA BackedNext == TypeInv /\ BackedInv /\ [Next]_vars => BackedInv'
  <1> SUFFICES ASSUME TypeInv, BackedInv, [Next]_vars PROVE BackedInv'  OBVIOUS
  <1> USE EngineAssumption
  <1>1. ASSUME NEW t \in Thread, JobStep(t) PROVE BackedInv'  BY <1>1, BackedJobStep
  <1>2. CASE ~ \E t \in Thread : JobStep(t)
    <2>1. google' = google
      BY <1>2 DEF Next, LoopStep, Iterate, ClaimNext, ClaimFails, AllowlistFails, HandBack,
                 HandBackFails, HandedBack, StartWave, WaveEnds, WaveHalts, WaveRaises,
                 Upkeep, UpkeepFails, Enqueue, ReceiveWebhook, PressRetry, Crash,
                 Clock, vars, remote
    <2>2. \A t \in Thread : pc'[t] = "mark" => pc[t] = "mark" /\ item'[t] = item[t]
      BY <1>2 DEF Next, LoopStep, Iterate, ClaimNext, ClaimFails, AllowlistFails, HandBack,
                 HandBackFails, HandedBack, StartWave, WaveEnds, WaveHalts, WaveRaises,
                 Upkeep, UpkeepFails, Enqueue, ReceiveWebhook, PressRetry, Crash,
                 Clock, CollectWave, IdleThreads, vars, jobVars, TypeInv, TypeOK
    <2>3. ASSUME NEW a \in Asset PROVE table'[a].hasKey => table[a].hasKey
      <3>0. table[a] \in Row /\ 0 \in Nat /\ StaleAge \in Nat /\ "hard" \in Reason
            /\ Backfill \in Priority /\ Webhook \in Priority
        BY DEF TypeInv, TypeOK, Reason, Priority
      <3>1. /\ Claim(table[a]).hasKey = table[a].hasKey
            /\ Requeue(table[a], 0).hasKey = table[a].hasKey
            /\ RequeueStaleUploading(table[a], StaleAge).hasKey = table[a].hasKey
            /\ Elapse(table[a], StaleAge).hasKey = table[a].hasKey
            /\ RetryNow(table[a]).hasKey = table[a].hasKey
        BY <3>0, KeysKept
      <3>2. \A p \in Priority, b \in BOOLEAN :
              UpsertPending(table[a], p, b).hasKey => table[a].hasKey
        BY <3>0, KeysKept
      <3>3. CASE LoopStep
        BY <3>3, <3>1
        DEF LoopStep, Iterate, ClaimNext, ClaimFails, AllowlistFails, HandBack, HandBackFails,
            HandedBack, StartWave, WaveEnds, WaveHalts, WaveRaises, Upkeep, UpkeepFails,
            TypeInv, TypeOK
      <3>4. CASE \E b \in Asset : Enqueue(b)
        BY <3>4, <3>2 DEF Enqueue, TypeInv, TypeOK
      <3>5. CASE \E b \in Asset : ReceiveWebhook(b)
        BY <3>5, <3>2, <3>0 DEF ReceiveWebhook, TypeInv, TypeOK
      <3>6. CASE \E b \in Asset : PressRetry(b)
        BY <3>6, <3>1 DEF PressRetry, TypeInv, TypeOK
      <3>7. CASE Crash \/ Clock  BY <3>7, <3>1 DEF Crash, Clock
      <3>8. CASE UNCHANGED vars  BY <3>8 DEF vars
      <3> QED  BY <1>2, <3>3, <3>4, <3>5, <3>6, <3>7, <3>8 DEF Next
    <2> QED  BY <2>1, <2>2, <2>3, BackedStep
  <1> QED  BY <1>1, <1>2

\* A row that has a media key names content the Google library holds, however many
\* calls fail, writes are lost and processes die in between: mark_synced runs only on
\* what exists() or upload() answered for the same content.
THEOREM SyncedIsBackedUp == Spec => []BackedUp
  <1>1. Init => BackedInv
    BY DEF Init, BackedInv, BackedUp, MarksAreTrue, NoRow
  <1> QED  BY <1>1, TypeCorrect, BackedNext, PTL DEF Spec, BackedInv

-----------------------------------------------------------------------------
(* A claim is exclusive.  This needs that no database write fails: an exception  *)
(* that escapes a worker lets the tick abandon the rest of its wave, and the     *)
(* sweep of stale claims then hands their rows out again.                        *)

\* What keeps the sweep off a live upload: every thread at work is waited for by the
\* loop thread, which sweeps only when it waits for none and holds no claim.
AllAwaited ==
    \A t \in Thread : pc[t] # "idle" => loop = "wave" /\ t \in wave /\ pc[t] # "raised"
InTick == loop \in {"resolve", "dispatch", "wave", "abandon", "halt"}
BatchInTick == batch # {} => InTick
OwnInv == AllAwaited /\ BatchInTick /\ WorkOwnsItsRow

LEMMA OwnInit == Init => OwnInv
  BY DEF Init, OwnInv, AllAwaited, BatchInTick, WorkOwnsItsRow, HeldItems, Running, Working

\* Between ticks nothing is held.
LEMMA NothingHeld ==
  ASSUME TypeInv, OwnInv, ~ InTick
  PROVE  batch = {} /\ Running = {} /\ \A t \in Thread : pc[t] = "idle"
  BY DEF TypeInv, TypeOK, OwnInv, AllAwaited, BatchInTick, InTick, Running, Working

\* With nothing held there is nothing to own.
LEMMA NothingToOwn ==
  ASSUME batch' = {}, Running' = {}
  PROVE  WorkOwnsItsRow'
  BY DEF WorkOwnsItsRow, HeldItems

\* A step that starts no job and claims nothing keeps the claims it leaves, if it
\* leaves their rows alone.
LEMMA OwnStep ==
  ASSUME TypeInv, OwnInv,
         batch' \subseteq batch,
         \A t \in Running' : t \in Running /\ item'[t] = item[t],
         \A i \in HeldItems' : /\ table'[i.asset].state = table[i.asset].state
                              /\ table'[i.asset].attempts = table[i.asset].attempts
  PROVE  WorkOwnsItsRow'
  <1>1. HeldItems' \subseteq HeldItems  BY DEF HeldItems
  <1> QED  BY <1>1 DEF OwnInv, WorkOwnsItsRow, Id

\* A worker's step touches no row but its own, and lets go of that one for good.
LEMMA OwnJobStep ==
  ASSUME TypeInv, OwnInv, ~ Strike("database"), NEW t \in Thread, JobStep(t)
  PROVE  OwnInv'
  <1> USE EngineAssumption
  <1>0. /\ pc[t] \in Working /\ t \in Running
        /\ UNCHANGED <<tickVars, loop>>
    BY JobRuns
    DEF JobStep, ExcludeBarred, ExcludeByAlbum, ResolveLocally, PassLocalChecks,
        ChecksRaise, GoogleHasIt, GoogleLacksIt, DeferToWindow, PassThrottle, DeferToCap,
        UploadLands, UploadAnswerLost, MarkSyncedRow, CallFails, AccountRefuses,
        WriteFails, HandleHalt, HandleFailure, HandlerRaises
  <1>1. Id(t) \in Asset /\ t \in wave /\ loop = "wave"
    BY <1>0, JobReads DEF OwnInv, AllAwaited, Working
  <1>2. \/ \E r, result : result \in {"ok", "halted"} /\ Finish(t, r, result)
        \/ \E label \in Working : Goto(t, label) /\ UNCHANGED <<table, item>>
    BY DEF JobStep, ExcludeBarred, ExcludeByAlbum, ResolveLocally, PassLocalChecks,
           ChecksRaise, GoogleHasIt, GoogleLacksIt, DeferToWindow, PassThrottle, DeferToCap,
           UploadLands, UploadAnswerLost, MarkSyncedRow, CallFails, AccountRefuses,
           WriteFails, HandleHalt, HandleFailure, HandlerRaises, Working, Strike
  <1>3. CASE \E r, result : result \in {"ok", "halted"} /\ Finish(t, r, result)
    <2> PICK r, result : result \in {"ok", "halted"} /\ Finish(t, r, result)
      BY <1>3
    <2>1. \A u \in Thread : /\ u # t => pc'[u] = pc[u] /\ item'[u] = item[u]
                            /\ u = t => pc'[u] = result
      BY <1>1 DEF Finish, Goto, TypeInv, TypeOK
    <2>2. \A u \in Running' : u \in Running \ {t} /\ item'[u] = item[u]
      BY <2>1 DEF Running, Working
    <2>3. batch' = batch  BY <1>0 DEF tickVars
    <2>4. \A i \in HeldItems' : i.asset # Id(t)
      BY <1>0, <2>2, <2>3 DEF HeldItems, OwnInv, WorkOwnsItsRow, Id
    <2>5. \A i \in HeldItems' : table'[i.asset] = table[i.asset]
      BY <2>4, <1>1 DEF Finish, TypeInv, TypeOK
    <2>6. WorkOwnsItsRow'  BY <2>2, <2>3, <2>5, OwnStep
    <2>7. AllAwaited'  BY <2>1, <1>0, <1>1 DEF AllAwaited, OwnInv, tickVars
    <2> QED  BY <2>6, <2>7, <1>0 DEF OwnInv, BatchInTick, InTick, tickVars
  <1>4. CASE \E label \in Working : Goto(t, label) /\ UNCHANGED <<table, item>>
    <2> PICK label \in Working : Goto(t, label) /\ UNCHANGED <<table, item>>
      BY <1>4
    <2>1. \A u \in Thread : pc'[u] = IF u = t THEN label ELSE pc[u]
      BY DEF Goto, TypeInv, TypeOK
    <2>2. Running' = Running  BY <2>1, <1>0 DEF Running
    <2>3. WorkOwnsItsRow'  BY <2>2, <1>0, OwnStep DEF tickVars
    <2>4. AllAwaited'  BY <2>1, <1>0, <1>1 DEF AllAwaited, OwnInv, tickVars, Working
    <2> QED  BY <2>3, <2>4, <1>0 DEF OwnInv, BatchInTick, InTick, tickVars
  <1> QED  BY <1>2, <1>3, <1>4

\* A claim takes rows nobody holds, each once.
LEMMA OwnClaimNext ==
  ASSUME TypeInv, OwnInv, ClaimNext
  PROVE  OwnInv'
  <1>1. batch = {} /\ Running = {} /\ \A t \in Thread : pc[t] = "idle"
    BY NothingHeld DEF ClaimNext, InTick
  <1>2. PICK S \in Claims, open \in BOOLEAN :
          /\ table' = [a \in Asset |-> IF a \in S THEN Claim(table[a]) ELSE table[a]]
          /\ batch' = {[asset |-> a, attempts |-> table[a].attempts,
                        barred |-> table[a].barred, open |-> open] : a \in S}
          /\ loop' = IF S = {} THEN "upkeep" ELSE "resolve"
    BY DEF ClaimNext
  <1>3. UNCHANGED <<jobVars, wave>>  BY DEF ClaimNext
  <1>4. HeldItems' = batch' /\ Running' = {}
    BY <1>1, <1>3 DEF HeldItems, Running, jobVars
  <1>5. S \subseteq Asset  BY DEF Claims
  <1>6. \A a \in S : table'[a].state = "uploading" /\ table'[a].attempts = table[a].attempts
    BY <1>2, <1>5 DEF Claim, TypeInv, TypeOK, Row
  <1>7. WorkOwnsItsRow'
    <2>1. \A i \in batch' : \E a \in S : i.asset = a /\ i.attempts = table[a].attempts
      BY <1>2
    <2>2. \A i, j \in batch' : i.asset = j.asset => i = j  BY <1>2
    <2> QED  BY <1>4, <1>6, <2>1, <2>2 DEF WorkOwnsItsRow
  <1>8. AllAwaited'  BY <1>1, <1>3 DEF AllAwaited, jobVars
  <1>9. BatchInTick'  BY <1>2 DEF BatchInTick, InTick
  <1> QED  BY <1>7, <1>8, <1>9 DEF OwnInv

\* Dispatching a wave hands claims from the batch to threads, one each.
LEMMA OwnStartWave ==
  ASSUME TypeInv, OwnInv, StartWave
  PROVE  OwnInv'
  <1>1. Running = {} /\ \A t \in Thread : pc[t] = "idle"
    BY DEF StartWave, OwnInv, AllAwaited, Running, Working
  <1>2. PICK T \in SUBSET IdleThreads : \E give \in [T -> batch] :
          /\ \A t, u \in T : give[t] = give[u] => t = u
          /\ wave' = T
          /\ batch' = batch \ {give[t] : t \in T}
          /\ pc' = [t \in Thread |-> IF t \in T THEN "check" ELSE pc[t]]
          /\ item' = [t \in Thread |-> IF t \in T THEN give[t] ELSE item[t]]
    BY DEF StartWave
  <1>3. PICK give \in [T -> batch] :
          /\ \A t, u \in T : give[t] = give[u] => t = u
          /\ wave' = T
          /\ batch' = batch \ {give[t] : t \in T}
          /\ pc' = [t \in Thread |-> IF t \in T THEN "check" ELSE pc[t]]
          /\ item' = [t \in Thread |-> IF t \in T THEN give[t] ELSE item[t]]
    BY <1>2
  <1>4. loop' = "wave" /\ UNCHANGED table  BY DEF StartWave
  <1>5. T \subseteq Thread  BY DEF IdleThreads
  <1>6. Running' = T /\ \A t \in T : item'[t] = give[t] /\ give[t] \in batch
    BY <1>1, <1>3, <1>5 DEF Running, Working
  <1>7. HeldItems' \subseteq HeldItems  BY <1>3, <1>6 DEF HeldItems
  <1>8. \A i, j \in batch : i.asset = j.asset => i = j  BY DEF OwnInv, WorkOwnsItsRow
  <1>9. WorkOwnsItsRow'
    <2>1. \A i \in HeldItems' : /\ table'[i.asset].state = "uploading"
                               /\ table'[i.asset].attempts = i.attempts
      BY <1>4, <1>7 DEF OwnInv, WorkOwnsItsRow
    <2>2. \A t, u \in Running' : item'[t].asset = item'[u].asset => t = u
      BY <1>3, <1>6, <1>8
    <2>3. \A t \in Running', i \in batch' : item'[t].asset # i.asset
      BY <1>3, <1>6, <1>8
    <2> QED  BY <1>3, <1>8, <2>1, <2>2, <2>3 DEF WorkOwnsItsRow, Id
  <1>10. AllAwaited'  BY <1>1, <1>3, <1>4 DEF AllAwaited
  <1> QED  BY <1>4, <1>9, <1>10 DEF OwnInv, BatchInTick, InTick

\* A wave that is over leaves only what was not dispatched yet.
LEMMA OwnWaveOver ==
  ASSUME TypeInv, OwnInv, WaveOver, CollectWave, UNCHANGED item
  PROVE  /\ Running = {} /\ Running' = {}
         /\ \A t \in Thread : pc'[t] = "idle"
  <1>1. \A t \in Thread : pc[t] # "idle" => t \in wave /\ pc[t] \in Over
    BY DEF WaveOver, OwnInv, AllAwaited
  <1>2. Running = {}  BY <1>1 DEF Running, Working, Over
  <1>3. \A t \in Thread : pc'[t] = "idle"  BY <1>1 DEF CollectWave
  <1> QED  BY <1>2, <1>3 DEF Running, Working

\* A step between ticks finds nothing held and leaves nothing held.
LEMMA OwnIdleStep ==
  ASSUME TypeInv, OwnInv, ~ InTick, UNCHANGED <<jobVars, tickVars>>
  PROVE  OwnInv'
  <1>1. batch = {} /\ Running = {} /\ \A t \in Thread : pc[t] = "idle"
    BY NothingHeld
  <1>2. batch' = {} /\ Running' = {} /\ \A t \in Thread : pc'[t] = "idle"
    BY <1>1 DEF jobVars, tickVars, Running
  <1> QED  BY <1>2, NothingToOwn DEF OwnInv, AllAwaited, BatchInTick

\* Claims that are handed back, or let go of, leave the rest owned.
LEMMA OwnHandBack ==
  ASSUME TypeInv, OwnInv, loop \in {"resolve", "abandon", "halt"}, UNCHANGED <<jobVars, wave>>,
         \/ UNCHANGED <<table, batch>> /\ (batch = {} \/ InTick')
         \/ batch' = {}
         \/ \E i \in batch : /\ table' = [table EXCEPT ![i.asset] = Requeue(@, 0)]
                             /\ batch' = batch \ {i} /\ InTick'
  PROVE  OwnInv'
  <1>1. Running = {} /\ \A t \in Thread : pc[t] = "idle"
    BY DEF OwnInv, AllAwaited, Running, Working
  <1>2. Running' = {} /\ \A t \in Thread : pc'[t] = "idle"
    BY <1>1 DEF jobVars, Running
  <1>3. AllAwaited' /\ HeldItems' = batch'  BY <1>2 DEF AllAwaited, HeldItems
  <1>4. CASE batch' = {}
    BY <1>2, <1>3, <1>4, NothingToOwn DEF OwnInv, BatchInTick
  <1>5. CASE UNCHANGED <<table, batch>> /\ InTick'
    <2>1. WorkOwnsItsRow'  BY <1>2, <1>3, <1>5, OwnStep DEF HeldItems
    <2> QED  BY <1>3, <1>5, <2>1 DEF OwnInv, BatchInTick
  <1>6. ASSUME NEW i \in batch, table' = [table EXCEPT ![i.asset] = Requeue(@, 0)],
               batch' = batch \ {i}, InTick'
        PROVE  OwnInv'
    <2>1. \A j \in batch' : j.asset # i.asset  BY <1>6 DEF OwnInv, WorkOwnsItsRow
    <2>2. \A j \in batch' : table'[j.asset] = table[j.asset]
      BY <1>6, <2>1 DEF TypeInv, TypeOK, Item
    <2>3. WorkOwnsItsRow'  BY <1>2, <1>3, <1>6, <2>2, OwnStep
    <2> QED  BY <1>3, <1>6, <2>3 DEF OwnInv, BatchInTick
  <1> QED  BY <1>4, <1>5, <1>6

LEMMA OwnLoopStep ==
  ASSUME TypeInv, OwnInv, ~ Strike("database"), LoopStep
  PROVE  OwnInv'
  <1>1. CASE Iterate \/ ClaimFails \/ Upkeep \/ UpkeepFails
    BY <1>1, OwnIdleStep DEF Iterate, ClaimFails, Upkeep, UpkeepFails, InTick
  <1>2. CASE ClaimNext  BY <1>2, OwnClaimNext
  <1>3. CASE AllowlistFails \/ HandBackFails \/ HandedBack \/ \E i \in batch : HandBack(i)
    BY <1>3, OwnHandBack DEF AllowlistFails, HandBackFails, HandedBack, HandBack, tickVars, InTick
  <1>4. CASE StartWave  BY <1>4, OwnStartWave
  <1>5. CASE WaveEnds \/ WaveHalts
    <2>1. Running = {} /\ Running' = {} /\ \A t \in Thread : pc'[t] = "idle"
      BY <1>5, OwnWaveOver DEF WaveEnds, WaveHalts
    <2>2. UNCHANGED <<table, batch>> /\ (batch' # {} => InTick')
      BY <1>5 DEF WaveEnds, WaveHalts, InTick
    <2>3. WorkOwnsItsRow'  BY <2>1, <2>2, OwnStep DEF HeldItems
    <2> QED  BY <2>1, <2>2, <2>3 DEF OwnInv, AllAwaited, BatchInTick
  <1>6. CASE WaveRaises
    BY <1>6 DEF WaveRaises, EndedIn, OwnInv, AllAwaited, TypeInv, TypeOK
  <1> QED  BY <1>1, <1>2, <1>3, <1>4, <1>5, <1>6 DEF LoopStep

\* What happens around the engine changes no row in a way its worker could notice.
LEMMA OwnAround ==
  ASSUME TypeInv, OwnInv, UNCHANGED <<jobVars, tickVars, loop>>,
         \A a \in Asset : table[a].state = "uploading" =>
             /\ table'[a].state = "uploading"
             /\ table'[a].attempts = table[a].attempts
  PROVE  OwnInv'
  <1>1. Running' = Running /\ HeldItems' = HeldItems
    BY DEF Running, HeldItems, jobVars, tickVars
  <1>2. \A i \in HeldItems : i.asset \in Asset /\ table[i.asset].state = "uploading"
    BY DEF HeldItems, Running, Item, TypeInv, TypeOK, JobsHaveItems, OwnInv, WorkOwnsItsRow
  <1>3. WorkOwnsItsRow'  BY <1>1, <1>2, OwnStep DEF jobVars, tickVars
  <1> QED  BY <1>3 DEF OwnInv, AllAwaited, BatchInTick, InTick, jobVars, tickVars

LEMMA OwnNext ==
  ASSUME TypeInv, OwnInv, ~ Strike("database"), [Next]_vars
  PROVE  OwnInv'
  <1> USE EngineAssumption
  <1>0. /\ table \in [Asset -> Row] /\ StaleAge \in Nat
        /\ Webhook \in Priority /\ Backfill \in Priority
    BY DEF TypeInv, TypeOK, Priority
  <1>1. CASE LoopStep  BY <1>1, OwnLoopStep
  <1>2. ASSUME NEW t \in Thread, JobStep(t) PROVE OwnInv'  BY <1>2, OwnJobStep
  <1>3. ASSUME NEW a \in Asset, Enqueue(a) \/ ReceiveWebhook(a) PROVE OwnInv'
    <2>1. PICK p \in Priority, b \in BOOLEAN :
            table' = [table EXCEPT ![a] = UpsertPending(@, p, b)]
      BY <1>3, <1>0 DEF Enqueue, ReceiveWebhook
    <2>2. \A c \in Asset : table[c].state = "uploading" =>
             /\ table'[c].state = "uploading"
             /\ table'[c].attempts = table[c].attempts
      BY <2>1, <1>0, ClaimedStays
    <2> QED  BY <1>3, <2>2, OwnAround DEF Enqueue, ReceiveWebhook
  <1>4. ASSUME NEW a \in Asset, PressRetry(a) PROVE OwnInv'
    <2>1. \A c \in Asset : table[c].state = "uploading" => table'[c] = table[c]
      BY <1>4, <1>0 DEF PressRetry, RetryNow
    <2> QED  BY <1>4, <2>1, OwnAround DEF PressRetry
  <1>5. CASE Crash
    <2>1. batch' = {} /\ Running' = {} /\ \A t \in Thread : pc'[t] = "idle"
      BY <1>5 DEF Crash, Running, Working
    <2> QED  BY <2>1, NothingToOwn DEF OwnInv, AllAwaited, BatchInTick
  <1>6. CASE Clock
    <2>1. \A c \in Asset : table[c].state = "uploading" =>
             /\ table'[c].state = "uploading"
             /\ table'[c].attempts = table[c].attempts
      BY <1>6, <1>0, ClaimedStays DEF Clock
    <2> QED  BY <1>6, <2>1, OwnAround DEF Clock
  <1>7. CASE UNCHANGED vars
    BY <1>7, OwnAround DEF vars
  <1> QED  BY <1>1, <1>2, <1>3, <1>4, <1>5, <1>6, <1>7 DEF Next

\* As long as no database write fails, no row is ever worked on twice: the row of every
\* claimed or running asset is still uploading, with the attempts its worker read, and
\* no asset is held by two of them, through halts, outages, crashes and slow uploads.
THEOREM ClaimsAreExclusive ==
  ASSUME "database" \notin Disruptions
  PROVE  Spec => []WorkOwnsItsRow
  <1>2. TypeInv /\ OwnInv /\ [Next]_vars => OwnInv'  BY OwnNext DEF Strike
  <1> QED  BY OwnInit, <1>2, TypeCorrect, PTL DEF Spec, OwnInv

-----------------------------------------------------------------------------
(* A verdict is final. *)

\* What a step may do to the row of one asset, for SettledStays.
VerdictStays(a) ==
    Settled(table[a]) => /\ table'[a].state = table[a].state
                         /\ table'[a].reason = table[a].reason
                         /\ table'[a].priority = table[a].priority

\* The row a job works on is claimed, so it is not settled; nor is any row of the batch.
LEMMA VerdictNext ==
  ASSUME TypeInv, OwnInv, [Next]_vars, NEW a \in Asset
  PROVE  VerdictStays(a)
  <1> USE EngineAssumption
  <1>0. /\ table \in [Asset -> Row] /\ table[a] \in Row /\ StaleAge \in Nat
        /\ Webhook \in Priority /\ Backfill \in Priority
    BY DEF TypeInv, TypeOK, Priority
  <1>1. CASE table'[a] = table[a]  BY <1>1 DEF VerdictStays
  <1>2. CASE ~ Settled(table[a])  BY <1>2 DEF VerdictStays
  <1>3. CASE /\ Settled(table[a])
             /\ \E p \in Priority, b \in BOOLEAN :
                  table'[a] \in {UpsertPending(table[a], p, b),
                                RequeueStaleUploading(table[a], StaleAge),
                                Elapse(table[a], StaleAge)}
    BY <1>0, <1>3, SettledRowStays DEF VerdictStays
  <1>4. ASSUME NEW t \in Thread, JobStep(t) PROVE VerdictStays(a)
    <2>0. t \in Running  BY <1>4, JobRuns
    <2>1. table'[a] = table[a] \/ a = Id(t)
      BY <1>4, <1>0 DEF JobStep, ExcludeBarred, ExcludeByAlbum, ResolveLocally,
           PassLocalChecks, ChecksRaise, GoogleHasIt, GoogleLacksIt, DeferToWindow,
           PassThrottle, DeferToCap, UploadLands, UploadAnswerLost, MarkSyncedRow,
           CallFails, AccountRefuses, WriteFails, HandleHalt, HandleFailure, HandlerRaises,
           Finish
    <2>2. CASE a = Id(t)
      <3>1. table[a].state = "uploading"
        BY <2>0, <2>2 DEF OwnInv, WorkOwnsItsRow, HeldItems, Id
      <3> QED  BY <3>1, <1>2 DEF Settled
    <2> QED  BY <2>1, <2>2, <1>1
  <1>5. CASE LoopStep
    <2>1. CASE ClaimNext
      <3>1. table'[a] = table[a] \/ Claimable(table[a])
        BY <2>1 DEF ClaimNext, Claims
      <3> QED  BY <3>1, <1>1, <1>2 DEF Claimable, Settled
    <2>2. ASSUME NEW i \in batch, HandBack(i) PROVE VerdictStays(a)
      <3>1. table'[a] = table[a] \/ i.asset = a  BY <2>2, <1>0 DEF HandBack
      <3>2. table'[a] = table[a] \/ table[a].state = "uploading"
        BY <3>1 DEF OwnInv, WorkOwnsItsRow, HeldItems
      <3> QED  BY <3>2, <1>1, <1>2 DEF Settled
    <2>3. CASE Upkeep  BY <2>3, <1>0, <1>1, <1>2, <1>3 DEF Upkeep
    <2> QED
      BY <1>5, <2>1, <2>2, <2>3, <1>1
      DEF LoopStep, Iterate, ClaimFails, AllowlistFails, HandBackFails, HandedBack, StartWave,
          WaveEnds, WaveHalts, WaveRaises, UpkeepFails
  <1>6. CASE \E c \in Asset : Enqueue(c) \/ ReceiveWebhook(c)
    <2>1. \/ table'[a] = table[a]
          \/ \E p \in Priority, b \in BOOLEAN : table'[a] = UpsertPending(table[a], p, b)
      BY <1>6, <1>0 DEF Enqueue, ReceiveWebhook
    <2> QED  BY <2>1, <1>1, <1>2, <1>3
  <1>7. CASE \E c \in Asset : PressRetry(c)
    <2>1. table'[a] = table[a] \/ table[a].state = "failed"
      BY <1>7, <1>0 DEF PressRetry, RetryNow
    <2> QED  BY <2>1, <1>1, <1>2 DEF Settled
  <1>8. CASE Crash \/ Clock
    BY <1>8, <1>0, <1>1, <1>2, <1>3 DEF Crash, Clock
  <1>9. CASE UNCHANGED vars  BY <1>9, <1>1 DEF vars
  <1> QED  BY <1>4, <1>5, <1>6, <1>7, <1>8, <1>9 DEF Next

\* As long as no database write fails, a settled row keeps its state, its reason and its
\* priority in every step: the retry button, the upserts of the three sources, the sweep
\* and the workers all pass it by.
THEOREM SettledIsFinal ==
  ASSUME "database" \notin Disruptions
  PROVE  Spec => SettledStays
  <1>2. TypeInv /\ OwnInv /\ [Next]_vars => OwnInv'  BY OwnNext DEF Strike
  <1>3. TypeInv /\ OwnInv /\ [Next]_vars =>
           [\A a \in Asset : Settled(table[a]) =>
              /\ table'[a].state = table[a].state
              /\ table'[a].reason = table[a].reason
              /\ table'[a].priority = table[a].priority]_vars
    BY VerdictNext DEF VerdictStays
  <1> QED  BY OwnInit, <1>2, <1>3, TypeCorrect, PTL DEF Spec, SettledStays
=============================================================================
