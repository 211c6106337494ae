--------------------------- MODULE DeletionsProofs ---------------------------
(***************************************************************************)
(* Theorems about Deletions, for any assets, contents, limits and number   *)
(* of passes cut short.                                                    *)
(***************************************************************************)
EXTENDS Deletions, AssetTableProofs, FiniteSetTheorems

-----------------------------------------------------------------------------
(* Types. *)

\* deletions.py's mark_deleted keeps a row well typed, and so do the two ends of a
\* worker's run.
LEMMA ProcessedIsRow ==
  ASSUME NEW r \in Row
  PROVE  /\ MarkDeleted(r) \in Row
         /\ MarkIneligible(Claim(r), "hard") \in Row
         /\ MarkSynced(Claim(r)) \in Row
  <1>1. MarkDeleted(r) \in Row  BY DEF MarkDeleted, Row, RowState, Reason
  <1>2. Claim(r) \in Row /\ 0 \in Nat /\ "hard" \in Reason  BY MarksAreRows DEF Reason
  <1>3. MarkIneligible(Claim(r), "hard") \in Row /\ MarkSynced(Claim(r)) \in Row
    BY <1>2, MarksAreRows
  <1> QED  BY <1>1, <1>3

\* The rows after a report, as one row at a time.
LEMMA ReportedRows ==
  ASSUME TypeOK, NEW a \in Asset, NEW b \in BOOLEAN, table' = Reported(a, b)
  PROVE  /\ table' \in [Asset -> Row]
         /\ table'[a] = UpsertPending(table[a], Reconcile, b)
         /\ \A c \in Asset \ {a} : table'[c] = table[c]
  <1>1. UpsertPending(table[a], Reconcile, b) \in Row
    BY UpsertIsRow DEF TypeOK, Priority
  <1> QED  BY <1>1 DEF TypeOK, Reported

\* The same for a worker's run.
LEMMA ProcessedRows ==
  ASSUME TypeOK, NEW a \in Asset, Process(a)
  PROVE  /\ table' \in [Asset -> Row]
         /\ \A c \in Asset \ {a} : table'[c] = table[c]
         /\ \/ /\ table'[a] = MarkIneligible(Claim(table[a]), "hard")
               /\ UNCHANGED google
            \/ /\ table'[a] = MarkSynced(Claim(table[a])) /\ ~ Claim(table[a]).barred
               /\ google' = IF HasLocalKey(ChecksumOf[a]) THEN google
                            ELSE google \cup {ChecksumOf[a]}
  BY ProcessedIsRow DEF TypeOK, Process

\* And for the marking of a plan, whole or cut short.
LEMMA MarkedRows ==
  ASSUME TypeOK, NEW S \in SUBSET Asset, table' = Marked(S)
  PROVE  /\ table' \in [Asset -> Row]
         /\ \A a \in S : table'[a] = MarkDeleted(table[a])
         /\ \A a \in Asset \ S : table'[a] = table[a]
  BY ProcessedIsRow DEF TypeOK, Marked

LEMMA TypeNext == TypeOK /\ [Next]_vars => TypeOK'
  <1> SUFFICES ASSUME TypeOK, [Next]_vars PROVE TypeOK'  OBVIOUS
  <1> USE DeletionsAssumption
  <1>1. ASSUME NEW a \in Asset, Add(a) \/ PutInTrash(a) \/ Restore(a) \/ DeleteForGood(a)
        PROVE  TypeOK'
    BY <1>1 DEF Add, PutInTrash, Restore, DeleteForGood, Moves, Places, TypeOK, pass
  <1>2. ASSUME NEW a \in Asset, ReceiveWebhook(a) \/ Reconciled(a) PROVE TypeOK'
    <2>1. PICK b \in BOOLEAN : table' = Reported(a, b)
      BY <1>2 DEF ReceiveWebhook, Reconciled
    <2>2. table' \in [Asset -> Row]  BY <2>1, ReportedRows
    <2> QED  BY <1>2, <2>2 DEF ReceiveWebhook, Reconciled, TypeOK, library, pass
  <1>3. ASSUME NEW a \in Asset, Process(a) PROVE TypeOK'
    <2>1. table' \in [Asset -> Row]  BY <1>3, ProcessedRows
    <2>2. google' \subseteq Checksum  BY <1>3, ProcessedRows DEF TypeOK
    <2> QED  BY <1>3, <2>1, <2>2 DEF Process, TypeOK, library, pass
  <1>4. CASE Plan \/ Trash \/ TrashFails
    BY <1>4 DEF Plan, Trash, TrashFails, EndPass, Fail, TrashedSynced, TypeOK, library
  <1>5. CASE MarkRows \/ MarkFails
    <2>1. PICK S \in SUBSET plan : table' = Marked(S)
      BY <1>5 DEF MarkRows, MarkFails
    <2>2. table' \in [Asset -> Row]  BY <2>1, MarkedRows DEF TypeOK
    <2> QED  BY <1>5, <2>2 DEF MarkRows, MarkFails, EndPass, Fail, TypeOK, library
  <1>6. CASE UNCHANGED vars  BY <1>6 DEF vars, TypeOK, library, pass
  <1> QED  BY <1>1, <1>2, <1>3, <1>4, <1>5, <1>6 DEF Next, SweepStep

\* Every variable keeps its type.
THEOREM DeletionsTypes == Spec => []TypeOK
  <1>1. Init => TypeOK
    BY NoRowIsRow, DeletionsAssumption DEF Init, TypeOK, Places
  <1> QED  BY <1>1, TypeNext, PTL DEF Spec

-----------------------------------------------------------------------------
(* What a verdict says about Google. *)

\* A key belongs to a verdict, and a verdict to exclude is for good.
Keyed(r) ==
    /\ r.hasKey => r.state \in {"synced", "ineligible"}
    /\ r.state = "synced" => r.hasKey
    /\ r.state = "ineligible" => r.reason = "hard"

LEMMA KeyedStays ==
  ASSUME NEW r \in Row, Keyed(r), NEW p \in Priority, NEW b \in BOOLEAN
  PROVE  /\ Keyed(UpsertPending(r, p, b))
         /\ Keyed(MarkSynced(Claim(r)))
         /\ r.state = "synced" => Keyed(MarkDeleted(r))
         /\ r.state = "pending" => Keyed(MarkIneligible(Claim(r), "hard"))
  <1>1. Keyed(UpsertPending(r, p, b))
    BY DEF Keyed, UpsertPending, NoRow, SoftlyExcluded, Settled, Row
  <1>2. Keyed(MarkSynced(Claim(r)))  BY DEF Keyed, MarkSynced, Claim, Row
  <1>3. r.state = "synced" => Keyed(MarkDeleted(r))  BY DEF Keyed, MarkDeleted, Row
  <1>4. r.state = "pending" => Keyed(MarkIneligible(Claim(r), "hard"))
    BY DEF Keyed, MarkIneligible, Claim, Row
  <1> QED  BY <1>1, <1>2, <1>3, <1>4

\* A report changes neither the key nor the verdict of a row.
LEMMA ReportKeepsVerdict ==
  ASSUME NEW r \in Row, Keyed(r), NEW p \in Priority, NEW b \in BOOLEAN
  PROVE  /\ UpsertPending(r, p, b).hasKey => r.hasKey
         /\ r.hasKey => UpsertPending(r, p, b).hasKey
         /\ UpsertPending(r, p, b).state = "synced" <=> r.state = "synced"
         /\ UpsertPending(r, p, b).state = "ineligible" => r.state = "ineligible"
         /\ UpsertPending(r, p, b).barred => b
  BY DEF Keyed, UpsertPending, NoRow, SoftlyExcluded, Settled, Row

\* DeletedMeansTrashed is not inductive alone: between the plan and the marks its rows
\* must stay synced, and between Google's answer and the marks nothing may put their
\* contents back, which is what running on the loop thread is for.
RowsKeyed   == \A a \in Asset : Keyed(table[a])
PlanIsBound == sweep # "idle" => \A a \in plan : table[a].state = "synced"
PlanIsOut   == sweep = "mark" => \A a \in plan : ChecksumOf[a] \notin google
VerdictInv  == RowsKeyed /\ PlanIsBound /\ PlanIsOut /\ DeletedMeansTrashed

LEMMA VerdictNext == TypeOK /\ VerdictInv /\ [Next]_vars => VerdictInv'
  <1> SUFFICES ASSUME TypeOK, VerdictInv, [Next]_vars PROVE VerdictInv'  OBVIOUS
  <1> USE DeletionsAssumption
  <1>0. table \in [Asset -> Row] /\ plan \subseteq Asset /\ Reconcile \in Priority
    BY DEF TypeOK, Priority
  <1>1. CASE \/ UNCHANGED vars
             \/ \E a \in Asset : Add(a) \/ PutInTrash(a) \/ Restore(a) \/ DeleteForGood(a)
    <2>1. UNCHANGED <<table, google, sweep, plan>>
      BY <1>1 DEF Add, PutInTrash, Restore, DeleteForGood, vars, pass
    <2> QED
      BY <2>1 DEF VerdictInv, RowsKeyed, PlanIsBound, PlanIsOut, DeletedMeansTrashed
  <1>2. ASSUME NEW a \in Asset, ReceiveWebhook(a) \/ Reconciled(a) PROVE VerdictInv'
    <2>1. UNCHANGED <<google, sweep, plan>>  BY <1>2 DEF ReceiveWebhook, Reconciled, pass
    <2>2. PICK b \in BOOLEAN : table' = Reported(a, b)
      BY <1>2 DEF ReceiveWebhook, Reconciled
    <2>3. /\ table'[a] = UpsertPending(table[a], Reconcile, b)
          /\ \A c \in Asset \ {a} : table'[c] = table[c]
      BY <2>2, ReportedRows
    <2>4. \A c \in Asset : Keyed(table[c])  BY DEF VerdictInv, RowsKeyed
    <2>5. \A c \in Asset : /\ Keyed(table'[c])
                           /\ table'[c].hasKey => table[c].hasKey
                           /\ table[c].state = "synced" => table'[c].state = "synced"
                           /\ table'[c].state = "ineligible" => table[c].state = "ineligible"
      BY <1>0, <2>3, <2>4, KeyedStays, ReportKeepsVerdict
    <2> QED
      BY <1>0, <2>1, <2>5
      DEF VerdictInv, RowsKeyed, PlanIsBound, PlanIsOut, DeletedMeansTrashed
  <1>3. ASSUME NEW a \in Asset, Process(a) PROVE VerdictInv'
    <2>1. /\ sweep = "idle" /\ sweep' = "idle" /\ table[a].state = "pending"
          /\ Keyed(table[a]) /\ table[a] \in Row
      BY <1>0, <1>3 DEF Process, pass, VerdictInv, RowsKeyed
    <2>2. \A c \in Asset \ {a} : table'[c] = table[c]  BY <1>3, ProcessedRows
    <2>3. CASE table'[a] = MarkIneligible(Claim(table[a]), "hard") /\ UNCHANGED google
      <3>1. Keyed(table'[a])  BY <1>0, <2>1, <2>3, KeyedStays
      <3>2. ~ table'[a].hasKey
        BY <2>1, <2>3 DEF Keyed, MarkIneligible, Claim, Row
      <3> QED
        BY <2>1, <2>2, <2>3, <3>1, <3>2
        DEF VerdictInv, RowsKeyed, PlanIsBound, PlanIsOut, DeletedMeansTrashed
    <2>4. CASE /\ table'[a] = MarkSynced(Claim(table[a]))
               /\ google' = IF HasLocalKey(ChecksumOf[a]) THEN google
                            ELSE google \cup {ChecksumOf[a]}
      <3>1. Keyed(table'[a])  BY <1>0, <2>1, <2>4, KeyedStays
      <3>2. table'[a].state = "synced"  BY <2>1, <2>4 DEF MarkSynced, Claim, Row
      <3>3. \A c \in Asset \ {a} : (table[c].state = "ineligible" /\ table[c].hasKey)
                                      => ChecksumOf[c] \notin google'
        BY <2>4 DEF VerdictInv, DeletedMeansTrashed, HasLocalKey
      <3> QED
        BY <2>1, <2>2, <3>1, <3>2, <3>3
        DEF VerdictInv, RowsKeyed, PlanIsBound, PlanIsOut, DeletedMeansTrashed
    <2> QED  BY <1>3, <2>3, <2>4, ProcessedRows
  <1>4. CASE Plan \/ Trash \/ TrashFails
    <2>1. UNCHANGED table /\ google' \subseteq google
      BY <1>4 DEF Plan, Trash, TrashFails
    <2>2. PlanIsBound'
      BY <1>4, <2>1
      DEF Plan, Trash, TrashFails, EndPass, TrashedSynced, VerdictInv, PlanIsBound
    <2>3. PlanIsOut'
      BY <1>4 DEF Plan, Trash, TrashFails, EndPass, Contents, PlanIsOut
    <2> QED
      BY <2>1, <2>2, <2>3 DEF VerdictInv, RowsKeyed, DeletedMeansTrashed
  <1>5. CASE MarkRows \/ MarkFails
    <2>1. PICK S \in SUBSET plan : table' = Marked(S)
      BY <1>5 DEF MarkRows, MarkFails
    <2>2. sweep = "mark" /\ sweep' = "idle" /\ UNCHANGED google
      BY <1>5 DEF MarkRows, MarkFails, EndPass
    <2>3. /\ \A a \in S : table'[a] = MarkDeleted(table[a])
          /\ \A a \in Asset \ S : table'[a] = table[a]
      BY <1>0, <2>1, MarkedRows
    <2>4. \A a \in S : table[a].state = "synced" /\ ChecksumOf[a] \notin google
      BY <2>2 DEF VerdictInv, PlanIsBound, PlanIsOut
    <2>5. RowsKeyed'
      BY <1>0, <2>3, <2>4, KeyedStays DEF VerdictInv, RowsKeyed
    <2>6. DeletedMeansTrashed'
      BY <2>2, <2>3, <2>4 DEF VerdictInv, DeletedMeansTrashed
    <2> QED  BY <2>2, <2>5, <2>6 DEF VerdictInv, PlanIsBound, PlanIsOut
  <1> QED  BY <1>1, <1>2, <1>3, <1>4, <1>5 DEF Next, SweepStep

\* A row that says its asset was deleted tells the truth about Google, whatever was
\* trashed, restored or reported while a pass ran and however passes were cut short.
THEOREM DeletedIsTrashed == Spec => []DeletedMeansTrashed
  <1>1. Init => VerdictInv
    BY DEF Init, VerdictInv, RowsKeyed, Keyed, PlanIsBound, PlanIsOut, DeletedMeansTrashed,
           NoRow
  <1> QED  BY <1>1, VerdictNext, DeletionsTypes, PTL DEF Spec, VerdictInv

-----------------------------------------------------------------------------
(* What leaves Google. *)

\* What the table knows of Immich's trash was there once, and so is all that is planned.
TrashRecalled == /\ \A a \in Asset : immich[a] = "trashed" => a \in wasTrashed
                 /\ \A a \in Asset : table[a].barred => a \in wasTrashed
                 /\ plan \subseteq wasTrashed

\* A content is lost only by the trashing of some asset that has it.
LostContentWasTrashed ==
    \A a \in Asset : (table[a].hasKey /\ ChecksumOf[a] \notin google)
                        => \E b \in wasTrashed : ChecksumOf[b] = ChecksumOf[a]

LossInv == TrashRecalled /\ LostContentWasTrashed

LEMMA LossNext == TypeOK /\ VerdictInv /\ LossInv /\ [Next]_vars => LossInv'
  <1> SUFFICES ASSUME TypeOK, VerdictInv, LossInv, [Next]_vars PROVE LossInv'  OBVIOUS
  <1> USE DeletionsAssumption DEF LossInv
  <1>0. /\ table \in [Asset -> Row] /\ immich \in [Asset -> Places] /\ Reconcile \in Priority
        /\ \A a \in Asset : Keyed(table[a])
    BY DEF TypeOK, Priority, VerdictInv, RowsKeyed
  <1>1. CASE UNCHANGED vars
    BY <1>1 DEF vars, library, pass, TrashRecalled, LostContentWasTrashed
  <1>2. ASSUME NEW a \in Asset, Add(a) \/ PutInTrash(a) \/ Restore(a) \/ DeleteForGood(a)
        PROVE  LossInv'
    <2>1. UNCHANGED <<table, google, plan>> /\ wasTrashed \subseteq wasTrashed'
      BY <1>2 DEF Add, PutInTrash, Restore, DeleteForGood, pass
    <2>2. \A b \in Asset : immich'[b] = "trashed" => b \in wasTrashed'
      BY <1>0, <1>2, <2>1
      DEF Add, PutInTrash, Restore, DeleteForGood, Moves, TrashRecalled
    <2> QED  BY <2>1, <2>2 DEF TrashRecalled, LostContentWasTrashed
  <1>3. ASSUME NEW a \in Asset, ReceiveWebhook(a) \/ Reconciled(a) PROVE LossInv'
    <2>1. UNCHANGED <<google, immich, wasTrashed, plan>>
      BY <1>3 DEF ReceiveWebhook, Reconciled, pass, library
    <2>2. PICK b \in BOOLEAN : table' = Reported(a, b) /\ (b => immich[a] = "trashed")
      BY <1>3 DEF ReceiveWebhook, Reconciled
    <2>3. /\ table'[a] = UpsertPending(table[a], Reconcile, b)
          /\ \A c \in Asset \ {a} : table'[c] = table[c]
      BY <2>2, ReportedRows
    <2>4. /\ table'[a].barred => b
          /\ table'[a].hasKey => table[a].hasKey
      BY <1>0, <2>3, ReportKeepsVerdict
    <2> QED  BY <2>1, <2>2, <2>3, <2>4 DEF TrashRecalled, LostContentWasTrashed
  <1>4. ASSUME NEW a \in Asset, Process(a) PROVE LossInv'
    <2>1. UNCHANGED <<immich, wasTrashed, plan>> /\ table[a].state = "pending"
      BY <1>4 DEF Process, library, pass
    <2>2. \A c \in Asset \ {a} : table'[c] = table[c]  BY <1>4, ProcessedRows
    <2>3. Claim(table[a]).barred => table[a].barred  BY <1>0 DEF Claim, Row
    <2>4. CASE table'[a] = MarkIneligible(Claim(table[a]), "hard") /\ UNCHANGED google
      <3>1. (table'[a].barred => table[a].barred) /\ (table'[a].hasKey => table[a].hasKey)
        BY <1>0, <2>4 DEF MarkIneligible, Claim, Row
      <3> QED  BY <2>1, <2>2, <2>4, <3>1 DEF TrashRecalled, LostContentWasTrashed
    <2>5. CASE /\ table'[a] = MarkSynced(Claim(table[a])) /\ ~ Claim(table[a]).barred
               /\ google' = IF HasLocalKey(ChecksumOf[a]) THEN google
                            ELSE google \cup {ChecksumOf[a]}
      <3>1. table'[a].barred => Claim(table[a]).barred
        BY <1>0, <2>5 DEF MarkSynced, Claim, Row
      <3>2. ChecksumOf[a] \notin google' =>
              \E b \in wasTrashed : ChecksumOf[b] = ChecksumOf[a]
        BY <2>5 DEF HasLocalKey, LostContentWasTrashed
      <3>3. google \subseteq google'  BY <2>5
      <3> QED
        BY <2>1, <2>2, <2>3, <3>1, <3>2, <3>3 DEF TrashRecalled, LostContentWasTrashed
    <2> QED  BY <1>4, <2>4, <2>5, ProcessedRows
  <1>5. CASE Plan
    <2>1. plan' \subseteq wasTrashed
      BY <1>5 DEF Plan, TrashedSynced, TrashRecalled
    <2> QED  BY <1>5, <2>1 DEF Plan, library, TrashRecalled, LostContentWasTrashed
  <1>6. CASE Trash \/ TrashFails
    <2>1. UNCHANGED <<table, immich, wasTrashed>> /\ plan' \subseteq plan
      BY <1>6 DEF Trash, TrashFails, EndPass, library
    <2>2. \A c \in google : c \notin google' =>
            \E b \in plan : ChecksumOf[b] = c
      BY <1>6 DEF Trash, TrashFails, Contents
    <2>3. LostContentWasTrashed'
      BY <2>1, <2>2 DEF LostContentWasTrashed, TrashRecalled
    <2> QED  BY <2>1, <2>3 DEF TrashRecalled
  <1>7. CASE MarkRows \/ MarkFails
    <2>1. PICK S \in SUBSET plan : table' = Marked(S)
      BY <1>7 DEF MarkRows, MarkFails
    <2>2. UNCHANGED <<google, immich, wasTrashed>> /\ plan' = {}
      BY <1>7 DEF MarkRows, MarkFails, EndPass, library
    <2>3. /\ \A a \in S : table'[a] = MarkDeleted(table[a])
          /\ \A a \in Asset \ S : table'[a] = table[a]
      BY <1>0, <2>1, MarkedRows DEF TypeOK
    <2>4. S \subseteq Asset  BY DEF TypeOK
    <2>5. ASSUME NEW a \in Asset
          PROVE  /\ table'[a].barred => table[a].barred
                 /\ table'[a].hasKey => table[a].hasKey
      <3>1. CASE a \in S
        <4>1. table[a] \in Row /\ table'[a] = MarkDeleted(table[a])  BY <1>0, <2>3, <3>1
        <4> QED  BY <4>1 DEF MarkDeleted, Row
      <3>2. CASE a \notin S  BY <2>3, <3>2
      <3> QED  BY <3>1, <3>2
    <2> QED  BY <2>2, <2>5 DEF TrashRecalled, LostContentWasTrashed
  <1> QED  BY <1>1, <1>2, <1>3, <1>4, <1>5, <1>6, <1>7 DEF Next, SweepStep

LEMMA LossHolds == Spec => [](TypeOK /\ VerdictInv /\ LossInv)
  <1>1. Init => VerdictInv
    BY DEF Init, VerdictInv, RowsKeyed, Keyed, PlanIsBound, PlanIsOut, DeletedMeansTrashed,
           NoRow
  <1>2. Init => LossInv
    BY DEF Init, LossInv, TrashRecalled, LostContentWasTrashed, NoRow
  <1> QED  BY <1>1, <1>2, VerdictNext, LossNext, DeletionsTypes, PTL DEF Spec

\* With any number of ids for one content: what was backed up leaves Google only if an
\* asset with that content had been put in Immich's trash.
THEOREM LossNeedsTrashing == Spec => []LostContentWasTrashed
  BY LossHolds, PTL DEF LossInv

DistinctContents == \A a, b \in Asset : ChecksumOf[a] = ChecksumOf[b] => a = b

\* If no two assets ever share a content, it is that very asset that was in the trash.
THEOREM LossIsTheOwners ==
  ASSUME DistinctContents
  PROVE  Spec => []LostOnlyByTrashing
  <1>1. TypeOK /\ LossInv => LostOnlyByTrashing
    BY DEF TypeOK, LossInv, LostContentWasTrashed, LostOnlyByTrashing, DistinctContents
  <1> QED  BY <1>1, LossHolds, PTL

\* Then what is in the Immich library, was never in its trash and is synced is in Google:
\* what the deletions_readded run shows takes a content that comes back under a second id.
COROLLARY LiveStaysBackedUp ==
  ASSUME DistinctContents
  PROVE  Spec => []LiveIsBackedUp
  <1>1. VerdictInv /\ LostOnlyByTrashing => LiveIsBackedUp
    BY DEF VerdictInv, RowsKeyed, Keyed, LostOnlyByTrashing, LiveIsBackedUp
  <1> QED  BY <1>1, LossIsTheOwners, LossHolds, PTL

-----------------------------------------------------------------------------
(* How much leaves Google. *)

\* The limits were checked when the plan was made; they hold good at the call because
\* nothing that runs in between makes a synced row anything else.
PlanIsAllowed ==
    sweep = "trash" => /\ plan # {}
                       /\ DeletionAllowed(Cardinality(plan), Cardinality(Rows("synced")))

LEMMA AllowedNext == TypeOK /\ VerdictInv /\ PlanIsAllowed /\ [Next]_vars => PlanIsAllowed'
  <1> SUFFICES ASSUME TypeOK, VerdictInv, PlanIsAllowed, [Next]_vars, sweep' = "trash"
               PROVE  /\ plan' # {}
                      /\ DeletionAllowed(Cardinality(plan'), Cardinality(Rows("synced")'))
    BY DEF PlanIsAllowed, DeletionAllowed
  <1>0. /\ table \in [Asset -> Row] /\ Reconcile \in Priority
        /\ \A a \in Asset : Keyed(table[a])
    BY DEF TypeOK, Priority, VerdictInv, RowsKeyed
  <1>1. CASE Plan
    BY <1>1 DEF Plan, Rows, DeletionAllowed
  <1>2. CASE ~ Plan
    <2>1. sweep = "trash" /\ plan' = plan
      BY <1>2
      DEF Next, Add, PutInTrash, Restore, DeleteForGood, ReceiveWebhook, Reconciled, Process,
          SweepStep, Trash, TrashFails, MarkRows, MarkFails, EndPass, vars, pass
    <2>2. \/ UNCHANGED table
          \/ \E a \in Asset, b \in BOOLEAN : table' = Reported(a, b)
      BY <1>2, <2>1
      DEF Next, Add, PutInTrash, Restore, DeleteForGood, ReceiveWebhook, Reconciled, Process,
          SweepStep, Trash, TrashFails, MarkRows, MarkFails, EndPass, vars, pass
    <2>3. Rows("synced")' = Rows("synced")
      <3>1. CASE UNCHANGED table  BY <3>1 DEF Rows
      <3>2. ASSUME NEW a \in Asset, NEW b \in BOOLEAN, table' = Reported(a, b)
            PROVE  Rows("synced")' = Rows("synced")
        <4>1. \A c \in Asset : table'[c].state = "synced" <=> table[c].state = "synced"
          BY <1>0, <3>2, ReportedRows, ReportKeepsVerdict
        <4> QED  BY <4>1 DEF Rows
      <3> QED  BY <2>2, <3>1, <3>2
    <2> QED  BY <2>1, <2>3 DEF PlanIsAllowed
  <1> QED  BY <1>1, <1>2

\* No call takes out more contents than the plan has assets.
LEMMA FewerContents ==
  ASSUME NEW S \in SUBSET Asset, NEW lost \in SUBSET Contents(S)
  PROVE  /\ Cardinality(lost) \in Nat /\ Cardinality(S) \in Nat
         /\ Cardinality(lost) <= Cardinality(S)
  <1>1. IsFiniteSet(S)  BY DeletionsAssumption, FS_Subset
  <1> DEFINE f == [a \in S |-> ChecksumOf[a]]
  <1>2. f \in Surjection(S, Contents(S))
    BY DEF Surjection, Contents
  <1>3. IsFiniteSet(Contents(S)) /\ Cardinality(Contents(S)) <= Cardinality(S)
    BY <1>1, <1>2, FS_Surjection
  <1>4. IsFiniteSet(lost) /\ Cardinality(lost) <= Cardinality(Contents(S))
    BY <1>3, FS_Subset
  <1>5. /\ Cardinality(lost) \in Nat /\ Cardinality(S) \in Nat
        /\ Cardinality(Contents(S)) \in Nat
    BY <1>1, <1>3, <1>4, FS_CardinalityType
  <1> QED  BY <1>3, <1>4, <1>5

\* What a step may take out of Google.
LossWithinLimits ==
    LET lost == Cardinality(google \ google')
    IN lost <= MaxAbsolute /\ 100 * lost <= MaxPercent * Cardinality(Rows("synced"))

LEMMA ScaledBound ==
  ASSUME NEW m \in Nat, NEW n \in Nat, NEW bound \in Nat, m <= n, 100 * n <= bound
  PROVE  100 * m <= bound
  OBVIOUS

LEMMA StepWithinLimits ==
  ASSUME TypeOK, PlanIsAllowed, [Next]_vars
  PROVE  LossWithinLimits
  <1>0. /\ MaxAbsolute \in Nat /\ MaxPercent \in Nat
        /\ Cardinality(Rows("synced")) \in Nat
    <2>1. IsFiniteSet(Rows("synced"))  BY DeletionsAssumption, FS_Subset DEF Rows
    <2> QED  BY <2>1, FS_CardinalityType, DeletionsAssumption
  <1>1. MaxPercent * Cardinality(Rows("synced")) \in Nat  BY <1>0
  <1>2. CASE Trash \/ TrashFails
    <2>1. sweep = "trash" /\ google \ google' \subseteq Contents(plan)
      BY <1>2 DEF Trash, TrashFails
    <2>2. plan \subseteq Asset  BY DEF TypeOK
    <2>3. /\ Cardinality(google \ google') \in Nat /\ Cardinality(plan) \in Nat
          /\ Cardinality(google \ google') <= Cardinality(plan)
      BY <2>1, <2>2, FewerContents
    <2>4. Cardinality(plan) # 0
      <3>1. IsFiniteSet(plan)  BY <2>2, DeletionsAssumption, FS_Subset
      <3> QED  BY <2>1, <3>1, FS_EmptySet DEF PlanIsAllowed
    <2>5. /\ Cardinality(plan) <= MaxAbsolute
          /\ 100 * Cardinality(plan) <= MaxPercent * Cardinality(Rows("synced"))
      BY <2>1, <2>4 DEF PlanIsAllowed, DeletionAllowed
    <2>6. 100 * Cardinality(google \ google') <= MaxPercent * Cardinality(Rows("synced"))
      BY <1>1, <2>3, <2>5, ScaledBound
    <2>7. Cardinality(google \ google') <= MaxAbsolute  BY <1>0, <2>3, <2>5
    <2> QED  BY <2>6, <2>7 DEF LossWithinLimits
  <1>3. CASE ~ Trash /\ ~ TrashFails
    <2>1. google \ google' = {}
      BY <1>3
      DEF Next, Add, PutInTrash, Restore, DeleteForGood, ReceiveWebhook, Reconciled, Process,
          SweepStep, Plan, MarkRows, MarkFails, vars
    <2>2. Cardinality(google \ google') = 0  BY <2>1, FS_EmptySet
    <2> QED  BY <1>0, <1>1, <2>2 DEF LossWithinLimits
  <1> QED  BY <1>2, <1>3

\* No call to Google takes out more than max_absolute contents or more than max_fraction
\* of what is synced when it is made, though the plan was checked a step earlier and
\* users and webhooks go on in between.
THEOREM LossStaysBounded == Spec => LossIsBounded
  <1>1. Init => PlanIsAllowed  BY DEF Init, PlanIsAllowed
  <1>2. TypeOK /\ VerdictInv /\ PlanIsAllowed /\ [Next]_vars => PlanIsAllowed'
    BY AllowedNext
  <1>3. TypeOK /\ PlanIsAllowed /\ [Next]_vars => [LossWithinLimits]_vars
    BY StepWithinLimits
  <1>4. Spec => [][LossWithinLimits]_vars
    BY <1>1, <1>2, <1>3, LossHolds, PTL DEF Spec
  <1> QED  BY <1>4 DEF LossIsBounded, LossWithinLimits
=============================================================================
