----------------------------- MODULE Deletions -----------------------------
(***************************************************************************)
(* Deletions (sync/deletions.py), switched on: what Immich has in its      *)
(* trash when the reconciler looks is trashed in Google, up to a limit per *)
(* pass, and its row becomes terminal but keeps the media key.  A pass is  *)
(* three steps on the loop thread (the plan, one call to Google, the       *)
(* marking of the rows), and users go on trashing, restoring, deleting and *)
(* adding in between.                                                      *)
(*                                                                         *)
(* A row's barred is is_trashed here.  The worker's run of an asset is one *)
(* step: SyncEngine has its interleavings, and the loop thread, which also *)
(* runs the sweep, waits for it.                                           *)
(***************************************************************************)
EXTENDS AssetTable, FiniteSets

CONSTANTS
    Asset,          \* the immich ids; Immich never uses one twice
    Checksum,       \* the contents
    ChecksumOf,     \* the content of each asset
    MaxAbsolute,    \* DeletionPolicy.max_absolute
    MaxPercent,     \* DeletionPolicy.max_fraction, in percent
    Budget          \* bound: how often a step of a pass may fail

ASSUME DeletionsAssumption ==
    /\ IsFiniteSet(Asset)
    /\ ChecksumOf \in [Asset -> Checksum]
    /\ MaxAbsolute \in Nat \ {0} /\ MaxPercent \in Nat \ {0}
    /\ Budget \in Nat

VARIABLES
    table,       \* the asset table
    google,      \* the contents in the Google library, its trash left out
    immich,      \* where Immich has each asset
    sweep,       \* the step of the pass the loop thread is at
    plan,        \* DeletionPlan.asset_ids
    wasTrashed,  \* history: the assets Immich has had in its trash
    left         \* bound: the failures still allowed

library == <<immich, wasTrashed>>
pass    == <<sweep, plan>>
vars == <<table, google, library, pass, left>>

Places == {"unborn", "live", "trashed", "gone"}
Contents(S) == {ChecksumOf[a] : a \in S}
Rows(state) == {a \in Asset : table[a].state = state}

Init ==
    /\ table = [a \in Asset |-> NoRow]
    /\ google \in SUBSET Checksum
    /\ immich = [a \in Asset |-> "unborn"]
    /\ sweep = "idle" /\ plan = {}
    /\ wasTrashed = {}
    /\ left = Budget

-----------------------------------------------------------------------------
(* Immich and its users. *)

Moves(a, from, to) == immich[a] = from /\ immich' = [immich EXCEPT ![a] = to]

\* Immich refuses a content it already has, in its trash too.
Add(a) ==
    /\ Moves(a, "unborn", "live")
    /\ \A b \in Asset : ChecksumOf[b] = ChecksumOf[a] => immich[b] \in {"unborn", "gone"}
    /\ UNCHANGED <<table, google, pass, wasTrashed, left>>

PutInTrash(a) ==
    /\ Moves(a, "live", "trashed")
    /\ wasTrashed' = wasTrashed \cup {a}
    /\ UNCHANGED <<table, google, pass, left>>

Restore(a) ==
    /\ Moves(a, "trashed", "live")
    /\ UNCHANGED <<table, google, wasTrashed, pass, left>>

\* The trash is emptied, or the asset is deleted past it.
DeleteForGood(a) ==
    /\ Moves(a, "live", "gone") \/ Moves(a, "trashed", "gone")
    /\ UNCHANGED <<table, google, wasTrashed, pass, left>>

-----------------------------------------------------------------------------
(* The rest of the program. *)

\* What a report does to a row; the priorities of the queue play no part here.
Reported(a, trashed) == [table EXCEPT ![a] = UpsertPending(@, Reconcile, trashed)]

\* A webhook arrives, however late, with the asset as it was when it was created.
ReceiveWebhook(a) ==
    /\ immich[a] # "unborn"
    /\ table' = Reported(a, FALSE)
    /\ UNCHANGED <<google, library, pass, left>>

\* The reconciler reads Immich, with deletions on its trash too.
Reconciled(a) ==
    /\ sweep = "idle" /\ immich[a] \in {"live", "trashed"}
    /\ table' = Reported(a, immich[a] = "trashed")
    /\ UNCHANGED <<google, library, pass, left>>

HasLocalKey(c) == \E a \in Asset : ChecksumOf[a] = c /\ table[a].hasKey

\* Worker.process: barred, known here, known to Google, or uploaded.
Process(a) ==
    /\ sweep = "idle" /\ table[a].state = "pending"
    /\ LET claimed == Claim(table[a]) IN
          \/ /\ claimed.barred
             /\ table' = [table EXCEPT ![a] = MarkIneligible(claimed, "hard")]
             /\ UNCHANGED google
          \/ /\ ~claimed.barred
             /\ table' = [table EXCEPT ![a] = MarkSynced(claimed)]
             /\ google' = IF HasLocalKey(ChecksumOf[a]) THEN google
                          ELSE google \cup {ChecksumOf[a]}
    /\ UNCHANGED <<library, pass, left>>

-----------------------------------------------------------------------------
(* The pass. *)

\* Slip: is_trashed compared the wrong way round.
UntrashedSynced ==
    {a \in Asset : table[a].state = "synced" /\ ~table[a].barred /\ table[a].hasKey}

TrashedSynced ==
    {a \in Asset : table[a].state = "synced" /\ table[a].barred /\ table[a].hasKey}

\* Slip: a pass that reaches the limit is refused.
AllowedBelow(count, total) ==
    count = 0 \/ (total > 0 /\ count < MaxAbsolute /\ 100 * count < MaxPercent * total)

\* Slip: one limit is enough.
AllowedByEither(count, total) ==
    count = 0 \/ (total > 0 /\ (count <= MaxAbsolute \/ 100 * count <= MaxPercent * total))

DeletionAllowed(count, total) ==
    count = 0 \/ (total > 0 /\ count <= MaxAbsolute /\ 100 * count <= MaxPercent * total)

\* A refused plan ends the pass, and so does an empty one.
Plan ==
    /\ sweep = "idle" /\ TrashedSynced # {}
    /\ DeletionAllowed(Cardinality(TrashedSynced), Cardinality(Rows("synced")))
    /\ plan' = TrashedSynced /\ sweep' = "trash"
    /\ UNCHANGED <<table, google, library, left>>

EndPass == sweep' = "idle" /\ plan' = {}
Fail    == left > 0 /\ left' = left - 1

Trash ==
    /\ sweep = "trash"
    /\ google' = google \ Contents(plan)
    /\ sweep' = "mark"
    /\ UNCHANGED <<table, library, plan, left>>

\* Slip: an error of trash that does not reach execute.
TrashFailsUnnoticed ==
    /\ sweep = "trash" /\ Fail
    /\ sweep' = "mark"
    /\ UNCHANGED <<table, google, library, plan>>

\* The call fails, with or without effect, or the process dies after it.
TrashFails ==
    /\ sweep = "trash" /\ Fail
    /\ google' \in {google, google \ Contents(plan)}
    /\ EndPass
    /\ UNCHANGED <<table, library>>

Marked(S) == [a \in Asset |-> IF a \in S THEN MarkDeleted(table[a]) ELSE table[a]]

MarkRows ==
    /\ sweep = "mark"
    /\ table' = Marked(plan)
    /\ EndPass
    /\ UNCHANGED <<google, library, left>>

\* executemany commits row by row: a failing write or a crash leaves some marked.
MarkFails ==
    /\ sweep = "mark" /\ Fail
    /\ \E S \in SUBSET plan : S # plan /\ table' = Marked(S)
    /\ EndPass
    /\ UNCHANGED <<google, library>>

SweepStep == Plan \/ Trash \/ TrashFails \/ MarkRows \/ MarkFails

Next ==
    \/ \E a \in Asset :
          \/ Add(a) \/ PutInTrash(a) \/ Restore(a) \/ DeleteForGood(a)
          \/ ReceiveWebhook(a) \/ Reconciled(a) \/ Process(a)
    \/ SweepStep

Spec == Init /\ [][Next]_vars

\* The loop thread comes back to the sweep on every reconciling pass.
FairSpec == Spec /\ WF_vars(SweepStep)
-----------------------------------------------------------------------------
(* Properties. *)

TypeOK ==
    /\ table \in [Asset -> Row]
    /\ google \subseteq Checksum
    /\ immich \in [Asset -> Places]
    /\ sweep \in {"idle", "trash", "mark"}
    /\ plan \subseteq Asset
    /\ wasTrashed \subseteq Asset
    /\ left \in 0 .. Budget

\* A row that says its asset was deleted tells the truth about Google, however the
\* pass that marked it, or one before it, was cut short.
DeletedMeansTrashed ==
    \A a \in Asset : (table[a].state = "ineligible" /\ table[a].hasKey)
                        => ChecksumOf[a] \notin google

\* What was backed up leaves Google only if its owner had put it in Immich's trash.
LostOnlyByTrashing ==
    \A a \in Asset : (table[a].hasKey /\ ChecksumOf[a] \notin google) => a \in wasTrashed

\* No call to Google takes out more than the limits allow of what is synced when it
\* is made, whatever was trashed, restored, added or cut short since the plan.
LossIsBounded ==
    [][LET lost == Cardinality(google \ google')
       IN lost <= MaxAbsolute /\ 100 * lost <= MaxPercent * Cardinality(Rows("synced"))]_vars

OverLimit ==
    LET count == Cardinality(TrashedSynced)
    IN count > MaxAbsolute \/ 100 * count > MaxPercent * Cardinality(Rows("synced"))

\* What is trashed in Immich as far as the table knows gets there in Google, unless
\* it is restored or the limit steps in; passes cut short are made up for.
TrashingIsPropagated ==
    \A a \in Asset :
        a \in TrashedSynced ~> \/ table[a].state = "ineligible" \/ ~table[a].barred
                               \/ OverLimit

\* The point of the program: what is in the Immich library and synced is in Google.
LiveIsBackedUp ==
    \A a \in Asset : (table[a].state = "synced" /\ immich[a] = "live" /\ a \notin wasTrashed)
                        => ChecksumOf[a] \in google
=============================================================================
