------------------------------ MODULE Migration ------------------------------
(***************************************************************************)
(* The data directory and the boot that brings it up to the layout of many *)
(* accounts (accounts/migrate.py): a database per account, and control.db  *)
(* with the list of accounts, the settings all of them share, the login    *)
(* and the owner of the bare webhook path.                                 *)
(*                                                                         *)
(* A database is abstracted to the values of its setting table that the    *)
(* boot and the settings routes read or write.  The boot is as atomic as   *)
(* the file system and SQLite make it: moving the old database, renaming   *)
(* control.db.tmp into place, one write of a row.                          *)
(***************************************************************************)
EXTENDS Integers, FiniteSets, FiniteSetsExt

CONSTANTS
    Id,          \* account ids: random in the code, so any order among them can arise
    NoId,        \* no account
    AccountKey,  \* tunables of the account's settings row
    Credentials, \* the credentials' keys, each a row of its own, in the order of writing
    GlobalKey,   \* GLOBAL_SETTING_KEYS
    CarriedKey,  \* _CARRIED_TO_CONTROL: the login
    Value,       \* what a key can validly hold
    Unset,       \* a stored null; of a resolved setting, its default
    Absent,      \* a key that is not stored
    NoDb,        \* no database in that place
    NoControl,   \* control.db does not exist
    OldRows,     \* bound: the rows an old install may bring
    NewRows,     \* bound: the rows the accounts of a new install may start with
    Disruptions, \* the kinds of disruption that can strike
    Budget       \* bound: how often one may

ASSUME StoreAssumption ==
    /\ Id \subseteq Nat /\ IsFiniteSet(Id) /\ NoId \notin Id
    /\ Unset \notin Value /\ Absent \notin Value /\ Unset # Absent
    /\ Disruptions \subseteq {"crash", "database", "lost"} /\ Budget \in Nat

VARIABLES
    legacy,   \* the old install's database, at its old place
    dirs,     \* the database in each account's directory
    control,  \* control.db
    minted,   \* the ids new_account_id has handed out
    stage,    \* where the process is: "off", booting, or "up"
    adopted,  \* the id this boot gave the old database
    left      \* bound: the disruptions still allowed to strike

disk == <<legacy, dirs, control, minted>>

CredKey == {Credentials[n] : n \in DOMAIN Credentials}
Key   == AccountKey \cup CredKey \cup GlobalKey \cup CarriedKey
Entry == Value \cup {Unset, Absent}
Row   == [Key -> Entry]
Blank == [k \in Key |-> Absent]

\* A database remembers (history) whether it is the old install's.
Db == [row : Row, old : BOOLEAN]
Control == [accounts : SUBSET Id, row : Row, bare : Id \cup {NoId}]

ASSUME PlacesAssumption ==
    /\ AccountKey \cap (CredKey \cup GlobalKey \cup CarriedKey) = {}
    /\ CredKey \cap (GlobalKey \cup CarriedKey) = {} /\ GlobalKey \cap CarriedKey = {}
    /\ IsFiniteSet(CredKey) /\ DOMAIN Credentials = 1 .. Cardinality(CredKey)
    /\ NoDb \notin Db /\ NoControl \notin Control
    /\ OldRows \subseteq Row /\ NewRows \subseteq Row

\* What is left of an entry once validated: null and absent are both the default.
Valid(e) == IF e \in Value THEN e ELSE Unset

Setting == AccountKey \cup CredKey \cup GlobalKey

\* Slip: the account's row is merged without validating it.
MergedUnvalidated(shared, own) ==
    [k \in Setting |-> IF k \in GlobalKey /\ shared[k] \in Value THEN shared[k] ELSE own[k]]

\* The settings an account runs with.  A global key is the control row's if that
\* holds a valid value, and otherwise whatever the account's own row has.
MergedSettings(shared, own) ==
    [k \in Setting |-> IF k \in GlobalKey /\ shared[k] \in Value THEN shared[k]
                       ELSE Valid(own[k])]

Only(K, row) == [k \in Key |-> IF k \in K THEN row[k] ELSE Absent]
Except(K, row) == Only(Key \ K, row)

\* _existing_account_ids, in the order of their names.
Existing == {i \in Id : dirs[i] # NoDb}

\* What the environment does: the process dies, a database write fails, the control
\* database is lost while the process is down.
Strike(kind) == kind \in Disruptions /\ left > 0 /\ left' = left - 1

\* An install of either version: nothing yet, the old layout, or the new one with
\* an account adopted and one added since.
FreshInstall ==
    legacy = NoDb /\ dirs = [i \in Id |-> NoDb] /\ control = NoControl /\ minted = {}
OldInstall ==
    /\ \E r \in OldRows : legacy = [row |-> r, old |-> TRUE]
    /\ dirs = [i \in Id |-> NoDb] /\ control = NoControl /\ minted = {}
NewInstall ==
    /\ legacy = NoDb
    /\ \E i, j \in Id, r, s \in NewRows :
          /\ i # j
          /\ dirs = [x \in Id |->
                       IF x = i THEN [row |-> Except(GlobalKey, r), old |-> TRUE]
                       ELSE IF x = j THEN [row |-> Except(GlobalKey, s), old |-> FALSE]
                       ELSE NoDb]
          /\ control = [accounts |-> {i, j}, row |-> Only(GlobalKey \cup CarriedKey, r),
                        bare |-> i]
          /\ minted = {i, j}

StoreInit ==
    /\ FreshInstall \/ OldInstall \/ NewInstall
    /\ stage = "off" /\ adopted = NoId /\ left = Budget

-----------------------------------------------------------------------------
(* The boot. *)

\* ensure_control_db has nothing to do once control.db exists.
Boot ==
    /\ stage = "off"
    /\ stage' = IF control = NoControl THEN "move" ELSE "load"
    /\ adopted' = NoId
    /\ UNCHANGED <<disk, left>>

\* Slip: the global keys are trimmed on the way, before anything else holds them.
MoveTrimming ==
    /\ stage = "move" /\ legacy # NoDb
    /\ \E i \in Id \ minted :
          /\ dirs' = [dirs EXCEPT ![i] = [legacy EXCEPT !.row = Except(GlobalKey, @)]]
          /\ minted' = minted \cup {i} /\ adopted' = i
    /\ legacy' = NoDb /\ stage' = "commit"
    /\ UNCHANGED <<control, left>>

\* _adopt_legacy_database: the old database moves into a directory of its own, its
\* write-ahead log folded in first.
MoveLegacy ==
    /\ stage = "move" /\ legacy # NoDb
    /\ \E i \in Id \ minted :
          /\ dirs' = [dirs EXCEPT ![i] = legacy]
          /\ minted' = minted \cup {i} /\ adopted' = i
    /\ legacy' = NoDb /\ stage' = "commit"
    /\ UNCHANGED <<control, left>>

NothingToMove ==
    /\ stage = "move" /\ legacy = NoDb
    /\ stage' = IF Existing = {} THEN "load" ELSE "commit"
    /\ UNCHANGED <<disk, adopted, left>>

Primary == IF adopted # NoId THEN adopted ELSE Min(Existing)

\* Slip: whichever account sorts first gets the bare webhook path.
CommitControlBinding ==
    /\ stage = "commit"
    /\ control' = [accounts |-> Existing,
                   row |-> Only(GlobalKey \cup CarriedKey, dirs[Primary].row),
                   bare |-> Primary]
    /\ stage' = "trim"
    /\ UNCHANGED <<legacy, dirs, minted, adopted, left>>

\* control.db is filled beside its place and renamed into it: all of it or nothing.
CommitControl ==
    /\ stage = "commit"
    /\ control' = [accounts |-> Existing,
                   row |-> Only(GlobalKey \cup CarriedKey, dirs[Primary].row),
                   bare |-> adopted]
    /\ stage' = "trim"
    /\ UNCHANGED <<legacy, dirs, minted, adopted, left>>

\* The one write to the account's database, after the commit.
TrimAccountRow ==
    /\ stage = "trim"
    /\ dirs' = [dirs EXCEPT ![Primary].row = Except(GlobalKey, @)]
    /\ stage' = "load"
    /\ UNCHANGED <<legacy, control, minted, adopted, left>>

\* The volume loses control.db between two runs of the process.
LoseControl ==
    /\ stage = "off" /\ control # NoControl
    /\ Strike("lost")
    /\ control' = NoControl
    /\ UNCHANGED <<legacy, dirs, minted, stage, adopted>>

MigrationStep ==
    Boot \/ MoveLegacy \/ NothingToMove \/ CommitControl \/ TrimAccountRow \/ LoseControl

StoreTypes ==
    /\ legacy \in Db \cup {NoDb}
    /\ dirs \in [Id -> Db \cup {NoDb}]
    /\ control \in Control \cup {NoControl}
    /\ minted \in SUBSET Id
    /\ stage \in {"off", "move", "commit", "trim", "load", "up"}
    /\ adopted \in Id \cup {NoId}
    /\ left \in Nat
=============================================================================
