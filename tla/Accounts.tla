------------------------------- MODULE Accounts -------------------------------
(***************************************************************************)
(* The account registry (accounts/registry.py) over the data directory of  *)
(* Migration: the accounts being served, the limiters they share, and the  *)
(* requests that save settings, connect services, add and remove accounts, *)
(* each on a thread of its own (api/routes.py, api/wizard.py).  A request  *)
(* advances by one database statement, one swap of a graph, or one section *)
(* under the registry's lock at a time.                                    *)
(***************************************************************************)
EXTENDS Migration

CONSTANTS
    Req,             \* requests; each is made at most once, which bounds them
    Free,            \* the registry's lock, when no request holds it
    NoGraph,         \* no services, or no graph
    Patches,         \* what a save may carry (SettingsPatch)
    CapKey,          \* the global key that is the bandwidth cap
    ConcurrentSaves  \* whether two settings requests may be under way at once

ASSUME AccountsAssumption ==
    /\ CapKey \in GlobalKey /\ ConcurrentSaves \in BOOLEAN
    /\ Patches \subseteq [AccountKey \cup GlobalKey -> Entry]
    /\ Free \notin Req

VARIABLES
    registered, \* the keys of _accounts
    services,   \* each account's Services: settings, and the shared limiters it was given
    loops,      \* the graph its loop thread runs: what it was built from
    limiter,    \* the registry's current limiters
    built,      \* how many limiters this process has built
    alive,      \* accounts whose loop thread runs
    closed,     \* accounts whose database connection was closed
    lock,       \* the request that holds the registry's lock
    req,        \* what each request is doing
    torn,       \* history: since boot a settings request failed half-way
    erased      \* history: accounts removed with their data

memory == <<registered, services, loops, limiter, built, alive, closed, lock>>
vars == <<disk, stage, adopted, left, memory, req, torn, erased>>

\* A limiter's value, and which object it is; no two objects share a number.
Limiter == [limit : Value \cup {Unset}, number : Nat]
Limiters == [GlobalKey -> Limiter]
Graph == [settings : [Setting -> Value \cup {Unset}], limiters : Limiters]

ASSUME NoGraphAssumption == NoGraph \notin Graph

\* No cap is no bucket; a gate there always is.
NewLimiter(k, limit, n) ==
    [limit |-> limit, number |-> IF k = CapKey /\ limit = Unset THEN 0 ELSE n]

NoPatch == [k \in Setting |-> Absent]
Whole(p) == [k \in Setting |-> IF k \in DOMAIN p THEN p[k] ELSE Absent]

\* What a request knows: its kind, the account it is about, what it saves; then, as
\* it goes along, the row it read, how many credentials it stored, the accounts it
\* has yet to rebuild, and the rebuild under way (of whom, to what, with a new cap).
Idle == [at |-> "new", kind |-> "none", id |-> NoId, patch |-> NoPatch, erase |-> FALSE,
         stored |-> Blank, count |-> 0, todo |-> {}, of |-> NoId, graph |-> NoGraph,
         recapped |-> FALSE]
Done == [Idle EXCEPT !.at = "done"]
Steps == {"new", "done", "read", "write", "read global", "write global", "store", "limit",
          "fan out", "build", "install", "replace", "open", "register", "stop", "drop", "wipe"}

Init ==
    /\ StoreInit
    /\ registered = {} /\ alive = {} /\ closed = {}
    /\ services = [i \in Id |-> NoGraph] /\ loops = services
    /\ limiter = [k \in GlobalKey |-> NewLimiter(k, Unset, 0)] /\ built = 0
    /\ lock = Free
    /\ req = [r \in Req |-> Idle]
    /\ torn = FALSE /\ erased = {}

\* registry.all(): what has both a graph and a row.
All == registered \cap control.accounts

InFlight(r) == req[r].at \notin {"new", "done"}
Saving(r)   == InFlight(r) /\ req[r].kind \in {"save", "connect"}

-----------------------------------------------------------------------------
(* Boot, and crashes. *)

EmptyControl == [accounts |-> {}, row |-> Blank, bare |-> NoId]
EmptyDb == [row |-> Blank, old |-> FALSE]

\* connect creates what is not there.
Opened(i) == IF dirs[i] = NoDb THEN EmptyDb ELSE dirs[i]

\* _load and start_all: the limiters from the control row alone, then every account
\* of the table against them.
Load ==
    /\ stage = "load"
    /\ LET c == IF control = NoControl THEN EmptyControl ELSE control
           lim == [k \in GlobalKey |-> NewLimiter(k, Valid(c.row[k]), 1)]
           graph == [i \in Id |->
                       IF i \in c.accounts
                       THEN [settings |-> MergedSettings(c.row, Opened(i).row),
                             limiters |-> lim]
                       ELSE NoGraph]
       IN /\ control' = c
          /\ dirs' = [i \in Id |-> IF i \in c.accounts THEN Opened(i) ELSE dirs[i]]
          /\ limiter' = lim /\ built' = 1
          /\ registered' = c.accounts /\ alive' = c.accounts
          /\ services' = graph /\ loops' = graph
    /\ stage' = "up"
    /\ UNCHANGED <<legacy, minted, adopted, left, closed, lock, req, torn, erased>>

\* Everything in memory goes, the requests under way with it.
Crash ==
    /\ stage # "off"
    /\ Strike("crash")
    /\ stage' = "off" /\ adopted' = NoId
    /\ registered' = {} /\ alive' = {} /\ closed' = {}
    /\ services' = [i \in Id |-> NoGraph] /\ loops' = services'
    /\ limiter' = [k \in GlobalKey |-> NewLimiter(k, Unset, 0)] /\ built' = 0
    /\ lock' = Free
    /\ req' = [r \in Req |-> IF InFlight(r) THEN Done ELSE req[r]]
    /\ torn' = FALSE
    /\ UNCHANGED <<disk, erased>>

-----------------------------------------------------------------------------
(* Settings requests. *)

Goto(r, label) == req' = [req EXCEPT ![r].at = label]

AccountPart(patch) == {k \in AccountKey : patch[k] # Absent}
GlobalPart(patch)  == {k \in GlobalKey : patch[k] # Absent}

\* Where apply_settings_updates starts, and where it goes from the account's half.
AfterAccountHalf(patch) == IF GlobalPart(patch) # {} THEN "read global" ELSE "build"
FirstStep(patch) == IF AccountPart(patch) # {} THEN "read" ELSE "read global"

\* The request ends; if with an exception, after it stored or rebuilt something, its
\* work is half done.
Begun(r) ==
    /\ Saving(r)
    /\ req[r].at = "store" => req[r].count > 0
    /\ req[r].at \notin {"read", "write"}
    /\ req[r].at \in {"read global", "write global"} => AccountPart(req[r].patch) # {}
End(r) == req' = [req EXCEPT ![r] = Done] /\ lock' = IF lock = r THEN Free ELSE lock
Fail(r) == End(r) /\ torn' = (torn \/ Begun(r))

MaySave == ConcurrentSaves \/ \A r \in Req : ~Saving(r)

\* A save acts on the account its cookie names, or on the default one.
BeginSave(r) ==
    /\ stage = "up" /\ req[r] = Idle /\ MaySave
    /\ \E i \in All, p \in Patches :
          req' = [req EXCEPT ![r] = [Idle EXCEPT !.kind = "save", !.id = i,
                                     !.patch = Whole(p), !.at = FirstStep(Whole(p))]]
    /\ UNCHANGED <<disk, stage, adopted, left, memory, torn, erased>>

\* The wizard's step, once its check of the service passed.
BeginConnect(r) ==
    /\ stage = "up" /\ req[r] = Idle /\ MaySave /\ CredKey # {}
    /\ \E i \in All, v \in Value :
          req' = [req EXCEPT ![r] = [Idle EXCEPT !.kind = "connect", !.id = i,
                                     !.patch = Whole([k \in CredKey |-> v]), !.at = "store"]]
    /\ UNCHANGED <<disk, stage, adopted, left, memory, torn, erased>>

ReadAccountRow(r) ==
    /\ req[r].at = "read" /\ req[r].id \notin closed
    /\ req' = [req EXCEPT ![r].stored = dirs[req[r].id].row, ![r].at = "write"]
    /\ UNCHANGED <<disk, stage, adopted, left, memory, torn, erased>>

\* Slip: the stored row is replaced by the patch.
UpdatedAnew(row, stored, patch, K) ==
    [k \in Key |-> IF k \notin AccountKey \cup GlobalKey THEN row[k]
                   ELSE IF k \in K THEN patch[k] ELSE Absent]

\* The settings row as it was read, updated with the patch's keys in K; the other
\* rows stay.
Updated(row, stored, patch, K) ==
    [k \in Key |-> IF k \notin AccountKey \cup GlobalKey THEN row[k]
                   ELSE IF k \in K /\ patch[k] # Absent THEN patch[k] ELSE stored[k]]

WriteAccountRow(r) ==
    /\ req[r].at = "write" /\ req[r].id \notin closed
    /\ dirs' = [dirs EXCEPT ![req[r].id].row =
                  Updated(@, req[r].stored, req[r].patch, AccountKey)]
    /\ req' = [req EXCEPT ![r].stored = Blank, ![r].at = AfterAccountHalf(req[r].patch)]
    /\ UNCHANGED <<legacy, control, minted, stage, adopted, left, memory, torn, erased>>

ReadGlobalRow(r) ==
    /\ req[r].at = "read global"
    /\ req' = [req EXCEPT ![r].stored = control.row, ![r].at = "write global"]
    /\ UNCHANGED <<disk, stage, adopted, left, memory, torn, erased>>

WriteGlobalRow(r) ==
    /\ req[r].at = "write global"
    /\ control' = [control EXCEPT !.row = Updated(@, req[r].stored, req[r].patch, GlobalKey)]
    /\ req' = [req EXCEPT ![r].stored = Blank, ![r].at = "limit"]
    /\ UNCHANGED <<legacy, dirs, minted, stage, adopted, left, memory, torn, erased>>

StoreCredential(r) ==
    /\ req[r].at = "store" /\ req[r].id \notin closed
    /\ LET n == req[r].count + 1  k == Credentials[n]
       IN /\ dirs' = [dirs EXCEPT ![req[r].id].row[k] = req[r].patch[k]]
          /\ req' = [req EXCEPT ![r].count = n,
                       ![r].at = IF n = Cardinality(CredKey) THEN "build" ELSE "store"]
    /\ UNCHANGED <<legacy, control, minted, stage, adopted, left, memory, torn, erased>>

\* A statement raises: on the closed connection of a removed account, or because the
\* database fails.
StatementFails(r) ==
    /\ \/ /\ req[r].at \in {"read", "write", "store"} /\ req[r].id \in closed
          /\ UNCHANGED left
       \/ /\ req[r].at \in {"read", "write", "store", "read global", "write global"}
          /\ Strike("database")
    /\ Fail(r)
    /\ UNCHANGED <<disk, stage, adopted, erased, registered, services, loops, limiter, built,
                   alive, closed>>

\* rebuild_shared_limiters, under the lock: new limiters for the keys saved, handed to
\* every account.  apply_global_settings keeps the lock while it rebuilds everyone; a
\* save of both halves rebuilds the others without it.
Limit(r) ==
    /\ req[r].at = "limit" /\ lock = Free
    /\ limiter' = [k \in GlobalKey |->
                     IF k \in GlobalPart(req[r].patch)
                     THEN NewLimiter(k, Valid(req[r].patch[k]), built + 1) ELSE limiter[k]]
    /\ built' = built + 1
    /\ services' = [i \in Id |-> IF i \in All
                                 THEN [services[i] EXCEPT !.limiters = limiter'] ELSE services[i]]
    /\ IF AccountPart(req[r].patch) = {}
       THEN lock' = r /\ req' = [req EXCEPT ![r].todo = All, ![r].at = "fan out"]
       ELSE /\ req' = [req EXCEPT ![r].todo = All \ {req[r].id}, ![r].at = "fan out"]
            /\ UNCHANGED lock
    /\ UNCHANGED <<disk, stage, adopted, left, registered, loops, alive, closed, torn, erased>>

-----------------------------------------------------------------------------
(* rebuild_runtime, as far as settings and limiters go. *)

\* replace(settings, **updates), of the keys in K.
Replaced(settings, patch, K) ==
    [k \in Setting |-> IF k \in K /\ patch[k] # Absent THEN Valid(patch[k]) ELSE settings[k]]

\* The new graph is made of the settings and limiters its services hold right now.
BuildGraph(r, i, K) ==
    LET settings == Replaced(services[i].settings, req[r].patch, K)
    IN req' = [req EXCEPT ![r].of = i, ![r].at = "install", ![r].todo = @ \ {i},
                 ![r].graph = [settings |-> settings, limiters |-> services[i].limiters],
                 ![r].recapped = services[i].settings[CapKey] # settings[CapKey]]

BuildAnother(r) ==
    /\ req[r].at = "fan out"
    /\ \E i \in req[r].todo : BuildGraph(r, i, GlobalKey)
    /\ UNCHANGED <<disk, stage, adopted, left, memory, torn, erased>>

\* The request's own account comes last, with both halves.
BuildOwn(r) ==
    /\ \/ req[r].at = "build"
       \/ req[r].at = "fan out" /\ req[r].todo = {} /\ lock # r
    /\ BuildGraph(r, req[r].id, Setting)
    /\ UNCHANGED <<disk, stage, adopted, left, memory, torn, erased>>

EndGlobalSave(r) ==
    /\ req[r].at = "fan out" /\ req[r].todo = {} /\ lock = r
    /\ End(r)
    /\ UNCHANGED <<disk, stage, adopted, left, registered, services, loops, limiter, built,
                   alive, closed, torn, erased>>

Install(r) ==
    /\ req[r].at = "install"
    /\ services' = [services EXCEPT ![req[r].of].settings = req[r].graph.settings]
    /\ Goto(r, "replace")
    /\ UNCHANGED <<disk, stage, adopted, left, registered, loops, limiter, built, alive, closed,
                   lock, torn, erased>>

\* The loop thread is handed the graph, and a changed cap lets go of the rows parked
\* on the old one, which can raise.
SwapIn(r) == loops' = [loops EXCEPT ![req[r].of] = req[r].graph]

Replace(r) ==
    /\ req[r].at = "replace" /\ ~(req[r].recapped /\ req[r].of \in closed)
    /\ SwapIn(r)
    /\ IF req[r].of # req[r].id \/ lock = r
       THEN /\ req' = [req EXCEPT ![r].at = "fan out", ![r].of = NoId, ![r].graph = NoGraph,
                                  ![r].recapped = FALSE]
            /\ UNCHANGED lock
       ELSE End(r)
    /\ UNCHANGED <<disk, stage, adopted, left, registered, services, limiter, built, alive,
                   closed, torn, erased>>

ReplaceRaises(r) ==
    /\ req[r].at = "replace" /\ req[r].recapped
    /\ IF req[r].of \in closed THEN UNCHANGED left ELSE Strike("database")
    /\ SwapIn(r)
    /\ Fail(r)
    /\ UNCHANGED <<disk, stage, adopted, registered, services, limiter, built, alive, closed,
                   erased>>

-----------------------------------------------------------------------------
(* Adding and removing accounts. *)

\* Slip: create does not take the lock.
CreateUnlocked(r) ==
    /\ stage = "up" /\ req[r] = Idle
    /\ \E i \in Id \ minted :
          /\ control' = [control EXCEPT !.accounts = @ \cup {i}]
          /\ minted' = minted \cup {i}
          /\ req' = [req EXCEPT ![r] = [Idle EXCEPT !.kind = "create", !.id = i, !.at = "open"]]
    /\ UNCHANGED <<legacy, dirs, stage, adopted, left, memory, torn, erased>>

\* create takes the lock and commits the account's row before anything of it exists.
Create(r) ==
    /\ stage = "up" /\ req[r] = Idle /\ lock = Free
    /\ \E i \in Id \ minted :
          /\ control' = [control EXCEPT !.accounts = @ \cup {i}]
          /\ minted' = minted \cup {i}
          /\ req' = [req EXCEPT ![r] = [Idle EXCEPT !.kind = "create", !.id = i, !.at = "open"]]
    /\ lock' = r
    /\ UNCHANGED <<legacy, dirs, stage, adopted, left, registered, services, loops, limiter,
                   built, alive, closed, torn, erased>>

\* _build: the database, and services on the limiters of the moment.
OpenAccount(r) ==
    /\ req[r].at = "open"
    /\ LET db == Opened(req[r].id)
       IN /\ dirs' = [dirs EXCEPT ![req[r].id] = db]
          /\ req' = [req EXCEPT ![r].at = "register",
                       ![r].graph = [settings |-> MergedSettings(control.row, db.row),
                                     limiters |-> limiter]]
    /\ UNCHANGED <<legacy, control, minted, stage, adopted, left, memory, torn, erased>>

\* register and _start.
Register(r) ==
    /\ req[r].at = "register"
    /\ LET i == req[r].id
       IN /\ services' = [services EXCEPT ![i] = req[r].graph]
          /\ loops' = [loops EXCEPT ![i] = req[r].graph]
          /\ registered' = registered \cup {i} /\ alive' = alive \cup {i}
    /\ End(r)
    /\ UNCHANGED <<disk, stage, adopted, left, limiter, built, closed, torn, erased>>

OpenFails(r) ==
    /\ req[r].at = "open"
    /\ Strike("database")
    /\ End(r)
    /\ UNCHANGED <<disk, stage, adopted, registered, services, loops, limiter, built, alive,
                   closed, torn, erased>>

\* remove takes the lock and first hides the account from every later request.
Remove(r) ==
    /\ stage = "up" /\ req[r] = Idle /\ lock = Free
    /\ \E i \in registered, erase \in BOOLEAN :
          /\ registered' = registered \ {i}
          /\ req' = [req EXCEPT ![r] = [Idle EXCEPT !.kind = "remove", !.id = i, !.at = "stop",
                                                   !.erase = erase]]
    /\ lock' = r
    /\ UNCHANGED <<disk, stage, adopted, left, services, loops, limiter, built, alive, closed,
                   torn, erased>>

\* The loop thread ends within the five seconds, and only then is the connection
\* closed; or it does not, mid-upload.
StopLoop(r) ==
    /\ req[r].at = "stop"
    /\ \/ alive' = alive \ {req[r].id} /\ closed' = closed \cup {req[r].id}
       \/ UNCHANGED <<alive, closed>>
    /\ Goto(r, "drop")
    /\ UNCHANGED <<disk, stage, adopted, left, registered, services, loops, limiter, built, lock,
                   torn, erased>>

\* The account's row goes, or stays if that write fails; the directory is next
\* either way.
DropRow(r) ==
    /\ req[r].at = "drop"
    /\ control' = [control EXCEPT !.accounts = @ \ {req[r].id}]
    /\ Goto(r, "wipe")
    /\ UNCHANGED <<legacy, dirs, minted, stage, adopted, left, memory, torn, erased>>

DropRowFails(r) ==
    /\ req[r].at = "drop"
    /\ Strike("database")
    /\ Goto(r, "wipe")
    /\ UNCHANGED <<disk, stage, adopted, memory, torn, erased>>

\* Slip: the directory goes whether or not the loop thread has ended.
WipeRegardless(r) ==
    /\ req[r].at = "wipe"
    /\ IF req[r].erase
       THEN /\ dirs' = [dirs EXCEPT ![req[r].id] = NoDb]
            /\ erased' = erased \cup ({req[r].id} \ control.accounts)
       ELSE UNCHANGED <<dirs, erased>>
    /\ End(r)
    /\ UNCHANGED <<legacy, control, minted, stage, adopted, left, registered, services, loops,
                   limiter, built, alive, closed, torn>>

\* The data is deleted if that was asked for and the loop thread is no more.
Wipe(r) ==
    /\ req[r].at = "wipe"
    /\ IF req[r].erase /\ req[r].id \in closed
       THEN /\ dirs' = [dirs EXCEPT ![req[r].id] = NoDb]
            /\ erased' = erased \cup ({req[r].id} \ control.accounts)
       ELSE UNCHANGED <<dirs, erased>>
    /\ End(r)
    /\ UNCHANGED <<legacy, control, minted, stage, adopted, left, registered, services, loops,
                   limiter, built, alive, closed, torn>>

\* A loop thread told to stop ends after its iteration.
LoopExits(i) ==
    /\ i \in alive \ registered
    /\ \A r \in Req : req[r].id = i => req[r].at # "stop"
    /\ alive' = alive \ {i}
    /\ UNCHANGED <<disk, stage, adopted, left, registered, services, loops, limiter, built,
                   closed, lock, req, torn, erased>>

-----------------------------------------------------------------------------
RequestStep(r) ==
    \/ BeginSave(r) \/ BeginConnect(r)
    \/ ReadAccountRow(r) \/ WriteAccountRow(r) \/ ReadGlobalRow(r) \/ WriteGlobalRow(r)
    \/ StoreCredential(r) \/ StatementFails(r)
    \/ Limit(r) \/ BuildAnother(r) \/ BuildOwn(r) \/ EndGlobalSave(r)
    \/ Install(r) \/ Replace(r) \/ ReplaceRaises(r)
    \/ Create(r) \/ OpenAccount(r) \/ OpenFails(r) \/ Register(r)
    \/ Remove(r) \/ StopLoop(r) \/ DropRow(r) \/ DropRowFails(r) \/ Wipe(r)

Next ==
    \/ /\ MigrationStep
       /\ UNCHANGED <<memory, req, torn, erased>>
    \/ Load \/ Crash
    \/ \E r \in Req : RequestStep(r)
    \/ \E i \in Id : LoopExits(i)

Spec == Init /\ [][Next]_vars
-----------------------------------------------------------------------------
(* Properties. *)

Request ==
    [at : Steps, kind : {"none", "save", "connect", "create", "remove"}, id : Id \cup {NoId},
     patch : [Setting -> Entry], erase : BOOLEAN, stored : Row, count : Nat, todo : SUBSET Id,
     of : Id \cup {NoId}, graph : Graph \cup {NoGraph}, recapped : BOOLEAN]

TypeOK ==
    /\ StoreTypes
    /\ registered \in SUBSET Id /\ alive \in SUBSET Id /\ closed \in SUBSET Id
    /\ services \in [Id -> Graph \cup {NoGraph}] /\ loops \in [Id -> Graph \cup {NoGraph}]
    /\ limiter \in Limiters /\ built \in Nat
    /\ lock \in Req \cup {Free}
    /\ req \in [Req -> Request]
    /\ torn \in BOOLEAN /\ erased \in SUBSET Id

Quiet == stage = "up" /\ \A r \in Req : ~Saving(r)

\* With no settings request under way, and none failed half-way since boot, every
\* account meters and gates against the registry's current limiters: the same
\* objects, whoever was added or removed while they were replaced.
OneLimiter ==
    Quiet /\ ~torn =>
        \A i \in registered : /\ services[i].limiters = limiter
                              /\ loops[i].limiters = limiter

\* A crash between the commit of control.db and the trim leaves a copy of the global
\* keys in the account's row.
Leftover(i) == \E k \in GlobalKey : dirs[i].row[k] # Absent

\* With no settings request under way and none failed half-way, what the settings page
\* shows is what the loop runs with and what the next boot will run with, and the
\* limiters enforce it.  (The copy a crash left behind breaks the last two.)
SavedIsServed ==
    Quiet /\ ~torn =>
        \A i \in registered :
            /\ services[i].settings = loops[i].settings
            /\ ~Leftover(i) =>
                  /\ services[i].settings = MergedSettings(control.row, dirs[i].row)
                  /\ \A k \in GlobalKey : limiter[k].limit = services[i].settings[k]

\* services.settings is always the truth: with no rebuild of an account under way,
\* it is what its loop thread runs with.
ReportedIsLive ==
    \A i \in registered :
        (\A r \in Req : req[r].of # i) => services[i].settings = loops[i].settings

\* An account removed with its data is gone for good: no file, no row, no thread
\* that would write again; and no connection is closed under a running loop.
RemovedIsGone ==
    /\ closed \cap alive = {}
    /\ \A i \in erased : /\ dirs[i] = NoDb /\ i \notin alive \cup registered
                         /\ stage = "up" => i \notin control.accounts

\* As long as the old install's data exists, the bare webhook path leads to its
\* account or nowhere; and while nothing was disrupted it leads there for as long as
\* that account is served.
BareWebhookOwner ==
    control # NoControl =>
        \A i \in Existing : dirs[i].old =>
            /\ control.bare \in registered => control.bare = i
            /\ left = Budget /\ i \in registered => control.bare = i

\* The boot, the migration and every request keep the user's settings book.
Page(db) == IF db = NoDb THEN NoDb ELSE [k \in AccountKey \cup CredKey |-> Valid(db.row[k])]
ASSUME NoPageAssumption ==
    NoDb \notin [AccountKey \cup CredKey -> Value \cup {Unset}]

SharedRow ==
    IF control # NoControl THEN control.row
    ELSE IF legacy # NoDb THEN legacy.row
    ELSE IF Existing # {} THEN dirs[Primary].row ELSE Blank
Book == INSTANCE SettingsBook WITH
    OwnKey <- AccountKey \cup CredKey,
    SharedKey <- GlobalKey \cup CarriedKey,
    Old <- NoId, NoPage <- NoDb, NoAsk <- Idle,
    own <- [i \in Id \cup {NoId} |-> IF i = NoId THEN Page(legacy) ELSE Page(dirs[i])],
    shared <- [k \in GlobalKey \cup CarriedKey |-> Valid(SharedRow[k])],
    asks <- [r \in Req |-> IF InFlight(r) THEN [id |-> req[r].id, patch |-> req[r].patch,
                                                erase |-> req[r].erase]
                           ELSE Idle],
    luck <- left
KeepsBook == Book!Spec
=============================================================================
