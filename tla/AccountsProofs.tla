---------------------------- MODULE AccountsProofs ----------------------------
(***************************************************************************)
(* Theorems about Accounts, for any number of accounts and requests, any   *)
(* settings, whatever old installs bring, and however often the process    *)
(* dies, a write fails or control.db is lost.                              *)
(***************************************************************************)
EXTENDS Accounts, TLAPS, FiniteSetTheorems, WellFoundedInduction

-----------------------------------------------------------------------------
(* What TypeOK rests on. *)

\* The boot is at a step its data allows, and before it is through nothing is served.
BootInv ==
    /\ Existing \subseteq minted
    /\ control # NoControl => control.accounts \subseteq minted
    /\ stage \in {"move", "commit"} => control = NoControl
    /\ stage \in {"trim", "up"} => control # NoControl
    /\ stage = "move" => adopted = NoId
    /\ stage \in {"commit", "trim"} => Existing # {} /\ adopted \in Existing \cup {NoId}
    /\ stage # "up" => /\ registered = {} /\ alive = {} /\ closed = {} /\ lock = Free
                       /\ \A i \in Id : services[i] = NoGraph /\ loops[i] = NoGraph
                       /\ \A r \in Req : ~InFlight(r)

\* A request's fields fit the step it is at.
Shape(q) ==
    /\ q.kind = "none" <=> q.at \in {"new", "done"}
    /\ q.kind = "create" <=> q.at \in {"open", "register"}
    /\ q.kind = "remove" <=> q.at \in {"stop", "drop", "wipe"}
    /\ q.kind = "connect" => q.at \in {"store", "build", "install", "replace"}
    /\ q.at = "store" => q.kind = "connect" /\ q.count < Cardinality(CredKey)
    /\ q.kind = "connect" => \A k \in AccountKey \cup GlobalKey : q.patch[k] = Absent
    /\ q.kind = "save" => \A k \in CredKey : q.patch[k] = Absent
    /\ q.kind # "none" => q.id \in Id
    /\ q.at \in {"install", "replace"} =>
          q.of \in Id /\ (q.kind = "connect" => q.of = q.id)
    /\ q.at \in {"install", "replace", "register"} => q.graph \in Graph
Shapes == \A r \in Req : Shape(req[r])

\* Who holds the lock: whoever adds or removes an account, and a save of global keys
\* while it rebuilds everyone.
Locking == {"open", "register", "stop", "drop", "wipe"}
Rebuilding == {"fan out", "install", "replace"}
Locks(r) ==
    /\ req[r].at \in Locking => lock = r
    /\ lock = r => req[r].at \in Locking \cup Rebuilding
    /\ lock = r /\ Saving(r) => req[r].kind = "save" /\ AccountPart(req[r].patch) = {}
LockInv == \A r \in Req : Locks(r)

\* The accounts this process has, or had, a graph of.
Known == {i \in Id : services[i] # NoGraph}
Concerns(r) == {req[r].id} \cup req[r].todo
               \cup (IF req[r].at \in {"install", "replace"} THEN {req[r].of} ELSE {})

\* What a request knows of the accounts it is about.
Placed(r) ==
    /\ Saving(r) => Concerns(r) \subseteq Known
    /\ req[r].kind = "create" => /\ req[r].id \in minted \ (Known \cup erased)
                                 /\ req[r].id \in control.accounts
                                 /\ req[r].at = "register" => req[r].id \in Existing
    /\ req[r].kind = "remove" => req[r].id \in Known \ registered

\* Where each account is on its way from an id to a directory that was deleted.
AccountInv ==
    /\ registered \cup alive \cup closed \subseteq Known
    /\ Known \subseteq minted /\ erased \subseteq minted
    /\ \A i \in Known : loops[i] # NoGraph /\ (i \notin closed => i \in Existing)
    /\ closed \cap (registered \cup alive) = {}
    /\ registered # {} => registered \subseteq control.accounts
    /\ \A r \in Req : Placed(r)

StructureInv == TypeOK /\ BootInv /\ Shapes /\ LockInv /\ AccountInv

\* RemovedIsGone at every step of the process, not only when it is up.
ErasedInv ==
    \A i \in erased : /\ dirs[i] = NoDb
                      /\ control # NoControl => i \notin control.accounts

\* At most one database is the old install's, and the bare path is bound to it or to
\* nothing; without a disruption, to it.
OldInv ==
    /\ left <= Budget
    /\ legacy # NoDb => \A i \in Existing : ~dirs[i].old
    /\ \A i, j \in Existing : dirs[i].old /\ dirs[j].old => i = j
    /\ \A i \in Existing : dirs[i].old =>
          /\ control # NoControl => control.bare \in {i, NoId}
          /\ stage = "commit" => adopted \in {i, NoId}
          /\ left = Budget => IF control # NoControl THEN control.bare = i
                              ELSE stage = "commit" /\ adopted = i

-----------------------------------------------------------------------------
(* One settings request at a time. *)

OneSaver == \A r, s \in Req : Saving(r) /\ Saving(s) => r = s

\* The account a request rebuilds last, with all it saved.
Own(r) == IF lock = r THEN {} ELSE {req[r].id}

Turn(r) ==
    /\ req[r].at \in Rebuilding => req[r].todo \cap Own(r) = {}
    /\ req[r].at \in {"install", "replace"} =>
          /\ req[r].of \notin req[r].todo
          /\ req[r].of \in Own(r) => req[r].todo = {}
    /\ req[r].at \notin Rebuilding => req[r].todo = {}
    /\ req[r].at = "build" => GlobalPart(req[r].patch) = {}
TurnInv == \A r \in Req : Saving(r) => Turn(r)

\* The accounts whose loop may still run on old limiters.
Owed(r) ==
    IF req[r].at = "fan out" THEN req[r].todo \cup Own(r)
    ELSE IF req[r].at \in {"install", "replace"} THEN req[r].todo \cup Own(r) \cup {req[r].of}
    ELSE {}

\* A graph on its way into an account is made with the current limiters.
Current(r) ==
    /\ req[r].at = "register" => req[r].graph.limiters = limiter
    /\ req[r].at \in {"install", "replace"} /\ req[r].of \in registered
          => req[r].graph.limiters = limiter
LimitedInv ==
    /\ \A i \in registered : services[i].limiters = limiter
    /\ \A r \in Req : Current(r)
    /\ ~torn => \A i \in registered : \/ loops[i].limiters = limiter
                                      \/ \E r \in Req : Saving(r) /\ i \in Owed(r)

SaverInv == OneSaver /\ TurnInv /\ LimitedInv

\* Whether a settings request has put what it saves of k on disk.
Written(r, k) ==
    /\ req[r].patch[k] # Absent
    /\ k \in AccountKey => req[r].at \notin {"read", "write"}
    /\ k \in CredKey => req[r].at # "store" \/ \E n \in 1 .. req[r].count : Credentials[n] = k
    /\ k \in GlobalKey => req[r].at \in {"limit", "build"} \cup Rebuilding

OwnKeys == AccountKey \cup CredKey
Disked(r) ==
    /\ \A k \in OwnKeys :
          Written(r, k) /\ req[r].id \notin closed
              => dirs[req[r].id].row[k] = req[r].patch[k]
    /\ \A k \in GlobalKey : Written(r, k) => control.row[k] = req[r].patch[k]
    /\ req[r].at = "write" /\ req[r].id \notin closed
          => req[r].stored = dirs[req[r].id].row
    /\ req[r].at = "write global" => req[r].stored = control.row
    /\ req[r].kind = "connect" => \A k \in CredKey : req[r].patch[k] # Absent
DiskInv == \A r \in Req : Saving(r) => Disked(r)

\* The keys a rebuild of the account in hand brings up to date.
Mine(r) == IF req[r].of \in Own(r) THEN Setting ELSE GlobalKey
Graphed(r) ==
    /\ req[r].at = "install" =>
          \A k \in Setting :
             req[r].graph.settings[k] = IF k \in Mine(r) /\ req[r].patch[k] # Absent
                                        THEN Valid(req[r].patch[k])
                                        ELSE services[req[r].of].settings[k]
    /\ req[r].at = "replace" =>
          /\ services[req[r].of].settings = req[r].graph.settings
          /\ \A k \in Mine(r) : req[r].patch[k] # Absent
                                   => req[r].graph.settings[k] = Valid(req[r].patch[k])
GraphInv == \A r \in Req : Graphed(r)

\* Whether a settings request still owes account i what it saved of k.
OwesOwn(r, i, k) ==
    /\ Saving(r) /\ req[r].id = i /\ Written(r, k)
    /\ ~ (req[r].at = "replace" /\ req[r].of \in Own(r))
OwesGlobal(r, i, k) ==
    /\ Saving(r) /\ Written(r, k)
    /\ \/ req[r].at = "limit"
       \/ i \in req[r].todo
       \/ i \in Own(r) /\ ~ (req[r].at = "replace" /\ req[r].of \in Own(r))
       \/ req[r].at = "install" /\ i = req[r].of

\* The global keys a request at "limit" is about to give new limiters.
Limiting(k) == \E r \in Req : req[r].at = "limit" /\ req[r].patch[k] # Absent

OwnServed(i, k) ==
    services[i].settings[k] = Valid(dirs[i].row[k]) \/ \E r \in Req : OwesOwn(r, i, k)
GlobalServed(i, k) ==
    services[i].settings[k] = Valid(control.row[k]) \/ \E r \in Req : OwesGlobal(r, i, k)
ServesInv ==
    ~torn => \A i \in registered :
                /\ \A k \in OwnKeys : OwnServed(i, k)
                /\ ~Leftover(i) => \A k \in GlobalKey : GlobalServed(i, k)

Capped(k) == limiter[k].limit = Valid(control.row[k]) \/ Limiting(k)
CapsInv == stage = "up" => \A k \in GlobalKey : Capped(k)

\* The graph of an account about to be served was made of what is on disk.
Fresh(r) ==
    req[r].at = "register" =>
        /\ \A k \in OwnKeys : req[r].graph.settings[k] = Valid(dirs[req[r].id].row[k])
        /\ ~Leftover(req[r].id) =>
              \A k \in GlobalKey : \/ req[r].graph.settings[k] = Valid(control.row[k])
                                   \/ Limiting(k)
FreshInv == \A r \in Req : Fresh(r)

Swapped(i) ==
    \/ services[i].settings = loops[i].settings
    \/ \E r \in Req : req[r].at = "replace" /\ req[r].of = i
SwapsInv == \A i \in registered : Swapped(i)

DataInv == DiskInv /\ GraphInv /\ ServesInv /\ CapsInv /\ FreshInv /\ SwapsInv

-----------------------------------------------------------------------------
(* What the steps of a request do to its record. *)

Others(r) == req' \in [Req -> Request] /\ \A s \in Req \ {r} : req'[s] = req[s]

\* The request goes on, being what it was made for.
Continues(r, at) ==
    /\ Others(r)
    /\ req'[r].at = at /\ req'[r].kind = req[r].kind /\ req'[r].id = req[r].id
    /\ req'[r].patch = req[r].patch /\ req'[r].erase = req[r].erase

LEMMA KeysApart ==
  /\ AccountKey \cap CredKey = {} /\ AccountKey \cap GlobalKey = {} /\ CredKey \cap GlobalKey = {}
  /\ AccountKey \cap CarriedKey = {} /\ CredKey \cap CarriedKey = {}
  /\ GlobalKey \cap CarriedKey = {}
  BY PlacesAssumption

LEMMA IdleTypes ==
  /\ Idle \in Request /\ Done \in Request
  /\ Idle.at = "new" /\ Idle.kind = "none" /\ Idle.id = NoId /\ Idle.todo = {}
  /\ Idle.patch = NoPatch
  /\ Done.at = "done" /\ Done.kind = "none" /\ Done.id = NoId /\ Done.todo = {}
  /\ Done.patch = NoPatch
  <1>1. Blank \in Row /\ NoPatch \in [Setting -> Entry]
    BY DEF Blank, Row, Entry, NoPatch
  <1>2. Idle \in Request  BY <1>1 DEF Idle, Request, Steps
  <1>3. /\ Idle.at = "new" /\ Idle.kind = "none" /\ Idle.id = NoId /\ Idle.todo = {}
        /\ Idle.patch = NoPatch
    BY DEF Idle
  <1>4. Done \in Request
    <2>1. Done = [Idle EXCEPT !.at = "done"] /\ "done" \in Steps  BY DEF Done, Steps
    <2> QED  BY <1>2, <2>1 DEF Request
  <1>5. /\ Done.at = "done" /\ Done.kind = "none" /\ Done.id = NoId /\ Done.todo = {}
        /\ Done.patch = NoPatch
    BY DEF Done, Idle
  <1> QED  BY <1>2, <1>3, <1>4, <1>5

LEMMA WholeTypes ==
  ASSUME NEW p \in Patches \cup [CredKey -> Value]
  PROVE  /\ Whole(p) \in [Setting -> Entry]
         /\ p \in Patches => \A k \in CredKey : Whole(p)[k] = Absent
         /\ p \in [CredKey -> Value] => \A k \in AccountKey \cup GlobalKey : Whole(p)[k] = Absent
  <1>1. CASE p \in Patches
    <2>1. p \in [AccountKey \cup GlobalKey -> Entry]  BY <1>1, AccountsAssumption
    <2>2. Whole(p) \in [Setting -> Entry]  BY <2>1 DEF Whole, Setting, Entry
    <2>3. \A k \in CredKey : Whole(p)[k] = Absent
      BY <2>1, KeysApart DEF Whole, Setting
    <2>4. ASSUME p \in [CredKey -> Value], NEW k \in AccountKey \cup GlobalKey
          PROVE  Whole(p)[k] = Absent
      BY <2>4, KeysApart DEF Whole, Setting
    <2> QED  BY <2>2, <2>3, <2>4
  <1>2. CASE p \in [CredKey -> Value]
    <2>1. Whole(p) \in [Setting -> Entry]  BY <1>2 DEF Whole, Setting, Entry
    <2>2. \A k \in AccountKey \cup GlobalKey : Whole(p)[k] = Absent
      BY <1>2, KeysApart DEF Whole, Setting
    <2>3. ASSUME p \in Patches, NEW k \in CredKey PROVE Whole(p)[k] = Absent
      <3>1. p \in [AccountKey \cup GlobalKey -> Entry]  BY <2>3, AccountsAssumption
      <3> QED  BY <3>1, KeysApart DEF Whole, Setting
    <2> QED  BY <2>1, <2>2, <2>3
  <1> QED  BY <1>1, <1>2

LEMMA UpdatedTypes ==
  ASSUME NEW row \in Row, NEW stored \in Row, NEW patch \in [Setting -> Entry],
         NEW K \in SUBSET Setting
  PROVE  Updated(row, stored, patch, K) \in Row
  BY DEF Updated, Row, Key, Setting

LEMMA EndDoes ==
  ASSUME TypeOK, NEW r \in Req, End(r)
  PROVE  Others(r) /\ req'[r] = Done /\ lock' = IF lock = r THEN Free ELSE lock
  BY IdleTypes DEF TypeOK, End, Others

LEMMA BeginSaveDoes ==
  ASSUME TypeOK, NEW r \in Req, BeginSave(r)
  PROVE  /\ Others(r) /\ req[r] = Idle /\ stage = "up"
         /\ req'[r].kind = "save" /\ req'[r].id \in All /\ req'[r].at \in {"read", "read global"}
         /\ req'[r].at = FirstStep(req'[r].patch)
         /\ \A k \in CredKey : req'[r].patch[k] = Absent
         /\ req'[r].todo = {} /\ req'[r].count = 0 /\ req'[r].erase = FALSE
  <1>1. PICK i \in All, p \in Patches :
          req' = [req EXCEPT ![r] = [Idle EXCEPT !.kind = "save", !.id = i,
                                     !.patch = Whole(p), !.at = FirstStep(Whole(p))]]
    BY DEF BeginSave
  <1> DEFINE q == [Idle EXCEPT !.kind = "save", !.id = i,
                               !.patch = Whole(p), !.at = FirstStep(Whole(p))]
  <1>2. i \in Id /\ Whole(p) \in [Setting -> Entry] /\ \A k \in CredKey : Whole(p)[k] = Absent
    BY WholeTypes DEF TypeOK, All
  <1>3. FirstStep(Whole(p)) \in {"read", "read global"}  BY DEF FirstStep
  <1>4. q \in Request
    <2>1. FirstStep(Whole(p)) \in Steps  BY <1>3 DEF Steps
    <2> QED  BY <1>2, <2>1, IdleTypes DEF Request
  <1>5. /\ q.kind = "save" /\ q.id = i /\ q.patch = Whole(p) /\ q.at = FirstStep(Whole(p))
        /\ q.todo = {} /\ q.count = 0 /\ q.erase = FALSE
    BY DEF Idle
  <1> HIDE DEF q
  <1>6. req' = [req EXCEPT ![r] = q]  BY <1>1 DEF q
  <1>7. req'[r] = q /\ Others(r)  BY <1>4, <1>6 DEF TypeOK, Others
  <1> QED  BY <1>2, <1>3, <1>5, <1>7 DEF BeginSave

LEMMA BeginConnectDoes ==
  ASSUME TypeOK, NEW r \in Req, BeginConnect(r)
  PROVE  /\ Others(r) /\ req[r] = Idle /\ stage = "up" /\ CredKey # {}
         /\ req'[r].kind = "connect" /\ req'[r].id \in All /\ req'[r].at = "store"
         /\ \A k \in AccountKey \cup GlobalKey : req'[r].patch[k] = Absent
         /\ \A k \in CredKey : req'[r].patch[k] # Absent
         /\ req'[r].todo = {} /\ req'[r].count = 0 /\ req'[r].erase = FALSE
  <1>1. PICK i \in All, v \in Value :
          req' = [req EXCEPT ![r] = [Idle EXCEPT !.kind = "connect", !.id = i,
                                     !.patch = Whole([k \in CredKey |-> v]), !.at = "store"]]
    BY DEF BeginConnect
  <1> DEFINE p == [k \in CredKey |-> v]
             q == [Idle EXCEPT !.kind = "connect", !.id = i, !.patch = Whole(p), !.at = "store"]
  <1>2. p \in [CredKey -> Value]  OBVIOUS
  <1>3. req' = [req EXCEPT ![r] = q]  BY <1>1
  <1>8. \A k \in CredKey : Whole(p)[k] # Absent
    BY <1>2, StoreAssumption DEF Whole, Setting
  <1> HIDE DEF p
  <1>4. /\ i \in Id /\ Whole(p) \in [Setting -> Entry]
        /\ \A k \in AccountKey \cup GlobalKey : Whole(p)[k] = Absent
    BY <1>2, WholeTypes DEF TypeOK, All
  <1>5. q \in Request
    BY <1>4, IdleTypes DEF Request, Steps
  <1>6. /\ q.kind = "connect" /\ q.id = i /\ q.patch = Whole(p) /\ q.at = "store"
        /\ q.todo = {} /\ q.count = 0 /\ q.erase = FALSE
    BY DEF Idle
  <1> HIDE DEF q
  <1>7. req'[r] = q /\ Others(r)  BY <1>3, <1>5 DEF TypeOK, Others
  <1> QED  BY <1>4, <1>6, <1>7, <1>8 DEF BeginConnect

LEMMA CreateDoes ==
  ASSUME TypeOK, NEW r \in Req, Create(r)
  PROVE  /\ Others(r) /\ req[r] = Idle /\ stage = "up" /\ lock = Free /\ lock' = r
         /\ req'[r].kind = "create" /\ req'[r].id \in Id \ minted /\ req'[r].at = "open"
         /\ req'[r].todo = {} /\ req'[r].patch = NoPatch /\ req'[r].erase = FALSE
         /\ control' = [control EXCEPT !.accounts = @ \cup {req'[r].id}]
         /\ minted' = minted \cup {req'[r].id}
  <1>1. PICK i \in Id \ minted :
          /\ control' = [control EXCEPT !.accounts = @ \cup {i}]
          /\ minted' = minted \cup {i}
          /\ req' = [req EXCEPT ![r] = [Idle EXCEPT !.kind = "create", !.id = i, !.at = "open"]]
    BY DEF Create
  <1> DEFINE q == [Idle EXCEPT !.kind = "create", !.id = i, !.at = "open"]
  <1>2. q \in Request  BY IdleTypes DEF Request, Steps
  <1>3. /\ q.kind = "create" /\ q.id = i /\ q.at = "open" /\ q.todo = {} /\ q.patch = NoPatch
        /\ q.erase = FALSE
    BY DEF Idle
  <1> HIDE DEF q
  <1>4. req' = [req EXCEPT ![r] = q]  BY <1>1 DEF q
  <1>5. req'[r] = q /\ Others(r)  BY <1>2, <1>4 DEF TypeOK, Others
  <1> QED  BY <1>1, <1>3, <1>5 DEF Create

LEMMA RemoveDoes ==
  ASSUME TypeOK, NEW r \in Req, Remove(r)
  PROVE  /\ Others(r) /\ req[r] = Idle /\ stage = "up" /\ lock = Free /\ lock' = r
         /\ req'[r].kind = "remove" /\ req'[r].id \in registered /\ req'[r].at = "stop"
         /\ req'[r].todo = {} /\ req'[r].patch = NoPatch
         /\ registered' = registered \ {req'[r].id}
  <1>1. PICK i \in registered, erase \in BOOLEAN :
          /\ registered' = registered \ {i}
          /\ req' = [req EXCEPT ![r] = [Idle EXCEPT !.kind = "remove", !.id = i, !.at = "stop",
                                                   !.erase = erase]]
    BY DEF Remove
  <1> DEFINE q == [Idle EXCEPT !.kind = "remove", !.id = i, !.at = "stop", !.erase = erase]
  <1>2. q \in Request
    <2>1. i \in Id  BY DEF TypeOK
    <2> QED  BY <2>1, IdleTypes DEF Request, Steps
  <1>3. q.kind = "remove" /\ q.id = i /\ q.at = "stop" /\ q.todo = {} /\ q.patch = NoPatch
    BY DEF Idle
  <1> HIDE DEF q
  <1>4. req' = [req EXCEPT ![r] = q]  BY <1>1 DEF q
  <1>5. req'[r] = q /\ Others(r)  BY <1>2, <1>4 DEF TypeOK, Others
  <1> QED  BY <1>1, <1>3, <1>5 DEF Remove

\* What a type-correct state says of a request and what it can change.
LEMMA RequestTypes ==
  ASSUME TypeOK, NEW r \in Req
  PROVE  /\ req \in [Req -> Request] /\ req[r] \in Request
         /\ req[r].at \in Steps /\ req[r].kind \in {"none", "save", "connect", "create", "remove"}
         /\ req[r].id \in Id \cup {NoId} /\ req[r].patch \in [Setting -> Entry]
         /\ req[r].erase \in BOOLEAN /\ req[r].stored \in Row /\ req[r].count \in Nat
         /\ req[r].todo \in SUBSET Id /\ req[r].of \in Id \cup {NoId}
         /\ req[r].graph \in Graph \cup {NoGraph} /\ req[r].recapped \in BOOLEAN
  <1>1. req \in [Req -> Request]  BY DEF TypeOK
  <1>2. req[r] \in Request  BY <1>1
  <1> HIDE DEF Steps
  <1> QED  BY <1>1, <1>2 DEF Request

LEMMA BlankIsRow == Blank \in Row
  BY DEF Blank, Row, Entry

LEMMA ReadAccountRowDoes ==
  ASSUME TypeOK, NEW r \in Req, ReadAccountRow(r), dirs[req[r].id] \in Db
  PROVE  /\ Continues(r, "write") /\ req'[r].stored = dirs[req[r].id].row
         /\ req'[r].todo = req[r].todo /\ req'[r].of = req[r].of /\ req'[r].graph = req[r].graph
         /\ req'[r].count = req[r].count
  <1> DEFINE row == dirs[req[r].id].row
             q == [req[r] EXCEPT !.stored = row, !.at = "write"]
  <1>1. req' = [req EXCEPT ![r] = q] /\ row \in Row
    BY DEF ReadAccountRow, Db
  <1> HIDE DEF row
  <1>2. q \in Request /\ q.at = "write" /\ q.stored = row
    BY <1>1, RequestTypes DEF Request, Steps
  <1>3. /\ q.kind = req[r].kind /\ q.id = req[r].id /\ q.patch = req[r].patch
        /\ q.erase = req[r].erase /\ q.todo = req[r].todo /\ q.of = req[r].of
        /\ q.graph = req[r].graph /\ q.count = req[r].count
    BY RequestTypes DEF Request
  <1> HIDE DEF q
  <1>4. req'[r] = q /\ Others(r)  BY <1>1, <1>2, RequestTypes DEF Others
  <1> QED  BY <1>2, <1>3, <1>4 DEF Continues, row

LEMMA ReadGlobalRowDoes ==
  ASSUME TypeOK, NEW r \in Req, ReadGlobalRow(r), control \in Control
  PROVE  /\ Continues(r, "write global") /\ req'[r].stored = control.row
         /\ req'[r].todo = req[r].todo /\ req'[r].of = req[r].of /\ req'[r].graph = req[r].graph
         /\ req'[r].count = req[r].count
  <1> DEFINE row == control.row
             q == [req[r] EXCEPT !.stored = row, !.at = "write global"]
  <1>1. req' = [req EXCEPT ![r] = q] /\ row \in Row
    BY DEF ReadGlobalRow, Control
  <1> HIDE DEF row
  <1>2. q \in Request /\ q.at = "write global" /\ q.stored = row
    BY <1>1, RequestTypes DEF Request, Steps
  <1>3. /\ q.kind = req[r].kind /\ q.id = req[r].id /\ q.patch = req[r].patch
        /\ q.erase = req[r].erase /\ q.todo = req[r].todo /\ q.of = req[r].of
        /\ q.graph = req[r].graph /\ q.count = req[r].count
    BY RequestTypes DEF Request
  <1> HIDE DEF q
  <1>4. req'[r] = q /\ Others(r)  BY <1>1, <1>2, RequestTypes DEF Others
  <1> QED  BY <1>2, <1>3, <1>4 DEF Continues, row

LEMMA WriteAccountRowDoes ==
  ASSUME TypeOK, NEW r \in Req, WriteAccountRow(r), req[r].id \in Id, dirs[req[r].id] \in Db
  PROVE  /\ Continues(r, AfterAccountHalf(req[r].patch))
         /\ AfterAccountHalf(req[r].patch) \in {"read global", "build"}
         /\ req'[r].todo = req[r].todo /\ req'[r].of = req[r].of /\ req'[r].graph = req[r].graph
         /\ req'[r].count = req[r].count
         /\ dirs' \in [Id -> Db \cup {NoDb}] /\ dirs'[req[r].id] \in Db
         /\ dirs'[req[r].id].row
              = Updated(dirs[req[r].id].row, req[r].stored, req[r].patch, AccountKey)
         /\ dirs'[req[r].id].old = dirs[req[r].id].old
         /\ \A i \in Id \ {req[r].id} : dirs'[i] = dirs[i]
  <1> DEFINE at == AfterAccountHalf(req[r].patch)
             q == [req[r] EXCEPT !.stored = Blank, !.at = at]
             i == req[r].id
             row == Updated(dirs[i].row, req[r].stored, req[r].patch, AccountKey)
             d == [dirs[i] EXCEPT !.row = row]
  <1>1. at \in {"read global", "build"}  BY DEF AfterAccountHalf
  <1>2. req' = [req EXCEPT ![r] = q] /\ dirs' = [dirs EXCEPT ![i] = d]
    BY DEF WriteAccountRow
  <1>3. row \in Row
    BY RequestTypes, UpdatedTypes DEF Setting, Db
  <1>4. d \in Db /\ d.row = row /\ d.old = dirs[i].old
    BY <1>3 DEF Db
  <1>5. dirs \in [Id -> Db \cup {NoDb}]  BY DEF TypeOK, StoreTypes
  <1>6. q \in Request /\ q.at = at
    <2>1. at \in Steps  BY <1>1 DEF Steps
    <2> QED  BY <2>1, BlankIsRow, RequestTypes DEF Request
  <1>7. /\ q.kind = req[r].kind /\ q.id = req[r].id /\ q.patch = req[r].patch
        /\ q.erase = req[r].erase /\ q.todo = req[r].todo /\ q.of = req[r].of
        /\ q.graph = req[r].graph /\ q.count = req[r].count
    BY RequestTypes DEF Request
  <1> HIDE DEF q, at, d, row
  <1>8. req'[r] = q /\ Others(r)  BY <1>2, <1>6, RequestTypes DEF Others
  <1>9. /\ dirs' \in [Id -> Db \cup {NoDb}] /\ dirs'[i] = d
        /\ \A j \in Id \ {i} : dirs'[j] = dirs[j]
    BY <1>2, <1>4, <1>5
  <1> QED  BY <1>1, <1>4, <1>6, <1>7, <1>8, <1>9 DEF Continues, at, row

LEMMA WriteGlobalRowDoes ==
  ASSUME TypeOK, NEW r \in Req, WriteGlobalRow(r), control \in Control
  PROVE  /\ Continues(r, "limit")
         /\ req'[r].todo = req[r].todo /\ req'[r].of = req[r].of /\ req'[r].graph = req[r].graph
         /\ req'[r].count = req[r].count
         /\ control' \in Control
         /\ control'.row = Updated(control.row, req[r].stored, req[r].patch, GlobalKey)
         /\ control'.accounts = control.accounts /\ control'.bare = control.bare
  <1> DEFINE q == [req[r] EXCEPT !.stored = Blank, !.at = "limit"]
             row == Updated(control.row, req[r].stored, req[r].patch, GlobalKey)
  <1>2. req' = [req EXCEPT ![r] = q] /\ control' = [control EXCEPT !.row = row]
    BY DEF WriteGlobalRow
  <1>3. row \in Row
    BY RequestTypes, UpdatedTypes DEF Setting, Control
  <1>6. q \in Request /\ q.at = "limit"
    BY BlankIsRow, RequestTypes DEF Request, Steps
  <1>7. /\ q.kind = req[r].kind /\ q.id = req[r].id /\ q.patch = req[r].patch
        /\ q.erase = req[r].erase /\ q.todo = req[r].todo /\ q.of = req[r].of
        /\ q.graph = req[r].graph /\ q.count = req[r].count
    BY RequestTypes DEF Request
  <1> HIDE DEF q, row
  <1>8. req'[r] = q /\ Others(r)  BY <1>2, <1>6, RequestTypes DEF Others
  <1>9. /\ control' \in Control /\ control'.row = row
        /\ control'.accounts = control.accounts /\ control'.bare = control.bare
    BY <1>2, <1>3 DEF Control
  <1> QED  BY <1>6, <1>7, <1>8, <1>9 DEF Continues, row

LEMMA StoreCredentialDoes ==
  ASSUME TypeOK, NEW r \in Req, StoreCredential(r), req[r].id \in Id, dirs[req[r].id] \in Db,
         req[r].count < Cardinality(CredKey)
  PROVE  /\ Continues(r, IF req[r].count + 1 = Cardinality(CredKey) THEN "build" ELSE "store")
         /\ req'[r].todo = req[r].todo /\ req'[r].of = req[r].of /\ req'[r].graph = req[r].graph
         /\ req'[r].count = req[r].count + 1 /\ req'[r].count <= Cardinality(CredKey)
         /\ Credentials[req[r].count + 1] \in CredKey
         /\ dirs' \in [Id -> Db \cup {NoDb}] /\ dirs'[req[r].id] \in Db
         /\ dirs'[req[r].id].row
              = [dirs[req[r].id].row EXCEPT ![Credentials[req[r].count + 1]]
                                              = req[r].patch[Credentials[req[r].count + 1]]]
         /\ dirs'[req[r].id].old = dirs[req[r].id].old
         /\ \A i \in Id \ {req[r].id} : dirs'[i] = dirs[i]
  <1> DEFINE n == req[r].count + 1
             k == Credentials[n]
             at == IF n = Cardinality(CredKey) THEN "build" ELSE "store"
             q == [req[r] EXCEPT !.count = n, !.at = at]
             i == req[r].id
             row == [dirs[i].row EXCEPT ![k] = req[r].patch[k]]
             d == [dirs[i] EXCEPT !.row = row]
  <1>1. at \in {"store", "build"}  OBVIOUS
  <1>2. Cardinality(CredKey) \in Nat /\ req[r].count \in Nat
    BY PlacesAssumption, FS_CardinalityType, RequestTypes
  <1>3. n \in 1 .. Cardinality(CredKey)  BY <1>2
  <1>4. k \in CredKey
    <2>1. n \in DOMAIN Credentials  BY <1>3, PlacesAssumption
    <2> QED  BY <2>1 DEF CredKey
  <1>5. req' = [req EXCEPT ![r] = q] /\ dirs' = [dirs EXCEPT ![i] = d]
    BY DEF StoreCredential
  <1> HIDE DEF k, at, n
  <1>6. row \in Row
    <2>1. dirs[i].row \in Row  BY DEF Db
    <2>2. req[r].patch[k] \in Entry  BY <1>4, RequestTypes DEF Setting
    <2>3. k \in Key  BY <1>4 DEF Key
    <2> QED  BY <2>1, <2>2, <2>3 DEF Row
  <1>7. d \in Db /\ d.row = row /\ d.old = dirs[i].old
    BY <1>6 DEF Db
  <1>8. dirs \in [Id -> Db \cup {NoDb}]  BY DEF TypeOK, StoreTypes
  <1>9. q \in Request /\ q.at = at /\ q.count = n
    <2>1. at \in Steps  BY <1>1 DEF Steps
    <2>2. n \in Nat  BY <1>2, <1>3
    <2> QED  BY <2>1, <2>2, RequestTypes DEF Request
  <1>10. /\ q.kind = req[r].kind /\ q.id = req[r].id /\ q.patch = req[r].patch
         /\ q.erase = req[r].erase /\ q.todo = req[r].todo /\ q.of = req[r].of
         /\ q.graph = req[r].graph
    BY RequestTypes DEF Request
  <1> HIDE DEF q, d, row
  <1>11. req'[r] = q /\ Others(r)  BY <1>5, <1>9, RequestTypes DEF Others
  <1>12. /\ dirs' \in [Id -> Db \cup {NoDb}] /\ dirs'[i] = d
         /\ \A j \in Id \ {i} : dirs'[j] = dirs[j]
    BY <1>5, <1>7, <1>8
  <1> QED  BY <1>2, <1>3, <1>4, <1>7, <1>9, <1>10, <1>11, <1>12 DEF Continues, at, row, k, n

LEMMA LimiterTypes ==
  ASSUME NEW k \in GlobalKey, NEW limit \in Value \cup {Unset}, NEW n \in Nat
  PROVE  NewLimiter(k, limit, n) \in Limiter /\ NewLimiter(k, limit, n).limit = limit
  BY DEF NewLimiter, Limiter

LEMMA ValidTypes == ASSUME NEW e PROVE Valid(e) \in Value \cup {Unset}
  BY DEF Valid

\* Everyone with a row gets the new limiters.
LEMMA LimitDoes ==
  ASSUME TypeOK, NEW r \in Req, Limit(r), All \subseteq Known
  PROVE  /\ Continues(r, "fan out")
         /\ req'[r].todo = IF AccountPart(req[r].patch) = {} THEN All ELSE All \ {req[r].id}
         /\ req'[r].count = req[r].count
         /\ lock = Free /\ lock' = IF AccountPart(req[r].patch) = {} THEN r ELSE Free
         /\ limiter' \in Limiters
         /\ \A k \in GlobalKey : limiter'[k].limit = IF req[r].patch[k] # Absent
                                                     THEN Valid(req[r].patch[k])
                                                     ELSE limiter[k].limit
         /\ built' \in Nat
         /\ services' \in [Id -> Graph \cup {NoGraph}]
         /\ \A i \in Id : services'[i].settings = services[i].settings
         /\ \A i \in All : services'[i] \in Graph /\ services'[i].limiters = limiter'
         /\ \A i \in Id \ All : services'[i] = services[i]
  <1> DEFINE todo == IF AccountPart(req[r].patch) = {} THEN All ELSE All \ {req[r].id}
             q == [req[r] EXCEPT !.todo = todo, !.at = "fan out"]
  <1>1. req' = [req EXCEPT ![r] = q]
    BY DEF Limit
  <1>2. todo \in SUBSET Id  BY DEF All, TypeOK
  <1>3. q \in Request /\ q.at = "fan out" /\ q.todo = todo
    <2>1. "fan out" \in Steps  BY DEF Steps
    <2> QED  BY <1>2, <2>1, RequestTypes DEF Request
  <1>4. /\ q.kind = req[r].kind /\ q.id = req[r].id /\ q.patch = req[r].patch
        /\ q.erase = req[r].erase /\ q.count = req[r].count
    BY RequestTypes DEF Request
  <1> HIDE DEF q, todo
  <1>5. req'[r] = q /\ Others(r)  BY <1>1, <1>3, RequestTypes DEF Others
  <1>6. /\ lock = Free /\ built' = built + 1 /\ built \in Nat /\ limiter \in Limiters
        /\ lock' = IF AccountPart(req[r].patch) = {} THEN r ELSE Free
        /\ limiter' = [k \in GlobalKey |->
                         IF k \in GlobalPart(req[r].patch)
                         THEN NewLimiter(k, Valid(req[r].patch[k]), built + 1) ELSE limiter[k]]
        /\ services' = [i \in Id |-> IF i \in All
                                     THEN [services[i] EXCEPT !.limiters = limiter']
                                     ELSE services[i]]
    BY DEF Limit, TypeOK
  <1>7. \A k \in GlobalKey :
           /\ NewLimiter(k, Valid(req[r].patch[k]), built + 1) \in Limiter
           /\ NewLimiter(k, Valid(req[r].patch[k]), built + 1).limit = Valid(req[r].patch[k])
    BY <1>6, LimiterTypes, ValidTypes
  <1>8. /\ limiter' \in Limiters
        /\ \A k \in GlobalKey : limiter'[k].limit = IF req[r].patch[k] # Absent
                                                    THEN Valid(req[r].patch[k])
                                                    ELSE limiter[k].limit
    BY <1>6, <1>7 DEF Limiters, GlobalPart
  <1>9. services \in [Id -> Graph \cup {NoGraph}] /\ All \subseteq Id
    BY DEF TypeOK, All
  <1>10. ASSUME NEW i \in All
         PROVE  /\ services[i] \in Graph
                /\ [services[i] EXCEPT !.limiters = limiter'] \in Graph
                /\ [services[i] EXCEPT !.limiters = limiter'].limiters = limiter'
                /\ [services[i] EXCEPT !.limiters = limiter'].settings = services[i].settings
    <2>1. services[i] \in Graph  BY <1>9 DEF Known
    <2> QED  BY <1>8, <2>1 DEF Graph
  <1>11. /\ services' \in [Id -> Graph \cup {NoGraph}]
         /\ \A i \in Id : services'[i].settings = services[i].settings
         /\ \A i \in All : services'[i] \in Graph /\ services'[i].limiters = limiter'
         /\ \A i \in Id \ All : services'[i] = services[i]
    BY <1>6, <1>9, <1>10
  <1>12. Continues(r, "fan out") /\ req'[r].todo = todo /\ req'[r].count = req[r].count
    BY <1>3, <1>4, <1>5 DEF Continues
  <1>13. built' \in Nat  BY <1>6
  <1> QED  BY <1>6, <1>8, <1>11, <1>12, <1>13 DEF todo

LEMMA BuildGraphDoes ==
  ASSUME TypeOK, NEW r \in Req, NEW i \in Id, NEW K \in SUBSET Setting, BuildGraph(r, i, K),
         services[i] \in Graph
  PROVE  /\ Continues(r, "install")
         /\ req'[r].todo = req[r].todo \ {i} /\ req'[r].of = i /\ req'[r].count = req[r].count
         /\ req'[r].graph \in Graph
         /\ \A k \in Setting :
               req'[r].graph.settings[k] = IF k \in K /\ req[r].patch[k] # Absent
                                           THEN Valid(req[r].patch[k]) ELSE services[i].settings[k]
         /\ req'[r].graph.limiters = services[i].limiters
  <1> DEFINE settings == Replaced(services[i].settings, req[r].patch, K)
             graph == [settings |-> settings, limiters |-> services[i].limiters]
             todo == req[r].todo \ {i}
             recapped == services[i].settings[CapKey] # settings[CapKey]
             q == [req[r] EXCEPT !.of = i, !.at = "install", !.todo = todo, !.graph = graph,
                                 !.recapped = recapped]
  <1>1. req' = [req EXCEPT ![r] = q]
    BY DEF BuildGraph
  <1>2. settings \in [Setting -> Value \cup {Unset}]
    BY ValidTypes DEF Replaced, Graph
  <1>8. \A k \in Setting :
           settings[k] = IF k \in K /\ req[r].patch[k] # Absent
                         THEN Valid(req[r].patch[k]) ELSE services[i].settings[k]
    BY DEF Replaced
  <1>3. graph \in Graph /\ graph.settings = settings /\ graph.limiters = services[i].limiters
    BY <1>2 DEF Graph
  <1>4. recapped \in BOOLEAN /\ todo \in SUBSET Id  BY RequestTypes
  <1> HIDE DEF settings, graph, recapped, todo
  <1>5. /\ q \in Request /\ q.at = "install" /\ q.todo = todo /\ q.graph = graph /\ q.of = i
    <2>1. "install" \in Steps  BY DEF Steps
    <2> QED  BY <1>3, <1>4, <2>1, RequestTypes DEF Request
  <1>6. /\ q.kind = req[r].kind /\ q.id = req[r].id /\ q.patch = req[r].patch
        /\ q.erase = req[r].erase /\ q.count = req[r].count
    BY RequestTypes DEF Request
  <1> HIDE DEF q
  <1>7. req'[r] = q /\ Others(r)  BY <1>1, <1>5, RequestTypes DEF Others
  <1> QED  BY <1>3, <1>5, <1>6, <1>7, <1>8 DEF Continues, todo

LEMMA InstallDoes ==
  ASSUME TypeOK, NEW r \in Req, Install(r), req[r].of \in Known, req[r].graph \in Graph
  PROVE  /\ Continues(r, "replace")
         /\ req'[r].todo = req[r].todo /\ req'[r].of = req[r].of /\ req'[r].graph = req[r].graph
         /\ req'[r].count = req[r].count
         /\ services' \in [Id -> Graph \cup {NoGraph}]
         /\ services'[req[r].of] \in Graph
         /\ services'[req[r].of].settings = req[r].graph.settings
         /\ services'[req[r].of].limiters = services[req[r].of].limiters
         /\ \A i \in Id \ {req[r].of} : services'[i] = services[i]
  <1> DEFINE q == [req[r] EXCEPT !.at = "replace"]
             i == req[r].of
             g == [services[i] EXCEPT !.settings = req[r].graph.settings]
  <1>1. req' = [req EXCEPT ![r] = q] /\ services' = [services EXCEPT ![i] = g]
    BY DEF Install, Goto
  <1>2. q \in Request /\ q.at = "replace"
    BY RequestTypes DEF Request, Steps
  <1>3. /\ q.kind = req[r].kind /\ q.id = req[r].id /\ q.patch = req[r].patch
        /\ q.erase = req[r].erase /\ q.todo = req[r].todo /\ q.of = req[r].of
        /\ q.graph = req[r].graph /\ q.count = req[r].count
    BY RequestTypes DEF Request
  <1> HIDE DEF q
  <1>4. req'[r] = q /\ Others(r)  BY <1>1, <1>2, RequestTypes DEF Others
  <1>5. services \in [Id -> Graph \cup {NoGraph}] /\ i \in Id /\ services[i] \in Graph
    BY DEF TypeOK, Known
  <1>6. /\ g \in Graph /\ g.settings = req[r].graph.settings
        /\ g.limiters = services[i].limiters
    BY <1>5 DEF Graph
  <1> HIDE DEF g
  <1>7. /\ services' \in [Id -> Graph \cup {NoGraph}] /\ services'[i] = g
        /\ \A j \in Id \ {i} : services'[j] = services[j]
    BY <1>1, <1>5, <1>6
  <1> QED  BY <1>2, <1>3, <1>4, <1>6, <1>7 DEF Continues

LEMMA SwapInDoes ==
  ASSUME TypeOK, NEW r \in Req, SwapIn(r), req[r].of \in Id, req[r].graph \in Graph
  PROVE  /\ loops' \in [Id -> Graph \cup {NoGraph}]
         /\ loops'[req[r].of] = req[r].graph
         /\ \A i \in Id \ {req[r].of} : loops'[i] = loops[i]
  BY DEF TypeOK, SwapIn

\* The next account's turn, or the end.
LEMMA ReplaceDoes ==
  ASSUME TypeOK, NEW r \in Req, Replace(r)
  PROVE  \/ /\ req[r].of # req[r].id \/ lock = r
            /\ Continues(r, "fan out") /\ lock' = lock
            /\ req'[r].todo = req[r].todo /\ req'[r].count = req[r].count
         \/ /\ req[r].of = req[r].id /\ lock # r
            /\ End(r)
  <1>1. CASE req[r].of # req[r].id \/ lock = r
    <2> DEFINE q == [req[r] EXCEPT !.at = "fan out", !.of = NoId, !.graph = NoGraph,
                                   !.recapped = FALSE]
    <2>1. req' = [req EXCEPT ![r] = q] /\ lock' = lock
      BY <1>1 DEF Replace
    <2>2. q \in Request /\ q.at = "fan out"
      <3>1. "fan out" \in Steps  BY DEF Steps
      <3> QED  BY <3>1, RequestTypes DEF Request
    <2>3. /\ q.kind = req[r].kind /\ q.id = req[r].id /\ q.patch = req[r].patch
          /\ q.erase = req[r].erase /\ q.todo = req[r].todo /\ q.count = req[r].count
      BY RequestTypes DEF Request
    <2> HIDE DEF q
    <2>4. req'[r] = q /\ Others(r)  BY <2>1, <2>2, RequestTypes DEF Others
    <2> QED  BY <1>1, <2>1, <2>2, <2>3, <2>4 DEF Continues
  <1>2. CASE ~ (req[r].of # req[r].id \/ lock = r)
    BY <1>2 DEF Replace
  <1> QED  BY <1>1, <1>2

LEMMA MergedTypes ==
  ASSUME NEW shared \in Row, NEW own \in Row
  PROVE  MergedSettings(shared, own) \in [Setting -> Value \cup {Unset}]
  BY ValidTypes DEF MergedSettings

LEMMA OpenedTypes ==
  ASSUME TypeOK, NEW i \in Id
  PROVE  Opened(i) \in Db /\ (dirs[i] # NoDb => Opened(i) = dirs[i])
         /\ (dirs[i] = NoDb => ~Opened(i).old)
  BY BlankIsRow DEF TypeOK, StoreTypes, Opened, EmptyDb, Db

LEMMA OpenAccountDoes ==
  ASSUME TypeOK, NEW r \in Req, OpenAccount(r), req[r].id \in Id, control \in Control
  PROVE  /\ Continues(r, "register")
         /\ req'[r].todo = req[r].todo
         /\ dirs' \in [Id -> Db \cup {NoDb}] /\ dirs'[req[r].id] = Opened(req[r].id)
         /\ \A i \in Id \ {req[r].id} : dirs'[i] = dirs[i]
         /\ req'[r].graph \in Graph
         /\ req'[r].graph.settings = MergedSettings(control.row, Opened(req[r].id).row)
         /\ req'[r].graph.limiters = limiter
  <1> DEFINE db == Opened(req[r].id)
             settings == MergedSettings(control.row, db.row)
             graph == [settings |-> settings, limiters |-> limiter]
             q == [req[r] EXCEPT !.at = "register", !.graph = graph]
  <1>1. req' = [req EXCEPT ![r] = q] /\ dirs' = [dirs EXCEPT ![req[r].id] = db]
    BY DEF OpenAccount
  <1>2. db \in Db  BY OpenedTypes
  <1>3. settings \in [Setting -> Value \cup {Unset}]
    BY <1>2, MergedTypes DEF Db, Control
  <1>4. graph \in Graph /\ graph.settings = settings /\ graph.limiters = limiter
    BY <1>3 DEF Graph, TypeOK
  <1> HIDE DEF db, settings, graph
  <1>5. q \in Request /\ q.at = "register" /\ q.graph = graph
    BY <1>4, RequestTypes DEF Request, Steps
  <1>6. /\ q.kind = req[r].kind /\ q.id = req[r].id /\ q.patch = req[r].patch
        /\ q.erase = req[r].erase /\ q.todo = req[r].todo
    BY RequestTypes DEF Request
  <1> HIDE DEF q
  <1>7. req'[r] = q /\ Others(r)  BY <1>1, <1>5, RequestTypes DEF Others
  <1>8. /\ dirs' \in [Id -> Db \cup {NoDb}] /\ dirs'[req[r].id] = db
        /\ \A i \in Id \ {req[r].id} : dirs'[i] = dirs[i]
    BY <1>1, <1>2 DEF TypeOK, StoreTypes
  <1> QED  BY <1>4, <1>5, <1>6, <1>7, <1>8 DEF Continues, db, settings

LEMMA GotoDoes ==
  ASSUME TypeOK, NEW r \in Req, NEW step \in Steps, Goto(r, step)
  PROVE  Continues(r, step) /\ req'[r].todo = req[r].todo
  <1> DEFINE q == [req[r] EXCEPT !.at = step]
  <1>1. req' = [req EXCEPT ![r] = q]  BY DEF Goto
  <1>2. q \in Request /\ q.at = step
    BY RequestTypes DEF Request
  <1>3. /\ q.kind = req[r].kind /\ q.id = req[r].id /\ q.patch = req[r].patch
        /\ q.erase = req[r].erase /\ q.todo = req[r].todo
    BY RequestTypes DEF Request
  <1> HIDE DEF q
  <1>4. req'[r] = q /\ Others(r)  BY <1>1, <1>2, RequestTypes DEF Others
  <1> QED  BY <1>2, <1>3, <1>4 DEF Continues

-----------------------------------------------------------------------------
(* Requests, the lock, and the accounts they are about. *)

LEMMA UpAndControlled ==
  ASSUME StructureInv, NEW r \in Req, InFlight(r)
  PROVE  stage = "up" /\ control \in Control
  <1>1. stage = "up"  BY DEF StructureInv, BootInv
  <1> QED  BY <1>1 DEF StructureInv, BootInv, TypeOK, StoreTypes

LEMMA BootUp ==
  ASSUME stage' = "up", Existing' \subseteq minted', control' # NoControl,
         control'.accounts \subseteq minted'
  PROVE  BootInv'
  BY DEF BootInv

LEMMA DoneFits == Shape(Done)
  BY IdleTypes DEF Shape

LEMMA ShapesKept ==
  ASSUME Shapes, NEW r \in Req, Others(r), Shape(req'[r])
  PROVE  Shapes'
  <1>1. \A s \in Req \ {r} : req'[s] = req[s]  BY DEF Others
  <1>2. \A s \in Req : Shape(req'[s])  BY <1>1 DEF Shapes
  <1> QED  BY <1>2 DEF Shapes, Shape

\* At most one request adds or removes an account.
LEMMA OneLocks ==
  ASSUME LockInv, NEW r \in Req, NEW s \in Req, req[r].at \in Locking, req[s].at \in Locking
  PROVE  r = s
  BY DEF LockInv, Locks

LEMMA LocksKept ==
  ASSUME LockInv, NEW r \in Req, Others(r), Locks(r)',
         \A s \in Req \ {r} : lock' = s <=> lock = s
  PROVE  LockInv'
  <1>1. ASSUME NEW s \in Req \ {r} PROVE Locks(s)'
    <2>1. req'[s] = req[s]  BY DEF Others
    <2> QED  BY <2>1 DEF LockInv, Locks, Saving, InFlight
  <1> QED  BY <1>1 DEF LockInv

LEMMA EndLocks ==
  ASSUME StructureInv, NEW r \in Req, End(r)
  PROVE  /\ Others(r) /\ req'[r] = Done /\ Shapes' /\ LockInv'
         /\ lock' \in Req \cup {Free}
         /\ \A s \in Req \ {r} : lock' = s <=> lock = s
  <1>1. Others(r) /\ req'[r] = Done /\ lock' = IF lock = r THEN Free ELSE lock
    BY EndDoes DEF StructureInv
  <1>2. Shapes'  BY <1>1, DoneFits, ShapesKept DEF StructureInv
  <1>3. lock \in Req \cup {Free} /\ lock' \in Req \cup {Free} /\ lock' # r
    BY <1>1, AccountsAssumption DEF StructureInv, TypeOK
  <1>4. \A s \in Req \ {r} : lock' = s <=> lock = s
    BY <1>1, AccountsAssumption
  <1>5. Locks(r)'  BY <1>1, <1>3, IdleTypes DEF Locks, Locking, Saving
  <1> QED  BY <1>1, <1>2, <1>3, <1>4, <1>5, LocksKept DEF StructureInv

\* What a step of r leaves of the other requests' knowledge.
LEMMA PlacedKept ==
  ASSUME \A s \in Req : Placed(s), NEW r \in Req, Others(r), Placed(r)',
         Known \subseteq Known', minted \subseteq minted', registered' \subseteq registered,
         \A s \in Req \ {r} : req[s].kind = "create" =>
            /\ req[s].id \notin (Known' \cup erased') \ (Known \cup erased)
            /\ req[s].id \in control.accounts => req[s].id \in control'.accounts
            /\ req[s].id \in Existing => req[s].id \in Existing'
  PROVE  \A s \in Req : Placed(s)'
  <1>1. ASSUME NEW s \in Req \ {r} PROVE Placed(s)'
    <2>1. req'[s] = req[s]  BY DEF Others
    <2>2. (Saving(s)' <=> Saving(s)) /\ Concerns(s)' = Concerns(s)
      BY <2>1 DEF Saving, InFlight, Concerns
    <2>3. Placed(s)  OBVIOUS
    <2>4. Saving(s) => Concerns(s) \subseteq Known'  BY <2>3 DEF Placed
    <2>5. req[s].kind = "create" =>
             /\ req[s].id \in minted' \ (Known' \cup erased')
             /\ req[s].id \in control'.accounts
             /\ req[s].at = "register" => req[s].id \in Existing'
      BY <2>3 DEF Placed
    <2>6. req[s].kind = "remove" => req[s].id \in Known' \ registered'
      BY <2>3 DEF Placed
    <2> QED  BY <2>1, <2>2, <2>4, <2>5, <2>6 DEF Placed
  <1> QED  BY <1>1

\* A step of a settings request, which gives no account and takes none.
LEMMA SavingKeeps ==
  ASSUME StructureInv, NEW r \in Req, Others(r), TypeOK', Shape(req'[r]), Locks(r)',
         stage = "up", UNCHANGED <<minted, stage, registered, alive, closed, erased>>,
         \A s \in Req \ {r} : lock' = s <=> lock = s,
         Existing' = Existing, Known' = Known,
         control' # NoControl, control'.accounts = control.accounts,
         \A i \in Known : loops'[i] # NoGraph,
         Placed(r)'
  PROVE  StructureInv'
  <1>1. BootInv'  BY BootUp DEF StructureInv, BootInv
  <1>2. Shapes'  BY ShapesKept DEF StructureInv
  <1>3. LockInv'  BY LocksKept DEF StructureInv
  <1>4. \A s \in Req : Placed(s)'  BY PlacedKept DEF StructureInv, AccountInv
  <1>5. AccountInv'  BY <1>4 DEF StructureInv, AccountInv
  <1> QED  BY <1>1, <1>2, <1>3, <1>5 DEF StructureInv

\* The end of a settings request.
LEMMA SavingEnds ==
  ASSUME StructureInv, NEW r \in Req, Saving(r), End(r), TypeOK',
         UNCHANGED <<dirs, control, minted, stage, registered, alive, closed, erased>>,
         Known' = Known, \A i \in Known : loops'[i] # NoGraph
  PROVE  StructureInv'
  <1>1. Others(r) /\ req'[r] = Done /\ Shapes' /\ LockInv'  BY EndLocks
  <1>2. stage = "up" /\ control \in Control  BY UpAndControlled DEF Saving
  <1>3. Existing' = Existing  BY DEF Existing
  <1>4. BootInv'  BY <1>2, <1>3, BootUp, PlacesAssumption DEF StructureInv, BootInv
  <1>5. Placed(r)'  BY <1>1, IdleTypes DEF Placed, Saving
  <1>6. \A s \in Req : Placed(s)'  BY <1>1, <1>3, <1>5, PlacedKept DEF StructureInv, AccountInv
  <1>7. AccountInv'  BY <1>3, <1>6 DEF StructureInv, AccountInv
  <1> QED  BY <1>1, <1>4, <1>7 DEF StructureInv

SavingSteps == {"read", "write", "read global", "write global", "store", "limit", "build"}
               \cup Rebuilding

LEMMA SavingAt ==
  ASSUME NEW r \in Req, Shape(req[r]), req[r].at \in Steps,
         req[r].kind \in {"none", "save", "connect", "create", "remove"}
  PROVE  /\ Saving(r) <=> req[r].at \in SavingSteps
         /\ InFlight(r) <=> req[r].kind # "none"
         /\ Saving(r) => InFlight(r) /\ req[r].id \in Id /\ req[r].at \notin Locking
  BY DEF Shape, Saving, InFlight, Steps, SavingSteps, Rebuilding, Locking

LEMMA SavingFacts ==
  ASSUME StructureInv, NEW r \in Req, req[r].at \in SavingSteps
  PROVE  /\ Saving(r) /\ Shape(req[r]) /\ Locks(r) /\ Placed(r) /\ stage = "up"
         /\ control \in Control /\ control # NoControl
         /\ req[r].id \in Known /\ (req[r].id \notin closed => dirs[req[r].id] \in Db)
         /\ req[r].id \in Id
  <1>1. Shape(req[r]) /\ Locks(r) /\ Placed(r)
    BY DEF StructureInv, Shapes, LockInv, AccountInv
  <1>2. Saving(r) /\ InFlight(r) /\ req[r].id \in Id
    BY <1>1, SavingAt, RequestTypes DEF StructureInv
  <1>3. stage = "up" /\ control \in Control  BY <1>2, UpAndControlled
  <1>4. req[r].id \in Known  BY <1>1, <1>2 DEF Placed, Concerns
  <1>5. req[r].id \notin closed => dirs[req[r].id] \in Db
    BY <1>4 DEF StructureInv, AccountInv, Existing, TypeOK, StoreTypes
  <1> QED  BY <1>1, <1>2, <1>3, <1>4, <1>5, PlacesAssumption

LEMMA ShapeGoesOn ==
  ASSUME NEW r \in Req, Shape(req[r]), Saving(r), NEW at \in SavingSteps, Continues(r, at),
         req[r].kind = "connect" => at \in {"store", "build", "install", "replace"},
         at = "store" => req[r].kind = "connect" /\ req'[r].count < Cardinality(CredKey),
         at \in {"install", "replace"} =>
            /\ req'[r].of \in Id /\ req'[r].graph \in Graph
            /\ req[r].kind = "connect" => req'[r].of = req[r].id
  PROVE  Shape(req'[r]) /\ Saving(r)'
  <1>1. /\ req'[r].at = at /\ req'[r].kind = req[r].kind /\ req'[r].id = req[r].id
        /\ req'[r].patch = req[r].patch
    BY DEF Continues
  <1>2. req[r].kind \in {"save", "connect"}  BY DEF Saving
  <1>3. at \notin {"new", "done", "open", "register", "stop", "drop", "wipe"}
    BY DEF SavingSteps, Rebuilding
  <1> QED  BY <1>1, <1>2, <1>3 DEF Shape, Saving, InFlight

\* A settings request's step on disk.
LEMMA SavingWrites ==
  ASSUME StructureInv, NEW r \in Req, req[r].at \in SavingSteps \ Rebuilding,
         NEW at \in SavingSteps, Continues(r, at), Shape(req'[r]), TypeOK',
         UNCHANGED <<minted, stage, registered, alive, closed, erased, lock, services, loops>>,
         Existing' = Existing, control' # NoControl, control'.accounts = control.accounts,
         req'[r].todo = req[r].todo,
         at \notin {"install", "replace"}
  PROVE  StructureInv'
  <1>1. Saving(r) /\ Locks(r) /\ Placed(r) /\ stage = "up"  BY SavingFacts
  <1>2. lock # r
    BY <1>1 DEF Locks, SavingSteps, Rebuilding, Locking
  <1>3. req'[r].at = at /\ req'[r].id = req[r].id /\ req'[r].kind = req[r].kind /\ Others(r)
    BY DEF Continues
  <1>4. Locks(r)'  BY <1>2, <1>3 DEF Locks, SavingSteps, Rebuilding, Locking
  <1>5. Known' = Known  BY DEF Known
  <1>6. Placed(r)'
    <2>1. req'[r].kind \notin {"create", "remove"}  BY <1>1, <1>3 DEF Saving
    <2>2. Concerns(r)' \subseteq Known
      BY <1>1, <1>3 DEF Concerns, Placed
    <2> QED  BY <1>5, <2>1, <2>2 DEF Placed
  <1>7. \A i \in Known : loops'[i] # NoGraph  BY DEF StructureInv, AccountInv
  <1>8. \A s \in Req \ {r} : lock' = s <=> lock = s  OBVIOUS
  <1> QED  BY <1>1, <1>3, <1>4, <1>5, <1>6, <1>7, <1>8, SavingKeeps

LEMMA ReadAccountRowKeeps ==
  ASSUME StructureInv, NEW r \in Req, ReadAccountRow(r)
  PROVE  StructureInv'
  <1>1. req[r].at = "read" /\ req[r].id \notin closed  BY DEF ReadAccountRow
  <1>2. req[r].at \in SavingSteps \ Rebuilding /\ "write" \in SavingSteps
    BY <1>1 DEF SavingSteps, Rebuilding
  <1>3. Saving(r) /\ Shape(req[r]) /\ dirs[req[r].id] \in Db /\ control # NoControl
    BY <1>1, <1>2, SavingFacts
  <1>4. Continues(r, "write") /\ req'[r].todo = req[r].todo
    BY <1>3, ReadAccountRowDoes DEF StructureInv
  <1>5. Shape(req'[r])
    BY <1>1, <1>2, <1>3, <1>4, ShapeGoesOn DEF Shape
  <1>6. UNCHANGED <<disk, stage, adopted, left, memory, torn, erased>>
    BY DEF ReadAccountRow
  <1>7. TypeOK'
    BY <1>4, <1>6 DEF StructureInv, TypeOK, StoreTypes, Continues, Others, disk, memory
  <1>8. Existing' = Existing  BY <1>6 DEF Existing, disk
  <1> QED
    BY <1>2, <1>3, <1>4, <1>5, <1>6, <1>7, <1>8, SavingWrites DEF disk, memory

LEMMA ReadGlobalRowKeeps ==
  ASSUME StructureInv, NEW r \in Req, ReadGlobalRow(r)
  PROVE  StructureInv'
  <1>1. req[r].at = "read global"  BY DEF ReadGlobalRow
  <1>2. req[r].at \in SavingSteps \ Rebuilding /\ "write global" \in SavingSteps
    BY <1>1 DEF SavingSteps, Rebuilding
  <1>3. Saving(r) /\ Shape(req[r]) /\ control \in Control /\ control # NoControl
    BY <1>2, SavingFacts
  <1>4. Continues(r, "write global") /\ req'[r].todo = req[r].todo
    BY <1>3, ReadGlobalRowDoes DEF StructureInv
  <1>5. Shape(req'[r])
    BY <1>1, <1>2, <1>3, <1>4, ShapeGoesOn DEF Shape
  <1>6. UNCHANGED <<disk, stage, adopted, left, memory, torn, erased>>
    BY DEF ReadGlobalRow
  <1>7. TypeOK'
    BY <1>4, <1>6 DEF StructureInv, TypeOK, StoreTypes, Continues, Others, disk, memory
  <1>8. Existing' = Existing  BY <1>6 DEF Existing, disk
  <1> QED
    BY <1>2, <1>3, <1>4, <1>5, <1>6, <1>7, <1>8, SavingWrites DEF disk, memory

\* A row written in one database creates and removes none.
LEMMA SameDatabases ==
  ASSUME NEW i \in Id, dirs[i] \in Db, dirs'[i] \in Db, \A j \in Id \ {i} : dirs'[j] = dirs[j]
  PROVE  Existing' = Existing
  BY PlacesAssumption DEF Existing

LEMMA WriteAccountRowKeeps ==
  ASSUME StructureInv, NEW r \in Req, WriteAccountRow(r)
  PROVE  StructureInv'
  <1> DEFINE at == AfterAccountHalf(req[r].patch)
  <1>1. req[r].at = "write" /\ req[r].id \notin closed  BY DEF WriteAccountRow
  <1>2. req[r].at \in SavingSteps \ Rebuilding
    BY <1>1 DEF SavingSteps, Rebuilding
  <1>3. /\ Saving(r) /\ Shape(req[r]) /\ dirs[req[r].id] \in Db /\ control # NoControl
        /\ req[r].id \in Id
    BY <1>1, <1>2, SavingFacts
  <1>4. /\ Continues(r, at) /\ req'[r].todo = req[r].todo /\ at \in {"read global", "build"}
        /\ dirs' \in [Id -> Db \cup {NoDb}] /\ dirs'[req[r].id] \in Db
        /\ \A i \in Id \ {req[r].id} : dirs'[i] = dirs[i]
    BY <1>3, WriteAccountRowDoes DEF StructureInv
  <1> HIDE DEF at
  <1>5. at \in SavingSteps /\ at \notin {"install", "replace"}  BY <1>4 DEF SavingSteps
  <1>6. Shape(req'[r])
    BY <1>1, <1>3, <1>4, <1>5, ShapeGoesOn DEF Shape
  <1>7. UNCHANGED <<legacy, control, minted, stage, adopted, left, memory, torn, erased>>
    BY DEF WriteAccountRow
  <1>8. TypeOK'
    BY <1>4, <1>7 DEF StructureInv, TypeOK, StoreTypes, Continues, Others, memory
  <1>9. Existing' = Existing  BY <1>3, <1>4, SameDatabases
  <1> QED
    BY <1>2, <1>3, <1>4, <1>5, <1>6, <1>7, <1>8, <1>9, SavingWrites DEF memory

LEMMA WriteGlobalRowKeeps ==
  ASSUME StructureInv, NEW r \in Req, WriteGlobalRow(r)
  PROVE  StructureInv'
  <1>1. req[r].at = "write global"  BY DEF WriteGlobalRow
  <1>2. req[r].at \in SavingSteps \ Rebuilding /\ "limit" \in SavingSteps
    BY <1>1 DEF SavingSteps, Rebuilding
  <1>3. Saving(r) /\ Shape(req[r]) /\ control \in Control
    BY <1>2, SavingFacts
  <1>4. /\ Continues(r, "limit") /\ req'[r].todo = req[r].todo
        /\ control' \in Control /\ control'.accounts = control.accounts
    BY <1>3, WriteGlobalRowDoes DEF StructureInv
  <1>5. Shape(req'[r])
    BY <1>1, <1>2, <1>3, <1>4, ShapeGoesOn DEF Shape
  <1>6. UNCHANGED <<legacy, dirs, minted, stage, adopted, left, memory, torn, erased>>
    BY DEF WriteGlobalRow
  <1>7. TypeOK'
    BY <1>4, <1>6 DEF StructureInv, TypeOK, StoreTypes, Continues, Others, memory
  <1>8. Existing' = Existing /\ control' # NoControl
    BY <1>4, <1>6, PlacesAssumption DEF Existing
  <1> QED
    BY <1>2, <1>3, <1>4, <1>5, <1>6, <1>7, <1>8, SavingWrites DEF memory

LEMMA StoreCredentialKeeps ==
  ASSUME StructureInv, NEW r \in Req, StoreCredential(r)
  PROVE  StructureInv'
  <1> DEFINE at == IF req[r].count + 1 = Cardinality(CredKey) THEN "build" ELSE "store"
  <1>1. req[r].at = "store" /\ req[r].id \notin closed  BY DEF StoreCredential
  <1>2. req[r].at \in SavingSteps \ Rebuilding
    BY <1>1 DEF SavingSteps, Rebuilding
  <1>3. /\ Saving(r) /\ Shape(req[r]) /\ dirs[req[r].id] \in Db /\ control # NoControl
        /\ req[r].id \in Id
    BY <1>1, <1>2, SavingFacts
  <1>4. req[r].kind = "connect" /\ req[r].count < Cardinality(CredKey)
    BY <1>1, <1>3 DEF Shape
  <1>5. /\ Continues(r, at) /\ req'[r].todo = req[r].todo
        /\ dirs' \in [Id -> Db \cup {NoDb}] /\ dirs'[req[r].id] \in Db
        /\ \A i \in Id \ {req[r].id} : dirs'[i] = dirs[i]
        /\ req'[r].count = req[r].count + 1 /\ req'[r].count <= Cardinality(CredKey)
    BY <1>3, <1>4, StoreCredentialDoes DEF StructureInv
  <1>6. at = "store" => req'[r].count < Cardinality(CredKey)
    BY <1>5, RequestTypes, PlacesAssumption, FS_CardinalityType DEF StructureInv
  <1>7. at \in {"store", "build"}  OBVIOUS
  <1> HIDE DEF at
  <1>8. at \in SavingSteps /\ at \notin {"install", "replace"}  BY <1>7 DEF SavingSteps
  <1>9. Shape(req'[r])
    BY <1>3, <1>4, <1>5, <1>6, <1>7, <1>8, ShapeGoesOn
  <1>10. UNCHANGED <<legacy, control, minted, stage, adopted, left, memory, torn, erased>>
    BY DEF StoreCredential
  <1>11. TypeOK'
    BY <1>5, <1>10 DEF StructureInv, TypeOK, StoreTypes, Continues, Others, memory
  <1>12. Existing' = Existing  BY <1>3, <1>5, SameDatabases
  <1> QED
    BY <1>2, <1>3, <1>5, <1>8, <1>9, <1>10, <1>11, <1>12, SavingWrites DEF memory

-----------------------------------------------------------------------------
(* The rebuilds. *)

\* A step of a rebuild.
LEMMA RebuildGoesOn ==
  ASSUME StructureInv, NEW r \in Req, req[r].at \in SavingSteps, NEW at \in Rebuilding,
         Continues(r, at), Shape(req'[r]), TypeOK',
         UNCHANGED <<disk, stage, registered, alive, closed, erased>>,
         \A s \in Req \ {r} : lock' = s <=> lock = s,
         lock' = r => lock = r \/ (req[r].kind = "save" /\ AccountPart(req[r].patch) = {}),
         Known' = Known, Concerns(r)' \subseteq Known, \A i \in Known : loops'[i] # NoGraph
  PROVE  StructureInv'
  <1>1. Saving(r) /\ Locks(r) /\ stage = "up" /\ control # NoControl  BY SavingFacts
  <1>2. req'[r].at = at /\ req'[r].kind = req[r].kind /\ req'[r].patch = req[r].patch /\ Others(r)
    BY DEF Continues
  <1>3. AccountPart(req'[r].patch) = AccountPart(req[r].patch)  BY <1>2
  <1>4. Locks(r)'
    BY <1>1, <1>2, <1>3 DEF Locks, Rebuilding, Locking
  <1>5. Placed(r)'
    BY <1>1, <1>2 DEF Placed, Saving
  <1>6. Existing' = Existing  BY DEF Existing, disk
  <1> QED  BY <1>1, <1>2, <1>4, <1>5, <1>6, SavingKeeps DEF disk

LEMMA EveryoneIsKnown == ASSUME StructureInv PROVE All \subseteq Known
  BY DEF StructureInv, AccountInv, All

LEMMA KnownHasGraph ==
  ASSUME TypeOK, NEW i \in Known
  PROVE  i \in Id /\ services[i] \in Graph
  BY DEF TypeOK, Known

LEMMA LimitKeeps ==
  ASSUME StructureInv, NEW r \in Req, Limit(r)
  PROVE  StructureInv'
  <1>1. req[r].at = "limit"  BY DEF Limit
  <1>2. req[r].at \in SavingSteps /\ "fan out" \in Rebuilding /\ "fan out" \in SavingSteps
    BY <1>1 DEF SavingSteps, Rebuilding
  <1>3. Saving(r) /\ Shape(req[r]) /\ req[r].id \in Known /\ req[r].kind = "save"
    BY <1>1, <1>2, SavingFacts DEF Shape, Saving
  <1>4. /\ Continues(r, "fan out") /\ req'[r].todo \subseteq All
        /\ lock = Free /\ lock' = IF AccountPart(req[r].patch) = {} THEN r ELSE Free
        /\ limiter' \in Limiters /\ built' \in Nat
        /\ services' \in [Id -> Graph \cup {NoGraph}]
        /\ \A i \in All : services'[i] \in Graph
        /\ \A i \in Id \ All : services'[i] = services[i]
    BY EveryoneIsKnown, LimitDoes DEF StructureInv
  <1>5. Shape(req'[r])
    BY <1>2, <1>3, <1>4, ShapeGoesOn
  <1>6. UNCHANGED <<disk, stage, adopted, left, registered, loops, alive, closed, torn, erased>>
    BY DEF Limit
  <1>7. TypeOK'
    BY <1>4, <1>6 DEF StructureInv, TypeOK, StoreTypes, Continues, Others, disk
  <1>8. Known' = Known
    <2>1. \A i \in All : services[i] # NoGraph /\ services'[i] # NoGraph
      BY <1>4, EveryoneIsKnown, NoGraphAssumption DEF Known
    <2> QED  BY <1>4, <2>1 DEF Known
  <1>9. Concerns(r)' \subseteq Known
    BY <1>3, <1>4, EveryoneIsKnown DEF Concerns, Continues
  <1>10. \A i \in Known : loops'[i] # NoGraph  BY <1>6 DEF StructureInv, AccountInv
  <1>11. /\ \A s \in Req \ {r} : lock' = s <=> lock = s
         /\ lock' = r => AccountPart(req[r].patch) = {}
    BY <1>4, AccountsAssumption
  <1> QED
    BY <1>2, <1>3, <1>4, <1>5, <1>6, <1>7, <1>8, <1>9, <1>10, <1>11, RebuildGoesOn

LEMMA BuildGraphKeeps ==
  ASSUME StructureInv, NEW r \in Req, NEW i \in Known, NEW K \in SUBSET Setting,
         BuildGraph(r, i, K), req[r].at \in SavingSteps,
         req[r].kind = "connect" => i = req[r].id,
         UNCHANGED <<disk, stage, adopted, left, memory, torn, erased>>
  PROVE  StructureInv'
  <1>1. Saving(r) /\ Shape(req[r]) /\ Placed(r) /\ req[r].id \in Known
    BY SavingFacts
  <1>2. i \in Id /\ services[i] \in Graph  BY KnownHasGraph DEF StructureInv
  <1>3. /\ Continues(r, "install") /\ req'[r].todo \subseteq req[r].todo /\ req'[r].of = i
        /\ req'[r].graph \in Graph
    BY <1>2, BuildGraphDoes DEF StructureInv
  <1>4. "install" \in Rebuilding /\ "install" \in SavingSteps  BY DEF SavingSteps, Rebuilding
  <1>5. Shape(req'[r])
    BY <1>1, <1>2, <1>3, <1>4, ShapeGoesOn
  <1>6. TypeOK'
    BY <1>3 DEF StructureInv, TypeOK, StoreTypes, Continues, Others, disk, memory
  <1>7. Known' = Known  BY DEF Known, memory
  <1>8. Concerns(r)' \subseteq Known
    BY <1>1, <1>3 DEF Concerns, Continues, Placed
  <1>9. \A x \in Known : loops'[x] # NoGraph  BY DEF StructureInv, AccountInv, memory
  <1>10. lock' = lock /\ UNCHANGED <<disk, stage, registered, alive, closed, erased>>
    BY DEF memory
  <1> QED
    BY <1>3, <1>4, <1>5, <1>6, <1>7, <1>8, <1>9, <1>10, RebuildGoesOn

LEMMA BuildAnotherKeeps ==
  ASSUME StructureInv, NEW r \in Req, BuildAnother(r)
  PROVE  StructureInv'
  <1>1. req[r].at = "fan out"  BY DEF BuildAnother
  <1>2. req[r].at \in SavingSteps  BY <1>1 DEF SavingSteps, Rebuilding
  <1>3. Saving(r) /\ Shape(req[r]) /\ Placed(r)  BY <1>2, SavingFacts
  <1>4. PICK i \in req[r].todo : BuildGraph(r, i, GlobalKey)  BY DEF BuildAnother
  <1>5. i \in Known  BY <1>3 DEF Placed, Concerns
  <1>6. req[r].kind # "connect"  BY <1>1, <1>3 DEF Shape
  <1>7. GlobalKey \in SUBSET Setting  BY DEF Setting
  <1> QED  BY <1>2, <1>4, <1>5, <1>6, <1>7, BuildGraphKeeps DEF BuildAnother

LEMMA BuildOwnKeeps ==
  ASSUME StructureInv, NEW r \in Req, BuildOwn(r)
  PROVE  StructureInv'
  <1>1. req[r].at \in {"build", "fan out"} /\ BuildGraph(r, req[r].id, Setting)
    BY DEF BuildOwn
  <1>2. req[r].at \in SavingSteps  BY <1>1 DEF SavingSteps, Rebuilding
  <1>3. req[r].id \in Known  BY <1>2, SavingFacts
  <1>4. UNCHANGED <<disk, stage, adopted, left, memory, torn, erased>>  BY DEF BuildOwn
  <1>5. Setting \in SUBSET Setting  OBVIOUS
  <1> QED  BY <1>1, <1>2, <1>3, <1>4, <1>5, BuildGraphKeeps

LEMMA RebuildFacts ==
  ASSUME StructureInv, NEW r \in Req, req[r].at \in {"install", "replace"}
  PROVE  /\ req[r].at \in SavingSteps
         /\ Saving(r) /\ Shape(req[r]) /\ Placed(r) /\ Locks(r) /\ stage = "up"
         /\ req[r].of \in Known /\ req[r].of \in Id /\ req[r].graph \in Graph
         /\ services[req[r].of] \in Graph
  <1>1. req[r].at \in SavingSteps  BY DEF SavingSteps, Rebuilding
  <1>2. Saving(r) /\ Shape(req[r]) /\ Placed(r) /\ Locks(r) /\ stage = "up"
    BY <1>1, SavingFacts
  <1>3. req[r].of \in Known  BY <1>2 DEF Placed, Concerns
  <1>4. req[r].of \in Id /\ req[r].graph \in Graph  BY <1>2 DEF Shape
  <1> QED  BY <1>1, <1>2, <1>3, <1>4, KnownHasGraph DEF StructureInv

LEMMA InstallKeeps ==
  ASSUME StructureInv, NEW r \in Req, Install(r)
  PROVE  StructureInv'
  <1>1. req[r].at = "install"  BY DEF Install
  <1>2. /\ req[r].at \in SavingSteps /\ Saving(r) /\ Shape(req[r]) /\ Placed(r)
        /\ req[r].of \in Known /\ req[r].graph \in Graph /\ services[req[r].of] \in Graph
    BY <1>1, RebuildFacts
  <1>3. /\ Continues(r, "replace")
        /\ req'[r].todo = req[r].todo /\ req'[r].of = req[r].of /\ req'[r].graph = req[r].graph
        /\ services' \in [Id -> Graph \cup {NoGraph}]
        /\ services'[req[r].of] \in Graph
        /\ \A i \in Id \ {req[r].of} : services'[i] = services[i]
    BY <1>2, InstallDoes DEF StructureInv
  <1>4. "replace" \in Rebuilding /\ "replace" \in SavingSteps  BY DEF SavingSteps, Rebuilding
  <1>5. Shape(req'[r])
    <2>1. req[r].kind = "connect" => req[r].of = req[r].id  BY <1>1, <1>2 DEF Shape
    <2>2. req[r].of \in Id  BY <1>2 DEF Known
    <2> QED  BY <1>2, <1>3, <1>4, <2>1, <2>2, ShapeGoesOn
  <1>6. UNCHANGED <<disk, stage, adopted, left, registered, loops, limiter, built, alive, closed,
                    lock, torn, erased>>
    BY DEF Install
  <1>7. TypeOK'
    BY <1>3, <1>6 DEF StructureInv, TypeOK, StoreTypes, Continues, Others, disk
  <1>8. Known' = Known
    BY <1>2, <1>3, NoGraphAssumption DEF Known
  <1>9. Concerns(r)' \subseteq Known
    <2>1. {req[r].id} \cup req[r].todo \subseteq Known  BY <1>2 DEF Placed, Concerns
    <2> QED  BY <1>2, <1>3, <2>1 DEF Concerns, Continues
  <1>10. \A i \in Known : loops'[i] # NoGraph  BY <1>6 DEF StructureInv, AccountInv
  <1>11. lock' = lock /\ UNCHANGED <<disk, stage, registered, alive, closed, erased>>
    BY <1>6
  <1> QED
    BY <1>2, <1>3, <1>4, <1>5, <1>7, <1>8, <1>9, <1>10, <1>11, RebuildGoesOn

\* The swap leaves every account with a graph.
LEMMA SwapInKeeps ==
  ASSUME StructureInv, NEW r \in Req, req[r].at = "replace", SwapIn(r)
  PROVE  /\ loops' \in [Id -> Graph \cup {NoGraph}]
         /\ \A i \in Known : loops'[i] # NoGraph
  <1>1. req[r].of \in Id /\ req[r].graph \in Graph  BY RebuildFacts
  <1>2. /\ loops' \in [Id -> Graph \cup {NoGraph}]
        /\ loops'[req[r].of] = req[r].graph
        /\ \A i \in Id \ {req[r].of} : loops'[i] = loops[i]
    BY <1>1, SwapInDoes DEF StructureInv
  <1>3. \A i \in Known : i \in Id /\ loops[i] # NoGraph
    BY DEF StructureInv, AccountInv, Known
  <1> QED  BY <1>1, <1>2, <1>3, NoGraphAssumption

LEMMA ReplaceKeeps ==
  ASSUME StructureInv, NEW r \in Req, Replace(r)
  PROVE  StructureInv'
  <1>1. req[r].at = "replace" /\ SwapIn(r)  BY DEF Replace
  <1>2. /\ req[r].at \in SavingSteps /\ Saving(r) /\ Shape(req[r]) /\ Placed(r) /\ Locks(r)
    BY <1>1, RebuildFacts
  <1>3. /\ loops' \in [Id -> Graph \cup {NoGraph}]
        /\ \A i \in Known : loops'[i] # NoGraph
    BY <1>1, SwapInKeeps
  <1>4. UNCHANGED <<disk, stage, adopted, left, registered, services, limiter, built, alive,
                    closed, torn, erased>>
    BY DEF Replace
  <1>5. Known' = Known  BY <1>4 DEF Known
  <1>6. CASE /\ req[r].of # req[r].id \/ lock = r
             /\ Continues(r, "fan out") /\ lock' = lock
             /\ req'[r].todo = req[r].todo
    <2>1. "fan out" \in Rebuilding /\ "fan out" \in SavingSteps  BY DEF SavingSteps, Rebuilding
    <2>2. req[r].kind # "connect"
      BY <1>1, <1>2, <1>6 DEF Shape, Locks
    <2>3. Shape(req'[r])  BY <1>2, <1>6, <2>1, <2>2, ShapeGoesOn
    <2>4. TypeOK'
      BY <1>3, <1>4, <1>6 DEF StructureInv, TypeOK, StoreTypes, Continues, Others, disk
    <2>5. Concerns(r)' \subseteq Known
      BY <1>2, <1>6 DEF Concerns, Continues, Placed
    <2>6. lock' = lock /\ UNCHANGED <<disk, stage, registered, alive, closed, erased>>
      BY <1>4, <1>6
    <2> QED
      BY <1>2, <1>3, <1>5, <1>6, <2>1, <2>3, <2>4, <2>5, <2>6, RebuildGoesOn
  <1>7. CASE End(r)
    <2>1. Others(r) /\ lock' \in Req \cup {Free}  BY <1>7, EndLocks
    <2>2. TypeOK'
      BY <1>3, <1>4, <2>1 DEF StructureInv, TypeOK, StoreTypes, Others, disk
    <2> QED  BY <1>2, <1>3, <1>4, <1>5, <1>7, <2>2, SavingEnds DEF disk
  <1> QED  BY <1>6, <1>7, ReplaceDoes DEF StructureInv

LEMMA FailTypes ==
  ASSUME StructureInv, NEW r \in Req, Fail(r)
  PROVE  End(r) /\ Others(r) /\ lock' \in Req \cup {Free} /\ torn' \in BOOLEAN
  <1>1. End(r) /\ torn' = (torn \/ Begun(r))  BY DEF Fail
  <1>2. torn' \in BOOLEAN  BY <1>1
  <1> QED  BY <1>1, <1>2, EndLocks

LEMMA StrikeTypes ==
  ASSUME TypeOK, left' = left \/ \E kind \in {"crash", "database", "lost"} : Strike(kind)
  PROVE  left' \in Nat
  BY DEF TypeOK, StoreTypes, Strike

LEMMA ReplaceRaisesKeeps ==
  ASSUME StructureInv, NEW r \in Req, ReplaceRaises(r)
  PROVE  StructureInv'
  <1>1. req[r].at = "replace" /\ SwapIn(r) /\ Fail(r)  BY DEF ReplaceRaises
  <1>2. Saving(r)  BY <1>1, RebuildFacts
  <1>3. /\ loops' \in [Id -> Graph \cup {NoGraph}]
        /\ \A i \in Known : loops'[i] # NoGraph
    BY <1>1, SwapInKeeps
  <1>4. UNCHANGED <<disk, stage, adopted, registered, services, limiter, built, alive, closed,
                    erased>>
    BY DEF ReplaceRaises
  <1>5. End(r) /\ Others(r) /\ lock' \in Req \cup {Free} /\ torn' \in BOOLEAN
    BY <1>1, FailTypes
  <1>6. left' \in Nat  BY StrikeTypes DEF ReplaceRaises, StructureInv
  <1>7. TypeOK'
    BY <1>3, <1>4, <1>5, <1>6 DEF StructureInv, TypeOK, StoreTypes, Others, disk
  <1>8. Known' = Known  BY <1>4 DEF Known
  <1> QED  BY <1>2, <1>3, <1>4, <1>5, <1>7, <1>8, SavingEnds DEF disk

LEMMA StatementFailsKeeps ==
  ASSUME StructureInv, NEW r \in Req, StatementFails(r)
  PROVE  StructureInv'
  <1>1. req[r].at \in {"read", "write", "store", "read global", "write global"} /\ Fail(r)
    BY DEF StatementFails
  <1>2. Saving(r)
    <2>1. req[r].at \in SavingSteps  BY <1>1 DEF SavingSteps
    <2> QED  BY <2>1, SavingFacts
  <1>3. UNCHANGED <<disk, stage, adopted, erased, registered, services, loops, limiter, built,
                    alive, closed>>
    BY DEF StatementFails
  <1>4. End(r) /\ Others(r) /\ lock' \in Req \cup {Free} /\ torn' \in BOOLEAN
    BY <1>1, FailTypes
  <1>5. left' \in Nat  BY StrikeTypes DEF StatementFails, StructureInv
  <1>6. TypeOK'
    BY <1>3, <1>4, <1>5 DEF StructureInv, TypeOK, StoreTypes, Others, disk
  <1>7. Known' = Known /\ \A i \in Known : loops'[i] # NoGraph
    BY <1>3 DEF Known, StructureInv, AccountInv
  <1> QED  BY <1>2, <1>3, <1>4, <1>6, <1>7, SavingEnds DEF disk

LEMMA EndGlobalSaveKeeps ==
  ASSUME StructureInv, NEW r \in Req, EndGlobalSave(r)
  PROVE  StructureInv'
  <1>1. req[r].at = "fan out" /\ End(r)  BY DEF EndGlobalSave
  <1>2. Saving(r)
    <2>1. req[r].at \in SavingSteps  BY <1>1 DEF SavingSteps, Rebuilding
    <2> QED  BY <2>1, SavingFacts
  <1>3. UNCHANGED <<disk, stage, adopted, left, registered, services, loops, limiter, built,
                    alive, closed, torn, erased>>
    BY DEF EndGlobalSave
  <1>4. Others(r) /\ lock' \in Req \cup {Free}  BY <1>1, EndLocks
  <1>5. TypeOK'
    BY <1>3, <1>4 DEF StructureInv, TypeOK, StoreTypes, Others, disk
  <1>6. Known' = Known /\ \A i \in Known : loops'[i] # NoGraph
    BY <1>3 DEF Known, StructureInv, AccountInv
  <1> QED  BY <1>1, <1>2, <1>3, <1>5, <1>6, SavingEnds DEF disk

-----------------------------------------------------------------------------
(* Requests that begin, and those that add and remove accounts. *)

LEMMA BeginningFacts ==
  ASSUME StructureInv, NEW r \in Req, req[r] = Idle, stage = "up"
  PROVE  control \in Control /\ control # NoControl /\ lock # r
  <1>1. control \in Control /\ control # NoControl
    BY PlacesAssumption DEF StructureInv, BootInv, TypeOK, StoreTypes
  <1>2. lock # r
    BY IdleTypes DEF StructureInv, LockInv, Locks, Locking, Rebuilding
  <1> QED  BY <1>1, <1>2

\* A settings request begins with an account that is being served.
LEMMA SavingBegins ==
  ASSUME StructureInv, NEW r \in Req, req[r] = Idle, stage = "up", Others(r),
         UNCHANGED <<disk, stage, adopted, left, memory, torn, erased>>,
         req'[r].kind \in {"save", "connect"}, req'[r].id \in All, req'[r].todo = {},
         req'[r].at \in {"read", "read global", "store"}, Shape(req'[r])
  PROVE  StructureInv'
  <1>1. control # NoControl /\ lock # r  BY BeginningFacts
  <1>2. TypeOK'
    BY DEF StructureInv, TypeOK, StoreTypes, Others, disk, memory
  <1>3. Locks(r)'  BY <1>1 DEF Locks, Locking, memory
  <1>4. Existing' = Existing /\ Known' = Known  BY DEF Existing, Known, disk, memory
  <1>5. Placed(r)'
    BY <1>4, EveryoneIsKnown DEF Placed, Concerns
  <1>6. \A i \in Known : loops'[i] # NoGraph  BY DEF StructureInv, AccountInv, memory
  <1>7. \A s \in Req \ {r} : lock' = s <=> lock = s  BY DEF memory
  <1>8. /\ UNCHANGED <<minted, stage, registered, alive, closed, erased>>
        /\ control' # NoControl /\ control'.accounts = control.accounts
    BY <1>1 DEF disk, memory
  <1> QED
    BY <1>2, <1>3, <1>4, <1>5, <1>6, <1>7, <1>8, SavingKeeps

LEMMA BeginSaveKeeps ==
  ASSUME StructureInv, NEW r \in Req, BeginSave(r)
  PROVE  StructureInv'
  <1>1. /\ Others(r) /\ req[r] = Idle /\ stage = "up"
        /\ req'[r].kind = "save" /\ req'[r].id \in All /\ req'[r].at \in {"read", "read global"}
        /\ \A k \in CredKey : req'[r].patch[k] = Absent
        /\ req'[r].todo = {}
    BY BeginSaveDoes DEF StructureInv
  <1>2. req'[r].id \in Id  BY <1>1 DEF All, StructureInv, TypeOK
  <1>3. Shape(req'[r])  BY <1>1, <1>2 DEF Shape
  <1> QED  BY <1>1, <1>3, SavingBegins DEF BeginSave

LEMMA BeginConnectKeeps ==
  ASSUME StructureInv, NEW r \in Req, BeginConnect(r)
  PROVE  StructureInv'
  <1>1. /\ Others(r) /\ req[r] = Idle /\ stage = "up" /\ CredKey # {}
        /\ req'[r].kind = "connect" /\ req'[r].id \in All /\ req'[r].at = "store"
        /\ \A k \in AccountKey \cup GlobalKey : req'[r].patch[k] = Absent
        /\ req'[r].todo = {} /\ req'[r].count = 0
    BY BeginConnectDoes DEF StructureInv
  <1>2. req'[r].id \in Id  BY <1>1 DEF All, StructureInv, TypeOK
  <1>3. 0 < Cardinality(CredKey)
    BY <1>1, PlacesAssumption, FS_CardinalityType, FS_EmptySet
  <1>4. Shape(req'[r])  BY <1>1, <1>2, <1>3 DEF Shape
  <1> QED  BY <1>1, <1>4, SavingBegins DEF BeginConnect

\* While one request adds or removes an account, the others are at most saving.
LEMMA OthersPlaced ==
  ASSUME StructureInv, NEW r \in Req, Others(r), lock \in {r, Free}, Known \subseteq Known',
         Placed(r)'
  PROVE  \A s \in Req : Placed(s)'
  <1>1. ASSUME NEW s \in Req \ {r} PROVE Placed(s)'
    <2>1. req'[s] = req[s]  BY DEF Others
    <2>2. Shape(req[s]) /\ Locks(s) /\ Placed(s)
      BY DEF StructureInv, Shapes, LockInv, AccountInv
    <2>3. lock # s  BY AccountsAssumption
    <2>4. req[s].kind \notin {"create", "remove"}
      BY <2>2, <2>3 DEF Shape, Locks, Locking
    <2>5. (Saving(s)' <=> Saving(s)) /\ Concerns(s)' = Concerns(s)
      BY <2>1 DEF Saving, InFlight, Concerns
    <2>6. Saving(s) => Concerns(s) \subseteq Known'  BY <2>2 DEF Placed
    <2> QED  BY <2>1, <2>4, <2>5, <2>6 DEF Placed
  <1> QED  BY <1>1

LEMMA HolderKeeps ==
  ASSUME StructureInv, NEW r \in Req, Others(r), TypeOK', Shape(req'[r]), LockInv',
         stage' = "up", lock \in {r, Free}, Known \subseteq Known', Placed(r)',
         Existing' \subseteq minted', control' # NoControl, control'.accounts \subseteq minted',
         registered' \cup alive' \cup closed' \subseteq Known',
         Known' \subseteq minted', erased' \subseteq minted',
         \A i \in Known' : loops'[i] # NoGraph /\ (i \notin closed' => i \in Existing'),
         closed' \cap (registered' \cup alive') = {}, registered' \subseteq control'.accounts
  PROVE  StructureInv'
  <1>1. BootInv'  BY BootUp
  <1>2. Shapes'  BY ShapesKept DEF StructureInv
  <1>3. \A s \in Req : Placed(s)'  BY OthersPlaced
  <1>4. AccountInv'  BY <1>3 DEF AccountInv
  <1> QED  BY <1>1, <1>2, <1>4 DEF StructureInv

LEMMA AccountFacts ==
  ASSUME StructureInv, control # NoControl
  PROVE  /\ registered \cup alive \cup closed \subseteq Known
         /\ Known \subseteq minted /\ erased \subseteq minted /\ Existing \subseteq minted
         /\ \A i \in Known : loops[i] # NoGraph /\ (i \notin closed => i \in Existing)
         /\ closed \cap (registered \cup alive) = {}
         /\ registered \subseteq control.accounts /\ control.accounts \subseteq minted
  BY DEF StructureInv, BootInv, AccountInv

LEMMA CreateKeeps ==
  ASSUME StructureInv, NEW r \in Req, Create(r)
  PROVE  StructureInv'
  <1>1. /\ Others(r) /\ req[r] = Idle /\ stage = "up" /\ lock = Free /\ lock' = r
        /\ req'[r].kind = "create" /\ req'[r].id \in Id \ minted /\ req'[r].at = "open"
        /\ req'[r].todo = {}
        /\ control' = [control EXCEPT !.accounts = @ \cup {req'[r].id}]
        /\ minted' = minted \cup {req'[r].id}
    BY CreateDoes DEF StructureInv
  <1> DEFINE i == req'[r].id
  <1>2. control \in Control /\ control # NoControl  BY <1>1, BeginningFacts
  <1>3. UNCHANGED <<legacy, dirs, stage, adopted, left, registered, services, loops, limiter,
                    built, alive, closed, torn, erased>>
    BY DEF Create
  <1>4. control' \in Control /\ control'.accounts = control.accounts \cup {i}
    BY <1>1, <1>2 DEF Control
  <1>5. TypeOK'
    BY <1>1, <1>3, <1>4 DEF StructureInv, TypeOK, StoreTypes, Others
  <1>6. Shape(req'[r])  BY <1>1 DEF Shape
  <1>7. LockInv'
    <2>1. Locks(r)'  BY <1>1 DEF Locks, Locking, Saving
    <2>2. \A s \in Req \ {r} : lock' = s <=> lock = s  BY <1>1, AccountsAssumption
    <2> QED  BY <1>1, <2>1, <2>2, LocksKept DEF StructureInv
  <1>8. Known' = Known /\ Existing' = Existing  BY <1>3 DEF Known, Existing
  <1>9. i \notin Known \cup erased  BY <1>1, <1>2, AccountFacts
  <1>10. Placed(r)'
    BY <1>1, <1>3, <1>4, <1>8, <1>9 DEF Placed, Saving
  <1>11. control' # NoControl  BY <1>4, PlacesAssumption
  <1>12. /\ Existing' \subseteq minted' /\ control'.accounts \subseteq minted'
         /\ registered' \cup alive' \cup closed' \subseteq Known'
         /\ Known' \subseteq minted' /\ erased' \subseteq minted'
         /\ \A x \in Known' : loops'[x] # NoGraph /\ (x \notin closed' => x \in Existing')
         /\ closed' \cap (registered' \cup alive') = {} /\ registered' \subseteq control'.accounts
    BY <1>1, <1>2, <1>3, <1>4, <1>8, AccountFacts
  <1> QED
    BY <1>1, <1>3, <1>5, <1>6, <1>7, <1>8, <1>10, <1>11, <1>12, HolderKeeps

LEMMA RemoveKeeps ==
  ASSUME StructureInv, NEW r \in Req, Remove(r)
  PROVE  StructureInv'
  <1>1. /\ Others(r) /\ req[r] = Idle /\ stage = "up" /\ lock = Free /\ lock' = r
        /\ req'[r].kind = "remove" /\ req'[r].id \in registered /\ req'[r].at = "stop"
        /\ req'[r].todo = {}
        /\ registered' = registered \ {req'[r].id}
    BY RemoveDoes DEF StructureInv
  <1> DEFINE i == req'[r].id
  <1>2. control \in Control /\ control # NoControl  BY <1>1, BeginningFacts
  <1>3. UNCHANGED <<disk, stage, adopted, left, services, loops, limiter, built, alive, closed,
                    torn, erased>>
    BY DEF Remove
  <1>4. TypeOK'
    BY <1>1, <1>3 DEF StructureInv, TypeOK, StoreTypes, Others, disk
  <1>5. Shape(req'[r])
    <2>1. i \in Id  BY <1>1 DEF StructureInv, TypeOK
    <2> QED  BY <1>1, <2>1 DEF Shape
  <1>6. LockInv'
    <2>1. Locks(r)'  BY <1>1 DEF Locks, Locking, Saving
    <2>2. \A s \in Req \ {r} : lock' = s <=> lock = s  BY <1>1, AccountsAssumption
    <2> QED  BY <1>1, <2>1, <2>2, LocksKept DEF StructureInv
  <1>7. Known' = Known /\ Existing' = Existing /\ control' = control /\ minted' = minted
    BY <1>3 DEF Known, Existing, disk
  <1>8. i \in Known /\ i \notin registered'  BY <1>1, <1>2, AccountFacts
  <1>9. Placed(r)'
    BY <1>1, <1>7, <1>8 DEF Placed, Saving
  <1>10. /\ Existing' \subseteq minted' /\ control'.accounts \subseteq minted'
         /\ registered' \cup alive' \cup closed' \subseteq Known'
         /\ Known' \subseteq minted' /\ erased' \subseteq minted'
         /\ \A x \in Known' : loops'[x] # NoGraph /\ (x \notin closed' => x \in Existing')
         /\ closed' \cap (registered' \cup alive') = {} /\ registered' \subseteq control'.accounts
    BY <1>1, <1>2, <1>3, <1>7, AccountFacts
  <1> QED
    BY <1>1, <1>2, <1>3, <1>4, <1>5, <1>6, <1>7, <1>9, <1>10, HolderKeeps

LEMMA HolderFacts ==
  ASSUME StructureInv, NEW r \in Req, req[r].at \in Locking
  PROVE  /\ stage = "up" /\ control \in Control /\ control # NoControl /\ lock = r
         /\ Shape(req[r]) /\ Placed(r) /\ req[r].id \in Id
         /\ req[r].at \in {"open", "register"} => req[r].kind = "create"
         /\ req[r].at \in {"stop", "drop", "wipe"} => req[r].kind = "remove"
  <1>1. Shape(req[r]) /\ Locks(r) /\ Placed(r)
    BY DEF StructureInv, Shapes, LockInv, AccountInv
  <1>2. InFlight(r)  BY DEF InFlight, Locking
  <1>3. stage = "up" /\ control \in Control  BY <1>2, UpAndControlled
  <1>4. req[r].kind # "none" /\ req[r].id \in Id  BY <1>1 DEF Shape, Locking
  <1> QED  BY <1>1, <1>3, <1>4, PlacesAssumption DEF Locks, Shape

LEMMA OpenAccountKeeps ==
  ASSUME StructureInv, NEW r \in Req, OpenAccount(r)
  PROVE  StructureInv'
  <1>1. req[r].at = "open" /\ req[r].at \in Locking  BY DEF OpenAccount, Locking
  <1>2. /\ stage = "up" /\ control \in Control /\ control # NoControl /\ lock = r
        /\ Shape(req[r]) /\ Placed(r) /\ req[r].id \in Id /\ req[r].kind = "create"
    BY <1>1, HolderFacts
  <1> DEFINE i == req[r].id
  <1>3. /\ Continues(r, "register") /\ req'[r].todo = req[r].todo
        /\ dirs' \in [Id -> Db \cup {NoDb}] /\ dirs'[i] = Opened(i)
        /\ \A x \in Id \ {i} : dirs'[x] = dirs[x]
        /\ req'[r].graph \in Graph
    BY <1>2, OpenAccountDoes DEF StructureInv
  <1>4. UNCHANGED <<legacy, control, minted, stage, adopted, left, memory, torn, erased>>
    BY DEF OpenAccount
  <1>5. TypeOK'
    BY <1>3, <1>4 DEF StructureInv, TypeOK, StoreTypes, Continues, Others, memory
  <1>6. Shape(req'[r])  BY <1>1, <1>2, <1>3 DEF Shape, Continues
  <1>7. LockInv'
    <2>1. Locks(r)'  BY <1>2, <1>3, <1>4 DEF Locks, Locking, Saving, Continues, memory
    <2>2. \A s \in Req \ {r} : lock' = s <=> lock = s  BY <1>4 DEF memory
    <2> QED  BY <1>3, <2>1, <2>2, LocksKept DEF StructureInv, Continues
  <1>8. Existing' = Existing \cup {i}
    <2>1. dirs'[i] # NoDb  BY <1>2, <1>3, OpenedTypes, PlacesAssumption DEF StructureInv
    <2> QED  BY <1>2, <1>3, <2>1 DEF Existing
  <1>9. Known' = Known  BY <1>4 DEF Known, memory
  <1>10. i \in minted \ (Known \cup erased) /\ i \in control.accounts  BY <1>2 DEF Placed
  <1>11. Placed(r)'
    BY <1>2, <1>3, <1>4, <1>8, <1>9, <1>10 DEF Placed, Saving, Continues
  <1>12. /\ Existing' \subseteq minted' /\ control'.accounts \subseteq minted'
         /\ registered' \cup alive' \cup closed' \subseteq Known'
         /\ Known' \subseteq minted' /\ erased' \subseteq minted'
         /\ \A x \in Known' : loops'[x] # NoGraph /\ (x \notin closed' => x \in Existing')
         /\ closed' \cap (registered' \cup alive') = {} /\ registered' \subseteq control'.accounts
    BY <1>2, <1>4, <1>8, <1>9, <1>10, AccountFacts DEF memory
  <1>13. Others(r) /\ stage' = "up" /\ control' # NoControl  BY <1>2, <1>3, <1>4 DEF Continues
  <1> QED
    BY <1>2, <1>5, <1>6, <1>7, <1>9, <1>11, <1>12, <1>13, HolderKeeps

LEMMA RegisterKeeps ==
  ASSUME StructureInv, NEW r \in Req, Register(r)
  PROVE  StructureInv'
  <1>1. req[r].at = "register" /\ req[r].at \in Locking /\ End(r)  BY DEF Register, Locking
  <1>2. /\ stage = "up" /\ control \in Control /\ control # NoControl /\ lock = r
        /\ Shape(req[r]) /\ Placed(r) /\ req[r].id \in Id /\ req[r].kind = "create"
    BY <1>1, HolderFacts
  <1> DEFINE i == req[r].id
  <1>3. /\ services' = [services EXCEPT ![i] = req[r].graph]
        /\ loops' = [loops EXCEPT ![i] = req[r].graph]
        /\ registered' = registered \cup {i} /\ alive' = alive \cup {i}
        /\ UNCHANGED <<disk, stage, adopted, left, limiter, built, closed, torn, erased>>
    BY DEF Register
  <1>4. /\ Others(r) /\ req'[r] = Done /\ Shapes' /\ LockInv' /\ lock' \in Req \cup {Free}
    BY <1>1, EndLocks
  <1>5. req[r].graph \in Graph  BY <1>1, <1>2 DEF Shape
  <1>6. /\ services \in [Id -> Graph \cup {NoGraph}] /\ loops \in [Id -> Graph \cup {NoGraph}]
        /\ registered \in SUBSET Id /\ alive \in SUBSET Id
    BY DEF StructureInv, TypeOK
  <1>7. /\ services' \in [Id -> Graph \cup {NoGraph}] /\ loops' \in [Id -> Graph \cup {NoGraph}]
        /\ registered' \in SUBSET Id /\ alive' \in SUBSET Id
        /\ services'[i] = req[r].graph /\ loops'[i] = req[r].graph
        /\ \A x \in Id \ {i} : services'[x] = services[x] /\ loops'[x] = loops[x]
    BY <1>2, <1>3, <1>5, <1>6
  <1>8. TypeOK'
    BY <1>3, <1>4, <1>7 DEF StructureInv, TypeOK, StoreTypes, Others, disk
  <1>9. Known' = Known \cup {i}  BY <1>2, <1>5, <1>7, NoGraphAssumption DEF Known
  <1>10. Existing' = Existing /\ control' = control /\ minted' = minted
    BY <1>3 DEF Existing, disk
  <1>11. /\ i \in minted \ (Known \cup erased) /\ i \in control.accounts /\ i \in Existing
    BY <1>1, <1>2 DEF Placed
  <1>12. Placed(r)' /\ Shape(req'[r])  BY <1>4, IdleTypes, DoneFits DEF Placed, Saving
  <1>13. \A x \in Known' : loops'[x] # NoGraph /\ (x \notin closed' => x \in Existing')
    <2>1. loops'[i] # NoGraph  BY <1>5, <1>7, NoGraphAssumption
    <2>2. \A x \in Known : x \in Id /\ x # i  BY <1>11 DEF Known
    <2> QED  BY <1>2, <1>3, <1>7, <1>9, <1>10, <1>11, <2>1, <2>2, AccountFacts
  <1>14. /\ Existing' \subseteq minted' /\ control'.accounts \subseteq minted'
         /\ registered' \cup alive' \cup closed' \subseteq Known'
         /\ Known' \subseteq minted' /\ erased' \subseteq minted'
         /\ closed' \cap (registered' \cup alive') = {} /\ registered' \subseteq control'.accounts
    BY <1>2, <1>3, <1>9, <1>10, <1>11, AccountFacts
  <1>15. stage' = "up"  BY <1>2, <1>3
  <1> QED
    BY <1>2, <1>4, <1>8, <1>9, <1>10, <1>12, <1>13, <1>14, <1>15, HolderKeeps

LEMMA OpenFailsKeeps ==
  ASSUME StructureInv, NEW r \in Req, OpenFails(r)
  PROVE  StructureInv'
  <1>1. req[r].at = "open" /\ req[r].at \in Locking /\ End(r)  BY DEF OpenFails, Locking
  <1>2. stage = "up" /\ control # NoControl /\ lock = r
    BY <1>1, HolderFacts
  <1>3. /\ Others(r) /\ req'[r] = Done /\ LockInv' /\ lock' \in Req \cup {Free}
    BY <1>1, EndLocks
  <1>4. UNCHANGED <<disk, stage, adopted, registered, services, loops, limiter, built,
                    alive, closed, torn, erased>>
    BY DEF OpenFails
  <1>5. left' \in Nat  BY StrikeTypes DEF OpenFails, StructureInv
  <1>6. TypeOK'
    BY <1>3, <1>4, <1>5 DEF StructureInv, TypeOK, StoreTypes, Others, disk
  <1>7. Known' = Known /\ Existing' = Existing /\ control' = control /\ minted' = minted
    BY <1>4 DEF Known, Existing, disk
  <1>8. Placed(r)' /\ Shape(req'[r])  BY <1>3, IdleTypes, DoneFits DEF Placed, Saving
  <1>9. /\ Existing' \subseteq minted' /\ control'.accounts \subseteq minted'
        /\ registered' \cup alive' \cup closed' \subseteq Known'
        /\ Known' \subseteq minted' /\ erased' \subseteq minted'
        /\ \A x \in Known' : loops'[x] # NoGraph /\ (x \notin closed' => x \in Existing')
        /\ closed' \cap (registered' \cup alive') = {} /\ registered' \subseteq control'.accounts
    BY <1>2, <1>4, <1>7, AccountFacts
  <1> QED
    BY <1>2, <1>3, <1>4, <1>6, <1>7, <1>8, <1>9, HolderKeeps

\* The account being removed moves on to its next step.
LEMMA RemovalGoesOn ==
  ASSUME StructureInv, NEW r \in Req, req[r].at \in {"stop", "drop"},
         NEW at \in {"drop", "wipe"}, Goto(r, at),
         UNCHANGED <<registered, services, stage, lock>>
  PROVE  /\ Others(r) /\ Shape(req'[r]) /\ LockInv' /\ Known' = Known /\ Placed(r)'
         /\ stage' = "up" /\ control \in Control /\ control # NoControl /\ lock = r
         /\ req[r].id \in Known \ registered
  <1>1. req[r].at \in Locking /\ at \in Locking /\ at \in Steps  BY DEF Locking, Steps
  <1>2. /\ stage = "up" /\ control \in Control /\ control # NoControl /\ lock = r
        /\ Shape(req[r]) /\ Placed(r) /\ req[r].id \in Id /\ req[r].kind = "remove"
    BY <1>1, HolderFacts
  <1>3. Continues(r, at) /\ req'[r].todo = req[r].todo
    BY <1>1, GotoDoes DEF StructureInv
  <1>4. Shape(req'[r])  BY <1>2, <1>3 DEF Shape, Continues
  <1>5. LockInv'
    <2>1. Locks(r)'  BY <1>1, <1>2, <1>3 DEF Locks, Saving, Continues
    <2>2. \A s \in Req \ {r} : lock' = s <=> lock = s  OBVIOUS
    <2> QED  BY <1>3, <2>1, <2>2, LocksKept DEF StructureInv, Continues
  <1>6. Known' = Known  BY DEF Known
  <1>7. req[r].id \in Known \ registered  BY <1>2 DEF Placed
  <1>8. Placed(r)'
    BY <1>2, <1>3, <1>6, <1>7 DEF Placed, Saving, Continues
  <1> QED  BY <1>2, <1>3, <1>4, <1>5, <1>6, <1>7, <1>8 DEF Continues

LEMMA StopLoopKeeps ==
  ASSUME StructureInv, NEW r \in Req, StopLoop(r)
  PROVE  StructureInv'
  <1>1. req[r].at = "stop" /\ Goto(r, "drop")  BY DEF StopLoop
  <1>2. UNCHANGED <<disk, stage, adopted, left, registered, services, loops, limiter, built,
                    lock, torn, erased>>
    BY DEF StopLoop
  <1>3. /\ Others(r) /\ Shape(req'[r]) /\ LockInv' /\ Known' = Known /\ Placed(r)'
        /\ stage' = "up" /\ control \in Control /\ control # NoControl /\ lock = r
        /\ req[r].id \in Known \ registered
    BY <1>1, <1>2, RemovalGoesOn
  <1>4. \/ alive' = alive \ {req[r].id} /\ closed' = closed \cup {req[r].id}
        \/ UNCHANGED <<alive, closed>>
    BY DEF StopLoop
  <1>5. TypeOK'
    <2>1. alive' \in SUBSET Id /\ closed' \in SUBSET Id
      BY <1>3, <1>4 DEF Known, StructureInv, TypeOK
    <2> QED  BY <1>2, <1>3, <2>1 DEF StructureInv, TypeOK, StoreTypes, Others, disk
  <1>6. Existing' = Existing /\ control' = control /\ minted' = minted
    BY <1>2 DEF Existing, disk
  <1>7. /\ Existing' \subseteq minted' /\ control'.accounts \subseteq minted'
        /\ registered' \cup alive' \cup closed' \subseteq Known'
        /\ Known' \subseteq minted' /\ erased' \subseteq minted'
        /\ \A x \in Known' : loops'[x] # NoGraph /\ (x \notin closed' => x \in Existing')
        /\ closed' \cap (registered' \cup alive') = {} /\ registered' \subseteq control'.accounts
    BY <1>2, <1>3, <1>4, <1>6, AccountFacts
  <1> QED
    BY <1>3, <1>5, <1>6, <1>7, HolderKeeps

LEMMA DropRowKeeps ==
  ASSUME StructureInv, NEW r \in Req, DropRow(r)
  PROVE  StructureInv'
  <1>1. req[r].at = "drop" /\ Goto(r, "wipe")  BY DEF DropRow
  <1>2. UNCHANGED <<legacy, dirs, minted, stage, adopted, left, memory, torn, erased>>
    BY DEF DropRow
  <1>3. /\ Others(r) /\ Shape(req'[r]) /\ LockInv' /\ Known' = Known /\ Placed(r)'
        /\ stage' = "up" /\ control \in Control /\ control # NoControl /\ lock = r
        /\ req[r].id \in Known \ registered
    BY <1>1, <1>2, RemovalGoesOn DEF memory
  <1>4. control' \in Control /\ control'.accounts = control.accounts \ {req[r].id}
    BY <1>3 DEF Control, DropRow
  <1>5. TypeOK'
    BY <1>2, <1>3, <1>4 DEF StructureInv, TypeOK, StoreTypes, Others, memory
  <1>6. Existing' = Existing /\ control' # NoControl
    BY <1>2, <1>4, PlacesAssumption DEF Existing
  <1>7. /\ Existing' \subseteq minted' /\ control'.accounts \subseteq minted'
        /\ registered' \cup alive' \cup closed' \subseteq Known'
        /\ Known' \subseteq minted' /\ erased' \subseteq minted'
        /\ \A x \in Known' : loops'[x] # NoGraph /\ (x \notin closed' => x \in Existing')
        /\ closed' \cap (registered' \cup alive') = {} /\ registered' \subseteq control'.accounts
    BY <1>2, <1>3, <1>4, <1>6, AccountFacts DEF memory
  <1> QED
    BY <1>3, <1>5, <1>6, <1>7, HolderKeeps

LEMMA DropRowFailsKeeps ==
  ASSUME StructureInv, NEW r \in Req, DropRowFails(r)
  PROVE  StructureInv'
  <1>1. req[r].at = "drop" /\ Goto(r, "wipe")  BY DEF DropRowFails
  <1>2. UNCHANGED <<disk, stage, adopted, memory, torn, erased>>
    BY DEF DropRowFails
  <1>3. /\ Others(r) /\ Shape(req'[r]) /\ LockInv' /\ Known' = Known /\ Placed(r)'
        /\ stage' = "up" /\ control \in Control /\ control # NoControl /\ lock = r
        /\ req[r].id \in Known \ registered
    BY <1>1, <1>2, RemovalGoesOn DEF memory
  <1>4. left' \in Nat  BY StrikeTypes DEF DropRowFails, StructureInv
  <1>5. TypeOK'
    BY <1>2, <1>3, <1>4 DEF StructureInv, TypeOK, StoreTypes, Others, memory, disk
  <1>6. Existing' = Existing /\ control' = control /\ minted' = minted
    BY <1>2 DEF Existing, disk
  <1>7. /\ Existing' \subseteq minted' /\ control'.accounts \subseteq minted'
        /\ registered' \cup alive' \cup closed' \subseteq Known'
        /\ Known' \subseteq minted' /\ erased' \subseteq minted'
        /\ \A x \in Known' : loops'[x] # NoGraph /\ (x \notin closed' => x \in Existing')
        /\ closed' \cap (registered' \cup alive') = {} /\ registered' \subseteq control'.accounts
    BY <1>2, <1>3, <1>6, AccountFacts DEF memory
  <1> QED
    BY <1>3, <1>5, <1>6, <1>7, HolderKeeps

LEMMA WipeKeeps ==
  ASSUME StructureInv, NEW r \in Req, Wipe(r)
  PROVE  StructureInv'
  <1>1. req[r].at = "wipe" /\ req[r].at \in Locking /\ End(r)  BY DEF Wipe, Locking
  <1>2. /\ stage = "up" /\ control \in Control /\ control # NoControl /\ lock = r
        /\ Placed(r) /\ req[r].id \in Id /\ req[r].kind = "remove"
    BY <1>1, HolderFacts
  <1> DEFINE i == req[r].id
  <1>3. /\ Others(r) /\ req'[r] = Done /\ LockInv' /\ lock' \in Req \cup {Free}
    BY <1>1, EndLocks
  <1>4. UNCHANGED <<legacy, control, minted, stage, adopted, left, registered, services, loops,
                    limiter, built, alive, closed, torn>>
    BY DEF Wipe
  <1>5. \/ /\ i \in closed /\ dirs' = [dirs EXCEPT ![i] = NoDb]
           /\ erased' = erased \cup ({i} \ control.accounts)
        \/ UNCHANGED <<dirs, erased>>
    BY DEF Wipe
  <1>6. i \in Known  BY <1>2 DEF Placed
  <1>7. /\ dirs' \in [Id -> Db \cup {NoDb}] /\ erased' \in SUBSET Id
        /\ \A x \in Id : (x = i /\ i \in closed) \/ dirs'[x] = dirs[x]
    BY <1>2, <1>5 DEF StructureInv, TypeOK, StoreTypes
  <1>8. TypeOK'
    BY <1>3, <1>4, <1>7 DEF StructureInv, TypeOK, StoreTypes, Others
  <1>9. Known' = Known  BY <1>4 DEF Known
  <1>10. \A x \in Id : (x \in Existing => x \in Existing' \/ x \in closed)
    BY <1>7 DEF Existing
  <1>11. Existing' \subseteq Existing
    <2>1. \A x \in Id : dirs'[x] = NoDb \/ dirs'[x] = dirs[x]
      BY <1>2, <1>5 DEF StructureInv, TypeOK, StoreTypes
    <2> QED  BY <2>1 DEF Existing
  <1>12. Placed(r)' /\ Shape(req'[r])  BY <1>3, IdleTypes, DoneFits DEF Placed, Saving
  <1>13. /\ Existing' \subseteq minted' /\ control'.accounts \subseteq minted'
         /\ registered' \cup alive' \cup closed' \subseteq Known'
         /\ Known' \subseteq minted'
         /\ closed' \cap (registered' \cup alive') = {} /\ registered' \subseteq control'.accounts
    BY <1>2, <1>4, <1>9, <1>11, AccountFacts
  <1>14. erased' \subseteq minted'
    BY <1>2, <1>4, <1>5, <1>6, AccountFacts
  <1>15. \A x \in Known' : loops'[x] # NoGraph /\ (x \notin closed' => x \in Existing')
    <2>1. \A x \in Known : x \in Id  BY DEF Known
    <2> QED  BY <1>2, <1>4, <1>9, <1>10, <2>1, AccountFacts
  <1> QED
    BY <1>2, <1>3, <1>4, <1>8, <1>9, <1>12, <1>13, <1>14, <1>15, HolderKeeps

LEMMA LoopExitsKeeps ==
  ASSUME StructureInv, NEW i \in Id, LoopExits(i)
  PROVE  StructureInv'
  <1>1. /\ i \in alive /\ alive' = alive \ {i}
        /\ UNCHANGED <<disk, stage, adopted, left, registered, services, loops, limiter, built,
                       closed, lock, req, torn, erased>>
    BY DEF LoopExits
  <1>2. TypeOK'  BY <1>1 DEF StructureInv, TypeOK, StoreTypes, disk
  <1>3. Existing' = Existing /\ Known' = Known  BY <1>1 DEF Existing, Known, disk
  <1>4. /\ \A r \in Req : InFlight(r)' <=> InFlight(r)
        /\ \A r \in Req : Saving(r)' <=> Saving(r)
        /\ \A r \in Req : Concerns(r)' = Concerns(r)
    BY <1>1 DEF InFlight, Saving, Concerns
  <1>5. BootInv'  BY <1>1, <1>3, <1>4 DEF StructureInv, BootInv, disk
  <1>6. Shapes'  BY <1>1 DEF StructureInv, Shapes, Shape
  <1>7. LockInv'  BY <1>1, <1>4 DEF StructureInv, LockInv, Locks
  <1>8. \A r \in Req : Placed(r)'
    BY <1>1, <1>3, <1>4 DEF StructureInv, AccountInv, Placed, disk
  <1>9. AccountInv'
    BY <1>1, <1>3, <1>8 DEF StructureInv, AccountInv, disk
  <1> QED  BY <1>2, <1>5, <1>6, <1>7, <1>9 DEF StructureInv

-----------------------------------------------------------------------------
(* The boot and the crash. *)

\* Before the process is up nothing is served and no request is under way.
LEMMA DownFacts ==
  ASSUME StructureInv, stage # "up"
  PROVE  /\ registered = {} /\ alive = {} /\ closed = {} /\ lock = Free /\ Known = {}
         /\ \A r \in Req : req[r].at \in {"new", "done"} /\ req[r].kind = "none"
  <1>1. /\ registered = {} /\ alive = {} /\ closed = {} /\ lock = Free
        /\ \A i \in Id : services[i] = NoGraph
        /\ \A r \in Req : ~InFlight(r)
    BY DEF StructureInv, BootInv
  <1>2. \A r \in Req : req[r].at \in {"new", "done"} /\ req[r].kind = "none"
    BY <1>1 DEF InFlight, StructureInv, Shapes, Shape
  <1> QED  BY <1>1, <1>2 DEF Known

LEMMA DownKeeps ==
  ASSUME StructureInv, stage # "up", UNCHANGED <<memory, req, torn, erased>>, TypeOK',
         minted \subseteq minted', stage' # "up", Existing' \subseteq minted',
         control' # NoControl => control'.accounts \subseteq minted',
         stage' \in {"move", "commit"} => control' = NoControl,
         stage' = "trim" => control' # NoControl,
         stage' = "move" => adopted' = NoId,
         stage' \in {"commit", "trim"} => Existing' # {} /\ adopted' \in Existing' \cup {NoId}
  PROVE  StructureInv'
  <1>1. /\ registered' = {} /\ alive' = {} /\ closed' = {} /\ lock' = Free /\ Known' = {}
        /\ \A r \in Req : req'[r].at \in {"new", "done"} /\ req'[r].kind = "none"
    BY DownFacts DEF memory, Known
  <1>2. BootInv'
    <2>1. \A i \in Id : services'[i] = NoGraph /\ loops'[i] = NoGraph
      BY DEF StructureInv, BootInv, memory
    <2>2. \A r \in Req : ~InFlight(r)'  BY <1>1 DEF InFlight
    <2> QED  BY <1>1, <2>1, <2>2 DEF BootInv
  <1>3. Shapes'  BY DEF StructureInv, Shapes, Shape
  <1>4. LockInv'
    <2>1. ASSUME NEW r \in Req PROVE Locks(r)'
      BY <1>1, AccountsAssumption DEF Locks, Locking, Saving
    <2> QED  BY <2>1 DEF LockInv
  <1>5. AccountInv'
    <2>1. \A r \in Req : Placed(r)'  BY <1>1 DEF Placed, Saving
    <2>2. erased' \subseteq minted'  BY DEF StructureInv, AccountInv
    <2> QED  BY <1>1, <2>1, <2>2 DEF AccountInv
  <1> QED  BY <1>2, <1>3, <1>4, <1>5 DEF StructureInv

LEMMA BootKeeps ==
  ASSUME StructureInv, Boot, UNCHANGED <<memory, req, torn, erased>>
  PROVE  StructureInv'
  <1>1. stage = "off" /\ adopted' = NoId /\ UNCHANGED <<disk, left>>
        /\ stage' = IF control = NoControl THEN "move" ELSE "load"
    BY DEF Boot
  <1>2. TypeOK'
    BY <1>1 DEF StructureInv, TypeOK, StoreTypes, disk, memory
  <1>3. Existing' = Existing /\ control' = control /\ minted' = minted
    BY <1>1 DEF Existing, disk
  <1>4. Existing \subseteq minted /\ (control # NoControl => control.accounts \subseteq minted)
    BY DEF StructureInv, BootInv
  <1> QED  BY <1>1, <1>2, <1>3, <1>4, DownKeeps

LEMMA MoveLegacyKeeps ==
  ASSUME StructureInv, MoveLegacy, UNCHANGED <<memory, req, torn, erased>>
  PROVE  StructureInv'
  <1>1. /\ stage = "move" /\ legacy # NoDb /\ legacy' = NoDb /\ stage' = "commit"
        /\ UNCHANGED <<control, left>>
    BY DEF MoveLegacy
  <1>2. PICK i \in Id \ minted :
           dirs' = [dirs EXCEPT ![i] = legacy] /\ minted' = minted \cup {i} /\ adopted' = i
    BY DEF MoveLegacy
  <1>3. legacy \in Db /\ dirs \in [Id -> Db \cup {NoDb}] /\ minted \in SUBSET Id
    BY <1>1 DEF StructureInv, TypeOK, StoreTypes
  <1>4. /\ dirs' \in [Id -> Db \cup {NoDb}] /\ dirs'[i] = legacy
        /\ \A x \in Id \ {i} : dirs'[x] = dirs[x]
    BY <1>2, <1>3
  <1>5. Existing' = Existing \cup {i}  BY <1>1, <1>4 DEF Existing
  <1>6. TypeOK'
    BY <1>1, <1>2, <1>3, <1>4 DEF StructureInv, TypeOK, StoreTypes, memory
  <1>7. Existing \subseteq minted /\ control = NoControl
    BY <1>1 DEF StructureInv, BootInv
  <1> QED  BY <1>1, <1>2, <1>5, <1>6, <1>7, DownKeeps

LEMMA NothingToMoveKeeps ==
  ASSUME StructureInv, NothingToMove, UNCHANGED <<memory, req, torn, erased>>
  PROVE  StructureInv'
  <1>1. /\ stage = "move" /\ UNCHANGED <<disk, adopted, left>>
        /\ stage' = IF Existing = {} THEN "load" ELSE "commit"
    BY DEF NothingToMove
  <1>2. TypeOK'
    BY <1>1 DEF StructureInv, TypeOK, StoreTypes, disk, memory
  <1>3. Existing' = Existing /\ control' = control /\ minted' = minted
    BY <1>1 DEF Existing, disk
  <1>4. Existing \subseteq minted /\ control = NoControl /\ adopted = NoId
    BY <1>1 DEF StructureInv, BootInv
  <1> QED  BY <1>1, <1>2, <1>3, <1>4, DownKeeps

\* The least of a set of account ids, which are numbers here.
LEMMA LeastOf == ASSUME NEW S \in SUBSET Nat, S # {} PROVE Min(S) \in S
  <1>1. IsWellFoundedOn(OpToRel(<, Nat), Nat)  BY NatLessThanWellFounded, Zenon
  <1>2. PICK x \in S : \A y \in S : ~ (<<y, x>> \in OpToRel(<, Nat))  BY <1>1, WFMin, Zenon
  <1>3. \A y \in S : ~ (y < x)  BY <1>2, Zenon DEF OpToRel
  <1>4. \A y \in S : x <= y  BY <1>3
  <1> QED  BY <1>4 DEF Min

\* The account control.db is filled from is one of those found.
LEMMA PrimaryExists ==
  ASSUME StructureInv, stage \in {"commit", "trim"}
  PROVE  Primary \in Existing /\ Primary \in Id /\ dirs[Primary] \in Db
  <1>1. Existing # {} /\ adopted \in Existing \cup {NoId}  BY DEF StructureInv, BootInv
  <1>2. Existing \in SUBSET Nat /\ \A i \in Existing : i \in Id
    BY StoreAssumption DEF Existing
  <1>3. Min(Existing) \in Existing  BY <1>1, <1>2, LeastOf
  <1>4. Primary \in Existing  BY <1>1, <1>3 DEF Primary
  <1>5. Primary \in Id  BY <1>2, <1>4
  <1>6. dirs[Primary] # NoDb  BY <1>4 DEF Existing
  <1>7. dirs \in [Id -> Db \cup {NoDb}]  BY DEF StructureInv, TypeOK, StoreTypes
  <1> QED  BY <1>4, <1>5, <1>6, <1>7

LEMMA OnlyTypes ==
  ASSUME NEW row \in Row, NEW K
  PROVE  Only(K, row) \in Row /\ Except(K, row) \in Row
  BY DEF Only, Except, Row, Entry

LEMMA CommitControlKeeps ==
  ASSUME StructureInv, CommitControl, UNCHANGED <<memory, req, torn, erased>>
  PROVE  StructureInv'
  <1> DEFINE row == Only(GlobalKey \cup CarriedKey, dirs[Primary].row)
  <1>1. /\ stage = "commit" /\ stage' = "trim"
        /\ control' = [accounts |-> Existing, row |-> row, bare |-> adopted]
        /\ UNCHANGED <<legacy, dirs, minted, adopted, left>>
    BY DEF CommitControl
  <1>2. dirs[Primary] \in Db  BY <1>1, PrimaryExists
  <1>3. row \in Row  BY <1>2, OnlyTypes DEF Db
  <1> HIDE DEF row
  <1>4. control' \in Control /\ control'.accounts = Existing
    BY <1>1, <1>3 DEF Control, StructureInv, TypeOK, StoreTypes, Existing
  <1>5. control' # NoControl  BY <1>4, PlacesAssumption
  <1>6. TypeOK'
    BY <1>1, <1>4 DEF StructureInv, TypeOK, StoreTypes, memory
  <1>7. Existing' = Existing  BY <1>1 DEF Existing
  <1>8. Existing \subseteq minted /\ Existing # {} /\ adopted \in Existing \cup {NoId}
    BY <1>1 DEF StructureInv, BootInv
  <1> QED  BY <1>1, <1>4, <1>5, <1>6, <1>7, <1>8, DownKeeps

LEMMA TrimDoes ==
  ASSUME StructureInv, TrimAccountRow
  PROVE  /\ stage = "trim" /\ stage' = "load" /\ UNCHANGED <<legacy, control, minted, adopted, left>>
         /\ Primary \in Existing /\ dirs[Primary] \in Db
         /\ dirs' \in [Id -> Db \cup {NoDb}] /\ dirs'[Primary] \in Db
         /\ dirs'[Primary].row = Except(GlobalKey, dirs[Primary].row)
         /\ dirs'[Primary].old = dirs[Primary].old
         /\ \A i \in Id \ {Primary} : dirs'[i] = dirs[i]
         /\ Existing' = Existing
  <1> DEFINE row == Except(GlobalKey, dirs[Primary].row)
             p == Primary
             d == [dirs[p] EXCEPT !.row = row]
  <1>1. /\ stage = "trim" /\ stage' = "load"
        /\ UNCHANGED <<legacy, control, minted, adopted, left>>
        /\ dirs' = [dirs EXCEPT ![p] = d]
    BY DEF TrimAccountRow
  <1>2. p \in Existing /\ dirs[p] \in Db /\ p \in Id  BY <1>1, PrimaryExists
  <1> HIDE DEF p
  <1>3. row \in Row
    <2>1. dirs[Primary].row \in Row  BY <1>2 DEF Db, p
    <2> QED  BY <2>1, OnlyTypes
  <1> HIDE DEF row
  <1>4. d \in Db /\ d.row = row /\ d.old = dirs[p].old  BY <1>2, <1>3 DEF Db
  <1> HIDE DEF d
  <1>5. dirs \in [Id -> Db \cup {NoDb}]  BY DEF StructureInv, TypeOK, StoreTypes
  <1>6. /\ dirs' \in [Id -> Db \cup {NoDb}] /\ dirs'[p] = d
        /\ \A i \in Id \ {p} : dirs'[i] = dirs[i]
    BY <1>1, <1>2, <1>4, <1>5
  <1>7. Existing' = Existing  BY <1>2, <1>4, <1>6, SameDatabases
  <1> QED  BY <1>1, <1>2, <1>4, <1>6, <1>7 DEF p, row

LEMMA TrimAccountRowKeeps ==
  ASSUME StructureInv, TrimAccountRow, UNCHANGED <<memory, req, torn, erased>>
  PROVE  StructureInv'
  <1>1. /\ stage = "trim" /\ stage' = "load" /\ UNCHANGED <<legacy, control, minted, adopted, left>>
        /\ dirs' \in [Id -> Db \cup {NoDb}] /\ Existing' = Existing
    BY TrimDoes
  <1>2. TypeOK'
    BY <1>1 DEF StructureInv, TypeOK, StoreTypes, memory
  <1>3. Existing \subseteq minted /\ (control # NoControl => control.accounts \subseteq minted)
    BY DEF StructureInv, BootInv
  <1> QED  BY <1>1, <1>2, <1>3, DownKeeps

LEMMA LoseControlKeeps ==
  ASSUME StructureInv, LoseControl, UNCHANGED <<memory, req, torn, erased>>
  PROVE  StructureInv'
  <1>1. /\ stage = "off" /\ control' = NoControl
        /\ UNCHANGED <<legacy, dirs, minted, stage, adopted>>
    BY DEF LoseControl
  <1>2. left' \in Nat  BY StrikeTypes DEF LoseControl, StructureInv
  <1>3. TypeOK'
    BY <1>1, <1>2 DEF StructureInv, TypeOK, StoreTypes, memory
  <1>4. Existing' = Existing /\ Existing \subseteq minted
    BY <1>1 DEF Existing, StructureInv, BootInv
  <1> QED  BY <1>1, <1>3, <1>4, DownKeeps

\* What the process is up with, and what it leaves on disk.
LEMMA LoadDoes ==
  ASSUME StructureInv, Load
  PROVE  LET c == IF control = NoControl THEN EmptyControl ELSE control
         IN /\ stage = "load" /\ stage' = "up" /\ c \in Control /\ control' = c
            /\ c.accounts \subseteq minted /\ c.accounts \subseteq Id
            /\ dirs' \in [Id -> Db \cup {NoDb}]
            /\ \A i \in c.accounts : dirs'[i] = Opened(i) /\ dirs'[i] \in Db
            /\ \A i \in Id \ c.accounts : dirs'[i] = dirs[i]
            /\ limiter' \in Limiters
            /\ \A k \in GlobalKey : limiter'[k].limit = Valid(c.row[k])
            /\ registered' = c.accounts /\ alive' = c.accounts
            /\ services' \in [Id -> Graph \cup {NoGraph}] /\ loops' = services'
            /\ \A i \in c.accounts :
                  /\ services'[i] \in Graph
                  /\ services'[i].settings = MergedSettings(c.row, Opened(i).row)
                  /\ services'[i].limiters = limiter'
            /\ \A i \in Id \ c.accounts : services'[i] = NoGraph
  <1> DEFINE c == IF control = NoControl THEN EmptyControl ELSE control
             lim == [k \in GlobalKey |-> NewLimiter(k, Valid(c.row[k]), 1)]
             g(i) == [settings |-> MergedSettings(c.row, Opened(i).row), limiters |-> lim]
  <1>1. /\ stage = "load" /\ stage' = "up" /\ control' = c
        /\ dirs' = [i \in Id |-> IF i \in c.accounts THEN Opened(i) ELSE dirs[i]]
        /\ limiter' = lim /\ registered' = c.accounts /\ alive' = c.accounts
        /\ services' = [i \in Id |-> IF i \in c.accounts THEN g(i) ELSE NoGraph]
        /\ loops' = services'
    BY DEF Load
  <1>2. c \in Control /\ c.accounts \subseteq minted
    <2>1. EmptyControl \in Control /\ EmptyControl.accounts = {}
      BY BlankIsRow DEF EmptyControl, Control
    <2>2. control # NoControl => control \in Control /\ control.accounts \subseteq minted
      BY DEF StructureInv, BootInv, TypeOK, StoreTypes
    <2> QED  BY <2>1, <2>2
  <1> HIDE DEF c
  <1>3. c.accounts \subseteq Id /\ c.row \in Row  BY <1>2 DEF Control
  <1>4. \A i \in Id : Opened(i) \in Db  BY OpenedTypes DEF StructureInv
  <1>5. \A k \in GlobalKey : /\ NewLimiter(k, Valid(c.row[k]), 1) \in Limiter
                             /\ NewLimiter(k, Valid(c.row[k]), 1).limit = Valid(c.row[k])
    BY ValidTypes, LimiterTypes
  <1>6. lim \in Limiters /\ \A k \in GlobalKey : lim[k].limit = Valid(c.row[k])
    BY <1>5 DEF Limiters
  <1> HIDE DEF lim
  <1>7. ASSUME NEW i \in Id PROVE g(i) \in Graph
    <2>1. Opened(i).row \in Row  BY <1>4 DEF Db
    <2>2. MergedSettings(c.row, Opened(i).row) \in [Setting -> Value \cup {Unset}]
      BY <1>3, <2>1, MergedTypes
    <2> QED  BY <1>6, <2>2 DEF Graph
  <1>8. /\ dirs' \in [Id -> Db \cup {NoDb}]
        /\ \A i \in c.accounts : dirs'[i] = Opened(i) /\ dirs'[i] \in Db
        /\ \A i \in Id \ c.accounts : dirs'[i] = dirs[i]
    BY <1>1, <1>3, <1>4 DEF StructureInv, TypeOK, StoreTypes
  <1>9. \A i \in Id : /\ g(i).settings = MergedSettings(c.row, Opened(i).row)
                      /\ g(i).limiters = lim
    OBVIOUS
  <1> HIDE DEF g
  <1>10. /\ services' \in [Id -> Graph \cup {NoGraph}]
         /\ \A i \in c.accounts : services'[i] = g(i) /\ i \in Id
         /\ \A i \in Id \ c.accounts : services'[i] = NoGraph
    BY <1>1, <1>3, <1>7
  <1> QED  BY <1>1, <1>2, <1>3, <1>6, <1>7, <1>8, <1>9, <1>10 DEF c

LEMMA LoadKeeps ==
  ASSUME StructureInv, Load
  PROVE  StructureInv'
  <1> DEFINE c == IF control = NoControl THEN EmptyControl ELSE control
  <1>1. /\ stage = "load" /\ stage' = "up" /\ c \in Control /\ control' = c
        /\ c.accounts \subseteq minted /\ c.accounts \subseteq Id
        /\ dirs' \in [Id -> Db \cup {NoDb}]
        /\ \A i \in c.accounts : dirs'[i] = Opened(i) /\ dirs'[i] \in Db
        /\ \A i \in Id \ c.accounts : dirs'[i] = dirs[i]
        /\ limiter' \in Limiters
        /\ registered' = c.accounts /\ alive' = c.accounts
        /\ services' \in [Id -> Graph \cup {NoGraph}] /\ loops' = services'
        /\ \A i \in c.accounts : services'[i] \in Graph
        /\ \A i \in Id \ c.accounts : services'[i] = NoGraph
    BY LoadDoes
  <1> HIDE DEF c
  <1>2. UNCHANGED <<legacy, minted, adopted, left, closed, lock, req, torn, erased>> /\ built' = 1
    BY DEF Load
  <1>3. TypeOK'
    BY <1>1, <1>2 DEF StructureInv, TypeOK, StoreTypes
  <1>4. /\ closed = {} /\ lock = Free
        /\ \A r \in Req : req[r].at \in {"new", "done"} /\ req[r].kind = "none"
    BY <1>1, DownFacts
  <1>5. Existing' = Existing \cup c.accounts  BY <1>1, PlacesAssumption DEF Existing
  <1>6. Known' = c.accounts  BY <1>1, NoGraphAssumption DEF Known
  <1>7. BootInv'
    <2>1. Existing \subseteq minted  BY DEF StructureInv, BootInv
    <2> QED  BY <1>1, <1>2, <1>5, <2>1, BootUp, PlacesAssumption
  <1>8. Shapes'  BY <1>2 DEF StructureInv, Shapes, Shape
  <1>9. LockInv'
    <2>1. ASSUME NEW r \in Req PROVE Locks(r)'
      BY <1>2, <1>4, AccountsAssumption DEF Locks, Locking, Saving
    <2> QED  BY <2>1 DEF LockInv
  <1>10. AccountInv'
    <2>1. \A r \in Req : Placed(r)'  BY <1>2, <1>4 DEF Placed, Saving
    <2>2. erased' \subseteq minted'  BY <1>2 DEF StructureInv, AccountInv
    <2>3. \A i \in Known' : loops'[i] # NoGraph /\ i \in Existing'
      BY <1>1, <1>5, <1>6, NoGraphAssumption
    <2> QED  BY <1>1, <1>2, <1>4, <1>6, <2>1, <2>2, <2>3 DEF AccountInv
  <1> QED  BY <1>3, <1>7, <1>8, <1>9, <1>10 DEF StructureInv

LEMMA CrashKeeps ==
  ASSUME StructureInv, Crash
  PROVE  StructureInv'
  <1>1. /\ stage' = "off" /\ adopted' = NoId
        /\ registered' = {} /\ alive' = {} /\ closed' = {}
        /\ services' = [i \in Id |-> NoGraph] /\ loops' = services'
        /\ limiter' = [k \in GlobalKey |-> NewLimiter(k, Unset, 0)] /\ built' = 0
        /\ lock' = Free
        /\ req' = [r \in Req |-> IF InFlight(r) THEN Done ELSE req[r]]
        /\ torn' = FALSE
        /\ UNCHANGED <<disk, erased>>
    BY DEF Crash
  <1>2. left' \in Nat  BY StrikeTypes DEF Crash, StructureInv
  <1>3. req' \in [Req -> Request]  BY <1>1, RequestTypes, IdleTypes DEF StructureInv
  <1>4. limiter' \in Limiters
    <2>1. \A k \in GlobalKey : NewLimiter(k, Unset, 0) \in Limiter  BY LimiterTypes
    <2> QED  BY <1>1, <2>1 DEF Limiters
  <1>5. TypeOK'
    BY <1>1, <1>2, <1>3, <1>4 DEF StructureInv, TypeOK, StoreTypes, disk
  <1>6. \A r \in Req : Shape(req'[r]) /\ req'[r].at \in {"new", "done"} /\ req'[r].kind = "none"
    <2>1. ASSUME NEW r \in Req, InFlight(r)
          PROVE  Shape(req'[r]) /\ req'[r].at \in {"new", "done"} /\ req'[r].kind = "none"
      BY <1>1, <2>1, IdleTypes, DoneFits
    <2>2. ASSUME NEW r \in Req, ~InFlight(r)
          PROVE  Shape(req'[r]) /\ req'[r].at \in {"new", "done"} /\ req'[r].kind = "none"
      <3>1. req'[r] = req[r] /\ Shape(req[r])  BY <1>1, <2>2 DEF StructureInv, Shapes
      <3>2. req[r].at \in {"new", "done"}  BY <2>2 DEF InFlight
      <3>3. req[r].kind = "none"  BY <3>1, <3>2 DEF Shape
      <3> QED  BY <3>1, <3>2, <3>3
    <2> QED  BY <2>1, <2>2
  <1>7. Existing' = Existing /\ control' = control /\ minted' = minted
    BY <1>1 DEF Existing, disk
  <1>8. Known' = {}  BY <1>1 DEF Known
  <1>9. BootInv'
    <2>1. \A i \in Id : services'[i] = NoGraph /\ loops'[i] = NoGraph  BY <1>1
    <2>2. \A r \in Req : ~InFlight(r)'  BY <1>6 DEF InFlight
    <2>3. Existing \subseteq minted /\ (control # NoControl => control.accounts \subseteq minted)
      BY DEF StructureInv, BootInv
    <2> QED  BY <1>1, <1>7, <2>1, <2>2, <2>3 DEF BootInv
  <1>10. Shapes'  BY <1>6 DEF Shapes, Shape
  <1>11. LockInv'
    <2>1. ASSUME NEW r \in Req PROVE Locks(r)'
      BY <1>1, <1>6, AccountsAssumption DEF Locks, Locking, Saving
    <2> QED  BY <2>1 DEF LockInv
  <1>12. AccountInv'
    <2>1. \A r \in Req : Placed(r)'  BY <1>6 DEF Placed, Saving
    <2>2. erased' \subseteq minted'  BY <1>1, <1>7 DEF StructureInv, AccountInv
    <2> QED  BY <1>1, <1>8, <2>1, <2>2 DEF AccountInv
  <1> QED  BY <1>5, <1>9, <1>10, <1>11, <1>12 DEF StructureInv

-----------------------------------------------------------------------------
(* TypeOK. *)

\* What an install of either version looks like before the first boot.
LEMMA InstallTypes ==
  ASSUME StoreInit
  PROVE  /\ StoreTypes /\ stage = "off" /\ adopted = NoId /\ left = Budget
         /\ Existing \subseteq minted
         /\ control # NoControl => control.accounts \subseteq minted
  <1>1. stage = "off" /\ adopted = NoId /\ left = Budget /\ left \in Nat
    BY StoreAssumption DEF StoreInit
  <1>2. CASE FreshInstall
    BY <1>1, <1>2 DEF FreshInstall, StoreTypes, Existing
  <1>3. CASE OldInstall
    <2>1. PICK r \in OldRows : legacy = [row |-> r, old |-> TRUE]  BY <1>3 DEF OldInstall
    <2>2. legacy \in Db  BY <2>1, PlacesAssumption DEF Db
    <2> QED  BY <1>1, <1>3, <2>2 DEF OldInstall, StoreTypes, Existing
  <1>4. CASE NewInstall
    <2>1. PICK i, j \in Id, r, s \in NewRows :
            /\ i # j
            /\ dirs = [x \in Id |->
                         IF x = i THEN [row |-> Except(GlobalKey, r), old |-> TRUE]
                         ELSE IF x = j THEN [row |-> Except(GlobalKey, s), old |-> FALSE]
                         ELSE NoDb]
            /\ control = [accounts |-> {i, j}, row |-> Only(GlobalKey \cup CarriedKey, r),
                          bare |-> i]
            /\ minted = {i, j}
      BY <1>4 DEF NewInstall
    <2>2. r \in Row /\ s \in Row  BY PlacesAssumption
    <2>3. /\ [row |-> Except(GlobalKey, r), old |-> TRUE] \in Db
          /\ [row |-> Except(GlobalKey, s), old |-> FALSE] \in Db
      BY <2>2, OnlyTypes DEF Db
    <2>4. control \in Control /\ control.accounts = {i, j}
      BY <2>1, <2>2, OnlyTypes DEF Control
    <2>5. dirs \in [Id -> Db \cup {NoDb}]  BY <2>1, <2>3
    <2>6. Existing \subseteq minted  BY <2>1 DEF Existing
    <2> QED  BY <1>1, <1>4, <2>1, <2>4, <2>5, <2>6 DEF NewInstall, StoreTypes
  <1> QED  BY <1>2, <1>3, <1>4 DEF StoreInit

LEMMA StructureStarts == Init => StructureInv
  <1> SUFFICES ASSUME Init PROVE StructureInv
    OBVIOUS
  <1>1. /\ StoreInit /\ registered = {} /\ alive = {} /\ closed = {}
        /\ services = [i \in Id |-> NoGraph] /\ loops = services
        /\ limiter = [k \in GlobalKey |-> NewLimiter(k, Unset, 0)] /\ built = 0
        /\ lock = Free /\ req = [r \in Req |-> Idle]
        /\ torn = FALSE /\ erased = {}
    BY DEF Init
  <1>2. /\ StoreTypes /\ stage = "off" /\ Existing \subseteq minted
        /\ control # NoControl => control.accounts \subseteq minted
    BY <1>1, InstallTypes
  <1>3. limiter \in Limiters
    <2>1. \A k \in GlobalKey : NewLimiter(k, Unset, 0) \in Limiter  BY LimiterTypes
    <2> QED  BY <1>1, <2>1 DEF Limiters
  <1>4. req \in [Req -> Request] /\ \A r \in Req : req[r] = Idle  BY <1>1, IdleTypes
  <1>5. TypeOK  BY <1>1, <1>2, <1>3, <1>4 DEF TypeOK
  <1>6. BootInv
    <2>1. \A r \in Req : ~InFlight(r)  BY <1>4, IdleTypes DEF InFlight
    <2> QED  BY <1>1, <1>2, <2>1 DEF BootInv
  <1>7. Shapes  BY <1>4, IdleTypes DEF Shapes, Shape
  <1>8. LockInv
    <2>1. ASSUME NEW r \in Req PROVE Locks(r)
      BY <1>1, <1>4, IdleTypes, AccountsAssumption DEF Locks, Locking, Saving
    <2> QED  BY <2>1 DEF LockInv
  <1>9. AccountInv
    <2>1. Known = {}  BY <1>1 DEF Known
    <2>2. \A r \in Req : Placed(r)  BY <1>4, IdleTypes DEF Placed, Saving
    <2> QED  BY <1>1, <2>1, <2>2 DEF AccountInv
  <1> QED  BY <1>5, <1>6, <1>7, <1>8, <1>9 DEF StructureInv

LEMMA StructureSteps == StructureInv /\ [Next]_vars => StructureInv'
  <1> SUFFICES ASSUME StructureInv, [Next]_vars PROVE StructureInv'
    OBVIOUS
  <1>1. CASE MigrationStep /\ UNCHANGED <<memory, req, torn, erased>>
    BY <1>1, BootKeeps, MoveLegacyKeeps, NothingToMoveKeeps, CommitControlKeeps,
       TrimAccountRowKeeps, LoseControlKeeps DEF MigrationStep
  <1>2. CASE Load  BY <1>2, LoadKeeps
  <1>3. CASE Crash  BY <1>3, CrashKeeps
  <1>4. ASSUME NEW r \in Req, RequestStep(r) PROVE StructureInv'
    BY <1>4, BeginSaveKeeps, BeginConnectKeeps, ReadAccountRowKeeps, WriteAccountRowKeeps,
       ReadGlobalRowKeeps, WriteGlobalRowKeeps, StoreCredentialKeeps, StatementFailsKeeps,
       LimitKeeps, BuildAnotherKeeps, BuildOwnKeeps, EndGlobalSaveKeeps, InstallKeeps,
       ReplaceKeeps, ReplaceRaisesKeeps, CreateKeeps, OpenAccountKeeps, OpenFailsKeeps,
       RegisterKeeps, RemoveKeeps, StopLoopKeeps, DropRowKeeps, DropRowFailsKeeps, WipeKeeps
       DEF RequestStep
  <1>5. ASSUME NEW i \in Id, LoopExits(i) PROVE StructureInv'
    BY <1>5, LoopExitsKeeps
  <1>6. CASE UNCHANGED vars
    <2>1. UNCHANGED <<legacy, dirs, control, minted, stage, adopted, left, registered, services,
                      loops, limiter, built, alive, closed, lock, req, torn, erased>>
      BY <1>6 DEF vars, memory, disk
    <2>2. TypeOK'  BY <2>1 DEF StructureInv, TypeOK, StoreTypes
    <2>3. Existing' = Existing /\ Known' = Known  BY <2>1 DEF Existing, Known
    <2>4. /\ \A r \in Req : InFlight(r)' <=> InFlight(r)
          /\ \A r \in Req : Saving(r)' <=> Saving(r)
          /\ \A r \in Req : Concerns(r)' = Concerns(r)
      BY <2>1 DEF InFlight, Saving, Concerns
    <2>5. BootInv'  BY <2>1, <2>3, <2>4 DEF StructureInv, BootInv
    <2>6. Shapes'  BY <2>1 DEF StructureInv, Shapes, Shape
    <2>7. LockInv'  BY <2>1, <2>4 DEF StructureInv, LockInv, Locks
    <2>8. \A r \in Req : Placed(r)'
      BY <2>1, <2>3, <2>4 DEF StructureInv, AccountInv, Placed
    <2>9. AccountInv'
      BY <2>1, <2>3, <2>8 DEF StructureInv, AccountInv
    <2> QED  BY <2>2, <2>5, <2>6, <2>7, <2>9 DEF StructureInv
  <1> QED  BY <1>1, <1>2, <1>3, <1>4, <1>5, <1>6 DEF Next

\* Every variable keeps its type, whatever the requests interleave to: no request finds
\* its account, the graph it rebuilds or the database it writes to missing.
THEOREM AccountsTypes == Spec => []TypeOK
  <1>1. StructureInv => TypeOK  BY DEF StructureInv
  <1> QED  BY <1>1, StructureStarts, StructureSteps, PTL DEF Spec

LEMMA StructureHolds == Spec => []StructureInv
  BY StructureStarts, StructureSteps, PTL DEF Spec

-----------------------------------------------------------------------------
(* RemovedIsGone. *)

\* Outside of these steps databases only come, and an account enters the table under
\* an id never handed out before.
LEMMA ErasedKept ==
  ASSUME StructureInv, ErasedInv, erased' = erased,
         \A i \in erased : dirs'[i] = dirs[i],
         control' = control \/ control' = NoControl
            \/ (control' \in Control /\ control'.accounts \subseteq (control.accounts \cup (Id \ erased))
                /\ control # NoControl)
  PROVE  ErasedInv'
  BY DEF ErasedInv

LEMMA ErasedMigrates ==
  ASSUME StructureInv, ErasedInv, MigrationStep, UNCHANGED <<memory, req, torn, erased>>
  PROVE  ErasedInv'
  <1>1. \A i \in erased : i \in minted /\ i \in Id /\ dirs[i] = NoDb /\ i \notin Existing
    BY DEF StructureInv, AccountInv, ErasedInv, TypeOK, Existing
  <1>2. CASE Boot \/ NothingToMove \/ LoseControl
    BY <1>2, ErasedKept DEF Boot, NothingToMove, LoseControl, disk
  <1>3. CASE MoveLegacy
    <2>1. PICK i \in Id \ minted : dirs' = [dirs EXCEPT ![i] = legacy]
      BY <1>3 DEF MoveLegacy
    <2>2. \A x \in erased : dirs'[x] = dirs[x]
      BY <1>1, <2>1 DEF StructureInv, TypeOK, StoreTypes
    <2> QED  BY <1>3, <2>2, ErasedKept DEF MoveLegacy
  <1>4. CASE CommitControl
    BY <1>1, <1>4 DEF CommitControl, ErasedInv
  <1>5. CASE TrimAccountRow
    <2>1. /\ \A i \in Id \ {Primary} : dirs'[i] = dirs[i]
          /\ Primary \in Existing /\ control' = control
      BY <1>5, TrimDoes
    <2> QED  BY <1>1, <2>1, ErasedKept
  <1> QED  BY <1>2, <1>3, <1>4, <1>5 DEF MigrationStep

LEMMA ErasedLoads ==
  ASSUME StructureInv, ErasedInv, Load
  PROVE  ErasedInv'
  <1> DEFINE c == IF control = NoControl THEN EmptyControl ELSE control
  <1>1. control' = c /\ \A i \in Id \ c.accounts : dirs'[i] = dirs[i]
    BY LoadDoes
  <1>2. \A i \in erased : i \notin c.accounts /\ i \in Id
    BY DEF ErasedInv, EmptyControl, StructureInv, TypeOK
  <1> QED  BY <1>1, <1>2 DEF ErasedInv, Load

\* An account being opened is one nobody erased.
LEMMA ErasedRequested ==
  ASSUME StructureInv, ErasedInv, NEW r \in Req, RequestStep(r)
  PROVE  ErasedInv'
  <1>1. \A i \in erased : i \in minted /\ i \in Id /\ dirs[i] = NoDb /\ i \notin Existing
    BY DEF StructureInv, AccountInv, ErasedInv, TypeOK, Existing
  <1>2. CASE BeginSave(r) \/ BeginConnect(r) \/ ReadAccountRow(r) \/ ReadGlobalRow(r)
             \/ StatementFails(r) \/ Limit(r) \/ BuildAnother(r) \/ BuildOwn(r)
             \/ EndGlobalSave(r) \/ Install(r) \/ Replace(r) \/ ReplaceRaises(r)
             \/ OpenFails(r) \/ Register(r) \/ Remove(r) \/ StopLoop(r) \/ DropRowFails(r)
    <2>1. UNCHANGED <<disk, erased>>
      BY <1>2 DEF BeginSave, BeginConnect, ReadAccountRow, ReadGlobalRow, StatementFails, Limit,
                  BuildAnother, BuildOwn, EndGlobalSave, Install, Replace, ReplaceRaises,
                  OpenFails, Register, Remove, StopLoop, DropRowFails
    <2> QED  BY <2>1, ErasedKept DEF disk
  <1>3. CASE WriteAccountRow(r) \/ StoreCredential(r)
    <2>1. req[r].at \in SavingSteps /\ req[r].id \notin closed
      BY <1>3 DEF WriteAccountRow, StoreCredential, SavingSteps
    <2>2. dirs[req[r].id] \in Db  BY <2>1, SavingFacts
    <2>3. req[r].id \notin erased  BY <1>1, <2>2, PlacesAssumption
    <2>4. \A i \in Id \ {req[r].id} : dirs'[i] = dirs[i]
      BY <1>3 DEF WriteAccountRow, StoreCredential, StructureInv, TypeOK, StoreTypes
    <2>5. control' = control /\ erased' = erased
      BY <1>3 DEF WriteAccountRow, StoreCredential
    <2> QED  BY <1>1, <2>3, <2>4, <2>5, ErasedKept
  <1>4. CASE WriteGlobalRow(r) \/ DropRow(r)
    <2>1. req[r].at \in SavingSteps \cup Locking
      BY <1>4 DEF WriteGlobalRow, DropRow, SavingSteps, Locking
    <2>2. control \in Control /\ control # NoControl  BY <2>1, SavingFacts, HolderFacts
    <2>3. control'.accounts \subseteq control.accounts
      BY <1>4, <2>2 DEF WriteGlobalRow, DropRow, Control
    <2>4. dirs' = dirs /\ erased' = erased  BY <1>4 DEF WriteGlobalRow, DropRow
    <2> QED  BY <2>2, <2>3, <2>4 DEF ErasedInv
  <1>5. CASE Create(r)
    <2>1. /\ control' = [control EXCEPT !.accounts = @ \cup {req'[r].id}]
          /\ req'[r].id \in Id \ minted /\ stage = "up"
      BY <1>5, CreateDoes DEF StructureInv
    <2>2. control \in Control /\ control # NoControl
      BY <1>5, BeginningFacts DEF Create
    <2>3. control'.accounts = control.accounts \cup {req'[r].id}
      BY <2>1, <2>2 DEF Control
    <2>4. dirs' = dirs /\ erased' = erased  BY <1>5 DEF Create
    <2> QED  BY <1>1, <2>1, <2>2, <2>3, <2>4 DEF ErasedInv
  <1>6. CASE OpenAccount(r)
    <2>1. req[r].at \in Locking /\ req[r].at = "open"  BY <1>6 DEF OpenAccount, Locking
    <2>2. Placed(r) /\ req[r].kind = "create" /\ req[r].id \in Id  BY <2>1, HolderFacts
    <2>3. req[r].id \notin erased  BY <2>2 DEF Placed
    <2>4. /\ \A i \in Id \ {req[r].id} : dirs'[i] = dirs[i]
          /\ control' = control /\ erased' = erased
      BY <1>6, <2>2 DEF OpenAccount, StructureInv, TypeOK, StoreTypes
    <2> QED  BY <1>1, <2>3, <2>4, ErasedKept
  <1>7. CASE Wipe(r)
    <2>1. req[r].at \in Locking  BY <1>7 DEF Wipe, Locking
    <2>2. req[r].id \in Id  BY <2>1, HolderFacts
    <2>3. dirs \in [Id -> Db \cup {NoDb}]  BY DEF StructureInv, TypeOK, StoreTypes
    <2>4. control' = control  BY <1>7 DEF Wipe
    <2>5. CASE UNCHANGED <<dirs, erased>>
      BY <2>4, <2>5, ErasedKept
    <2>6. CASE /\ dirs' = [dirs EXCEPT ![req[r].id] = NoDb]
               /\ erased' = erased \cup ({req[r].id} \ control.accounts)
      <3>1. \A i \in Id : dirs'[i] = NoDb \/ dirs'[i] = dirs[i]
        BY <2>2, <2>3, <2>6
      <3>2. dirs'[req[r].id] = NoDb  BY <2>2, <2>3, <2>6
      <3> QED  BY <1>1, <2>4, <2>6, <3>1, <3>2 DEF ErasedInv
    <2> QED  BY <1>7, <2>5, <2>6 DEF Wipe
  <1> QED  BY <1>2, <1>3, <1>4, <1>5, <1>6, <1>7 DEF RequestStep

LEMMA ErasedSteps == StructureInv /\ ErasedInv /\ [Next]_vars => ErasedInv'
  <1> SUFFICES ASSUME StructureInv, ErasedInv, [Next]_vars PROVE ErasedInv'
    OBVIOUS
  <1>1. CASE Crash \/ (\E i \in Id : LoopExits(i)) \/ UNCHANGED vars
    <2>1. UNCHANGED <<disk, erased>>  BY <1>1 DEF Crash, LoopExits, vars
    <2> QED  BY <2>1, ErasedKept DEF disk
  <1> QED  BY <1>1, ErasedMigrates, ErasedLoads, ErasedRequested DEF Next

\* An account whose data was deleted with it stays deleted, and no connection is closed
\* under a loop that runs: through crashes, failed writes, every other request, and the
\* loss of control.db (after which the boot adopts only the databases it finds).
THEOREM AccountsStayErased == Spec => []RemovedIsGone
  <1>1. Init => ErasedInv  BY DEF Init, ErasedInv
  <1>2. StructureInv /\ ErasedInv => RemovedIsGone
    <2> SUFFICES ASSUME StructureInv, ErasedInv PROVE RemovedIsGone
      OBVIOUS
    <2>1. closed \cap alive = {}  BY DEF StructureInv, AccountInv
    <2>2. ASSUME NEW i \in erased
          PROVE  dirs[i] = NoDb /\ (stage = "up" => i \notin control.accounts)
      BY <2>2 DEF ErasedInv, StructureInv, BootInv
    <2>3. ASSUME NEW i \in erased PROVE i \notin alive \cup registered
      <3>1. i \notin Existing  BY <2>2 DEF Existing
      <3>2. i \in Known => i \in closed  BY <3>1 DEF StructureInv, AccountInv
      <3> QED  BY <3>2 DEF StructureInv, AccountInv
    <2> QED  BY <2>1, <2>2, <2>3 DEF RemovedIsGone
  <1> QED  BY <1>1, <1>2, StructureHolds, ErasedSteps, PTL DEF Spec

-----------------------------------------------------------------------------
(* BareWebhookOwner. *)

\* A step that binds nothing and brings no old database.
LEMMA OldKept ==
  ASSUME OldInv, legacy' = legacy,
         \A i \in Existing' : dirs'[i].old => i \in Existing /\ dirs[i].old,
         \/ control' = control
         \/ control # NoControl /\ control' # NoControl /\ control'.bare = control.bare,
         \/ UNCHANGED <<stage, adopted>>
         \/ stage # "commit" /\ stage' # "commit",
         left' = left \/ (left' <= Budget /\ left' # Budget)
  PROVE  OldInv'
  <1>1. left' <= Budget  BY DEF OldInv
  <1>2. legacy' # NoDb => \A i \in Existing' : ~dirs'[i].old  BY DEF OldInv
  <1>3. \A i, j \in Existing' : dirs'[i].old /\ dirs'[j].old => i = j  BY DEF OldInv
  <1>4. ASSUME NEW i \in Existing', dirs'[i].old
        PROVE  /\ control' # NoControl => control'.bare \in {i, NoId}
               /\ stage' = "commit" => adopted' \in {i, NoId}
               /\ left' = Budget => IF control' # NoControl THEN control'.bare = i
                                    ELSE stage' = "commit" /\ adopted' = i
    <2>1. i \in Existing /\ dirs[i].old  BY <1>4
    <2>2. /\ control # NoControl => control.bare \in {i, NoId}
          /\ stage = "commit" => adopted \in {i, NoId}
          /\ left = Budget => IF control # NoControl THEN control.bare = i
                              ELSE stage = "commit" /\ adopted = i
      BY <2>1 DEF OldInv
    <2>3. left' = Budget => left = Budget  OBVIOUS
    <2> QED  BY <2>2, <2>3
  <1> QED  BY <1>1, <1>2, <1>3, <1>4 DEF OldInv

LEMMA StrikeSpends ==
  ASSUME TypeOK, left <= Budget, NEW kind, Strike(kind)
  PROVE  left' <= Budget /\ left' # Budget
  BY StoreAssumption DEF TypeOK, StoreTypes, Strike

LEMMA OldStarts == Init => OldInv
  <1> SUFFICES ASSUME Init PROVE OldInv
    OBVIOUS
  <1>1. StoreInit /\ left <= Budget
    BY StoreAssumption DEF Init, StoreInit
  <1>2. CASE FreshInstall  BY <1>1, <1>2 DEF FreshInstall, Existing, OldInv
  <1>3. CASE OldInstall  BY <1>1, <1>3 DEF OldInstall, Existing, OldInv
  <1>4. CASE NewInstall
    <2>1. PICK i, j \in Id, r, s \in NewRows :
            /\ i # j
            /\ dirs = [x \in Id |->
                         IF x = i THEN [row |-> Except(GlobalKey, r), old |-> TRUE]
                         ELSE IF x = j THEN [row |-> Except(GlobalKey, s), old |-> FALSE]
                         ELSE NoDb]
            /\ control = [accounts |-> {i, j}, row |-> Only(GlobalKey \cup CarriedKey, r),
                          bare |-> i]
      BY <1>4 DEF NewInstall
    <2>2. \A x \in Existing : x = i \/ (x = j /\ ~dirs[x].old)  BY <2>1 DEF Existing
    <2>3. legacy = NoDb /\ control.bare = i  BY <1>4, <2>1 DEF NewInstall
    <2>4. control # NoControl
      <3>1. control \in Control \cup {NoControl}  BY <1>1, InstallTypes DEF StoreTypes
      <3>2. r \in Row  BY PlacesAssumption
      <3>3. control \in Control  BY <2>1, <3>2, OnlyTypes DEF Control
      <3> QED  BY <3>3, PlacesAssumption
    <2>5. stage # "commit"  BY <1>1, InstallTypes
    <2>6. \A x \in Existing : dirs[x].old => x = i  BY <2>2
    <2> QED  BY <1>1, <2>3, <2>4, <2>5, <2>6 DEF OldInv
  <1> QED  BY <1>1, <1>2, <1>3, <1>4 DEF StoreInit

LEMMA OldMigrates ==
  ASSUME StructureInv, OldInv, MigrationStep
  PROVE  OldInv'
  <1>1. CASE Boot
    <2>1. Existing' = Existing  BY <1>1 DEF Boot, Existing, disk
    <2> QED  BY <1>1, <2>1, OldKept DEF Boot, disk
  <1>2. CASE LoseControl
    <2>1. Existing' = Existing  BY <1>2 DEF LoseControl, Existing
    <2>2. left' <= Budget /\ left' # Budget
      BY <1>2, StrikeSpends DEF LoseControl, OldInv, StructureInv
    <2>3. /\ control' = NoControl /\ stage = "off"
          /\ UNCHANGED <<legacy, dirs, minted, stage, adopted>>
      BY <1>2 DEF LoseControl
    <2> QED  BY <2>1, <2>2, <2>3 DEF OldInv
  <1>3. CASE NothingToMove
    <2>1. Existing' = Existing /\ UNCHANGED <<legacy, dirs, control, left, adopted>>
      BY <1>3 DEF NothingToMove, Existing, disk
    <2>2. control = NoControl /\ adopted = NoId /\ stage = "move"
      BY <1>3 DEF NothingToMove, StructureInv, BootInv
    <2> QED  BY <2>1, <2>2 DEF OldInv
  <1>4. CASE MoveLegacy
    <2>1. /\ stage = "move" /\ legacy # NoDb /\ legacy' = NoDb /\ stage' = "commit"
          /\ UNCHANGED <<control, left>>
      BY <1>4 DEF MoveLegacy
    <2>2. PICK i \in Id \ minted : dirs' = [dirs EXCEPT ![i] = legacy] /\ adopted' = i
      BY <1>4 DEF MoveLegacy
    <2>3. control = NoControl  BY <2>1 DEF StructureInv, BootInv
    <2>4. \A x \in Id \ {i} : dirs'[x] = dirs[x]
      BY <2>2 DEF StructureInv, TypeOK, StoreTypes
    <2>5. \A x \in Existing' : x = i \/ (x \in Existing /\ dirs'[x] = dirs[x])
      BY <2>4 DEF Existing
    <2>6. \A x \in Existing' : dirs'[x].old => x = i  BY <2>1, <2>5 DEF OldInv
    <2> QED  BY <2>1, <2>2, <2>3, <2>6 DEF OldInv
  <1>5. CASE CommitControl
    <2> DEFINE row == Only(GlobalKey \cup CarriedKey, dirs[Primary].row)
    <2>1. /\ stage = "commit" /\ stage' = "trim" /\ UNCHANGED <<legacy, dirs, adopted, left>>
          /\ control' = [accounts |-> Existing, row |-> row, bare |-> adopted]
      BY <1>5 DEF CommitControl
    <2> HIDE DEF row
    <2>2. control'.bare = adopted  BY <2>1
    <2>3. control = NoControl  BY <2>1 DEF StructureInv, BootInv
    <2>4. control' # NoControl
      <3>1. dirs[Primary] \in Db  BY <2>1, PrimaryExists
      <3>2. row \in Row  BY <3>1, OnlyTypes DEF Db, row
      <3>3. control' \in Control
        BY <2>1, <3>2 DEF Control, StructureInv, TypeOK, StoreTypes, Existing
      <3> QED  BY <3>3, PlacesAssumption
    <2>5. Existing' = Existing  BY <2>1 DEF Existing
    <2> QED  BY <2>1, <2>2, <2>3, <2>4, <2>5 DEF OldInv
  <1>6. CASE TrimAccountRow
    <2>1. /\ stage = "trim" /\ stage' = "load"
          /\ UNCHANGED <<legacy, control, minted, adopted, left>>
          /\ dirs'[Primary].old = dirs[Primary].old
          /\ \A i \in Id \ {Primary} : dirs'[i] = dirs[i]
          /\ Existing' = Existing
      BY <1>6, TrimDoes
    <2>2. \A i \in Existing' : dirs'[i].old => i \in Existing /\ dirs[i].old
      <3>1. \A i \in Existing' : i \in Id /\ i \in Existing  BY <2>1 DEF Existing
      <3> QED  BY <2>1, <3>1
    <2> QED  BY <2>1, <2>2, OldKept
  <1> QED  BY <1>1, <1>2, <1>3, <1>4, <1>5, <1>6 DEF MigrationStep

LEMMA OldLoads ==
  ASSUME StructureInv, OldInv, Load
  PROVE  OldInv'
  <1> DEFINE c == IF control = NoControl THEN EmptyControl ELSE control
  <1>1. /\ stage = "load" /\ stage' = "up" /\ c \in Control /\ control' = c
        /\ \A i \in c.accounts : dirs'[i] = Opened(i)
        /\ \A i \in Id \ c.accounts : dirs'[i] = dirs[i]
    BY LoadDoes
  <1>2. UNCHANGED <<legacy, adopted, left>>  BY DEF Load
  <1>3. \A i \in Existing' : dirs'[i].old => i \in Existing /\ dirs[i].old
    <2>1. ASSUME NEW i \in Id, dirs'[i] # NoDb, dirs'[i].old PROVE dirs[i] # NoDb /\ dirs[i].old
      BY <1>1, <2>1, OpenedTypes DEF StructureInv
    <2> QED  BY <2>1 DEF Existing
  <1>4. CASE control # NoControl
    BY <1>1, <1>2, <1>3, <1>4, OldKept
  <1>5. CASE control = NoControl
    <2>1. control'.bare = NoId  BY <1>1, <1>5 DEF EmptyControl
    <2> QED  BY <1>1, <1>2, <1>3, <1>5, <2>1 DEF OldInv
  <1> QED  BY <1>4, <1>5

LEMMA OldRequested ==
  ASSUME StructureInv, OldInv, NEW r \in Req, RequestStep(r)
  PROVE  OldInv'
  <1>1. UNCHANGED <<legacy, stage, adopted>>
    BY DEF RequestStep, BeginSave, BeginConnect, ReadAccountRow, ReadGlobalRow, StatementFails,
           Limit, BuildAnother, BuildOwn, EndGlobalSave, Install, Replace, ReplaceRaises, Create,
           OpenFails, Register, Remove, StopLoop, DropRow, DropRowFails, WriteAccountRow,
           StoreCredential, WriteGlobalRow, OpenAccount, Wipe, disk
  <1>2. left' = left \/ (left' <= Budget /\ left' # Budget)
    <2>1. left' = left \/ Strike("database")
      BY DEF RequestStep, BeginSave, BeginConnect, ReadAccountRow, ReadGlobalRow, StatementFails,
             Limit, BuildAnother, BuildOwn, EndGlobalSave, Install, Replace, ReplaceRaises, Create,
             OpenFails, Register, Remove, StopLoop, DropRow, DropRowFails, WriteAccountRow,
             StoreCredential, WriteGlobalRow, OpenAccount, Wipe
    <2> QED  BY <2>1, StrikeSpends DEF StructureInv, OldInv
  <1>3. \/ control' = control
        \/ control # NoControl /\ control' # NoControl /\ control'.bare = control.bare
    <2>1. CASE Create(r) \/ WriteGlobalRow(r) \/ DropRow(r)
      <3>1. control \in Control /\ control # NoControl
        <4>1. CASE Create(r)  BY <4>1, BeginningFacts DEF Create
        <4>2. CASE WriteGlobalRow(r) \/ DropRow(r)
          <5>1. req[r].at \in SavingSteps \cup Locking
            BY <4>2 DEF WriteGlobalRow, DropRow, SavingSteps, Locking
          <5> QED  BY <5>1, SavingFacts, HolderFacts
        <4> QED  BY <2>1, <4>1, <4>2
      <3>2. CASE Create(r)
        <4>1. control' = [control EXCEPT !.accounts = @ \cup {req'[r].id}] /\ req'[r].id \in Id
          BY <3>2, CreateDoes DEF StructureInv
        <4>2. control' \in Control /\ control'.bare = control.bare  BY <3>1, <4>1 DEF Control
        <4> QED  BY <3>1, <4>2, PlacesAssumption
      <3>3. CASE DropRow(r)
        <4>1. control' \in Control /\ control'.bare = control.bare
          BY <3>1, <3>3 DEF Control, DropRow
        <4> QED  BY <3>1, <4>1, PlacesAssumption
      <3>4. CASE WriteGlobalRow(r)
        <4>1. control' \in Control /\ control'.bare = control.bare
          BY <3>1, <3>4, WriteGlobalRowDoes DEF StructureInv
        <4> QED  BY <3>1, <4>1, PlacesAssumption
      <3> QED  BY <2>1, <3>2, <3>3, <3>4
    <2>2. CASE ~Create(r) /\ ~WriteGlobalRow(r) /\ ~DropRow(r)
      BY <2>2
         DEF RequestStep, BeginSave, BeginConnect, ReadAccountRow, ReadGlobalRow, StatementFails,
             Limit, BuildAnother, BuildOwn, EndGlobalSave, Install, Replace, ReplaceRaises,
             OpenFails, Register, Remove, StopLoop, DropRowFails, WriteAccountRow,
             StoreCredential, OpenAccount, Wipe, disk
    <2> QED  BY <2>1, <2>2
  <1>4. \A i \in Existing' : dirs'[i].old => i \in Existing /\ dirs[i].old
    <2>1. CASE WriteAccountRow(r)
      <3>1. req[r].at \in SavingSteps /\ req[r].id \notin closed
        BY <2>1 DEF WriteAccountRow, SavingSteps
      <3>2. dirs[req[r].id] \in Db /\ req[r].id \in Id  BY <3>1, SavingFacts
      <3>3. /\ dirs'[req[r].id].old = dirs[req[r].id].old
            /\ \A i \in Id \ {req[r].id} : dirs'[i] = dirs[i]
        BY <2>1, <3>2, WriteAccountRowDoes DEF StructureInv
      <3> QED  BY <3>2, <3>3, PlacesAssumption DEF Existing
    <2>2. CASE StoreCredential(r)
      <3>1. req[r].at \in SavingSteps /\ req[r].id \notin closed /\ req[r].at = "store"
        BY <2>2 DEF StoreCredential, SavingSteps
      <3>2. /\ dirs[req[r].id] \in Db /\ req[r].id \in Id
            /\ req[r].count < Cardinality(CredKey)
        BY <3>1, SavingFacts DEF Shape
      <3>3. /\ dirs'[req[r].id].old = dirs[req[r].id].old
            /\ \A i \in Id \ {req[r].id} : dirs'[i] = dirs[i]
        BY <2>2, <3>2, StoreCredentialDoes DEF StructureInv
      <3> QED  BY <3>2, <3>3, PlacesAssumption DEF Existing
    <2>3. CASE OpenAccount(r)
      <3>1. req[r].at \in Locking  BY <2>3 DEF OpenAccount, Locking
      <3>2. req[r].id \in Id /\ control \in Control  BY <3>1, HolderFacts
      <3>3. /\ dirs'[req[r].id] = Opened(req[r].id)
            /\ \A i \in Id \ {req[r].id} : dirs'[i] = dirs[i]
        BY <2>3, <3>2, OpenAccountDoes DEF StructureInv
      <3>4. dirs'[req[r].id].old => dirs[req[r].id] # NoDb /\ dirs[req[r].id].old
        BY <3>2, <3>3, OpenedTypes DEF StructureInv
      <3> QED  BY <3>3, <3>4 DEF Existing
    <2>4. CASE Wipe(r)
      <3>1. dirs \in [Id -> Db \cup {NoDb}]  BY DEF StructureInv, TypeOK, StoreTypes
      <3>2. \A i \in Id : dirs'[i] = NoDb \/ dirs'[i] = dirs[i]
        BY <2>4, <3>1 DEF Wipe
      <3> QED  BY <3>2 DEF Existing
    <2>5. CASE ~WriteAccountRow(r) /\ ~StoreCredential(r) /\ ~OpenAccount(r) /\ ~Wipe(r)
      <3>1. dirs' = dirs
        BY <2>5
           DEF RequestStep, BeginSave, BeginConnect, ReadAccountRow, ReadGlobalRow, StatementFails,
               Limit, BuildAnother, BuildOwn, EndGlobalSave, Install, Replace, ReplaceRaises,
               Create, OpenFails, Register, Remove, StopLoop, DropRow, DropRowFails,
               WriteGlobalRow, disk
      <3> QED  BY <3>1 DEF Existing
    <2> QED  BY <2>1, <2>2, <2>3, <2>4, <2>5
  <1> QED  BY <1>1, <1>2, <1>3, <1>4, OldKept

LEMMA OldSteps == StructureInv /\ OldInv /\ [Next]_vars => OldInv'
  <1> SUFFICES ASSUME StructureInv, OldInv, [Next]_vars PROVE OldInv'
    OBVIOUS
  <1>1. CASE (\E i \in Id : LoopExits(i)) \/ UNCHANGED vars
    <2>1. UNCHANGED <<legacy, dirs, control, stage, adopted, left>>
      BY <1>1 DEF LoopExits, vars, disk
    <2>2. Existing' = Existing  BY <2>1 DEF Existing
    <2> QED  BY <2>1, <2>2, OldKept
  <1>2. CASE Crash
    <2>1. UNCHANGED <<legacy, dirs, control>> /\ stage' = "off" /\ Strike("crash")
      BY <1>2 DEF Crash, disk
    <2>2. left' <= Budget /\ left' # Budget  BY <2>1, StrikeSpends DEF OldInv, StructureInv
    <2>3. Existing' = Existing  BY <2>1 DEF Existing
    <2> QED  BY <2>1, <2>2, <2>3 DEF OldInv
  <1> QED  BY <1>1, <1>2, OldMigrates, OldLoads, OldRequested DEF Next

\* The bare webhook path leads to the old install's account or nowhere, however often the
\* migration is cut short, control.db lost, or accounts added and removed; and it leads
\* there, while the account is served, as long as nothing was disrupted.
THEOREM BarePathIsTheOldAccounts == Spec => []BareWebhookOwner
  <1>1. StructureInv /\ OldInv => BareWebhookOwner
    <2> SUFFICES ASSUME StructureInv, OldInv, control # NoControl,
                        NEW i \in Existing, dirs[i].old
                 PROVE  /\ control.bare \in registered => control.bare = i
                        /\ left = Budget /\ i \in registered => control.bare = i
      BY DEF BareWebhookOwner
    <2>1. control.bare \in {i, NoId} /\ (left = Budget => control.bare = i)  BY DEF OldInv
    <2>2. NoId \notin registered  BY StoreAssumption DEF StructureInv, TypeOK
    <2> QED  BY <2>1, <2>2
  <1> QED  BY <1>1, OldStarts, OldSteps, StructureHolds, PTL DEF Spec

-----------------------------------------------------------------------------
(* OneLimiter, where settings requests take turns. *)

LEMMA SaversKept ==
  ASSUME OneSaver, TurnInv, NEW r \in Req, Others(r),
         \A s \in Req \ {r} : lock' = s <=> lock = s,
         Saving(r)' => Turn(r)',
         Saving(r)' => Saving(r) \/ \A s \in Req : ~Saving(s)
  PROVE  OneSaver' /\ TurnInv'
  <1>1. ASSUME NEW s \in Req \ {r}
        PROVE  (Saving(s)' <=> Saving(s)) /\ (Turn(s)' <=> Turn(s))
    <2>1. req'[s] = req[s]  BY DEF Others
    <2>2. Own(s)' = Own(s)  BY <2>1 DEF Own
    <2> QED  BY <2>1, <2>2 DEF Saving, InFlight, Turn
  <1>2. OneSaver'  BY <1>1 DEF OneSaver
  <1>3. TurnInv'  BY <1>1 DEF TurnInv
  <1> QED  BY <1>2, <1>3

\* A step that replaces no limiter and serves no new account.
LEMMA LimitedKept ==
  ASSUME LimitedInv, NEW r \in Req, Others(r),
         \A s \in Req \ {r} : lock' = s <=> lock = s,
         limiter' = limiter, registered' \subseteq registered,
         \A i \in registered' : services'[i].limiters = limiter,
         torn => torn', Current(r)',
         ~torn' => \A i \in registered' :
                      \/ loops'[i].limiters = limiter
                      \/ loops'[i] = loops[i] /\ (Saving(r) /\ i \in Owed(r)
                                                    => Saving(r)' /\ i \in Owed(r)')
  PROVE  LimitedInv'
  <1>1. ASSUME NEW s \in Req \ {r}
        PROVE  (Saving(s)' <=> Saving(s)) /\ Owed(s)' = Owed(s) /\ Current(s)'
    <2>1. req'[s] = req[s]  BY DEF Others
    <2>2. Own(s)' = Own(s)  BY <2>1 DEF Own
    <2>3. Current(s)  BY DEF LimitedInv
    <2> QED  BY <2>1, <2>2, <2>3 DEF Saving, InFlight, Owed, Current
  <1>2. ASSUME ~torn', NEW i \in registered'
        PROVE  loops'[i].limiters = limiter' \/ \E s \in Req : Saving(s)' /\ i \in Owed(s)'
    <2>1. CASE loops'[i].limiters = limiter  BY <2>1
    <2>2. CASE loops'[i] = loops[i] /\ (Saving(r) /\ i \in Owed(r)
                                          => Saving(r)' /\ i \in Owed(r)')
      <3>1. CASE loops[i].limiters = limiter  BY <2>2, <3>1
      <3>2. CASE \E s \in Req : Saving(s) /\ i \in Owed(s)
        <4>1. PICK s \in Req : Saving(s) /\ i \in Owed(s)  BY <3>2
        <4>2. Saving(s)' /\ i \in Owed(s)'  BY <1>1, <2>2, <4>1
        <4> QED  BY <4>2
      <3>3. ~torn /\ i \in registered  BY <1>2
      <3> QED  BY <3>1, <3>2, <3>3 DEF LimitedInv
    <2> QED  BY <1>2, <2>1, <2>2
  <1>3. \A s \in Req : Current(s)'  BY <1>1
  <1>4. \A i \in registered' : services'[i].limiters = limiter'  OBVIOUS
  <1> QED  BY <1>2, <1>3, <1>4 DEF LimitedInv

\* A step that leaves every graph alone, and is not one of a rebuild's.
LEMMA QuietSaver ==
  ASSUME SaverInv, NEW r \in Req, Others(r),
         \A s \in Req \ {r} : lock' = s <=> lock = s,
         UNCHANGED <<limiter, services, loops>>, registered' \subseteq registered, torn => torn',
         req'[r].at \notin Rebuilding \cup {"register"},
         Saving(r)' => /\ req'[r].todo = {}
                       /\ req'[r].at = "build" => GlobalPart(req'[r].patch) = {},
         Saving(r)' => Saving(r) \/ \A s \in Req : ~Saving(s),
         Saving(r) => Owed(r) = {}
  PROVE  SaverInv'
  <1>1. Saving(r)' => Turn(r)'  BY DEF Turn, Rebuilding
  <1>2. OneSaver' /\ TurnInv'  BY <1>1, SaversKept DEF SaverInv
  <1>3. Current(r)'  BY DEF Current, Rebuilding
  <1>4. \A i \in registered' : services'[i].limiters = limiter  BY DEF SaverInv, LimitedInv
  <1>5. LimitedInv'  BY <1>3, <1>4, LimitedKept DEF SaverInv
  <1> QED  BY <1>2, <1>5 DEF SaverInv

LEMMA EndTurn ==
  ASSUME StructureInv, SaverInv, NEW r \in Req, End(r),
         UNCHANGED <<limiter, services, loops>>, registered' \subseteq registered, torn => torn',
         Saving(r) => Owed(r) = {}
  PROVE  SaverInv'
  <1>1. Others(r) /\ req'[r] = Done /\ \A s \in Req \ {r} : lock' = s <=> lock = s
    BY EndLocks
  <1>2. ~Saving(r)' /\ req'[r].at = "done"  BY <1>1, IdleTypes DEF Saving
  <1>3. req'[r].at \notin Rebuilding \cup {"register"}  BY <1>2 DEF Rebuilding
  <1> QED  BY <1>1, <1>2, <1>3, QuietSaver

LEMMA BeginTurns ==
  ASSUME StructureInv, ~ConcurrentSaves, SaverInv, NEW r \in Req, BeginSave(r) \/ BeginConnect(r)
  PROVE  SaverInv'
  <1>1. /\ Others(r) /\ req[r] = Idle /\ req'[r].at \in {"read", "read global", "store"}
        /\ req'[r].todo = {}
    BY BeginSaveDoes, BeginConnectDoes DEF StructureInv
  <1>2. UNCHANGED <<memory, torn>> /\ MaySave  BY DEF BeginSave, BeginConnect
  <1>3. \A s \in Req : ~Saving(s)  BY <1>2 DEF MaySave
  <1>4. req'[r].at \notin Rebuilding \cup {"register"} /\ req'[r].at # "build"
    BY <1>1 DEF Rebuilding
  <1>5. UNCHANGED <<limiter, services, loops, registered, lock, torn>>  BY <1>2 DEF memory
  <1> QED  BY <1>1, <1>3, <1>4, <1>5, QuietSaver

LEMMA StatementTurns ==
  ASSUME StructureInv, SaverInv, NEW r \in Req,
         ReadAccountRow(r) \/ WriteAccountRow(r) \/ ReadGlobalRow(r) \/ WriteGlobalRow(r)
            \/ StoreCredential(r)
  PROVE  SaverInv'
  <1>1. /\ req[r].at \in {"read", "write", "read global", "write global", "store"}
        /\ req[r].at \in {"read", "write", "store"} => req[r].id \notin closed
        /\ ReadAccountRow(r) => req[r].at = "read"
        /\ WriteAccountRow(r) => req[r].at = "write"
        /\ StoreCredential(r) => req[r].at = "store"
    BY DEF ReadAccountRow, WriteAccountRow, ReadGlobalRow, WriteGlobalRow, StoreCredential
  <1>2. req[r].at \in SavingSteps /\ req[r].at \notin Rebuilding  BY <1>1 DEF SavingSteps, Rebuilding
  <1>3. /\ Saving(r) /\ Shape(req[r]) /\ control \in Control /\ req[r].id \in Id
        /\ req[r].id \notin closed => dirs[req[r].id] \in Db
    BY <1>2, SavingFacts
  <1>4. Turn(r)  BY <1>3 DEF SaverInv, TurnInv
  <1>5. req[r].todo = {} /\ Owed(r) = {}  BY <1>1, <1>2, <1>4 DEF Turn, Owed
  <1>6. /\ Others(r) /\ req'[r].todo = req[r].todo
        /\ req'[r].at \in {"write", "write global", "limit", "read global", "build", "store"}
        /\ req'[r].at = "build" => GlobalPart(req'[r].patch) = {}
    <2>1. CASE ReadAccountRow(r)
      BY <1>1, <1>3, <2>1, ReadAccountRowDoes DEF Continues, StructureInv
    <2>2. CASE ReadGlobalRow(r)
      BY <1>3, <2>2, ReadGlobalRowDoes DEF Continues, StructureInv
    <2>3. CASE WriteGlobalRow(r)
      BY <1>3, <2>3, WriteGlobalRowDoes DEF Continues, StructureInv
    <2>4. CASE WriteAccountRow(r)
      <3>1. /\ Continues(r, AfterAccountHalf(req[r].patch)) /\ req'[r].todo = req[r].todo
            /\ AfterAccountHalf(req[r].patch) \in {"read global", "build"}
        BY <1>1, <1>3, <2>4, WriteAccountRowDoes DEF StructureInv
      <3>2. req'[r].at = AfterAccountHalf(req[r].patch) /\ req'[r].patch = req[r].patch /\ Others(r)
        BY <3>1 DEF Continues
      <3>3. req'[r].at = "build" => GlobalPart(req'[r].patch) = {}
        BY <3>2 DEF AfterAccountHalf
      <3> QED  BY <3>1, <3>2, <3>3
    <2>5. CASE StoreCredential(r)
      <3> DEFINE at == IF req[r].count + 1 = Cardinality(CredKey) THEN "build" ELSE "store"
      <3>1. req[r].kind = "connect" /\ req[r].count < Cardinality(CredKey)
        BY <1>1, <1>3, <2>5 DEF Shape
      <3>2. Continues(r, at) /\ req'[r].todo = req[r].todo
        BY <1>1, <1>3, <2>5, <3>1, StoreCredentialDoes DEF StructureInv
      <3>3. at \in {"store", "build"}  OBVIOUS
      <3> HIDE DEF at
      <3>4. req'[r].at = at /\ req'[r].patch = req[r].patch /\ Others(r)
        BY <3>2 DEF Continues
      <3>5. GlobalPart(req[r].patch) = {}  BY <1>3, <3>1 DEF Shape, GlobalPart
      <3>6. GlobalPart(req'[r].patch) = {}  BY <3>4, <3>5
      <3> QED  BY <3>2, <3>3, <3>4, <3>6
    <2> QED  BY <2>1, <2>2, <2>3, <2>4, <2>5
  <1>7. UNCHANGED <<limiter, services, loops, registered, lock, torn>>
    BY DEF ReadAccountRow, WriteAccountRow, ReadGlobalRow, WriteGlobalRow, StoreCredential, memory
  <1>8. req'[r].at \notin Rebuilding \cup {"register"}  BY <1>6 DEF Rebuilding
  <1> QED  BY <1>3, <1>5, <1>6, <1>7, <1>8, QuietSaver

LEMMA FailingTurns ==
  ASSUME StructureInv, SaverInv, NEW r \in Req, StatementFails(r) \/ EndGlobalSave(r)
  PROVE  SaverInv'
  <1>1. Owed(r) = {}
    <2>1. CASE StatementFails(r)  BY <2>1 DEF StatementFails, Owed
    <2>2. CASE EndGlobalSave(r)  BY <2>2 DEF EndGlobalSave, Owed, Own
    <2> QED  BY <2>1, <2>2
  <1>2. End(r) /\ UNCHANGED <<limiter, services, loops, registered>>
    BY DEF StatementFails, EndGlobalSave, Fail
  <1>3. torn' = (torn \/ Begun(r)) \/ torn' = torn
    BY DEF StatementFails, EndGlobalSave, Fail
  <1>4. torn => torn'  BY <1>3
  <1> QED  BY <1>1, <1>2, <1>4, EndTurn

LEMMA HolderGoesOn ==
  ASSUME StructureInv, NEW r \in Req,
         Create(r) \/ Remove(r) \/ StopLoop(r) \/ DropRow(r) \/ DropRowFails(r)
  PROVE  /\ Others(r) /\ \A s \in Req \ {r} : lock' = s <=> lock = s
         /\ req[r].at \in {"new", "stop", "drop"}
         /\ ~Saving(r) /\ ~Saving(r)' /\ req'[r].at \in {"open", "stop", "drop", "wipe"}
  <1>1. CASE Create(r)
    <2>1. /\ Others(r) /\ req[r] = Idle /\ lock = Free /\ lock' = r
          /\ req'[r].kind = "create" /\ req'[r].at = "open"
      BY <1>1, CreateDoes DEF StructureInv
    <2> QED  BY <2>1, IdleTypes, AccountsAssumption DEF Saving
  <1>2. CASE Remove(r)
    <2>1. /\ Others(r) /\ req[r] = Idle /\ lock = Free /\ lock' = r
          /\ req'[r].kind = "remove" /\ req'[r].at = "stop"
      BY <1>2, RemoveDoes DEF StructureInv
    <2> QED  BY <2>1, IdleTypes, AccountsAssumption DEF Saving
  <1>3. CASE StopLoop(r) \/ DropRow(r) \/ DropRowFails(r)
    <2>1. req[r].at \in {"stop", "drop"} /\ (Goto(r, "drop") \/ Goto(r, "wipe")) /\ lock' = lock
      BY <1>3 DEF StopLoop, DropRow, DropRowFails, memory
    <2>2. req[r].at \in Locking /\ "drop" \in Steps /\ "wipe" \in Steps
      BY <2>1 DEF Locking, Steps
    <2>3. req[r].kind = "remove"  BY <2>1, <2>2, HolderFacts
    <2>4. Continues(r, "drop") \/ Continues(r, "wipe")
      BY <2>1, <2>2, GotoDoes DEF StructureInv
    <2> QED  BY <2>1, <2>3, <2>4 DEF Continues, Saving
  <1> QED  BY <1>1, <1>2, <1>3

\* Requests that add and remove accounts give nobody a graph, until they register one.
LEMMA HolderTurns ==
  ASSUME StructureInv, SaverInv, NEW r \in Req,
         Create(r) \/ Remove(r) \/ StopLoop(r) \/ DropRow(r) \/ DropRowFails(r)
  PROVE  SaverInv'
  <1>1. /\ Others(r) /\ \A s \in Req \ {r} : lock' = s <=> lock = s
        /\ ~Saving(r) /\ ~Saving(r)' /\ req'[r].at \in {"open", "stop", "drop", "wipe"}
    BY HolderGoesOn
  <1>2. UNCHANGED <<limiter, services, loops, torn>> /\ registered' \subseteq registered
    BY DEF Create, Remove, StopLoop, DropRow, DropRowFails, memory
  <1>3. req'[r].at \notin Rebuilding \cup {"register"}  BY <1>1 DEF Rebuilding
  <1> QED  BY <1>1, <1>2, <1>3, QuietSaver

LEMMA HolderEndsTurn ==
  ASSUME StructureInv, SaverInv, NEW r \in Req, Wipe(r) \/ OpenFails(r)
  PROVE  SaverInv'
  <1>1. req[r].at \in {"wipe", "open"} /\ req[r].at \in Locking
    BY DEF Wipe, OpenFails, Locking
  <1>2. ~Saving(r)  BY <1>1, HolderFacts DEF Saving
  <1>3. End(r) /\ UNCHANGED <<limiter, services, loops, registered, torn>>
    BY DEF Wipe, OpenFails
  <1> QED  BY <1>2, <1>3, EndTurn

LEMMA OpenAccountTurns ==
  ASSUME StructureInv, SaverInv, NEW r \in Req, OpenAccount(r)
  PROVE  SaverInv'
  <1>1. req[r].at = "open" /\ req[r].at \in Locking  BY DEF OpenAccount, Locking
  <1>2. control \in Control /\ req[r].id \in Id /\ req[r].kind = "create"
    BY <1>1, HolderFacts
  <1>3. Continues(r, "register") /\ req'[r].graph.limiters = limiter
    BY <1>2, OpenAccountDoes DEF StructureInv
  <1>4. Others(r) /\ ~Saving(r) /\ ~Saving(r)'  BY <1>2, <1>3 DEF Continues, Saving
  <1>5. UNCHANGED <<limiter, services, loops, registered, lock, torn>>
    BY DEF OpenAccount, memory
  <1>6. OneSaver' /\ TurnInv'  BY <1>4, <1>5, SaversKept DEF SaverInv
  <1>7. Current(r)'  BY <1>3, <1>5 DEF Continues, Current
  <1>8. \A i \in registered' : services'[i].limiters = limiter
    BY <1>5 DEF SaverInv, LimitedInv
  <1>9. LimitedInv'  BY <1>4, <1>5, <1>7, <1>8, LimitedKept DEF SaverInv
  <1> QED  BY <1>6, <1>9 DEF SaverInv

LEMMA RegisterTurns ==
  ASSUME StructureInv, SaverInv, NEW r \in Req, Register(r)
  PROVE  SaverInv'
  <1>1. req[r].at = "register" /\ req[r].at \in Locking /\ End(r)  BY DEF Register, Locking
  <1>2. /\ req[r].id \in Id /\ req[r].kind = "create" /\ Placed(r)
    BY <1>1, HolderFacts
  <1> DEFINE i == req[r].id
  <1>3. /\ Others(r) /\ req'[r] = Done /\ \A s \in Req \ {r} : lock' = s <=> lock = s
    BY <1>1, EndLocks
  <1>4. ~Saving(r) /\ ~Saving(r)' /\ req'[r].at = "done"  BY <1>2, <1>3, IdleTypes DEF Saving
  <1>5. OneSaver' /\ TurnInv'  BY <1>3, <1>4, SaversKept DEF SaverInv
  <1>6. /\ registered' = registered \cup {i} /\ limiter' = limiter /\ torn' = torn
        /\ services' = [services EXCEPT ![i] = req[r].graph]
        /\ loops' = [loops EXCEPT ![i] = req[r].graph]
    BY DEF Register
  <1>7. /\ services'[i] = req[r].graph /\ loops'[i] = req[r].graph
        /\ \A x \in Id \ {i} : services'[x] = services[x] /\ loops'[x] = loops[x]
    BY <1>2, <1>6 DEF StructureInv, TypeOK
  <1>8. req[r].graph.limiters = limiter  BY <1>1 DEF SaverInv, LimitedInv, Current
  <1>9. i \notin Known  BY <1>2 DEF Placed
  <1>10. \A x \in registered : x \in Id \ {i}  BY <1>9 DEF StructureInv, AccountInv, TypeOK
  <1>11. \A x \in registered' : services'[x].limiters = limiter'
    BY <1>6, <1>7, <1>8, <1>10 DEF SaverInv, LimitedInv
  <1>12. ASSUME NEW s \in Req PROVE Current(s)'
    <2>1. CASE s = r  BY <1>4, <2>1 DEF Current
    <2>2. CASE s # r
      <3>1. req'[s] = req[s]  BY <1>3, <2>2 DEF Others
      <3>2. req[s].at \in {"install", "replace"} => req[s].of # i
        BY <1>9, RebuildFacts
      <3>3. Current(s)  BY DEF SaverInv, LimitedInv
      <3> QED  BY <1>6, <3>1, <3>2, <3>3 DEF Current
    <2> QED  BY <2>1, <2>2
  <1>13. ASSUME ~torn', NEW x \in registered'
         PROVE  loops'[x].limiters = limiter' \/ \E s \in Req : Saving(s)' /\ x \in Owed(s)'
    <2>1. CASE x = i  BY <1>6, <1>7, <1>8, <2>1
    <2>2. CASE x # i
      <3>1. x \in registered /\ ~torn /\ loops'[x] = loops[x]
        BY <1>6, <1>7, <1>10, <1>13, <2>2
      <3>2. CASE loops[x].limiters = limiter  BY <1>6, <3>1, <3>2
      <3>3. CASE \E s \in Req : Saving(s) /\ x \in Owed(s)
        <4>1. PICK s \in Req : Saving(s) /\ x \in Owed(s)  BY <3>3
        <4>2. s # r  BY <1>4, <4>1
        <4>3. req'[s] = req[s] /\ Own(s)' = Own(s)  BY <1>3, <4>2 DEF Others, Own
        <4>4. Saving(s)' /\ x \in Owed(s)'  BY <4>1, <4>3 DEF Saving, InFlight, Owed
        <4> QED  BY <4>4
      <3> QED  BY <3>1, <3>2, <3>3 DEF SaverInv, LimitedInv
    <2> QED  BY <2>1, <2>2
  <1>14. LimitedInv'  BY <1>11, <1>12, <1>13 DEF LimitedInv
  <1> QED  BY <1>5, <1>14 DEF SaverInv

\* Everyone is handed the new limiters, and is owed a rebuild with them.
LEMMA LimitTurns ==
  ASSUME StructureInv, SaverInv, NEW r \in Req, Limit(r)
  PROVE  SaverInv'
  <1>1. req[r].at = "limit" /\ req[r].at \in SavingSteps  BY DEF Limit, SavingSteps
  <1>2. Saving(r) /\ Shape(req[r]) /\ req[r].id \in Id /\ control # NoControl
    BY <1>1, SavingFacts
  <1>3. /\ Continues(r, "fan out")
        /\ req'[r].todo = IF AccountPart(req[r].patch) = {} THEN All ELSE All \ {req[r].id}
        /\ lock = Free /\ lock' = IF AccountPart(req[r].patch) = {} THEN r ELSE Free
        /\ \A i \in All : services'[i] \in Graph /\ services'[i].limiters = limiter'
    BY EveryoneIsKnown, LimitDoes DEF StructureInv
  <1>4. registered' = registered /\ loops' = loops /\ torn' = torn  BY DEF Limit
  <1>5. /\ \A s \in Req \ {r} : lock' = s <=> lock = s
        /\ lock' = r <=> AccountPart(req[r].patch) = {}
    BY <1>3, AccountsAssumption
  <1>6. Others(r) /\ req'[r].at = "fan out" /\ req'[r].id = req[r].id /\ req'[r].kind = req[r].kind
    BY <1>3 DEF Continues
  <1>7. Own(r)' = IF AccountPart(req[r].patch) = {} THEN {} ELSE {req[r].id}
    BY <1>5, <1>6 DEF Own
  <1>8. Turn(r)'
    BY <1>3, <1>6, <1>7 DEF Turn, Rebuilding
  <1>9. OneSaver' /\ TurnInv'  BY <1>2, <1>5, <1>6, <1>8, SaversKept DEF SaverInv
  <1>10. \A i \in registered : i \in All
    BY <1>2 DEF StructureInv, AccountInv, All
  <1>11. Saving(r)'  BY <1>2, <1>6 DEF Saving, InFlight
  <1>12. \A i \in registered : i \in Owed(r)'
    BY <1>3, <1>6, <1>7, <1>10 DEF Owed
  <1>13. ASSUME NEW s \in Req PROVE Current(s)'
    <2>1. CASE s = r  BY <1>6, <2>1 DEF Current
    <2>2. CASE s # r
      <3>1. req'[s] = req[s]  BY <1>6, <2>2 DEF Others
      <3>2. ~Saving(s)  BY <1>2, <2>2 DEF SaverInv, OneSaver
      <3>3. req[s].at \notin {"install", "replace"}  BY <3>2, RebuildFacts
      <3>4. lock # s  BY <1>3, AccountsAssumption
      <3>5. req[s].at # "register"  BY <3>4 DEF StructureInv, LockInv, Locks, Locking
      <3> QED  BY <3>1, <3>3, <3>5 DEF Current
    <2> QED  BY <2>1, <2>2
  <1>14. LimitedInv'
    BY <1>3, <1>4, <1>10, <1>11, <1>12, <1>13 DEF LimitedInv
  <1> QED  BY <1>9, <1>14 DEF SaverInv

LEMMA StillTorn == ASSUME torn' = torn PROVE torn => torn'
  OBVIOUS

\* The next account's turn.
LEMMA BuildTurns ==
  ASSUME StructureInv, SaverInv, NEW r \in Req, NEW i \in Known, NEW K \in SUBSET Setting,
         BuildGraph(r, i, K), req[r].at \in {"build", "fan out"},
         i \in req[r].todo \/ (i = req[r].id /\ req[r].todo = {} /\ lock # r),
         UNCHANGED <<disk, stage, adopted, left, memory, torn, erased>>
  PROVE  SaverInv'
  <1>1. req[r].at \in SavingSteps /\ req[r].at \notin {"install", "replace"}
    BY DEF SavingSteps, Rebuilding
  <1>2. Saving(r) /\ Locks(r)  BY <1>1, SavingFacts
  <1>3. i \in Id /\ services[i] \in Graph  BY KnownHasGraph DEF StructureInv
  <1>4. /\ Continues(r, "install") /\ req'[r].todo = req[r].todo \ {i} /\ req'[r].of = i
        /\ req'[r].graph.limiters = services[i].limiters
    BY <1>3, BuildGraphDoes DEF StructureInv
  <1>5. UNCHANGED <<limiter, services, loops, registered, lock, torn>>  BY DEF memory
  <1>6. Others(r) /\ req'[r].at = "install" /\ req'[r].id = req[r].id /\ req'[r].kind = req[r].kind
    BY <1>4 DEF Continues
  <1>7. Own(r)' = Own(r)  BY <1>5, <1>6 DEF Own
  <1>8. Turn(r)  BY <1>2 DEF SaverInv, TurnInv
  <1>9. i \in Own(r) => req'[r].todo = {}
    <2>1. CASE i \in req[r].todo
      <3>1. req[r].at \in Rebuilding  BY <1>8, <2>1 DEF Turn
      <3>2. i \notin Own(r)  BY <1>8, <2>1, <3>1 DEF Turn
      <3> QED  BY <3>2
    <2>2. CASE req[r].todo = {}  BY <1>4, <2>2
    <2> QED  BY <2>1, <2>2
  <1>10. req'[r].todo \cap Own(r) = {}
    <2>1. req[r].todo = {} \/ req[r].todo \cap Own(r) = {}  BY <1>8 DEF Turn
    <2> QED  BY <1>4, <2>1
  <1>11. Turn(r)'  BY <1>4, <1>6, <1>7, <1>9, <1>10 DEF Turn, Rebuilding
  <1>12. OneSaver' /\ TurnInv'  BY <1>2, <1>5, <1>6, <1>11, SaversKept DEF SaverInv
  <1>13. \A x \in registered : services[x].limiters = limiter  BY DEF SaverInv, LimitedInv
  <1>14. Current(r)'  BY <1>4, <1>5, <1>6, <1>13 DEF Current
  <1>15. Saving(r)'  BY <1>2, <1>6 DEF Saving, InFlight
  <1>16. Owed(r) \subseteq Owed(r)'  BY <1>1, <1>4, <1>6, <1>7 DEF Owed
  <1>17. \A x \in registered' : services'[x].limiters = limiter  BY <1>5, <1>13
  <1>18. \A x \in registered' : loops'[x] = loops[x] /\ (x \in Owed(r) => x \in Owed(r)')
    BY <1>5, <1>16
  <1>19. /\ limiter' = limiter /\ registered' \subseteq registered /\ (torn => torn')
         /\ \A s \in Req \ {r} : lock' = s <=> lock = s
    <2>1. limiter' = limiter /\ registered' = registered /\ lock' = lock  BY <1>5
    <2>2. torn' = torn  BY <1>5
    <2>3. torn => torn'  BY <2>2, StillTorn
    <2> QED  BY <2>1, <2>3
  <1>20. LimitedInv /\ Others(r)  BY <1>6 DEF SaverInv
  <1>21. LimitedInv'  BY <1>14, <1>15, <1>17, <1>18, <1>19, <1>20, LimitedKept
  <1> QED  BY <1>12, <1>21 DEF SaverInv

LEMMA BuildAnotherTurns ==
  ASSUME StructureInv, SaverInv, NEW r \in Req, BuildAnother(r)
  PROVE  SaverInv'
  <1>1. req[r].at = "fan out" /\ req[r].at \in SavingSteps
    BY DEF BuildAnother, SavingSteps, Rebuilding
  <1>2. Saving(r) /\ Placed(r)  BY <1>1, SavingFacts
  <1>3. PICK i \in req[r].todo : BuildGraph(r, i, GlobalKey)  BY DEF BuildAnother
  <1>4. i \in Known  BY <1>2 DEF Placed, Concerns
  <1>5. GlobalKey \in SUBSET Setting  BY DEF Setting
  <1> QED  BY <1>1, <1>3, <1>4, <1>5, BuildTurns DEF BuildAnother

LEMMA BuildOwnTurns ==
  ASSUME StructureInv, SaverInv, NEW r \in Req, BuildOwn(r)
  PROVE  SaverInv'
  <1>1. /\ req[r].at = "build" \/ (req[r].at = "fan out" /\ req[r].todo = {} /\ lock # r)
        /\ BuildGraph(r, req[r].id, Setting)
    BY DEF BuildOwn
  <1>2. req[r].at \in SavingSteps  BY <1>1 DEF SavingSteps, Rebuilding
  <1>3. Saving(r) /\ Locks(r) /\ req[r].id \in Known  BY <1>2, SavingFacts
  <1>4. Turn(r)  BY <1>3 DEF SaverInv, TurnInv
  <1>5. req[r].todo = {} /\ lock # r
    BY <1>1, <1>3, <1>4 DEF Turn, Locks, Locking, Rebuilding
  <1>6. UNCHANGED <<disk, stage, adopted, left, memory, torn, erased>>  BY DEF BuildOwn
  <1>7. Setting \in SUBSET Setting  OBVIOUS
  <1> QED  BY <1>1, <1>3, <1>5, <1>6, <1>7, BuildTurns

LEMMA InstallTurns ==
  ASSUME StructureInv, SaverInv, NEW r \in Req, Install(r)
  PROVE  SaverInv'
  <1>1. req[r].at = "install"  BY DEF Install
  <1>2. /\ Saving(r) /\ req[r].of \in Known /\ req[r].graph \in Graph
        /\ services[req[r].of] \in Graph
    BY <1>1, RebuildFacts
  <1>3. /\ Continues(r, "replace")
        /\ req'[r].todo = req[r].todo /\ req'[r].of = req[r].of /\ req'[r].graph = req[r].graph
        /\ services'[req[r].of].limiters = services[req[r].of].limiters
        /\ \A i \in Id \ {req[r].of} : services'[i] = services[i]
    BY <1>2, InstallDoes DEF StructureInv
  <1>4. UNCHANGED <<limiter, loops, registered, lock, torn>>  BY DEF Install
  <1>5. Others(r) /\ req'[r].at = "replace" /\ req'[r].id = req[r].id /\ req'[r].kind = req[r].kind
    BY <1>3 DEF Continues
  <1>6. Own(r)' = Own(r)  BY <1>4, <1>5 DEF Own
  <1>7. Turn(r)  BY <1>2 DEF SaverInv, TurnInv
  <1>8. Turn(r)'  BY <1>1, <1>3, <1>5, <1>6, <1>7 DEF Turn, Rebuilding
  <1>9. OneSaver' /\ TurnInv'  BY <1>2, <1>4, <1>5, <1>8, SaversKept DEF SaverInv
  <1>10. Current(r)  BY DEF SaverInv, LimitedInv
  <1>11. Current(r)'  BY <1>1, <1>3, <1>4, <1>5, <1>10 DEF Current
  <1>12. ASSUME NEW i \in registered' PROVE services'[i].limiters = limiter
    <2>1. i \in Id /\ services[i].limiters = limiter
      BY <1>4 DEF SaverInv, LimitedInv, StructureInv, TypeOK
    <2> QED  BY <1>3, <2>1
  <1>13. Saving(r)' /\ Owed(r)' = Owed(r)
    BY <1>1, <1>2, <1>3, <1>5, <1>6 DEF Saving, InFlight, Owed
  <1>14. LimitedInv'  BY <1>4, <1>5, <1>11, <1>12, <1>13, LimitedKept DEF SaverInv
  <1> QED  BY <1>9, <1>14 DEF SaverInv

LEMMA ReplaceTurns ==
  ASSUME StructureInv, SaverInv, NEW r \in Req, Replace(r)
  PROVE  SaverInv'
  <1>1. req[r].at = "replace" /\ SwapIn(r)  BY DEF Replace
  <1>2. /\ Saving(r) /\ req[r].of \in Known /\ req[r].of \in Id /\ req[r].graph \in Graph
    BY <1>1, RebuildFacts
  <1>3. /\ loops'[req[r].of] = req[r].graph
        /\ \A i \in Id \ {req[r].of} : loops'[i] = loops[i]
    BY <1>1, <1>2, SwapInDoes DEF StructureInv
  <1>4. UNCHANGED <<limiter, services, registered, torn>>  BY DEF Replace
  <1>5. Turn(r)  BY <1>2 DEF SaverInv, TurnInv
  <1>6. req[r].of \in registered => req[r].graph.limiters = limiter
    BY <1>1 DEF SaverInv, LimitedInv, Current
  <1>7. \A i \in registered' : services'[i].limiters = limiter
    BY <1>4 DEF SaverInv, LimitedInv
  <1>8. \A i \in registered' : i \in Id  BY <1>4 DEF StructureInv, TypeOK
  <1>9. CASE /\ req[r].of # req[r].id \/ lock = r
             /\ Continues(r, "fan out") /\ lock' = lock
             /\ req'[r].todo = req[r].todo
    <2>1. Others(r) /\ req'[r].at = "fan out" /\ req'[r].id = req[r].id /\ req'[r].kind = req[r].kind
      BY <1>9 DEF Continues
    <2>2. Own(r)' = Own(r)  BY <1>9, <2>1 DEF Own
    <2>3. Turn(r)'  BY <1>1, <1>5, <1>9, <2>1, <2>2 DEF Turn, Rebuilding
    <2>4. OneSaver' /\ TurnInv'  BY <1>2, <1>9, <2>1, <2>3, SaversKept DEF SaverInv
    <2>5. Saving(r)' /\ Owed(r) \subseteq Owed(r)' \cup {req[r].of}
      BY <1>1, <1>2, <1>9, <2>1, <2>2 DEF Saving, InFlight, Owed
    <2>6. Current(r)'  BY <2>1 DEF Current
    <2>7. ASSUME NEW i \in registered'
          PROVE  \/ loops'[i].limiters = limiter
                 \/ loops'[i] = loops[i] /\ (Saving(r) /\ i \in Owed(r)
                                               => Saving(r)' /\ i \in Owed(r)')
      BY <1>3, <1>4, <1>6, <1>8, <2>5
    <2>8. LimitedInv'  BY <1>4, <1>7, <1>9, <2>1, <2>6, <2>7, LimitedKept DEF SaverInv
    <2> QED  BY <2>4, <2>8 DEF SaverInv
  <1>10. CASE req[r].of = req[r].id /\ lock # r /\ End(r)
    <2>1. /\ Others(r) /\ req'[r] = Done /\ \A s \in Req \ {r} : lock' = s <=> lock = s
      BY <1>10, EndLocks
    <2>2. ~Saving(r)' /\ req'[r].at = "done"  BY <2>1, IdleTypes DEF Saving
    <2>3. OneSaver' /\ TurnInv'  BY <2>1, <2>2, SaversKept DEF SaverInv
    <2>4. Owed(r) = {req[r].of}
      <3>1. Own(r) = {req[r].of}  BY <1>10 DEF Own
      <3>2. req[r].todo = {}  BY <1>1, <1>5, <3>1 DEF Turn
      <3> QED  BY <1>1, <3>1, <3>2 DEF Owed
    <2>5. Current(r)'  BY <2>2 DEF Current
    <2>6. ASSUME NEW i \in registered'
          PROVE  \/ loops'[i].limiters = limiter
                 \/ loops'[i] = loops[i] /\ (Saving(r) /\ i \in Owed(r)
                                               => Saving(r)' /\ i \in Owed(r)')
      BY <1>3, <1>4, <1>6, <1>8, <2>4
    <2>7. LimitedInv'  BY <1>4, <1>7, <2>1, <2>5, <2>6, LimitedKept DEF SaverInv
    <2> QED  BY <2>3, <2>7 DEF SaverInv
  <1> QED  BY <1>9, <1>10, ReplaceDoes DEF StructureInv

\* A rebuild that raises leaves its request half done.
LEMMA ReplaceRaisesTurns ==
  ASSUME StructureInv, SaverInv, NEW r \in Req, ReplaceRaises(r)
  PROVE  SaverInv'
  <1>1. req[r].at = "replace" /\ Fail(r)  BY DEF ReplaceRaises
  <1>2. Saving(r)  BY <1>1, RebuildFacts
  <1>3. End(r) /\ torn' = (torn \/ Begun(r))  BY <1>1 DEF Fail
  <1>4. Begun(r)  BY <1>1, <1>2 DEF Begun
  <1>5. torn'  BY <1>3, <1>4
  <1>6. /\ Others(r) /\ req'[r] = Done /\ \A s \in Req \ {r} : lock' = s <=> lock = s
    BY <1>3, EndLocks
  <1>7. ~Saving(r)' /\ req'[r].at = "done"  BY <1>6, IdleTypes DEF Saving
  <1>8. OneSaver' /\ TurnInv'  BY <1>6, <1>7, SaversKept DEF SaverInv
  <1>9. Current(r)'  BY <1>7 DEF Current
  <1>10. UNCHANGED <<limiter, services, registered>>  BY DEF ReplaceRaises
  <1>11. \A i \in registered' : services'[i].limiters = limiter
    BY <1>10 DEF SaverInv, LimitedInv
  <1>12. LimitedInv'  BY <1>5, <1>6, <1>9, <1>10, <1>11, LimitedKept DEF SaverInv
  <1> QED  BY <1>8, <1>12 DEF SaverInv

LEMMA LoadTurns ==
  ASSUME StructureInv, SaverInv, Load
  PROVE  SaverInv'
  <1> DEFINE c == IF control = NoControl THEN EmptyControl ELSE control
  <1>1. /\ stage = "load" /\ registered' = c.accounts /\ loops' = services'
        /\ \A i \in c.accounts : services'[i].limiters = limiter'
    BY LoadDoes
  <1>2. \A r \in Req : req[r].at \in {"new", "done"} /\ req[r].kind = "none"
    BY <1>1, DownFacts
  <1>3. UNCHANGED <<lock, req, torn>>  BY DEF Load
  <1>4. \A r \in Req : ~Saving(r)'  BY <1>2, <1>3 DEF Saving
  <1>5. OneSaver' /\ TurnInv'  BY <1>4 DEF OneSaver, TurnInv
  <1>6. \A r \in Req : Current(r)'  BY <1>2, <1>3 DEF Current
  <1>7. LimitedInv'  BY <1>1, <1>6 DEF LimitedInv
  <1> QED  BY <1>5, <1>7 DEF SaverInv

LEMMA CrashTurns ==
  ASSUME StructureInv, Crash
  PROVE  SaverInv'
  <1>1. registered' = {} /\ req' = [r \in Req |-> IF InFlight(r) THEN Done ELSE req[r]]
    BY DEF Crash
  <1>2. \A r \in Req : req'[r].at \in {"new", "done"}
    BY <1>1, IdleTypes DEF InFlight
  <1>3. \A r \in Req : ~Saving(r)' /\ Current(r)'  BY <1>2 DEF Saving, InFlight, Current
  <1> QED  BY <1>1, <1>3 DEF SaverInv, OneSaver, TurnInv, LimitedInv

LEMMA OtherTurns ==
  ASSUME SaverInv, UNCHANGED <<registered, services, loops, limiter, lock, req, torn>>
  PROVE  SaverInv'
  <1>1. ASSUME NEW r \in Req
        PROVE  /\ Saving(r)' <=> Saving(r)
               /\ Turn(r)' <=> Turn(r)
               /\ Current(r)' <=> Current(r)
               /\ Owed(r)' = Owed(r)
    <2>1. Own(r)' = Own(r)  BY DEF Own
    <2> QED  BY <2>1 DEF Saving, InFlight, Turn, Current, Owed
  <1>2. OneSaver' /\ TurnInv'  BY <1>1 DEF SaverInv, OneSaver, TurnInv
  <1>3. LimitedInv'  BY <1>1 DEF SaverInv, LimitedInv
  <1> QED  BY <1>2, <1>3 DEF SaverInv

LEMMA SaverSteps == ~ConcurrentSaves /\ StructureInv /\ SaverInv /\ [Next]_vars => SaverInv'
  <1> SUFFICES ASSUME ~ConcurrentSaves, StructureInv, SaverInv, [Next]_vars PROVE SaverInv'
    OBVIOUS
  <1>1. CASE \/ MigrationStep /\ UNCHANGED <<memory, req, torn, erased>>
             \/ \E i \in Id : LoopExits(i)
             \/ UNCHANGED vars
    <2>1. UNCHANGED <<registered, services, loops, limiter, lock, req, torn>>
      BY <1>1 DEF memory, LoopExits, vars
    <2> QED  BY <2>1, OtherTurns
  <1>2. CASE Load  BY <1>2, LoadTurns
  <1>3. CASE Crash  BY <1>3, CrashTurns
  <1>4. ASSUME NEW r \in Req, RequestStep(r) PROVE SaverInv'
    BY <1>4, BeginTurns, StatementTurns, FailingTurns, HolderTurns, HolderEndsTurn,
       OpenAccountTurns, RegisterTurns, LimitTurns, BuildAnotherTurns, BuildOwnTurns,
       InstallTurns, ReplaceTurns, ReplaceRaisesTurns
       DEF RequestStep
  <1> QED  BY <1>1, <1>2, <1>3, <1>4 DEF Next

LEMMA SaverStarts == Init => SaverInv
  <1> SUFFICES ASSUME Init PROVE SaverInv
    OBVIOUS
  <1>1. registered = {} /\ req = [r \in Req |-> Idle]  BY DEF Init
  <1>2. \A r \in Req : ~Saving(r) /\ Current(r)  BY <1>1, IdleTypes DEF Saving, Current
  <1> QED  BY <1>1, <1>2 DEF SaverInv, OneSaver, TurnInv, LimitedInv

LEMMA SaverHolds == ASSUME ~ConcurrentSaves PROVE Spec => []SaverInv
  <1>1. StructureInv /\ SaverInv /\ [Next]_vars => SaverInv'  BY SaverSteps
  <1> QED  BY <1>1, StructureHolds, SaverStarts, PTL DEF Spec

\* If settings requests take turns, then once they are done, and none failed half-way,
\* every account that is served meters and gates against the registry's current limiters,
\* whoever was added or removed while they were replaced.  (Nothing in the code makes them
\* take turns: what happens if they do not is a run's finding.)
THEOREM EveryoneOnOneLimiter ==
  ASSUME ~ConcurrentSaves
  PROVE  Spec => []OneLimiter
  <1>1. SaverInv => OneLimiter
    <2> SUFFICES ASSUME SaverInv, Quiet, ~torn, NEW i \in registered
                 PROVE  services[i].limiters = limiter /\ loops[i].limiters = limiter
      BY DEF OneLimiter
    <2>1. \A r \in Req : ~Saving(r)  BY DEF Quiet
    <2> QED  BY <2>1 DEF SaverInv, LimitedInv
  <1> QED  BY <1>1, SaverHolds, PTL

-----------------------------------------------------------------------------
(* SavedIsServed, where settings requests take turns.  First, what a step of one *)
(* request leaves true of the others. *)

LEMMA OthersSame ==
  ASSUME NEW r \in Req, Others(r), \A s \in Req \ {r} : lock' = s <=> lock = s,
         NEW s \in Req \ {r}
  PROVE  /\ req'[s] = req[s]
         /\ Saving(s)' <=> Saving(s)
         /\ Own(s)' = Own(s) /\ Mine(s)' = Mine(s)
         /\ \A k : Written(s, k)' <=> Written(s, k)
         /\ \A i, k : /\ OwesOwn(s, i, k)' <=> OwesOwn(s, i, k)
                      /\ OwesGlobal(s, i, k)' <=> OwesGlobal(s, i, k)
  <1>1. req'[s] = req[s]  BY DEF Others
  <1>2. Own(s)' = Own(s)  BY <1>1 DEF Own
  <1>3. Saving(s)' <=> Saving(s)  BY <1>1 DEF Saving, InFlight
  <1>4. Mine(s)' = Mine(s)  BY <1>1, <1>2 DEF Mine
  <1>5. \A k : Written(s, k)' <=> Written(s, k)  BY <1>1 DEF Written
  <1>6. ASSUME NEW i, NEW k
        PROVE  /\ OwesOwn(s, i, k)' <=> OwesOwn(s, i, k)
               /\ OwesGlobal(s, i, k)' <=> OwesGlobal(s, i, k)
    <2>1. Written(s, k)' <=> Written(s, k)  BY <1>5
    <2> QED  BY <1>1, <1>2, <1>3, <2>1 DEF OwesOwn, OwesGlobal
  <1> QED  BY <1>1, <1>2, <1>3, <1>4, <1>5, <1>6

\* Only the one settings request writes what it saves where others would look.
LEMMA DiskKept ==
  ASSUME StructureInv, OneSaver, DiskInv, NEW r \in Req, Others(r),
         \A s \in Req \ {r} : lock' = s <=> lock = s,
         Saving(r)' => Disked(r)',
         ~Saving(r) => /\ control'.row = control.row
                       /\ \A i \in Known : i \notin closed' => i \notin closed /\ dirs'[i] = dirs[i]
  PROVE  DiskInv'
  <1>1. ASSUME NEW s \in Req \ {r}, Saving(s)' PROVE Disked(s)'
    <2>1. req'[s] = req[s] /\ Saving(s) /\ \A k : Written(s, k)' <=> Written(s, k)
      BY <1>1, OthersSame
    <2>2. ~Saving(r)  BY <2>1 DEF OneSaver
    <2>3. Placed(s)  BY DEF StructureInv, AccountInv
    <2>4. req[s].id \in Known  BY <2>1, <2>3 DEF Placed, Concerns
    <2>5. req[s].id \notin closed' => /\ req[s].id \notin closed
                                      /\ dirs'[req[s].id] = dirs[req[s].id]
      BY <2>2, <2>4
    <2>6. control'.row = control.row  BY <2>2
    <2>7. Disked(s)  BY <2>1 DEF DiskInv
    <2>8. ASSUME NEW k \in OwnKeys, Written(s, k)', req'[s].id \notin closed'
          PROVE  dirs'[req'[s].id].row[k] = req'[s].patch[k]
      <3>1. Written(s, k) /\ req[s].id \notin closed /\ dirs'[req[s].id] = dirs[req[s].id]
        BY <2>1, <2>5, <2>8
      <3>2. dirs[req[s].id].row[k] = req[s].patch[k]  BY <2>7, <3>1 DEF Disked
      <3> QED  BY <2>1, <3>1, <3>2
    <2>9. \A k \in GlobalKey : Written(s, k)' => control'.row[k] = req'[s].patch[k]
      BY <2>1, <2>6, <2>7 DEF Disked
    <2>10. /\ req'[s].at = "write" /\ req'[s].id \notin closed'
                 => req'[s].stored = dirs'[req'[s].id].row
           /\ req'[s].at = "write global" => req'[s].stored = control'.row
           /\ req'[s].kind = "connect" => \A k \in CredKey : req'[s].patch[k] # Absent
      BY <2>1, <2>5, <2>6, <2>7 DEF Disked
    <2> QED  BY <2>8, <2>9, <2>10 DEF Disked
  <1> QED  BY <1>1 DEF DiskInv

LEMMA GraphKept ==
  ASSUME StructureInv, OneSaver, GraphInv, NEW r \in Req, Others(r),
         \A s \in Req \ {r} : lock' = s <=> lock = s,
         Graphed(r)',
         ~Saving(r) => \A i \in Known : services'[i] = services[i]
  PROVE  GraphInv'
  <1>1. ASSUME NEW s \in Req \ {r} PROVE Graphed(s)'
    <2>1. req'[s] = req[s] /\ Mine(s)' = Mine(s)  BY OthersSame
    <2>2. CASE req[s].at \in {"install", "replace"}
      <3>1. Saving(s) /\ req[s].of \in Known  BY <2>2, RebuildFacts
      <3>2. ~Saving(r)  BY <3>1 DEF OneSaver
      <3>3. services'[req[s].of] = services[req[s].of]  BY <3>1, <3>2
      <3>4. Graphed(s)  BY DEF GraphInv
      <3> QED  BY <2>1, <3>3, <3>4 DEF Graphed
    <2>3. CASE req[s].at \notin {"install", "replace"}
      BY <2>1, <2>3 DEF Graphed
    <2> QED  BY <2>2, <2>3
  <1> QED  BY <1>1 DEF GraphInv

\* An account stays served if what the step does to it is right, or is still owed to it,
\* or is nothing.
LEMMA OwnServedKept ==
  ASSUME NEW r \in Req, Others(r), \A s \in Req \ {r} : lock' = s <=> lock = s,
         NEW i, NEW k, OwnServed(i, k),
         \/ services'[i].settings[k] = Valid(dirs'[i].row[k])
         \/ OwesOwn(r, i, k)'
         \/ /\ services'[i].settings[k] = services[i].settings[k]
            /\ dirs'[i].row[k] = dirs[i].row[k]
            /\ ~OwesOwn(r, i, k)
  PROVE  OwnServed(i, k)'
  <1>1. \A s \in Req \ {r} : OwesOwn(s, i, k)' <=> OwesOwn(s, i, k)  BY OthersSame
  <1>2. CASE services'[i].settings[k] = Valid(dirs'[i].row[k])  BY <1>2 DEF OwnServed
  <1>3. CASE OwesOwn(r, i, k)'  BY <1>3 DEF OwnServed
  <1>4. CASE /\ services'[i].settings[k] = services[i].settings[k]
             /\ dirs'[i].row[k] = dirs[i].row[k]
             /\ ~OwesOwn(r, i, k)
    <2>1. CASE services[i].settings[k] = Valid(dirs[i].row[k])
      BY <1>4, <2>1 DEF OwnServed
    <2>2. CASE \E s \in Req : OwesOwn(s, i, k)
      <3>1. PICK s \in Req : OwesOwn(s, i, k)  BY <2>2
      <3>2. s \in Req \ {r}  BY <1>4, <3>1
      <3>3. OwesOwn(s, i, k)'  BY <1>1, <3>1, <3>2
      <3> QED  BY <3>3 DEF OwnServed
    <2> QED  BY <2>1, <2>2 DEF OwnServed
  <1> QED  BY <1>2, <1>3, <1>4

LEMMA GlobalServedKept ==
  ASSUME NEW r \in Req, Others(r), \A s \in Req \ {r} : lock' = s <=> lock = s,
         NEW i, NEW k, GlobalServed(i, k),
         \/ services'[i].settings[k] = Valid(control'.row[k])
         \/ OwesGlobal(r, i, k)'
         \/ /\ services'[i].settings[k] = services[i].settings[k]
            /\ control'.row[k] = control.row[k]
            /\ ~OwesGlobal(r, i, k)
  PROVE  GlobalServed(i, k)'
  <1>1. \A s \in Req \ {r} : OwesGlobal(s, i, k)' <=> OwesGlobal(s, i, k)  BY OthersSame
  <1>2. CASE services'[i].settings[k] = Valid(control'.row[k])  BY <1>2 DEF GlobalServed
  <1>3. CASE OwesGlobal(r, i, k)'  BY <1>3 DEF GlobalServed
  <1>4. CASE /\ services'[i].settings[k] = services[i].settings[k]
             /\ control'.row[k] = control.row[k]
             /\ ~OwesGlobal(r, i, k)
    <2>1. CASE services[i].settings[k] = Valid(control.row[k])
      BY <1>4, <2>1 DEF GlobalServed
    <2>2. CASE \E s \in Req : OwesGlobal(s, i, k)
      <3>1. PICK s \in Req : OwesGlobal(s, i, k)  BY <2>2
      <3>2. s \in Req \ {r}  BY <1>4, <3>1
      <3>3. OwesGlobal(s, i, k)'  BY <1>1, <3>1, <3>2
      <3> QED  BY <3>3 DEF GlobalServed
    <2> QED  BY <2>1, <2>2 DEF GlobalServed
  <1> QED  BY <1>2, <1>3, <1>4

LEMMA LimitingKept ==
  ASSUME NEW r \in Req, Others(r), \A s \in Req \ {r} : lock' = s <=> lock = s,
         NEW k, Limiting(k), req[r].at = "limit" => req[r].patch[k] = Absent
  PROVE  Limiting(k)'
  <1>1. PICK s \in Req : req[s].at = "limit" /\ req[s].patch[k] # Absent  BY DEF Limiting
  <1>2. s \in Req \ {r}  BY <1>1
  <1>3. req'[s] = req[s]  BY <1>2, OthersSame
  <1> QED  BY <1>1, <1>3 DEF Limiting

\* A step of a request that is not about to replace limiters leaves the limits right and
\* what is about to be registered fresh, or a change of limiters ahead.
LEMMA CapsKept ==
  ASSUME CapsInv, NEW r \in Req, Others(r), \A s \in Req \ {r} : lock' = s <=> lock = s,
         req[r].at # "limit", limiter' = limiter, stage' = stage,
         \A k \in GlobalKey : control'.row[k] = control.row[k] \/ Limiting(k)'
  PROVE  CapsInv'
  <1>1. ASSUME stage = "up", NEW k \in GlobalKey PROVE Capped(k)'
    <2>1. Capped(k)  BY <1>1 DEF CapsInv
    <2>2. Limiting(k) => Limiting(k)'  BY LimitingKept
    <2>3. control'.row[k] = control.row[k] \/ Limiting(k)'  OBVIOUS
    <2> QED  BY <2>1, <2>2, <2>3 DEF Capped
  <1> QED  BY <1>1 DEF CapsInv

LEMMA FreshKept ==
  ASSUME FreshInv, NEW r \in Req, Others(r), \A s \in Req \ {r} : lock' = s <=> lock = s,
         req[r].at # "limit", Fresh(r)',
         \A k \in GlobalKey : control'.row[k] = control.row[k] \/ Limiting(k)',
         \A s \in Req \ {r} : req[s].at = "register" => dirs'[req[s].id] = dirs[req[s].id]
  PROVE  FreshInv'
  <1>1. ASSUME NEW s \in Req \ {r} PROVE Fresh(s)'
    <2>1. req'[s] = req[s]  BY OthersSame
    <2>2. CASE req[s].at = "register"
      <3>1. dirs'[req[s].id] = dirs[req[s].id] /\ Fresh(s)  BY <2>2 DEF FreshInv
      <3>2. \A k \in GlobalKey : Limiting(k) => Limiting(k)'  BY LimitingKept
      <3>3. (\E k \in GlobalKey : dirs'[req'[s].id].row[k] # Absent) <=> Leftover(req[s].id)
        BY <2>1, <3>1 DEF Leftover
      <3>5. \A k \in OwnKeys : req'[s].graph.settings[k] = Valid(dirs'[req'[s].id].row[k])
        BY <2>1, <2>2, <3>1 DEF Fresh
      <3>6. ASSUME ~Leftover(req[s].id), NEW k \in GlobalKey
            PROVE  req'[s].graph.settings[k] = Valid(control'.row[k]) \/ Limiting(k)'
        BY <2>1, <2>2, <3>1, <3>2, <3>6 DEF Fresh
      <3> QED  BY <3>3, <3>5, <3>6 DEF Fresh, Leftover
    <2>3. CASE req[s].at # "register"  BY <2>1, <2>3 DEF Fresh
    <2> QED  BY <2>2, <2>3
  <1> QED  BY <1>1 DEF FreshInv

LEMMA SwapsKept ==
  ASSUME SwapsInv, NEW r \in Req, Others(r), \A s \in Req \ {r} : lock' = s <=> lock = s,
         \A i \in registered' :
            \/ services'[i].settings = loops'[i].settings
            \/ req'[r].at = "replace" /\ req'[r].of = i
            \/ /\ i \in registered
               /\ services'[i].settings = services[i].settings /\ loops'[i] = loops[i]
               /\ ~ (req[r].at = "replace" /\ req[r].of = i)
  PROVE  SwapsInv'
  <1>1. ASSUME NEW i \in registered',
               i \in registered, services'[i].settings = services[i].settings, loops'[i] = loops[i],
               ~ (req[r].at = "replace" /\ req[r].of = i)
        PROVE  Swapped(i)'
    <2>1. Swapped(i)  BY <1>1 DEF SwapsInv
    <2>2. CASE services[i].settings = loops[i].settings  BY <1>1, <2>2 DEF Swapped
    <2>3. ASSUME NEW s \in Req, req[s].at = "replace", req[s].of = i PROVE Swapped(i)'
      <3>1. s \in Req \ {r}  BY <1>1, <2>3
      <3>2. req'[s] = req[s]  BY <3>1, OthersSame
      <3> QED  BY <2>3, <3>2 DEF Swapped
    <2> QED  BY <2>1, <2>2, <2>3 DEF Swapped
  <1>2. ASSUME NEW i \in registered' PROVE Swapped(i)'
    <2>1. CASE services'[i].settings = loops'[i].settings  BY <2>1 DEF Swapped
    <2>2. CASE req'[r].at = "replace" /\ req'[r].of = i  BY <2>2 DEF Swapped
    <2> QED  BY <1>1, <2>1, <2>2
  <1> QED  BY <1>2 DEF SwapsInv

\* A step that leaves alone what is served and what it is served from.
LEMMA QuietData ==
  ASSUME StructureInv, StructureInv', OneSaver, DataInv, NEW r \in Req, Others(r),
         \A s \in Req \ {r} : lock' = s <=> lock = s,
         limiter' = limiter, services' = services, loops' = loops, stage' = stage,
         registered' \subseteq registered, control'.row = control.row,
         \A i \in Known : i \notin closed' => i \notin closed /\ dirs'[i] = dirs[i],
         torn => torn',
         Saving(r)' => Disked(r)', Graphed(r)', Fresh(r)',
         req[r].at \notin {"limit", "replace"},
         \A s \in Req \ {r} : req[s].at = "register" => dirs'[req[s].id] = dirs[req[s].id],
         ~torn' => \A i \in registered' :
                      /\ \A k \in OwnKeys : OwesOwn(r, i, k) => OwesOwn(r, i, k)'
                      /\ \A k \in GlobalKey : OwesGlobal(r, i, k) => OwesGlobal(r, i, k)'
  PROVE  DataInv'
  <1>1. DiskInv'  BY DiskKept DEF DataInv
  <1>2. GraphInv'  BY GraphKept DEF DataInv
  <1>3. \A i \in registered' : dirs'[i] = dirs[i]
    <2>1. Known' = Known  BY DEF Known
    <2>2. \A i \in registered' : i \in Known' /\ i \notin closed'  BY DEF StructureInv, AccountInv
    <2> QED  BY <2>1, <2>2
  <1>4. ServesInv'
    <2>1. ASSUME ~torn', NEW i \in registered', NEW k \in OwnKeys PROVE OwnServed(i, k)'
      <3>1. i \in registered /\ ~torn  BY <2>1
      <3>2. OwnServed(i, k)  BY <3>1 DEF DataInv, ServesInv
      <3>3. dirs'[i] = dirs[i]  BY <1>3
      <3>4. OwesOwn(r, i, k) => OwesOwn(r, i, k)'  BY <2>1
      <3> QED  BY <3>2, <3>3, <3>4, OwnServedKept
    <2>2. ASSUME ~torn', NEW i \in registered', NEW k \in GlobalKey, ~Leftover(i)'
          PROVE  GlobalServed(i, k)'
      <3>1. i \in registered /\ ~torn  BY <2>2
      <3>2. dirs'[i] = dirs[i]  BY <1>3
      <3>3. ~Leftover(i)  BY <2>2, <3>2 DEF Leftover
      <3>4. GlobalServed(i, k)  BY <3>1, <3>3 DEF DataInv, ServesInv
      <3>5. OwesGlobal(r, i, k) => OwesGlobal(r, i, k)'  BY <2>2
      <3> QED  BY <3>4, <3>5, GlobalServedKept
    <2> QED  BY <2>1, <2>2 DEF ServesInv
  <1>8. \A k \in GlobalKey : control'.row[k] = control.row[k] \/ Limiting(k)'  OBVIOUS
  <1>5. CapsInv'  BY <1>8, CapsKept DEF DataInv
  <1>6. FreshInv'  BY <1>8, FreshKept DEF DataInv
  <1>7. SwapsInv'
    <2>1. ASSUME NEW i \in registered'
          PROVE  /\ i \in registered
                 /\ services'[i].settings = services[i].settings /\ loops'[i] = loops[i]
                 /\ ~ (req[r].at = "replace" /\ req[r].of = i)
      OBVIOUS
    <2> QED  BY <2>1, SwapsKept DEF DataInv
  <1> QED  BY <1>1, <1>2, <1>4, <1>5, <1>6, <1>7 DEF DataInv

\* The same, of a step that leaves the disk alone too.
LEMMA UnwrittenData ==
  ASSUME StructureInv, StructureInv', OneSaver, DataInv, NEW r \in Req, Others(r),
         \A s \in Req \ {r} : lock' = s <=> lock = s,
         limiter' = limiter, services' = services, loops' = loops, stage' = stage,
         registered' \subseteq registered, control'.row = control.row, dirs' = dirs,
         closed \subseteq closed', torn => torn',
         Saving(r)' => Disked(r)', Graphed(r)', Fresh(r)',
         req[r].at \notin {"limit", "replace"},
         ~torn' => \A i \in registered' :
                      /\ \A k \in OwnKeys : OwesOwn(r, i, k) => OwesOwn(r, i, k)'
                      /\ \A k \in GlobalKey : OwesGlobal(r, i, k) => OwesGlobal(r, i, k)'
  PROVE  DataInv'
  <1>1. \A i \in Known : i \notin closed' => i \notin closed /\ dirs'[i] = dirs[i]  OBVIOUS
  <1> QED  BY <1>1, QuietData

LEMMA BeginServes ==
  ASSUME StructureInv, StructureInv', OneSaver, DataInv, NEW r \in Req,
         BeginSave(r) \/ BeginConnect(r)
  PROVE  DataInv'
  <1>1. req[r] = Idle /\ Others(r) /\ req'[r].at \in {"read", "read global", "store"}
    BY BeginSaveDoes, BeginConnectDoes DEF StructureInv
  <1>2. req[r].at = "new" /\ ~Saving(r)  BY <1>1, IdleTypes DEF Saving
  <1>3. UNCHANGED <<disk, stage, memory, torn>>  BY DEF BeginSave, BeginConnect
  <1>4. Disked(r)'
    <2>1. CASE BeginSave(r)
      <3>1. /\ req'[r].kind = "save" /\ req'[r].at \in {"read", "read global"}
            /\ req'[r].at = FirstStep(req'[r].patch)
            /\ \A k \in CredKey : req'[r].patch[k] = Absent
        BY <2>1, BeginSaveDoes DEF StructureInv
      <3>2. req'[r].at = "read global" => \A k \in AccountKey : req'[r].patch[k] = Absent
        BY <3>1 DEF FirstStep, AccountPart
      <3>3. \A k \in OwnKeys \cup GlobalKey : ~Written(r, k)'
        BY <3>1, <3>2, KeysApart DEF OwnKeys, Written, Rebuilding
      <3> QED  BY <3>1, <3>3 DEF Disked
    <2>2. CASE BeginConnect(r)
      <3>1. /\ req'[r].kind = "connect" /\ req'[r].at = "store" /\ req'[r].count = 0
            /\ \A k \in AccountKey \cup GlobalKey : req'[r].patch[k] = Absent
            /\ \A k \in CredKey : req'[r].patch[k] # Absent
        BY <2>2, BeginConnectDoes DEF StructureInv
      <3>2. \A k \in OwnKeys \cup GlobalKey : ~Written(r, k)'
        BY <3>1 DEF OwnKeys, Written
      <3> QED  BY <3>1, <3>2 DEF Disked
    <2> QED  BY <2>1, <2>2
  <1>5. Graphed(r)' /\ Fresh(r)'  BY <1>1 DEF Graphed, Fresh
  <1>6. \A i, k : ~OwesOwn(r, i, k) /\ ~OwesGlobal(r, i, k)
    BY <1>2 DEF OwesOwn, OwesGlobal
  <1>7. /\ \A s \in Req \ {r} : lock' = s <=> lock = s
        /\ limiter' = limiter /\ services' = services /\ loops' = loops /\ stage' = stage
        /\ registered' \subseteq registered /\ control'.row = control.row /\ dirs' = dirs
        /\ closed \subseteq closed'
    BY <1>3 DEF memory, disk
  <1>8. torn => torn'  BY <1>3, StillTorn
  <1> QED  BY <1>1, <1>2, <1>4, <1>5, <1>6, <1>7, <1>8, UnwrittenData

LEMMA ReadServes ==
  ASSUME StructureInv, StructureInv', OneSaver, DataInv, NEW r \in Req,
         ReadAccountRow(r) \/ ReadGlobalRow(r)
  PROVE  DataInv'
  <1>1. /\ req[r].at \in {"read", "read global"}
        /\ ReadAccountRow(r) => req[r].at = "read" /\ req[r].id \notin closed
        /\ ReadGlobalRow(r) => req[r].at = "read global"
    BY DEF ReadAccountRow, ReadGlobalRow
  <1>2. req[r].at \in SavingSteps  BY <1>1 DEF SavingSteps
  <1>3. /\ Saving(r) /\ Shape(req[r]) /\ control \in Control
        /\ req[r].id \notin closed => dirs[req[r].id] \in Db
    BY <1>2, SavingFacts
  <1>4. req[r].kind = "save"  BY <1>1, <1>3 DEF Shape, Saving
  <1>5. /\ Others(r) /\ req'[r].kind = "save" /\ req'[r].id = req[r].id
        /\ req'[r].patch = req[r].patch /\ req'[r].todo = req[r].todo
        /\ \/ /\ req[r].at = "read" /\ req'[r].at = "write"
              /\ req'[r].stored = dirs[req[r].id].row
           \/ /\ req[r].at = "read global" /\ req'[r].at = "write global"
              /\ req'[r].stored = control.row
    <2>1. CASE ReadAccountRow(r)
      BY <1>1, <1>3, <1>4, <2>1, ReadAccountRowDoes DEF StructureInv, Continues
    <2>2. CASE ReadGlobalRow(r)
      BY <1>1, <1>3, <1>4, <2>2, ReadGlobalRowDoes DEF StructureInv, Continues
    <2> QED  BY <2>1, <2>2
  <1>6. UNCHANGED <<disk, stage, memory, torn>>  BY DEF ReadAccountRow, ReadGlobalRow
  <1>7. /\ \A s \in Req \ {r} : lock' = s <=> lock = s
        /\ limiter' = limiter /\ services' = services /\ loops' = loops /\ stage' = stage
        /\ registered' \subseteq registered /\ control' = control /\ dirs' = dirs
        /\ closed' = closed /\ lock' = lock
    BY <1>6 DEF memory, disk
  <1>8. torn => torn'  BY <1>6, StillTorn
  <1>9. \A k \in CredKey : req[r].patch[k] = Absent  BY <1>3, <1>4 DEF Shape
  <1>10. \A k \in OwnKeys : Written(r, k)' <=> Written(r, k)
    BY <1>5, <1>9, KeysApart DEF OwnKeys, Written
  <1>11. \A k \in GlobalKey : ~Written(r, k)' /\ ~Written(r, k)
    BY <1>1, <1>5 DEF Written, Rebuilding
  <1>12. Disked(r)  BY <1>3 DEF DataInv, DiskInv
  <1>13. Disked(r)'
    BY <1>5, <1>7, <1>10, <1>11, <1>12 DEF Disked
  <1>14. Graphed(r)' /\ Fresh(r)'  BY <1>5 DEF Graphed, Fresh
  <1>15. Own(r)' = Own(r) /\ Saving(r)'  BY <1>5, <1>7 DEF Own, Saving, InFlight
  <1>16. ASSUME NEW i, NEW k \in OwnKeys, OwesOwn(r, i, k) PROVE OwesOwn(r, i, k)'
    BY <1>5, <1>10, <1>15, <1>16 DEF OwesOwn
  <1>17. ASSUME NEW i, NEW k \in GlobalKey, OwesGlobal(r, i, k) PROVE OwesGlobal(r, i, k)'
    BY <1>11, <1>17 DEF OwesGlobal
  <1>18. control'.row = control.row /\ closed \subseteq closed'  BY <1>7
  <1>19. req[r].at \notin {"limit", "replace"}  BY <1>1
  <1> QED
    BY <1>5, <1>7, <1>8, <1>13, <1>14, <1>16, <1>17, <1>18, <1>19, UnwrittenData

\* The end of a settings request that owes nothing any more, or failed with some of its
\* work done.
LEMMA EndServes ==
  ASSUME StructureInv, StructureInv', OneSaver, DataInv, NEW r \in Req, End(r),
         limiter' = limiter, services' = services, loops' = loops, stage' = stage,
         registered' \subseteq registered, disk' = disk, closed' = closed, torn => torn',
         req[r].at \notin {"limit", "replace"},
         ~torn' => /\ \A i, k : ~ (k \in OwnKeys /\ OwesOwn(r, i, k))
                   /\ \A i, k : ~ (k \in GlobalKey /\ OwesGlobal(r, i, k))
  PROVE  DataInv'
  <1>1. Others(r) /\ req'[r] = Done /\ \A s \in Req \ {r} : lock' = s <=> lock = s
    BY EndLocks
  <1>2. ~Saving(r)' /\ Graphed(r)' /\ Fresh(r)'
    BY <1>1, IdleTypes DEF Saving, Graphed, Fresh
  <1>3. control'.row = control.row /\ dirs' = dirs  BY DEF disk
  <1> QED  BY <1>1, <1>2, <1>3, UnwrittenData

LEMMA FailureServes ==
  ASSUME StructureInv, StructureInv', OneSaver, DataInv, NEW r \in Req, StatementFails(r)
  PROVE  DataInv'
  <1>1. req[r].at \in {"read", "write", "store", "read global", "write global"} /\ Fail(r)
    BY DEF StatementFails
  <1>2. req[r].at \in SavingSteps  BY <1>1 DEF SavingSteps
  <1>3. Saving(r) /\ Shape(req[r])  BY <1>2, SavingFacts
  <1>4. End(r) /\ torn' = (torn \/ Begun(r))  BY <1>1 DEF Fail
  <1>5. torn => torn'  BY <1>4
  <1>6. ~torn' => ~Begun(r)  BY <1>4
  <1>7. ASSUME ~Begun(r), NEW k \in OwnKeys \cup GlobalKey PROVE ~Written(r, k)
    <2>1. CASE req[r].at = "store"
      <3>1. req[r].kind = "connect"  BY <1>3, <2>1 DEF Shape
      <3>2. req[r].count \in Nat /\ ~ (req[r].count > 0)
        BY <1>3, <1>7, <2>1, RequestTypes DEF Begun, StructureInv
      <3>3. 1 .. req[r].count = {}  BY <3>2
      <3> QED  BY <1>3, <2>1, <3>1, <3>3, KeysApart DEF Shape, Written, OwnKeys
    <2>2. CASE req[r].at # "store"
      <3>1. req[r].kind = "save"  BY <1>1, <1>3, <2>2 DEF Shape, Saving
      <3>2. \A x \in CredKey : req[r].patch[x] = Absent  BY <1>3, <3>1 DEF Shape
      <3>3. req[r].at \in {"read global", "write global"}
               => \A x \in AccountKey : req[r].patch[x] = Absent
        BY <1>3, <1>7 DEF Begun, AccountPart
      <3> QED  BY <1>1, <2>2, <3>2, <3>3, KeysApart DEF Written, OwnKeys, Rebuilding
    <2> QED  BY <2>1, <2>2
  <1>8. ~torn' => /\ \A i, k : ~ (k \in OwnKeys /\ OwesOwn(r, i, k))
                  /\ \A i, k : ~ (k \in GlobalKey /\ OwesGlobal(r, i, k))
    BY <1>6, <1>7 DEF OwesOwn, OwesGlobal
  <1>9. /\ limiter' = limiter /\ services' = services /\ loops' = loops /\ stage' = stage
        /\ registered' \subseteq registered /\ disk' = disk /\ closed' = closed
    BY DEF StatementFails
  <1> QED  BY <1>1, <1>4, <1>5, <1>8, <1>9, EndServes

LEMMA EndGlobalServes ==
  ASSUME StructureInv, StructureInv', OneSaver, DataInv, NEW r \in Req, EndGlobalSave(r)
  PROVE  DataInv'
  <1>1. req[r].at = "fan out" /\ req[r].todo = {} /\ lock = r /\ End(r)  BY DEF EndGlobalSave
  <1>2. req[r].at \in SavingSteps  BY <1>1 DEF SavingSteps, Rebuilding
  <1>3. Saving(r) /\ Shape(req[r]) /\ Locks(r)  BY <1>2, SavingFacts
  <1>4. req[r].kind = "save" /\ AccountPart(req[r].patch) = {}  BY <1>1, <1>3 DEF Locks
  <1>5. \A k \in OwnKeys : req[r].patch[k] = Absent
    BY <1>3, <1>4 DEF Shape, OwnKeys, AccountPart
  <1>6. Own(r) = {}  BY <1>1 DEF Own
  <1>7. /\ \A i, k : ~ (k \in OwnKeys /\ OwesOwn(r, i, k))
        /\ \A i, k : ~ (k \in GlobalKey /\ OwesGlobal(r, i, k))
    BY <1>1, <1>5, <1>6 DEF OwesOwn, OwesGlobal, Written
  <1>8. /\ limiter' = limiter /\ services' = services /\ loops' = loops /\ stage' = stage
        /\ registered' \subseteq registered /\ disk' = disk /\ closed' = closed /\ torn' = torn
    BY DEF EndGlobalSave
  <1>9. torn => torn'  BY <1>8, StillTorn
  <1> QED  BY <1>1, <1>7, <1>8, <1>9, EndServes

\* Between one account's rebuild and the next.
Between(r) == req[r].at \in {"build", "fan out"}

\* The next account's turn: what it is to be rebuilt with.
LEMMA BuildServes ==
  ASSUME StructureInv, StructureInv', OneSaver, DataInv, NEW r \in Req, NEW i \in Known,
         NEW K \in SUBSET Setting, BuildGraph(r, i, K), Between(r),
         \A k \in Setting : k \in K <=> (k \in GlobalKey \/ i \in Own(r)),
         UNCHANGED <<disk, stage, adopted, left, memory, torn, erased>>
  PROVE  DataInv'
  <1>1. req[r].at \in SavingSteps /\ req[r].at \notin {"install", "replace"}
    BY DEF SavingSteps, Rebuilding, Between
  <1>2. Saving(r)  BY <1>1, SavingFacts
  <1>3. i \in Id /\ services[i] \in Graph  BY KnownHasGraph DEF StructureInv
  <1>4. /\ Continues(r, "install") /\ req'[r].todo = req[r].todo \ {i} /\ req'[r].of = i
        /\ \A k \in Setting :
              req'[r].graph.settings[k] = IF k \in K /\ req[r].patch[k] # Absent
                                          THEN Valid(req[r].patch[k]) ELSE services[i].settings[k]
    BY <1>3, BuildGraphDoes DEF StructureInv
  <1>5. /\ Others(r) /\ req'[r].at = "install" /\ req'[r].id = req[r].id
        /\ req'[r].kind = req[r].kind /\ req'[r].patch = req[r].patch
    BY <1>4 DEF Continues
  <1>6. /\ \A s \in Req \ {r} : lock' = s <=> lock = s
        /\ limiter' = limiter /\ services' = services /\ loops' = loops /\ stage' = stage
        /\ registered' \subseteq registered /\ control' = control /\ dirs' = dirs
        /\ closed' = closed /\ lock' = lock /\ torn' = torn
    BY DEF memory, disk
  <1>7. torn => torn'  BY <1>6, StillTorn
  <1>8. Own(r)' = Own(r)  BY <1>5, <1>6 DEF Own
  <1>9. \A k \in Setting : k \in Mine(r)' <=> k \in K  BY <1>4, <1>8 DEF Mine
  <1>10. Graphed(r)'
    <2>1. \A k \in Setting :
             req'[r].graph.settings[k] = IF k \in Mine(r)' /\ req'[r].patch[k] # Absent
                                         THEN Valid(req'[r].patch[k])
                                         ELSE services'[req'[r].of].settings[k]
      BY <1>4, <1>5, <1>6, <1>9
    <2> QED  BY <1>5, <2>1 DEF Graphed
  <1>11. Fresh(r)'  BY <1>5 DEF Fresh
  <1>12. \A k : Written(r, k)' <=> Written(r, k)
    BY <1>5 DEF Written, Rebuilding, Between
  <1>13. Disked(r)  BY <1>2 DEF DataInv, DiskInv
  <1>14. Disked(r)'
    BY <1>5, <1>6, <1>12, <1>13 DEF Disked
  <1>15. Saving(r)'  BY <1>2, <1>5 DEF Saving, InFlight
  <1>16. ASSUME NEW x, NEW k, OwesOwn(r, x, k) PROVE OwesOwn(r, x, k)'
    BY <1>5, <1>12, <1>15, <1>16 DEF OwesOwn
  <1>17. ASSUME NEW x, NEW k, OwesGlobal(r, x, k) PROVE OwesGlobal(r, x, k)'
    <2>1. Written(r, k)'  BY <1>12, <1>17 DEF OwesGlobal
    <2>2. x \in req[r].todo \/ x \in Own(r)  BY <1>1, <1>17 DEF OwesGlobal, Between
    <2> QED  BY <1>4, <1>5, <1>8, <1>15, <2>1, <2>2 DEF OwesGlobal
  <1>18. /\ control'.row = control.row /\ closed \subseteq closed'
         /\ req[r].at \notin {"limit", "replace"}
    BY <1>6 DEF Between
  <1>19. \A x \in registered' :
            /\ \A k \in OwnKeys : OwesOwn(r, x, k) => OwesOwn(r, x, k)'
            /\ \A k \in GlobalKey : OwesGlobal(r, x, k) => OwesGlobal(r, x, k)'
    BY <1>16, <1>17
  <1>20. Others(r)  BY <1>5
  <1> QED
    BY <1>6, <1>7, <1>10, <1>11, <1>14, <1>18, <1>19, <1>20, UnwrittenData

LEMMA BuildAnotherServes ==
  ASSUME StructureInv, StructureInv', SaverInv, DataInv, NEW r \in Req, BuildAnother(r)
  PROVE  DataInv'
  <1>1. req[r].at = "fan out" /\ req[r].at \in SavingSteps /\ req[r].at \in Rebuilding
    BY DEF BuildAnother, SavingSteps, Rebuilding
  <1>2. Saving(r) /\ Placed(r)  BY <1>1, SavingFacts
  <1>3. PICK i \in req[r].todo : BuildGraph(r, i, GlobalKey)  BY DEF BuildAnother
  <1>4. i \in Known  BY <1>2 DEF Placed, Concerns
  <1>5. i \notin Own(r)  BY <1>1, <1>2, <1>3 DEF SaverInv, TurnInv, Turn
  <1>6. GlobalKey \in SUBSET Setting  BY DEF Setting
  <1>7. UNCHANGED <<disk, stage, adopted, left, memory, torn, erased>>  BY DEF BuildAnother
  <1>8. Between(r)  BY <1>1 DEF Between
  <1>9. \A k \in Setting : k \in GlobalKey <=> (k \in GlobalKey \/ i \in Own(r))  BY <1>5
  <1> QED  BY <1>3, <1>4, <1>6, <1>7, <1>8, <1>9, BuildServes DEF SaverInv

LEMMA BuildOwnServes ==
  ASSUME StructureInv, StructureInv', SaverInv, DataInv, NEW r \in Req, BuildOwn(r)
  PROVE  DataInv'
  <1>1. /\ req[r].at = "build" \/ (req[r].at = "fan out" /\ req[r].todo = {} /\ lock # r)
        /\ BuildGraph(r, req[r].id, Setting)
    BY DEF BuildOwn
  <1>2. req[r].at \in SavingSteps  BY <1>1 DEF SavingSteps, Rebuilding
  <1>3. Saving(r) /\ Locks(r) /\ req[r].id \in Known  BY <1>2, SavingFacts
  <1>4. lock # r
    BY <1>1, <1>3 DEF Locks, Locking, Rebuilding
  <1>5. req[r].id \in Own(r)  BY <1>4 DEF Own
  <1>6. UNCHANGED <<disk, stage, adopted, left, memory, torn, erased>>  BY DEF BuildOwn
  <1>7. Setting \in SUBSET Setting  OBVIOUS
  <1>8. Between(r)  BY <1>1 DEF Between
  <1>9. \A k \in Setting : k \in Setting <=> (k \in GlobalKey \/ req[r].id \in Own(r))
    BY <1>5
  <1> QED  BY <1>1, <1>3, <1>6, <1>7, <1>8, <1>9, BuildServes DEF SaverInv

LEMMA HolderServes ==
  ASSUME StructureInv, StructureInv', OneSaver, DataInv, NEW r \in Req,
         Create(r) \/ Remove(r) \/ StopLoop(r) \/ DropRow(r) \/ DropRowFails(r)
  PROVE  DataInv'
  <1>1. /\ Others(r) /\ \A s \in Req \ {r} : lock' = s <=> lock = s
        /\ req[r].at \in {"new", "stop", "drop"}
        /\ ~Saving(r) /\ ~Saving(r)' /\ req'[r].at \in {"open", "stop", "drop", "wipe"}
    BY HolderGoesOn
  <1>2. /\ UNCHANGED <<limiter, services, loops, torn, stage, dirs>>
        /\ registered' \subseteq registered /\ closed \subseteq closed'
    BY DEF Create, Remove, StopLoop, DropRow, DropRowFails, memory, disk
  <1>3. control'.row = control.row
    <2>1. CASE Create(r)
      <3>1. stage = "up" /\ control' = [control EXCEPT !.accounts = @ \cup {req'[r].id}]
        BY <2>1, CreateDoes DEF StructureInv
      <3>2. control \in Control
        BY <3>1 DEF StructureInv, BootInv, TypeOK, StoreTypes
      <3> QED  BY <3>1, <3>2 DEF Control
    <2>2. CASE DropRow(r)
      <3>1. /\ req[r].at = "drop" /\ req[r].at \in Locking
            /\ control' = [control EXCEPT !.accounts = @ \ {req[r].id}]
        BY <2>2 DEF DropRow, Locking
      <3>2. control \in Control  BY <3>1, HolderFacts
      <3> QED  BY <3>1, <3>2 DEF Control
    <2>3. CASE Remove(r) \/ StopLoop(r) \/ DropRowFails(r)
      BY <2>3 DEF Remove, StopLoop, DropRowFails, disk
    <2> QED  BY <2>1, <2>2, <2>3
  <1>4. torn => torn'  BY <1>2, StillTorn
  <1>5. Graphed(r)' /\ Fresh(r)'  BY <1>1 DEF Graphed, Fresh
  <1>6. \A i, k : ~OwesOwn(r, i, k) /\ ~OwesGlobal(r, i, k)
    BY <1>1 DEF OwesOwn, OwesGlobal
  <1> QED  BY <1>1, <1>2, <1>3, <1>4, <1>5, <1>6, UnwrittenData

LEMMA OpenFailsServes ==
  ASSUME StructureInv, StructureInv', OneSaver, DataInv, NEW r \in Req, OpenFails(r)
  PROVE  DataInv'
  <1>1. req[r].at = "open" /\ req[r].at \in Locking /\ End(r)  BY DEF OpenFails, Locking
  <1>2. ~Saving(r)  BY <1>1, HolderFacts DEF Saving
  <1>3. /\ limiter' = limiter /\ services' = services /\ loops' = loops /\ stage' = stage
        /\ registered' \subseteq registered /\ disk' = disk /\ closed' = closed /\ torn' = torn
    BY DEF OpenFails
  <1>4. torn => torn'  BY <1>3, StillTorn
  <1>5. /\ \A i, k : ~ (k \in OwnKeys /\ OwesOwn(r, i, k))
        /\ \A i, k : ~ (k \in GlobalKey /\ OwesGlobal(r, i, k))
    BY <1>2 DEF OwesOwn, OwesGlobal
  <1> QED  BY <1>1, <1>3, <1>4, <1>5, EndServes

\* While one request holds the lock, no other is about to register an account.
LEMMA NobodyRegisters ==
  ASSUME StructureInv, NEW r \in Req, req[r].at \in Locking
  PROVE  \A s \in Req \ {r} : req[s].at # "register"
  <1>1. ASSUME NEW s \in Req \ {r}, req[s].at = "register" PROVE FALSE
    <2>1. req[s].at \in Locking  BY <1>1 DEF Locking
    <2> QED  BY <2>1, OneLocks DEF StructureInv
  <1> QED  BY <1>1

LEMMA WipeServes ==
  ASSUME StructureInv, StructureInv', OneSaver, DataInv, NEW r \in Req, Wipe(r)
  PROVE  DataInv'
  <1>1. req[r].at = "wipe" /\ req[r].at \in Locking /\ End(r)  BY DEF Wipe, Locking
  <1>2. ~Saving(r) /\ req[r].id \in Id  BY <1>1, HolderFacts DEF Saving
  <1>3. /\ Others(r) /\ req'[r] = Done /\ \A s \in Req \ {r} : lock' = s <=> lock = s
    BY <1>1, EndLocks
  <1>4. ~Saving(r)' /\ Graphed(r)' /\ Fresh(r)'
    BY <1>3, IdleTypes DEF Saving, Graphed, Fresh
  <1>5. /\ limiter' = limiter /\ services' = services /\ loops' = loops /\ stage' = stage
        /\ registered' \subseteq registered /\ control' = control /\ closed' = closed
        /\ torn' = torn
    BY DEF Wipe
  <1>6. torn => torn'  BY <1>5, StillTorn
  <1>7. \A i \in Known : i \notin closed' => i \notin closed /\ dirs'[i] = dirs[i]
    <2>1. dirs' = dirs \/ (req[r].id \in closed /\ dirs' = [dirs EXCEPT ![req[r].id] = NoDb])
      BY DEF Wipe
    <2> QED  BY <1>5, <2>1 DEF StructureInv, TypeOK, StoreTypes, Known
  <1>8. \A i, k : ~OwesOwn(r, i, k) /\ ~OwesGlobal(r, i, k)
    BY <1>2 DEF OwesOwn, OwesGlobal
  <1>9. \A s \in Req \ {r} : req[s].at = "register" => dirs'[req[s].id] = dirs[req[s].id]
    BY <1>1, NobodyRegisters
  <1>10. control'.row = control.row /\ req[r].at \notin {"limit", "replace"}  BY <1>1, <1>5
  <1> QED  BY <1>3, <1>4, <1>5, <1>6, <1>7, <1>8, <1>9, <1>10, QuietData

\* A graph made of the rows runs with what they hold, unless the account's row has
\* copies of global keys.
LEMMA MergedServes ==
  ASSUME NEW shared, NEW own
  PROVE  /\ \A k \in OwnKeys : MergedSettings(shared, own)[k] = Valid(own[k])
         /\ (\A k \in GlobalKey : own[k] = Absent)
               => \A k \in GlobalKey : MergedSettings(shared, own)[k] = Valid(shared[k])
  <1>1. ASSUME NEW k \in OwnKeys PROVE MergedSettings(shared, own)[k] = Valid(own[k])
    <2>1. k \in Setting /\ k \notin GlobalKey  BY KeysApart DEF OwnKeys, Setting
    <2> QED  BY <2>1 DEF MergedSettings
  <1>2. ASSUME NEW k \in GlobalKey, own[k] = Absent
        PROVE  MergedSettings(shared, own)[k] = Valid(shared[k])
    <2>1. k \in Setting  BY DEF Setting
    <2>2. MergedSettings(shared, own)[k] = IF shared[k] \in Value THEN shared[k] ELSE Valid(own[k])
      BY <2>1 DEF MergedSettings
    <2> QED  BY <1>2, <2>2, StoreAssumption DEF Valid
  <1> QED  BY <1>1, <1>2

LEMMA OpenAccountServes ==
  ASSUME StructureInv, StructureInv', OneSaver, DataInv, NEW r \in Req, OpenAccount(r)
  PROVE  DataInv'
  <1>1. req[r].at = "open" /\ req[r].at \in Locking  BY DEF OpenAccount, Locking
  <1>2. control \in Control /\ req[r].id \in Id /\ req[r].kind = "create" /\ Placed(r)
    BY <1>1, HolderFacts
  <1>3. /\ Continues(r, "register")
        /\ dirs'[req[r].id] = Opened(req[r].id)
        /\ \A i \in Id \ {req[r].id} : dirs'[i] = dirs[i]
        /\ req'[r].graph.settings = MergedSettings(control.row, Opened(req[r].id).row)
    BY <1>2, OpenAccountDoes DEF StructureInv
  <1>4. Others(r) /\ req'[r].at = "register" /\ req'[r].id = req[r].id /\ ~Saving(r) /\ ~Saving(r)'
    BY <1>2, <1>3 DEF Continues, Saving
  <1>5. /\ \A s \in Req \ {r} : lock' = s <=> lock = s
        /\ limiter' = limiter /\ services' = services /\ loops' = loops /\ stage' = stage
        /\ registered' \subseteq registered /\ control' = control /\ closed' = closed
        /\ torn' = torn
    BY DEF OpenAccount, memory
  <1>6. torn => torn'  BY <1>5, StillTorn
  <1>7. req[r].id \notin Known  BY <1>2 DEF Placed
  <1>8. \A i \in Known : i \notin closed' => i \notin closed /\ dirs'[i] = dirs[i]
    BY <1>3, <1>5, <1>7 DEF Known
  <1>9. Graphed(r)'  BY <1>4 DEF Graphed
  <1>10. Fresh(r)'
    <2> DEFINE own == Opened(req[r].id).row
    <2>1. dirs'[req'[r].id].row = own /\ control'.row = control.row  BY <1>3, <1>4, <1>5
    <2>2. req'[r].graph.settings = MergedSettings(control.row, own)  BY <1>3
    <2> HIDE DEF own
    <2>3. \A k \in OwnKeys : req'[r].graph.settings[k] = Valid(own[k])
      BY <2>2, MergedServes
    <2>4. (\A k \in GlobalKey : own[k] = Absent)
             => \A k \in GlobalKey : req'[r].graph.settings[k] = Valid(control.row[k])
      BY <2>2, MergedServes
    <2> QED  BY <2>1, <2>3, <2>4 DEF Fresh, Leftover
  <1>11. \A i, k : ~OwesOwn(r, i, k) /\ ~OwesGlobal(r, i, k)
    BY <1>4 DEF OwesOwn, OwesGlobal
  <1>12. \A s \in Req \ {r} : req[s].at = "register" => dirs'[req[s].id] = dirs[req[s].id]
    BY <1>1, NobodyRegisters
  <1>13. control'.row = control.row /\ req[r].at \notin {"limit", "replace"}  BY <1>1, <1>5
  <1> QED
    BY <1>4, <1>5, <1>6, <1>8, <1>9, <1>10, <1>11, <1>12, <1>13, QuietData

\* A settings request's step on its account's database.
LEMMA DatabaseServes ==
  ASSUME StructureInv, OneSaver, DataInv, NEW r \in Req, Others(r), Saving(r),
         \A s \in Req \ {r} : lock' = s <=> lock = s,
         limiter' = limiter, services' = services, loops' = loops, stage' = stage,
         registered' = registered, control' = control, torn => torn',
         Disked(r)', Graphed(r)', Fresh(r)', req[r].at \notin {"limit", "replace"},
         NEW x \in Id, req[r].id = x, \A i \in Id \ {x} : dirs'[i] = dirs[i],
         \A k \in GlobalKey : dirs'[x].row[k] = dirs[x].row[k],
         \A k \in OwnKeys : \/ OwesOwn(r, x, k)'
                            \/ dirs'[x].row[k] = dirs[x].row[k] /\ ~OwesOwn(r, x, k),
         \A i : \A k \in GlobalKey : ~OwesGlobal(r, i, k)
  PROVE  DataInv'
  <1>1. DiskInv'  BY DiskKept DEF DataInv
  <1>2. GraphInv'  BY GraphKept DEF DataInv
  <1>3. registered \subseteq Id  BY DEF StructureInv, TypeOK
  <1>4. ASSUME ~torn', NEW i \in registered, NEW k \in OwnKeys PROVE OwnServed(i, k)'
    <2>1. OwnServed(i, k)  BY <1>4 DEF DataInv, ServesInv
    <2>2. CASE i = x
      <3>1. \/ OwesOwn(r, i, k)'
            \/ dirs'[i].row[k] = dirs[i].row[k] /\ ~OwesOwn(r, i, k)
        BY <2>2
      <3> QED  BY <2>1, <3>1, OwnServedKept
    <2>3. CASE i # x
      <3>1. dirs'[i] = dirs[i] /\ ~OwesOwn(r, i, k)  BY <1>3, <2>3 DEF OwesOwn
      <3> QED  BY <2>1, <3>1, OwnServedKept
    <2> QED  BY <2>2, <2>3
  <1>5. ASSUME NEW i \in registered, NEW k \in GlobalKey
        PROVE  dirs'[i].row[k] = dirs[i].row[k]
    BY <1>3
  <1>6. ASSUME ~torn', NEW i \in registered, ~Leftover(i)', NEW k \in GlobalKey
        PROVE  GlobalServed(i, k)'
    <2>1. ~Leftover(i)  BY <1>5, <1>6 DEF Leftover
    <2>2. GlobalServed(i, k)  BY <1>6, <2>1 DEF DataInv, ServesInv
    <2>3. ~OwesGlobal(r, i, k)  OBVIOUS
    <2> QED  BY <2>2, <2>3, GlobalServedKept
  <1>7. ServesInv'  BY <1>4, <1>6 DEF ServesInv
  <1>8. \A k \in GlobalKey : control'.row[k] = control.row[k] \/ Limiting(k)'  OBVIOUS
  <1>9. CapsInv'  BY <1>8, CapsKept DEF DataInv
  <1>10. \A s \in Req \ {r} : req[s].at = "register" => dirs'[req[s].id] = dirs[req[s].id]
    <2>1. ASSUME NEW s \in Req \ {r}, req[s].at = "register"
          PROVE  dirs'[req[s].id] = dirs[req[s].id]
      <3>1. req[s].at \in Locking  BY <2>1 DEF Locking
      <3>2. req[s].id \in Id /\ req[s].id \notin Known  BY <2>1, <3>1, HolderFacts DEF Placed
      <3>3. req[r].id \in Known  BY DEF StructureInv, AccountInv, Placed, Concerns
      <3> QED  BY <3>2, <3>3
    <2> QED  BY <2>1
  <1>11. FreshInv'  BY <1>8, <1>10, FreshKept DEF DataInv
  <1>12. \A i \in registered' :
            /\ i \in registered
            /\ services'[i].settings = services[i].settings /\ loops'[i] = loops[i]
            /\ ~ (req[r].at = "replace" /\ req[r].of = i)
    OBVIOUS
  <1>13. SwapsInv'  BY <1>12, SwapsKept DEF DataInv
  <1> QED  BY <1>1, <1>2, <1>7, <1>9, <1>11, <1>13 DEF DataInv

LEMMA WriteAccountRowServes ==
  ASSUME StructureInv, OneSaver, DataInv, NEW r \in Req, WriteAccountRow(r)
  PROVE  DataInv'
  <1>1. req[r].at = "write" /\ req[r].id \notin closed /\ req[r].at \in SavingSteps
    BY DEF WriteAccountRow, SavingSteps
  <1>2. Saving(r) /\ Shape(req[r]) /\ dirs[req[r].id] \in Db /\ req[r].id \in Id
    BY <1>1, SavingFacts
  <1> PICK i \in Id : i = req[r].id  BY <1>2
  <1> DEFINE row == dirs[i].row
             patch == req[r].patch
  <1>3. req[r].kind = "save" /\ \A k \in CredKey : patch[k] = Absent
    BY <1>1, <1>2 DEF Shape, Saving
  <1>4. /\ Continues(r, AfterAccountHalf(patch))
        /\ AfterAccountHalf(patch) \in {"read global", "build"}
        /\ dirs'[i].row = Updated(row, req[r].stored, patch, AccountKey)
        /\ \A j \in Id \ {i} : dirs'[j] = dirs[j]
    BY <1>2, WriteAccountRowDoes DEF StructureInv
  <1>5. /\ Others(r) /\ req'[r].at = AfterAccountHalf(patch) /\ req'[r].id = i
        /\ req'[r].kind = "save" /\ req'[r].patch = patch
    BY <1>3, <1>4 DEF Continues
  <1>6. Disked(r)  BY <1>2 DEF DataInv, DiskInv
  <1>7. req[r].stored = row  BY <1>1, <1>6 DEF Disked
  <1>8. \A k \in Key : dirs'[i].row[k] = IF k \in AccountKey /\ patch[k] # Absent
                                         THEN patch[k] ELSE row[k]
    <2>1. dirs'[i].row = Updated(row, row, patch, AccountKey)  BY <1>4, <1>7
    <2> HIDE DEF row, patch
    <2> QED  BY <2>1 DEF Updated
  <1>9. req'[r].at = "build" => \A k \in GlobalKey : patch[k] = Absent
    BY <1>5 DEF AfterAccountHalf, GlobalPart
  <1>10. /\ \A s \in Req \ {r} : lock' = s <=> lock = s
         /\ limiter' = limiter /\ services' = services /\ loops' = loops /\ stage' = stage
         /\ registered' = registered /\ control' = control /\ closed' = closed
         /\ torn' = torn
    BY DEF WriteAccountRow, memory
  <1>11. torn => torn'  BY <1>10, StillTorn
  <1>12. \A k \in GlobalKey : ~Written(r, k)' /\ ~Written(r, k)
    BY <1>1, <1>4, <1>5, <1>9 DEF Written, Rebuilding
  <1>13. \A k \in AccountKey : /\ ~Written(r, k)
                               /\ Written(r, k)' <=> patch[k] # Absent
    BY <1>1, <1>4, <1>5, KeysApart DEF Written
  <1>14. \A k \in CredKey : ~Written(r, k) /\ ~Written(r, k)'
    BY <1>3, <1>5 DEF Written
  <1>15. Disked(r)'
    <2>1. ASSUME NEW k \in OwnKeys, Written(r, k)' PROVE dirs'[i].row[k] = patch[k]
      <3>1. k \in AccountKey /\ patch[k] # Absent  BY <1>13, <1>14, <2>1 DEF OwnKeys
      <3> QED  BY <1>8, <3>1 DEF Key
    <2> QED  BY <1>4, <1>5, <1>12, <2>1 DEF Disked
  <1>16. Graphed(r)' /\ Fresh(r)'  BY <1>4, <1>5 DEF Graphed, Fresh
  <1>17. Saving(r)'  BY <1>4, <1>5 DEF Saving, InFlight
  <1>18. \A k \in GlobalKey : dirs'[i].row[k] = row[k]
    BY <1>8, KeysApart DEF Key
  <1>19. ASSUME NEW k \in OwnKeys
         PROVE  OwesOwn(r, i, k)' \/ (dirs'[i].row[k] = row[k] /\ ~OwesOwn(r, i, k))
    <2>1. k \in Key  BY DEF OwnKeys, Key
    <2>2. CASE k \in AccountKey /\ patch[k] # Absent
      <3>1. Written(r, k)' /\ req'[r].at # "replace"  BY <1>4, <1>5, <1>13, <2>2
      <3> QED  BY <1>5, <1>17, <3>1 DEF OwesOwn
    <2>3. CASE ~ (k \in AccountKey /\ patch[k] # Absent)
      BY <1>8, <1>13, <1>14, <2>1, <2>3 DEF OwesOwn, OwnKeys
    <2> QED  BY <2>2, <2>3
  <1>20. \A j : \A k \in GlobalKey : ~OwesGlobal(r, j, k)  BY <1>12 DEF OwesGlobal
  <1>21. req[r].at \notin {"limit", "replace"}  BY <1>1
  <1> QED
    BY <1>2, <1>4, <1>5, <1>10, <1>11, <1>15, <1>16, <1>18, <1>19, <1>20, <1>21,
       DatabaseServes

LEMMA StoreCredentialServes ==
  ASSUME StructureInv, OneSaver, DataInv, NEW r \in Req, StoreCredential(r)
  PROVE  DataInv'
  <1>1. req[r].at = "store" /\ req[r].id \notin closed /\ req[r].at \in SavingSteps
    BY DEF StoreCredential, SavingSteps
  <1>2. Saving(r) /\ Shape(req[r]) /\ dirs[req[r].id] \in Db /\ req[r].id \in Id
    BY <1>1, SavingFacts
  <1> PICK i \in Id : i = req[r].id  BY <1>2
  <1> DEFINE row == dirs[i].row
             patch == req[r].patch
             n == req[r].count
             at == IF n + 1 = Cardinality(CredKey) THEN "build" ELSE "store"
             new == Credentials[n + 1]
  <1>3. /\ req[r].kind = "connect" /\ n < Cardinality(CredKey)
        /\ \A k \in AccountKey \cup GlobalKey : patch[k] = Absent
    BY <1>1, <1>2 DEF Shape
  <1>4. /\ Continues(r, at) /\ req'[r].count = n + 1 /\ new \in CredKey
        /\ dirs'[i].row = [row EXCEPT ![new] = patch[new]]
        /\ \A j \in Id \ {i} : dirs'[j] = dirs[j]
    BY <1>2, <1>3, StoreCredentialDoes DEF StructureInv
  <1>5. /\ Others(r) /\ req'[r].at = at /\ at \in {"store", "build"} /\ req'[r].id = i
        /\ req'[r].kind = "connect" /\ req'[r].patch = patch
    BY <1>3, <1>4 DEF Continues
  <1>6. Disked(r)  BY <1>2 DEF DataInv, DiskInv
  <1>7. row \in Row  BY <1>2 DEF Db
  <1>8. \A k \in Key : dirs'[i].row[k] = IF k = new THEN patch[new] ELSE row[k]
    BY <1>4, <1>7 DEF Row
  <1>9. n \in Nat /\ Cardinality(CredKey) \in Nat
    BY RequestTypes, PlacesAssumption, FS_CardinalityType DEF StructureInv
  <1>10. /\ \A s \in Req \ {r} : lock' = s <=> lock = s
         /\ limiter' = limiter /\ services' = services /\ loops' = loops /\ stage' = stage
         /\ registered' = registered /\ control' = control /\ closed' = closed
         /\ torn' = torn
    BY DEF StoreCredential, memory
  <1>11. torn => torn'  BY <1>10, StillTorn
  <1>12. \A k \in AccountKey \cup GlobalKey : ~Written(r, k)' /\ ~Written(r, k)
    BY <1>3, <1>5 DEF Written
  <1>13. ASSUME NEW k \in CredKey, Written(r, k)' PROVE k = new \/ Written(r, k)
    <2>1. PICK m \in 1 .. n + 1 : Credentials[m] = k
      <3>1. CASE at = "store"  BY <1>4, <1>5, <1>13, <3>1 DEF Written
      <3>2. CASE at # "store"
        <4>1. n + 1 = Cardinality(CredKey)  BY <3>2
        <4> QED  BY <4>1, PlacesAssumption DEF CredKey
      <3> QED  BY <3>1, <3>2
    <2>2. CASE m = n + 1  BY <2>1, <2>2
    <2>3. CASE m # n + 1
      <3>1. m \in 1 .. n  BY <1>9, <2>1, <2>3
      <3>2. patch[k] # Absent  BY <1>5, <1>13 DEF Written
      <3> QED  BY <2>1, <3>1, <3>2, KeysApart DEF Written
    <2> QED  BY <2>2, <2>3
  <1>14. ASSUME NEW k \in OwnKeys, Written(r, k) PROVE Written(r, k)'
    <2>1. k \in CredKey /\ patch[k] # Absent  BY <1>12, <1>14 DEF OwnKeys, Written
    <2>2. PICK m \in 1 .. n : Credentials[m] = k  BY <1>1, <1>14, <2>1 DEF Written
    <2>3. m \in 1 .. req'[r].count  BY <1>4, <1>9, <2>2
    <2> QED  BY <1>5, <2>1, <2>2, <2>3, KeysApart DEF Written
  <1>15. patch[new] # Absent  BY <1>3, <1>4, <1>6 DEF Disked
  <1>16. ASSUME NEW k \in CredKey, k = new PROVE Written(r, k)'
    <2>1. n + 1 \in 1 .. req'[r].count  BY <1>4, <1>9
    <2> QED  BY <1>4, <1>5, <1>15, <1>16, <2>1, KeysApart DEF Written
  <1> HIDE DEF at, new
  <1>17. Disked(r)'
    <2>1. ASSUME NEW k \in OwnKeys, Written(r, k)' PROVE dirs'[i].row[k] = patch[k]
      <3>1. k \in CredKey /\ k \in Key  BY <1>12, <2>1 DEF OwnKeys, Key
      <3>2. CASE k = new  BY <1>8, <3>1, <3>2
      <3>3. CASE k # new
        <4>1. Written(r, k)  BY <1>13, <2>1, <3>1, <3>3
        <4>2. row[k] = patch[k]  BY <1>1, <1>6, <4>1 DEF Disked
        <4> QED  BY <1>8, <3>1, <3>3, <4>2
      <3> QED  BY <3>2, <3>3
    <2>2. \A k \in CredKey : patch[k] # Absent  BY <1>3, <1>6 DEF Disked
    <2>3. req'[r].at \notin {"write", "write global"}  BY <1>5
    <2> QED  BY <1>5, <1>12, <2>1, <2>2, <2>3 DEF Disked
  <1>18. Graphed(r)' /\ Fresh(r)'  BY <1>5 DEF Graphed, Fresh
  <1>19. Saving(r)'  BY <1>5 DEF Saving, InFlight
  <1>20. \A k \in GlobalKey : dirs'[i].row[k] = row[k]
    BY <1>4, <1>8, KeysApart DEF Key
  <1>21. ASSUME NEW k \in OwnKeys
         PROVE  OwesOwn(r, i, k)' \/ (dirs'[i].row[k] = row[k] /\ ~OwesOwn(r, i, k))
    <2>1. k \in Key /\ req'[r].at # "replace"  BY <1>5 DEF OwnKeys, Key
    <2>2. CASE k = new \/ Written(r, k)
      <3>1. Written(r, k)'  BY <1>4, <1>14, <1>16, <2>2
      <3> QED  BY <1>5, <1>19, <2>1, <3>1 DEF OwesOwn
    <2>3. CASE ~ (k = new \/ Written(r, k))
      BY <1>8, <2>1, <2>3 DEF OwesOwn
    <2> QED  BY <2>2, <2>3
  <1>22. \A j : \A k \in GlobalKey : ~OwesGlobal(r, j, k)  BY <1>12 DEF OwesGlobal
  <1>23. req[r].at \notin {"limit", "replace"}  BY <1>1
  <1> QED
    BY <1>2, <1>4, <1>5, <1>10, <1>11, <1>17, <1>18, <1>20, <1>21, <1>22, <1>23,
       DatabaseServes

\* From the write of the shared row on, everyone is owed what it saved.
LEMMA WriteGlobalRowServes ==
  ASSUME StructureInv, OneSaver, DataInv, NEW r \in Req, WriteGlobalRow(r)
  PROVE  DataInv'
  <1>1. req[r].at = "write global" /\ req[r].at \in SavingSteps
    BY DEF WriteGlobalRow, SavingSteps
  <1>2. Saving(r) /\ Shape(req[r]) /\ control \in Control
    BY <1>1, SavingFacts
  <1> DEFINE patch == req[r].patch
  <1>3. req[r].kind = "save" /\ \A k \in CredKey : patch[k] = Absent
    BY <1>1, <1>2 DEF Shape, Saving
  <1>4. /\ Continues(r, "limit")
        /\ control'.row = Updated(control.row, req[r].stored, patch, GlobalKey)
    BY <1>2, WriteGlobalRowDoes DEF StructureInv
  <1>5. /\ Others(r) /\ req'[r].at = "limit" /\ req'[r].id = req[r].id
        /\ req'[r].kind = "save" /\ req'[r].patch = patch
    BY <1>3, <1>4 DEF Continues
  <1>6. Disked(r)  BY <1>2 DEF DataInv, DiskInv
  <1>7. req[r].stored = control.row  BY <1>1, <1>6 DEF Disked
  <1>8. \A k \in Key : control'.row[k] = IF k \in GlobalKey /\ patch[k] # Absent
                                         THEN patch[k] ELSE control.row[k]
    <2>1. control'.row = Updated(control.row, control.row, patch, GlobalKey)  BY <1>4, <1>7
    <2> HIDE DEF patch
    <2> QED  BY <2>1 DEF Updated
  <1>9. /\ \A s \in Req \ {r} : lock' = s <=> lock = s
        /\ limiter' = limiter /\ services' = services /\ loops' = loops /\ stage' = stage
        /\ registered' = registered /\ dirs' = dirs /\ closed' = closed
        /\ torn' = torn
    BY DEF WriteGlobalRow, memory
  <1>10. torn => torn'  BY <1>9, StillTorn
  <1>11. \A k \in OwnKeys : Written(r, k)' <=> Written(r, k)
    BY <1>1, <1>3, <1>5, KeysApart DEF Written, OwnKeys
  <1>12. \A k \in GlobalKey : Written(r, k)' <=> patch[k] # Absent
    BY <1>5, KeysApart DEF Written
  <1>13. Disked(r)'
    <2>1. ASSUME NEW k \in OwnKeys, Written(r, k)', req'[r].id \notin closed'
          PROVE  dirs'[req'[r].id].row[k] = req'[r].patch[k]
      <3>1. Written(r, k)  BY <1>11, <2>1
      <3> QED  BY <1>5, <1>6, <1>9, <2>1, <3>1 DEF Disked
    <2>2. ASSUME NEW k \in GlobalKey, Written(r, k)' PROVE control'.row[k] = req'[r].patch[k]
      <3>1. patch[k] # Absent /\ k \in Key  BY <1>12, <2>2 DEF Key
      <3> QED  BY <1>5, <1>8, <3>1
    <2> QED  BY <1>5, <2>1, <2>2 DEF Disked
  <1>14. DiskInv'  BY <1>2, <1>5, <1>9, <1>13, DiskKept DEF DataInv
  <1>15. Graphed(r)' /\ Fresh(r)'  BY <1>5 DEF Graphed, Fresh
  <1>16. GraphInv'  BY <1>2, <1>5, <1>9, <1>15, GraphKept DEF DataInv
  <1>17. Saving(r)'  BY <1>5 DEF Saving, InFlight
  <1>18. \A k \in GlobalKey : control'.row[k] = control.row[k] \/ Limiting(k)'
    BY <1>5, <1>8 DEF Limiting, Key
  <1>19. ServesInv'
    <2>1. ASSUME ~torn', NEW i \in registered', NEW k \in OwnKeys PROVE OwnServed(i, k)'
      <3>1. OwnServed(i, k)  BY <1>9, <1>10, <2>1 DEF DataInv, ServesInv
      <3>2. OwesOwn(r, i, k) => OwesOwn(r, i, k)'
        BY <1>5, <1>11, <1>17 DEF OwesOwn
      <3>3. /\ services'[i].settings[k] = services[i].settings[k]
            /\ dirs'[i].row[k] = dirs[i].row[k]
        BY <1>9
      <3>4. Others(r) /\ \A s \in Req \ {r} : lock' = s <=> lock = s  BY <1>5, <1>9
      <3> QED  BY <3>1, <3>2, <3>3, <3>4, OwnServedKept
    <2>2. ASSUME ~torn', NEW i \in registered', NEW k \in GlobalKey, ~Leftover(i)'
          PROVE  GlobalServed(i, k)'
      <3>1. ~Leftover(i)  BY <1>9, <2>2 DEF Leftover
      <3>2. GlobalServed(i, k)  BY <1>9, <1>10, <2>2, <3>1 DEF DataInv, ServesInv
      <3>3. OwesGlobal(r, i, k)' \/ (control'.row[k] = control.row[k] /\ ~OwesGlobal(r, i, k))
        <4>1. CASE patch[k] # Absent
          <5>1. Written(r, k)'  BY <1>12, <4>1
          <5> QED  BY <1>5, <1>17, <5>1 DEF OwesGlobal
        <4>2. CASE patch[k] = Absent
          BY <1>8, <4>2 DEF OwesGlobal, Written, Key
        <4> QED  BY <4>1, <4>2
      <3>4. services'[i].settings[k] = services[i].settings[k]  BY <1>9
      <3>5. Others(r) /\ \A s \in Req \ {r} : lock' = s <=> lock = s  BY <1>5, <1>9
      <3> QED  BY <3>2, <3>3, <3>4, <3>5, GlobalServedKept
    <2> QED  BY <2>1, <2>2 DEF ServesInv
  <1>20. Others(r) /\ req[r].at # "limit"  BY <1>1, <1>5
  <1>21. CapsInv'  BY <1>9, <1>18, <1>20, CapsKept DEF DataInv
  <1>22. FreshInv'  BY <1>9, <1>15, <1>18, <1>20, FreshKept DEF DataInv
  <1>23. \A i \in registered' :
            /\ i \in registered
            /\ services'[i].settings = services[i].settings /\ loops'[i] = loops[i]
            /\ ~ (req[r].at = "replace" /\ req[r].of = i)
    BY <1>1, <1>9
  <1>24. SwapsInv'  BY <1>9, <1>20, <1>23, SwapsKept DEF DataInv
  <1> QED  BY <1>14, <1>16, <1>19, <1>21, <1>22, <1>24 DEF DataInv

\* The new limiters have the limits of the shared row, and everyone's rebuild follows.
LEMMA LimitServes ==
  ASSUME StructureInv, OneSaver, DataInv, NEW r \in Req, Limit(r)
  PROVE  DataInv'
  <1>1. req[r].at = "limit" /\ req[r].at \in SavingSteps  BY DEF Limit, SavingSteps
  <1>2. Saving(r) /\ Shape(req[r]) /\ req[r].id \in Id /\ control # NoControl
    BY <1>1, SavingFacts
  <1>3. /\ Continues(r, "fan out")
        /\ req'[r].todo = IF AccountPart(req[r].patch) = {} THEN All ELSE All \ {req[r].id}
        /\ lock = Free /\ lock' = IF AccountPart(req[r].patch) = {} THEN r ELSE Free
        /\ \A k \in GlobalKey : limiter'[k].limit = IF req[r].patch[k] # Absent
                                                    THEN Valid(req[r].patch[k])
                                                    ELSE limiter[k].limit
        /\ \A i \in Id : services'[i].settings = services[i].settings
    BY EveryoneIsKnown, LimitDoes DEF StructureInv
  <1>4. /\ registered' = registered /\ loops' = loops /\ torn' = torn /\ stage' = stage
        /\ dirs' = dirs /\ control' = control /\ closed' = closed
    BY DEF Limit, disk
  <1>5. /\ \A s \in Req \ {r} : lock' = s <=> lock = s
        /\ lock' = r <=> AccountPart(req[r].patch) = {}
    BY <1>3, AccountsAssumption
  <1>6. /\ Others(r) /\ req'[r].at = "fan out" /\ req'[r].id = req[r].id
        /\ req'[r].kind = req[r].kind /\ req'[r].patch = req[r].patch
    BY <1>3 DEF Continues
  <1>7. Own(r)' = IF AccountPart(req[r].patch) = {} THEN {} ELSE {req[r].id}
    BY <1>5, <1>6 DEF Own
  <1>8. \A i \in registered : i \in req'[r].todo \/ i \in Own(r)'
    <2>1. \A i \in registered : i \in All  BY <1>2 DEF StructureInv, AccountInv, All
    <2> QED  BY <1>3, <1>7, <2>1
  <1>9. Saving(r)'  BY <1>2, <1>6 DEF Saving, InFlight
  <1>10. \A k : Written(r, k)' <=> Written(r, k)
    BY <1>1, <1>6 DEF Written, Rebuilding
  <1>11. Disked(r)  BY <1>2 DEF DataInv, DiskInv
  <1>12. Disked(r)'  BY <1>1, <1>4, <1>6, <1>10, <1>11 DEF Disked
  <1>13. DiskInv'  BY <1>2, <1>5, <1>6, <1>12, DiskKept DEF DataInv
  <1>14. Graphed(r)' /\ Fresh(r)'  BY <1>6 DEF Graphed, Fresh
  <1>15. GraphInv'  BY <1>2, <1>5, <1>6, <1>14, GraphKept DEF DataInv
  <1>16. torn => torn'  BY <1>4, StillTorn
  <1>17. registered \subseteq Id  BY DEF StructureInv, TypeOK
  <1>18. ServesInv'
    <2>1. ASSUME ~torn', NEW i \in registered', NEW k \in OwnKeys PROVE OwnServed(i, k)'
      <3>1. OwnServed(i, k)  BY <1>4, <1>16, <2>1 DEF DataInv, ServesInv
      <3>2. OwesOwn(r, i, k) => OwesOwn(r, i, k)'
        BY <1>6, <1>9, <1>10 DEF OwesOwn
      <3>3. /\ services'[i].settings[k] = services[i].settings[k]
            /\ dirs'[i].row[k] = dirs[i].row[k]
        BY <1>3, <1>4, <1>17
      <3>4. Others(r) /\ \A s \in Req \ {r} : lock' = s <=> lock = s  BY <1>5, <1>6
      <3> QED  BY <3>1, <3>2, <3>3, <3>4, OwnServedKept
    <2>2. ASSUME ~torn', NEW i \in registered', NEW k \in GlobalKey, ~Leftover(i)'
          PROVE  GlobalServed(i, k)'
      <3>1. ~Leftover(i)  BY <1>4, <2>2 DEF Leftover
      <3>2. GlobalServed(i, k)  BY <1>4, <1>16, <2>2, <3>1 DEF DataInv, ServesInv
      <3>3. ASSUME OwesGlobal(r, i, k) PROVE OwesGlobal(r, i, k)'
        <4>1. Written(r, k)'  BY <1>10, <3>3 DEF OwesGlobal
        <4>2. i \in req'[r].todo \/ i \in Own(r)'  BY <1>4, <1>8, <2>2
        <4> QED  BY <1>6, <1>9, <4>1, <4>2 DEF OwesGlobal
      <3>4. services'[i].settings[k] = services[i].settings[k] /\ control'.row[k] = control.row[k]
        BY <1>3, <1>4, <1>17
      <3>5. Others(r) /\ \A s \in Req \ {r} : lock' = s <=> lock = s  BY <1>5, <1>6
      <3> QED  BY <3>2, <3>3, <3>4, <3>5, GlobalServedKept
    <2> QED  BY <2>1, <2>2 DEF ServesInv
  <1>19. CapsInv'
    <2>1. ASSUME stage' = "up", NEW k \in GlobalKey PROVE Capped(k)'
      <3>1. Capped(k)  BY <1>4, <2>1 DEF DataInv, CapsInv
      <3>2. CASE req[r].patch[k] # Absent
        <4>1. Written(r, k)  BY <1>1, <3>2, KeysApart DEF Written
        <4>2. control.row[k] = req[r].patch[k]  BY <1>11, <4>1 DEF Disked
        <4> QED  BY <1>3, <1>4, <3>2, <4>2 DEF Capped
      <3>3. CASE req[r].patch[k] = Absent
        <4>1. limiter'[k].limit = limiter[k].limit  BY <1>3, <3>3
        <4>2. Limiting(k) => Limiting(k)'  BY <1>5, <1>6, <3>3, LimitingKept
        <4> QED  BY <1>4, <3>1, <4>1, <4>2 DEF Capped
      <3> QED  BY <3>2, <3>3
    <2> QED  BY <2>1 DEF CapsInv
  <1>20. FreshInv'
    <2>1. ASSUME NEW s \in Req \ {r} PROVE Fresh(s)'
      <3>1. req'[s] = req[s]  BY <1>6 DEF Others
      <3>2. lock # s  BY <1>3, AccountsAssumption
      <3>3. req[s].at # "register"  BY <3>2 DEF StructureInv, LockInv, Locks, Locking
      <3> QED  BY <3>1, <3>3 DEF Fresh
    <2> QED  BY <1>14, <2>1 DEF FreshInv
  <1>21. \A i \in registered' :
            /\ i \in registered
            /\ services'[i].settings = services[i].settings /\ loops'[i] = loops[i]
            /\ ~ (req[r].at = "replace" /\ req[r].of = i)
    BY <1>1, <1>3, <1>4, <1>17
  <1>22. SwapsInv'  BY <1>5, <1>6, <1>21, SwapsKept DEF DataInv
  <1> QED  BY <1>13, <1>15, <1>18, <1>19, <1>20, <1>22 DEF DataInv

\* A rebuilt account is served what the request saved, as far as the request is to
\* bring it up to date.
LEMMA InstallServes ==
  ASSUME StructureInv, OneSaver, DataInv, NEW r \in Req, Install(r)
  PROVE  DataInv'
  <1>1. req[r].at = "install"  BY DEF Install
  <1>2. /\ Saving(r) /\ req[r].of \in Known /\ req[r].of \in Id /\ req[r].graph \in Graph
    BY <1>1, RebuildFacts
  <1> DEFINE patch == req[r].patch
  <1>3. PICK x \in Id : x = req[r].of  BY <1>2
  <1>4. /\ Continues(r, "replace")
        /\ req'[r].todo = req[r].todo /\ req'[r].of = x /\ req'[r].graph = req[r].graph
        /\ services'[x].settings = req[r].graph.settings
        /\ \A i \in Id \ {x} : services'[i] = services[i]
    BY <1>2, <1>3, InstallDoes DEF StructureInv
  <1>5. /\ limiter' = limiter /\ loops' = loops /\ stage' = stage /\ registered' = registered
        /\ control' = control /\ dirs' = dirs /\ closed' = closed /\ lock' = lock /\ torn' = torn
    BY DEF Install, disk
  <1>6. /\ Others(r) /\ req'[r].at = "replace" /\ req'[r].id = req[r].id
        /\ req'[r].kind = req[r].kind /\ req'[r].patch = patch
    BY <1>4 DEF Continues
  <1>7. \A s \in Req \ {r} : lock' = s <=> lock = s  BY <1>5
  <1>8. torn => torn'  BY <1>5, StillTorn
  <1>9. Own(r)' = Own(r) /\ Own(r) \subseteq {req[r].id}  BY <1>5, <1>6 DEF Own
  <1>10. Mine(r)' = Mine(r) /\ GlobalKey \subseteq Mine(r)
    BY <1>3, <1>4, <1>9 DEF Mine, Setting
  <1>11. \A k : Written(r, k)' <=> Written(r, k)
    BY <1>1, <1>6 DEF Written, Rebuilding
  <1>12. \A k \in Setting : patch[k] # Absent => Written(r, k)
    BY <1>1 DEF Written, Rebuilding
  <1>13. Disked(r) /\ Graphed(r)  BY <1>2 DEF DataInv, DiskInv, GraphInv
  <1>14. \A k \in Setting : services'[x].settings[k] = IF k \in Mine(r) /\ patch[k] # Absent
                                                       THEN Valid(patch[k])
                                                       ELSE services[x].settings[k]
    BY <1>1, <1>3, <1>4, <1>13 DEF Graphed
  <1>15. Saving(r)'  BY <1>2, <1>6 DEF Saving, InFlight
  <1>16. Disked(r)'
    BY <1>1, <1>5, <1>6, <1>11, <1>13 DEF Disked
  <1>17. DiskInv'  BY <1>2, <1>6, <1>7, <1>16, DiskKept DEF DataInv
  <1>18. Graphed(r)' /\ Fresh(r)'
    <2>1. \A k \in Mine(r) : k \in Setting  BY DEF Mine, Setting
    <2>2. \A k \in Mine(r)' : req'[r].patch[k] # Absent
                                 => req'[r].graph.settings[k] = Valid(req'[r].patch[k])
      BY <1>4, <1>6, <1>10, <1>14, <2>1
    <2> QED  BY <1>4, <1>6, <2>2 DEF Graphed, Fresh
  <1>19. GraphInv'  BY <1>2, <1>6, <1>7, <1>18, GraphKept DEF DataInv
  <1>20. registered \subseteq Id  BY DEF StructureInv, TypeOK
  <1>21. Others(r) /\ \A s \in Req \ {r} : lock' = s <=> lock = s  BY <1>6, <1>7
  <1>22. ASSUME ~torn', NEW i \in registered', NEW k \in OwnKeys PROVE OwnServed(i, k)'
    <2>1. OwnServed(i, k)  BY <1>5, <1>8, <1>22 DEF DataInv, ServesInv
    <2>2. k \in Setting /\ k \notin GlobalKey /\ i \in Id
      BY <1>5, <1>20, <1>22, KeysApart DEF OwnKeys, Setting
    <2>3. CASE i = x /\ x \in Own(r)
      <3>1. Mine(r) = Setting /\ req[r].id = i  BY <1>3, <1>9, <2>3 DEF Mine
      <3>2. CASE patch[k] # Absent
        <4>1. i \notin closed  BY <1>5, <1>22 DEF StructureInv, AccountInv
        <4>2. dirs[i].row[k] = patch[k]
          BY <1>12, <1>13, <2>2, <3>1, <3>2, <4>1 DEF Disked
        <4>3. services'[i].settings[k] = Valid(dirs'[i].row[k])
          BY <1>5, <1>14, <2>2, <2>3, <3>1, <3>2, <4>2
        <4> QED  BY <1>21, <2>1, <4>3, OwnServedKept
      <3>3. CASE patch[k] = Absent
        <4>1. services'[i].settings[k] = services[i].settings[k]  BY <1>14, <2>2, <2>3, <3>3
        <4>2. dirs'[i].row[k] = dirs[i].row[k]  BY <1>5
        <4>3. ~OwesOwn(r, i, k)  BY <3>3 DEF OwesOwn, Written
        <4> QED  BY <1>21, <2>1, <4>1, <4>2, <4>3, OwnServedKept
      <3> QED  BY <3>2, <3>3
    <2>4. CASE i = x /\ x \notin Own(r)
      <3>1. k \notin Mine(r)  BY <1>3, <2>2, <2>4 DEF Mine
      <3>2. services'[i].settings[k] = services[i].settings[k]  BY <1>14, <2>2, <2>4, <3>1
      <3>3. dirs'[i].row[k] = dirs[i].row[k]  BY <1>5
      <3>4. OwesOwn(r, i, k) => OwesOwn(r, i, k)'
        BY <1>4, <1>6, <1>9, <1>11, <1>15, <2>4 DEF OwesOwn
      <3> QED  BY <1>21, <2>1, <3>2, <3>3, <3>4, OwnServedKept
    <2>5. CASE i # x
      <3>1. services'[i].settings[k] = services[i].settings[k] /\ dirs'[i].row[k] = dirs[i].row[k]
        BY <1>4, <1>5, <2>2, <2>5
      <3>2. OwesOwn(r, i, k) => OwesOwn(r, i, k)'
        BY <1>4, <1>6, <1>9, <1>11, <1>15, <2>5 DEF OwesOwn
      <3> QED  BY <1>21, <2>1, <3>1, <3>2, OwnServedKept
    <2> QED  BY <2>3, <2>4, <2>5
  <1>23. ASSUME ~torn', NEW i \in registered', NEW k \in GlobalKey, ~Leftover(i)'
         PROVE  GlobalServed(i, k)'
    <2>1. ~Leftover(i)  BY <1>5, <1>23 DEF Leftover
    <2>2. GlobalServed(i, k)  BY <1>5, <1>8, <1>23, <2>1 DEF DataInv, ServesInv
    <2>3. k \in Setting /\ i \in Id  BY <1>5, <1>20, <1>23 DEF Setting
    <2>4. CASE i = x /\ patch[k] # Absent
      <3>1. control.row[k] = patch[k]  BY <1>12, <1>13, <2>3, <2>4 DEF Disked
      <3>2. services'[i].settings[k] = Valid(control'.row[k])
        BY <1>5, <1>10, <1>14, <2>3, <2>4, <3>1
      <3> QED  BY <1>21, <2>2, <3>2, GlobalServedKept
    <2>5. CASE i = x /\ patch[k] = Absent
      <3>1. services'[i].settings[k] = services[i].settings[k]  BY <1>14, <2>3, <2>5
      <3>2. control'.row[k] = control.row[k]  BY <1>5
      <3>3. ~OwesGlobal(r, i, k)  BY <2>5 DEF OwesGlobal, Written
      <3> QED  BY <1>21, <2>2, <3>1, <3>2, <3>3, GlobalServedKept
    <2>6. CASE i # x
      <3>1. services'[i].settings[k] = services[i].settings[k]  BY <1>4, <2>3, <2>6
      <3>2. control'.row[k] = control.row[k]  BY <1>5
      <3>3. ASSUME OwesGlobal(r, i, k) PROVE OwesGlobal(r, i, k)'
        <4>1. Written(r, k)'  BY <1>11, <3>3 DEF OwesGlobal
        <4>2. i \in req[r].todo \/ i \in Own(r)  BY <1>1, <1>3, <2>6, <3>3 DEF OwesGlobal
        <4>3. i \in Own(r) => x \notin Own(r)  BY <1>9, <2>6
        <4> QED  BY <1>4, <1>6, <1>9, <1>15, <4>1, <4>2, <4>3 DEF OwesGlobal
      <3> QED  BY <1>21, <2>2, <3>1, <3>2, <3>3, GlobalServedKept
    <2> QED  BY <2>4, <2>5, <2>6
  <1>24. ServesInv'  BY <1>22, <1>23 DEF ServesInv
  <1>25. \A k \in GlobalKey : control'.row[k] = control.row[k] \/ Limiting(k)'  BY <1>5
  <1>26. req[r].at # "limit"  BY <1>1
  <1>27. CapsInv'  BY <1>5, <1>21, <1>25, <1>26, CapsKept DEF DataInv
  <1>28. FreshInv'  BY <1>5, <1>18, <1>21, <1>25, <1>26, FreshKept DEF DataInv
  <1>29. \A i \in registered' :
            \/ req'[r].at = "replace" /\ req'[r].of = i
            \/ /\ i \in registered
               /\ services'[i].settings = services[i].settings /\ loops'[i] = loops[i]
               /\ ~ (req[r].at = "replace" /\ req[r].of = i)
    BY <1>1, <1>4, <1>5, <1>6, <1>20
  <1>30. SwapsInv'  BY <1>21, <1>29, SwapsKept DEF DataInv
  <1> QED  BY <1>17, <1>19, <1>24, <1>27, <1>28, <1>30 DEF DataInv

\* The loop thread comes to run what its services say, and nobody is owed less than they
\* were given.
LEMMA SwapServes ==
  ASSUME StructureInv, OneSaver, DataInv, NEW r \in Req, req[r].at = "replace", SwapIn(r),
         Others(r), \A s \in Req \ {r} : lock' = s <=> lock = s,
         limiter' = limiter, services' = services, stage' = stage, registered' = registered,
         control' = control, dirs' = dirs, closed' = closed, torn => torn',
         Saving(r)' => Disked(r)', req'[r].at \in {"fan out", "done"},
         ~torn' => \A i \in registered :
                      /\ \A k \in OwnKeys : OwesOwn(r, i, k) => OwesOwn(r, i, k)'
                      /\ \A k \in GlobalKey : OwesGlobal(r, i, k) => OwesGlobal(r, i, k)'
  PROVE  DataInv'
  <1>1. /\ Saving(r) /\ req[r].of \in Known /\ req[r].of \in Id /\ req[r].graph \in Graph
    BY RebuildFacts
  <1>2. /\ loops'[req[r].of] = req[r].graph
        /\ \A i \in Id \ {req[r].of} : loops'[i] = loops[i]
    BY <1>1, SwapInDoes DEF StructureInv
  <1>3. services[req[r].of].settings = req[r].graph.settings
    BY DEF DataInv, GraphInv, Graphed
  <1>4. Graphed(r)' /\ Fresh(r)'  BY DEF Graphed, Fresh
  <1>5. DiskInv'  BY <1>1, DiskKept DEF DataInv
  <1>6. GraphInv'  BY <1>1, <1>4, GraphKept DEF DataInv
  <1>7. ASSUME ~torn', NEW i \in registered, NEW k \in OwnKeys PROVE OwnServed(i, k)'
    <2>1. OwnServed(i, k)  BY <1>7 DEF DataInv, ServesInv
    <2>2. OwesOwn(r, i, k) => OwesOwn(r, i, k)'  BY <1>7
    <2>3. /\ services'[i].settings[k] = services[i].settings[k]
          /\ dirs'[i].row[k] = dirs[i].row[k]
      OBVIOUS
    <2> QED  BY <2>1, <2>2, <2>3, OwnServedKept
  <1>8. ASSUME ~torn', NEW i \in registered, NEW k \in GlobalKey, ~Leftover(i)'
        PROVE  GlobalServed(i, k)'
    <2>1. ~Leftover(i)  BY <1>8 DEF Leftover
    <2>2. GlobalServed(i, k)  BY <1>8, <2>1 DEF DataInv, ServesInv
    <2>3. OwesGlobal(r, i, k) => OwesGlobal(r, i, k)'  BY <1>8
    <2>4. /\ services'[i].settings[k] = services[i].settings[k]
          /\ control'.row[k] = control.row[k]
      OBVIOUS
    <2> QED  BY <2>2, <2>3, <2>4, GlobalServedKept
  <1>9. ServesInv'  BY <1>7, <1>8 DEF ServesInv
  <1>10. /\ \A k \in GlobalKey : control'.row[k] = control.row[k] \/ Limiting(k)'
         /\ req[r].at # "limit"
    OBVIOUS
  <1>11. CapsInv'  BY <1>10, CapsKept DEF DataInv
  <1>12. FreshInv'  BY <1>4, <1>10, FreshKept DEF DataInv
  <1>13. ASSUME NEW i \in registered'
         PROVE  \/ services'[i].settings = loops'[i].settings
                \/ req'[r].at = "replace" /\ req'[r].of = i
                \/ /\ i \in registered
                   /\ services'[i].settings = services[i].settings /\ loops'[i] = loops[i]
                   /\ ~ (req[r].at = "replace" /\ req[r].of = i)
    <2>1. i \in registered /\ i \in Id  BY DEF StructureInv, TypeOK
    <2> QED  BY <1>2, <1>3, <2>1
  <1>14. SwapsInv'  BY <1>13, SwapsKept DEF DataInv
  <1> QED  BY <1>5, <1>6, <1>9, <1>11, <1>12, <1>14 DEF DataInv

\* Whoever is still to be rebuilt is still owed to; a request that ends owes nothing.
LEMMA ReplaceServes ==
  ASSUME StructureInv, SaverInv, DataInv, NEW r \in Req, Replace(r)
  PROVE  DataInv'
  <1>1. req[r].at = "replace" /\ SwapIn(r)  BY DEF Replace
  <1>2. Saving(r)  BY <1>1, RebuildFacts
  <1>3. OneSaver /\ Turn(r)  BY <1>2 DEF SaverInv, TurnInv
  <1>4. /\ limiter' = limiter /\ services' = services /\ stage' = stage
        /\ registered' = registered /\ control' = control /\ dirs' = dirs
        /\ closed' = closed /\ torn' = torn
    BY DEF Replace, disk
  <1>5. torn => torn'  BY <1>4, StillTorn
  <1>6. CASE Continues(r, "fan out") /\ lock' = lock /\ req'[r].todo = req[r].todo
                                     /\ req'[r].count = req[r].count
    <2>1. /\ Others(r) /\ req'[r].at = "fan out" /\ req'[r].id = req[r].id
          /\ req'[r].kind = req[r].kind /\ req'[r].patch = req[r].patch
      BY <1>6 DEF Continues
    <2>2. Own(r)' = Own(r)  BY <1>6, <2>1 DEF Own
    <2>3. Saving(r)'  BY <1>2, <2>1 DEF Saving, InFlight
    <2>4. \A k : Written(r, k)' <=> Written(r, k)
      BY <1>1, <1>6, <2>1 DEF Written, Rebuilding
    <2>5. Disked(r)  BY <1>2 DEF DataInv, DiskInv
    <2>6. Disked(r)'  BY <1>1, <1>4, <2>1, <2>4, <2>5 DEF Disked
    <2>7. ASSUME NEW i, NEW k, OwesOwn(r, i, k) PROVE OwesOwn(r, i, k)'
      BY <2>1, <2>3, <2>4, <2>7 DEF OwesOwn
    <2>8. ASSUME NEW i, NEW k, OwesGlobal(r, i, k) PROVE OwesGlobal(r, i, k)'
      <3>1. i \in req[r].todo \/ i \in Own(r)  BY <1>1, <2>8 DEF OwesGlobal
      <3>2. Written(r, k)'  BY <2>4, <2>8 DEF OwesGlobal
      <3> QED  BY <1>6, <2>1, <2>2, <2>3, <3>1, <3>2 DEF OwesGlobal
    <2>9. /\ Others(r) /\ \A s \in Req \ {r} : lock' = s <=> lock = s
          /\ req'[r].at \in {"fan out", "done"}
      BY <1>6, <2>1
    <2> QED  BY <1>1, <1>3, <1>4, <1>5, <2>6, <2>7, <2>8, <2>9, SwapServes
  <1>7. CASE req[r].of = req[r].id /\ lock # r /\ End(r)
    <2>1. /\ Others(r) /\ req'[r] = Done /\ \A s \in Req \ {r} : lock' = s <=> lock = s
      BY <1>7, EndLocks
    <2>2. ~Saving(r)' /\ req'[r].at \in {"fan out", "done"}  BY <2>1, IdleTypes DEF Saving
    <2>3. req[r].of \in Own(r)  BY <1>7 DEF Own
    <2>4. req[r].todo = {}  BY <1>1, <1>3, <2>3 DEF Turn
    <2>5. \A i, k : ~OwesOwn(r, i, k) /\ ~OwesGlobal(r, i, k)
      BY <1>1, <2>3, <2>4 DEF OwesOwn, OwesGlobal
    <2> QED  BY <1>1, <1>3, <1>4, <1>5, <2>1, <2>2, <2>5, SwapServes
  <1> QED  BY <1>6, <1>7, ReplaceDoes DEF StructureInv

LEMMA ReplaceRaisesServes ==
  ASSUME StructureInv, SaverInv, DataInv, NEW r \in Req, ReplaceRaises(r)
  PROVE  DataInv'
  <1>1. req[r].at = "replace" /\ SwapIn(r) /\ Fail(r)  BY DEF ReplaceRaises
  <1>2. Saving(r)  BY <1>1, RebuildFacts
  <1>3. End(r) /\ torn' = (torn \/ Begun(r))  BY <1>1 DEF Fail
  <1>4. Begun(r)  BY <1>1, <1>2 DEF Begun
  <1>5. torn'  BY <1>3, <1>4
  <1>6. /\ Others(r) /\ req'[r] = Done /\ \A s \in Req \ {r} : lock' = s <=> lock = s
    BY <1>3, EndLocks
  <1>7. ~Saving(r)' /\ req'[r].at \in {"fan out", "done"}  BY <1>6, IdleTypes DEF Saving
  <1>8. /\ limiter' = limiter /\ services' = services /\ stage' = stage
        /\ registered' = registered /\ control' = control /\ dirs' = dirs
        /\ closed' = closed
    BY DEF ReplaceRaises, disk
  <1>9. OneSaver  BY DEF SaverInv
  <1>10. torn => torn'  BY <1>5
  <1> QED  BY <1>1, <1>5, <1>6, <1>7, <1>8, <1>9, <1>10, SwapServes

\* A new account is served what is on disk, or is owed what a save is about to hand out.
LEMMA RegisterServes ==
  ASSUME StructureInv, OneSaver, DataInv, NEW r \in Req, Register(r)
  PROVE  DataInv'
  <1>1. req[r].at = "register" /\ req[r].at \in Locking /\ End(r)  BY DEF Register, Locking
  <1>2. req[r].id \in Id /\ req[r].kind = "create" /\ Placed(r)  BY <1>1, HolderFacts
  <1>3. PICK i \in Id : i = req[r].id  BY <1>2
  <1>4. /\ Others(r) /\ req'[r] = Done /\ \A s \in Req \ {r} : lock' = s <=> lock = s
    BY <1>1, EndLocks
  <1>5. ~Saving(r) /\ ~Saving(r)' /\ Graphed(r)' /\ Fresh(r)'
    BY <1>2, <1>4, IdleTypes DEF Saving, Graphed, Fresh
  <1>6. /\ registered' = registered \cup {i} /\ limiter' = limiter /\ torn' = torn
        /\ stage' = stage /\ control' = control /\ dirs' = dirs /\ closed' = closed
        /\ services' = [services EXCEPT ![i] = req[r].graph]
        /\ loops' = [loops EXCEPT ![i] = req[r].graph]
    BY <1>3 DEF Register, disk
  <1>7. /\ services'[i] = req[r].graph /\ loops'[i] = req[r].graph
        /\ \A x \in Id \ {i} : services'[x] = services[x] /\ loops'[x] = loops[x]
    BY <1>6 DEF StructureInv, TypeOK
  <1>8. torn => torn'  BY <1>6, StillTorn
  <1>9. i \notin Known  BY <1>2, <1>3 DEF Placed
  <1>10. \A x \in Known : x \in Id \ {i}  BY <1>9 DEF Known
  <1>11. \A x \in registered : x \in Id \ {i}
    BY <1>9 DEF StructureInv, AccountInv, TypeOK
  <1>12. DiskInv'  BY <1>4, <1>5, <1>6, DiskKept DEF DataInv
  <1>13. GraphInv'
    <2>1. \A x \in Known : services'[x] = services[x]  BY <1>7, <1>10
    <2> QED  BY <1>4, <1>5, <2>1, GraphKept DEF DataInv
  <1>14. Fresh(r)  BY DEF DataInv, FreshInv
  <1>15. ASSUME ~torn', NEW x \in registered', NEW k \in OwnKeys PROVE OwnServed(x, k)'
    <2>1. CASE x = i
      <3>1. services'[x].settings[k] = Valid(dirs'[x].row[k])
        BY <1>1, <1>3, <1>6, <1>7, <1>14, <2>1 DEF Fresh
      <3> QED  BY <3>1 DEF OwnServed
    <2>2. CASE x # i
      <3>1. x \in registered  BY <1>6, <2>2
      <3>2. OwnServed(x, k)  BY <1>8, <1>15, <3>1 DEF DataInv, ServesInv
      <3>3. /\ services'[x].settings[k] = services[x].settings[k]
            /\ dirs'[x].row[k] = dirs[x].row[k]
        BY <1>6, <1>7, <1>11, <3>1
      <3>4. ~OwesOwn(r, x, k)  BY <1>5 DEF OwesOwn
      <3> QED  BY <1>4, <3>2, <3>3, <3>4, OwnServedKept
    <2> QED  BY <2>1, <2>2
  <1>16. ASSUME ~torn', NEW x \in registered', NEW k \in GlobalKey, ~Leftover(x)'
         PROVE  GlobalServed(x, k)'
    <2>1. ~Leftover(x)  BY <1>6, <1>16 DEF Leftover
    <2>2. CASE x = i
      <3>1. req[r].graph.settings[k] = Valid(control.row[k]) \/ Limiting(k)
        BY <1>1, <1>3, <1>14, <2>1, <2>2 DEF Fresh
      <3>2. CASE req[r].graph.settings[k] = Valid(control.row[k])
        <4>1. services'[x].settings[k] = Valid(control'.row[k])  BY <1>6, <1>7, <2>2, <3>2
        <4> QED  BY <4>1 DEF GlobalServed
      <3>3. CASE Limiting(k)
        <4>1. PICK s \in Req : req[s].at = "limit" /\ req[s].patch[k] # Absent
          BY <3>3 DEF Limiting
        <4>2. req'[s] = req[s]  BY <1>1, <1>4, <4>1 DEF Others
        <4>3. req[s].at \in SavingSteps  BY <4>1 DEF SavingSteps
        <4>4. Saving(s)  BY <4>3, SavingFacts
        <4>5. Saving(s)' /\ Written(s, k)'
          BY <4>1, <4>2, <4>4, KeysApart DEF Saving, InFlight, Written
        <4>6. OwesGlobal(s, x, k)'  BY <4>1, <4>2, <4>5 DEF OwesGlobal
        <4> QED  BY <4>6 DEF GlobalServed
      <3> QED  BY <3>1, <3>2, <3>3
    <2>3. CASE x # i
      <3>1. x \in registered  BY <1>6, <2>3
      <3>2. GlobalServed(x, k)  BY <1>8, <1>16, <2>1, <3>1 DEF DataInv, ServesInv
      <3>3. /\ services'[x].settings[k] = services[x].settings[k]
            /\ control'.row[k] = control.row[k]
        BY <1>6, <1>7, <1>11, <3>1
      <3>4. ~OwesGlobal(r, x, k)  BY <1>5 DEF OwesGlobal
      <3> QED  BY <1>4, <3>2, <3>3, <3>4, GlobalServedKept
    <2> QED  BY <2>2, <2>3
  <1>17. ServesInv'  BY <1>15, <1>16 DEF ServesInv
  <1>18. /\ \A k \in GlobalKey : control'.row[k] = control.row[k] \/ Limiting(k)'
         /\ \A s \in Req \ {r} : req[s].at = "register" => dirs'[req[s].id] = dirs[req[s].id]
         /\ req[r].at # "limit"
    BY <1>1, <1>6
  <1>19. CapsInv'  BY <1>4, <1>6, <1>18, CapsKept DEF DataInv
  <1>20. FreshInv'  BY <1>4, <1>5, <1>18, FreshKept DEF DataInv
  <1>21. ASSUME NEW x \in registered'
         PROVE  \/ services'[x].settings = loops'[x].settings
                \/ req'[r].at = "replace" /\ req'[r].of = x
                \/ /\ x \in registered
                   /\ services'[x].settings = services[x].settings /\ loops'[x] = loops[x]
                   /\ ~ (req[r].at = "replace" /\ req[r].of = x)
    BY <1>1, <1>6, <1>7, <1>11
  <1>22. SwapsInv'  BY <1>4, <1>21, SwapsKept DEF DataInv
  <1> QED  BY <1>12, <1>13, <1>17, <1>19, <1>20, <1>22 DEF DataInv

LEMMA LoadServes ==
  ASSUME StructureInv, DataInv, Load
  PROVE  DataInv'
  <1> DEFINE c == IF control = NoControl THEN EmptyControl ELSE control
  <1>1. /\ stage = "load" /\ control' = c /\ registered' = c.accounts /\ loops' = services'
        /\ \A i \in c.accounts : dirs'[i] = Opened(i)
        /\ \A k \in GlobalKey : limiter'[k].limit = Valid(c.row[k])
        /\ \A i \in c.accounts : services'[i].settings = MergedSettings(c.row, Opened(i).row)
    BY LoadDoes
  <1> HIDE DEF c
  <1>2. \A r \in Req : req[r].at \in {"new", "done"}  BY <1>1, DownFacts
  <1>3. \A r \in Req : req'[r].at \in {"new", "done"}  BY <1>2 DEF Load
  <1>4. DiskInv' /\ GraphInv' /\ FreshInv'
    <2>1. ASSUME NEW r \in Req PROVE ~Saving(r)' /\ Graphed(r)' /\ Fresh(r)'
      BY <1>3 DEF Saving, InFlight, Graphed, Fresh
    <2> QED  BY <2>1 DEF DiskInv, GraphInv, FreshInv
  <1>5. ASSUME NEW i \in registered'
        PROVE  /\ \A k \in OwnKeys : OwnServed(i, k)'
               /\ ~Leftover(i)' => \A k \in GlobalKey : GlobalServed(i, k)'
    <2> DEFINE own == dirs'[i].row
    <2>1. services'[i].settings = MergedSettings(c.row, own) /\ control'.row = c.row
      BY <1>1, <1>5
    <2> HIDE DEF own
    <2>2. \A k \in OwnKeys : services'[i].settings[k] = Valid(own[k])
      BY <2>1, MergedServes
    <2>3. (\A k \in GlobalKey : own[k] = Absent)
             => \A k \in GlobalKey : services'[i].settings[k] = Valid(control'.row[k])
      BY <2>1, MergedServes
    <2> QED  BY <2>2, <2>3 DEF own, OwnServed, GlobalServed, Leftover
  <1>6. ServesInv'  BY <1>5 DEF ServesInv
  <1>7. CapsInv'  BY <1>1 DEF CapsInv, Capped
  <1>8. SwapsInv'  BY <1>1 DEF SwapsInv, Swapped
  <1> QED  BY <1>4, <1>6, <1>7, <1>8 DEF DataInv

LEMMA CrashServes ==
  ASSUME Crash
  PROVE  DataInv'
  <1>1. /\ registered' = {} /\ stage' = "off"
        /\ req' = [r \in Req |-> IF InFlight(r) THEN Done ELSE req[r]]
    BY DEF Crash
  <1>2. \A r \in Req : req'[r].at \in {"new", "done"}
    BY <1>1, IdleTypes DEF InFlight
  <1>3. ASSUME NEW r \in Req PROVE ~Saving(r)' /\ Graphed(r)' /\ Fresh(r)'
    BY <1>2 DEF Saving, InFlight, Graphed, Fresh
  <1> QED
    BY <1>1, <1>3 DEF DataInv, DiskInv, GraphInv, FreshInv, ServesInv, CapsInv, SwapsInv

LEMMA MigrationServes ==
  ASSUME StructureInv, MigrationStep, UNCHANGED <<memory, req, torn, erased>>
  PROVE  DataInv'
  <1>1. stage # "up" /\ stage' # "up"
    BY DEF MigrationStep, Boot, MoveLegacy, NothingToMove, CommitControl, TrimAccountRow,
           LoseControl
  <1>2. registered' = {} /\ \A r \in Req : req'[r].at \in {"new", "done"}
    BY <1>1, DownFacts DEF memory
  <1>3. ASSUME NEW r \in Req PROVE ~Saving(r)' /\ Graphed(r)' /\ Fresh(r)'
    BY <1>2 DEF Saving, InFlight, Graphed, Fresh
  <1> QED
    BY <1>1, <1>2, <1>3 DEF DataInv, DiskInv, GraphInv, FreshInv, ServesInv, CapsInv, SwapsInv

LEMMA OtherServes ==
  ASSUME DataInv,
         UNCHANGED <<dirs, control, stage, registered, services, loops, limiter, closed, lock,
                     req, torn>>
  PROVE  DataInv'
  <1>1. ASSUME NEW r \in Req
        PROVE  /\ Saving(r)' <=> Saving(r)
               /\ Own(r)' = Own(r) /\ Mine(r)' = Mine(r)
               /\ \A k : Written(r, k)' <=> Written(r, k)
    <2>1. Own(r)' = Own(r)  BY DEF Own
    <2> QED  BY <2>1 DEF Saving, InFlight, Mine, Written
  <1>2. ASSUME NEW r \in Req, NEW i, NEW k
        PROVE  /\ OwesOwn(r, i, k)' <=> OwesOwn(r, i, k)
               /\ OwesGlobal(r, i, k)' <=> OwesGlobal(r, i, k)
    <2>1. (Saving(r)' <=> Saving(r)) /\ Own(r)' = Own(r) /\ (Written(r, k)' <=> Written(r, k))
      BY <1>1
    <2> QED  BY <2>1 DEF OwesOwn, OwesGlobal
  <1>3. \A k : Limiting(k)' <=> Limiting(k)  BY DEF Limiting
  <1>4. \A i : Leftover(i)' <=> Leftover(i)  BY DEF Leftover
  <1>5. ASSUME NEW r \in Req
        PROVE  /\ Disked(r) => Disked(r)'
               /\ Graphed(r) => Graphed(r)'
               /\ Fresh(r) => Fresh(r)'
    <2>1. \A k : Written(r, k)' <=> Written(r, k)  BY <1>1
    <2>2. Disked(r) => Disked(r)'  BY <2>1 DEF Disked
    <2>3. Mine(r)' = Mine(r)  BY <1>1
    <2>4. Graphed(r) => Graphed(r)'  BY <2>3 DEF Graphed
    <2>5. Fresh(r) => Fresh(r)'  BY <1>3, <1>4 DEF Fresh
    <2> QED  BY <2>2, <2>4, <2>5
  <1>6. DiskInv' /\ GraphInv' /\ FreshInv'
    BY <1>1, <1>5 DEF DataInv, DiskInv, GraphInv, FreshInv
  <1>7. ASSUME NEW i, NEW k
        PROVE  (OwnServed(i, k) => OwnServed(i, k)') /\ (GlobalServed(i, k) => GlobalServed(i, k)')
    BY <1>2 DEF OwnServed, GlobalServed
  <1>8. ServesInv'  BY <1>4, <1>7 DEF DataInv, ServesInv
  <1>9. CapsInv'  BY <1>3 DEF DataInv, CapsInv, Capped
  <1>10. SwapsInv'  BY DEF DataInv, SwapsInv, Swapped
  <1> QED  BY <1>6, <1>8, <1>9, <1>10 DEF DataInv

LEMMA DataSteps ==
  ASSUME StructureInv, StructureInv', SaverInv, DataInv, [Next]_vars
  PROVE  DataInv'
  <1>1. CASE (\E i \in Id : LoopExits(i)) \/ UNCHANGED vars
    <2>1. UNCHANGED <<dirs, control, stage, registered, services, loops, limiter, closed, lock,
                      req, torn>>
      BY <1>1 DEF LoopExits, vars, memory, disk
    <2> QED  BY <2>1, OtherServes
  <1>2. CASE MigrationStep /\ UNCHANGED <<memory, req, torn, erased>>
    BY <1>2, MigrationServes
  <1>3. CASE Load  BY <1>3, LoadServes
  <1>4. CASE Crash  BY <1>4, CrashServes
  <1>5. OneSaver  BY DEF SaverInv
  <1>6. ASSUME NEW r \in Req, RequestStep(r) PROVE DataInv'
    <2>1. CASE \/ BeginSave(r) \/ BeginConnect(r) \/ ReadAccountRow(r) \/ ReadGlobalRow(r)
               \/ WriteAccountRow(r) \/ WriteGlobalRow(r) \/ StoreCredential(r)
               \/ StatementFails(r) \/ EndGlobalSave(r)
      BY <1>5, <2>1, BeginServes, ReadServes, WriteAccountRowServes, WriteGlobalRowServes,
         StoreCredentialServes, FailureServes, EndGlobalServes
    <2>2. CASE \/ Limit(r) \/ BuildAnother(r) \/ BuildOwn(r) \/ Install(r) \/ Replace(r)
               \/ ReplaceRaises(r)
      BY <1>5, <2>2, LimitServes, BuildAnotherServes, BuildOwnServes, InstallServes,
         ReplaceServes, ReplaceRaisesServes
    <2>3. CASE \/ Create(r) \/ OpenAccount(r) \/ OpenFails(r) \/ Register(r)
               \/ Remove(r) \/ StopLoop(r) \/ DropRow(r) \/ DropRowFails(r) \/ Wipe(r)
      BY <1>5, <2>3, HolderServes, OpenAccountServes, OpenFailsServes, RegisterServes, WipeServes
    <2> QED  BY <1>6, <2>1, <2>2, <2>3 DEF RequestStep
  <1> QED  BY <1>1, <1>2, <1>3, <1>4, <1>6 DEF Next

LEMMA DataStarts == Init => DataInv
  <1> SUFFICES ASSUME Init PROVE DataInv
    OBVIOUS
  <1>1. registered = {} /\ stage # "up" /\ req = [r \in Req |-> Idle]
    BY DEF Init, StoreInit
  <1>2. ASSUME NEW r \in Req PROVE ~Saving(r) /\ Graphed(r) /\ Fresh(r)
    BY <1>1, IdleTypes DEF Saving, InFlight, Graphed, Fresh
  <1> QED
    BY <1>1, <1>2 DEF DataInv, DiskInv, GraphInv, FreshInv, ServesInv, CapsInv, SwapsInv

LEMMA DataHolds == ASSUME ~ConcurrentSaves PROVE Spec => []DataInv
  <1>1. StructureInv /\ StructureInv' /\ SaverInv /\ DataInv /\ [Next]_vars => DataInv'
    BY DataSteps
  <1> QED  BY <1>1, StructureHolds, SaverHolds, DataStarts, PTL DEF Spec

\* If settings requests take turns, then once they are done, and none failed half-way, every
\* account's services, its loop thread, the disk and the limiters agree: what the settings
\* page shows is what uploads run with now and what the next boot will run with.  Accounts
\* may be added and removed meanwhile, writes may fail, and the process may die at any step
\* of the boot or of a request.
THEOREM SettingsAreServed ==
  ASSUME ~ConcurrentSaves
  PROVE  Spec => []SavedIsServed
  <1>1. StructureInv /\ DataInv => SavedIsServed
    <2> SUFFICES ASSUME StructureInv, DataInv, Quiet, ~torn, NEW i \in registered
                 PROVE  /\ services[i].settings = loops[i].settings
                        /\ ~Leftover(i) =>
                             /\ services[i].settings = MergedSettings(control.row, dirs[i].row)
                             /\ \A k \in GlobalKey : limiter[k].limit = services[i].settings[k]
      BY DEF SavedIsServed
    <2>1. stage = "up" /\ \A r \in Req : ~Saving(r)  BY DEF Quiet
    <2>2. \A r \in Req : req[r].at # "replace"  BY <2>1, RebuildFacts
    <2>3. services[i].settings = loops[i].settings
      BY <2>2 DEF DataInv, SwapsInv, Swapped
    <2>4. ASSUME NEW k \in OwnKeys PROVE services[i].settings[k] = Valid(dirs[i].row[k])
      <3>1. OwnServed(i, k)  BY DEF DataInv, ServesInv
      <3> QED  BY <2>1, <3>1 DEF OwnServed, OwesOwn
    <2>5. ASSUME ~Leftover(i), NEW k \in GlobalKey
          PROVE  services[i].settings[k] = Valid(control.row[k])
      <3>1. GlobalServed(i, k)  BY <2>5 DEF DataInv, ServesInv
      <3> QED  BY <2>1, <3>1 DEF GlobalServed, OwesGlobal
    <2>6. ASSUME NEW k \in GlobalKey PROVE limiter[k].limit = Valid(control.row[k])
      <3>1. Capped(k)  BY <2>1 DEF DataInv, CapsInv
      <3>2. \A r \in Req : req[r].at # "limit"
        <4>1. ASSUME NEW r \in Req, req[r].at = "limit" PROVE FALSE
          <5>1. req[r].at \in SavingSteps  BY <4>1 DEF SavingSteps
          <5> QED  BY <2>1, <5>1, SavingFacts
        <4> QED  BY <4>1
      <3> QED  BY <3>1, <3>2 DEF Capped, Limiting
    <2>7. ASSUME ~Leftover(i)
          PROVE  services[i].settings = MergedSettings(control.row, dirs[i].row)
      <3> DEFINE own == dirs[i].row
                 merged == MergedSettings(control.row, own)
      <3>1. \A k \in GlobalKey : own[k] = Absent  BY <2>7 DEF Leftover
      <3>2. \A k \in OwnKeys : services[i].settings[k] = Valid(own[k])  BY <2>4
      <3>3. \A k \in GlobalKey : services[i].settings[k] = Valid(control.row[k])  BY <2>5, <2>7
      <3> HIDE DEF own
      <3>4. /\ \A k \in OwnKeys : merged[k] = Valid(own[k])
            /\ \A k \in GlobalKey : merged[k] = Valid(control.row[k])
        BY <3>1, MergedServes
      <3>5. DOMAIN merged = Setting /\ merged = [k \in Setting |-> merged[k]]
        BY DEF MergedSettings
      <3>6. services[i].settings \in [Setting -> Value \cup {Unset}]
        <4>1. i \in Known  BY DEF StructureInv, AccountInv
        <4>2. services[i] \in Graph  BY <4>1, KnownHasGraph DEF StructureInv
        <4> QED  BY <4>2 DEF Graph
      <3> HIDE DEF merged
      <3>7. \A k \in Setting : services[i].settings[k] = merged[k]
        BY <3>2, <3>3, <3>4 DEF Setting, OwnKeys
      <3>8. services[i].settings = merged  BY <3>5, <3>6, <3>7
      <3> QED  BY <3>8 DEF merged, own
    <2>8. ASSUME ~Leftover(i), NEW k \in GlobalKey
          PROVE  limiter[k].limit = services[i].settings[k]
      BY <2>5, <2>6, <2>8
    <2> QED  BY <2>3, <2>7, <2>8
  <1> QED  BY <1>1, StructureHolds, DataHolds, PTL

\* Then, with no rebuild of an account under way, the settings that are reported are those
\* its loop thread runs with: what the accounts_concurrent run shows takes two settings
\* requests at once.
COROLLARY ReportedStaysLive ==
  ASSUME ~ConcurrentSaves
  PROVE  Spec => []ReportedIsLive
  <1>1. DataInv => ReportedIsLive
    BY DEF DataInv, SwapsInv, Swapped, ReportedIsLive
  <1> QED  BY <1>1, DataHolds, PTL

-----------------------------------------------------------------------------
(* The book of SettingsBook as the data directory holds it. *)

\* The values KeepsBook gives the book's variables.
Pages == [i \in Id \cup {NoId} |-> IF i = NoId THEN Page(legacy) ELSE Page(dirs[i])]
SharedPage == [k \in GlobalKey \cup CarriedKey |-> Valid(SharedRow[k])]
AskOf(r) == IF InFlight(r) THEN [id |-> req[r].id, patch |-> req[r].patch, erase |-> req[r].erase]
            ELSE Idle
Asks == [r \in Req |-> AskOf(r)]

EmptyPage == [k \in AccountKey \cup CredKey |-> Unset]

\* Requests may end, and nothing new is asked for.
Going == /\ left' \in {left, left - 1}
         /\ \A r \in Req : Asks'[r] \in {Asks[r], Idle}

LEMMA BookOpens ==
  ASSUME Going, UNCHANGED SharedPage,
         \A i \in Id \cup {NoId} : \/ Pages'[i] = Pages[i]
                                   \/ i # NoId /\ Pages[i] = NoDb /\ Pages'[i] = EmptyPage
  PROVE  Book!Next
  <1>1. Book!Open
    BY DEF Book!Open, Book!EmptyPage, Pages, SharedPage, EmptyPage
  <1>2. /\ left' \in {left, left - 1}
        /\ \A r \in Req : Asks'[r] \in {Asks[r], Idle}
    BY DEF Going
  <1> QED  BY <1>1, <1>2 DEF Book!Next, Asks, AskOf

LEMMA BookAsks ==
  ASSUME left' = left, UNCHANGED <<SharedPage, Pages>>, NEW r \in Req,
         Asks[r] = Idle, \A s \in Req \ {r} : Asks'[s] = Asks[s]
  PROVE  Book!Next
  <1>1. Asks' = [Asks EXCEPT ![r] = Asks'[r]]
    <2>1. \A s \in Req : Asks'[s] = [Asks EXCEPT ![r] = Asks'[r]][s]
      BY DEF Asks
    <2> QED  BY <2>1 DEF Asks
  <1>2. Book!Ask(r)
    BY <1>1 DEF Book!Ask, Pages, SharedPage, Asks, AskOf
  <1> QED  BY <1>2 DEF Book!Next

LEMMA BookWritesOwn ==
  ASSUME Going, UNCHANGED SharedPage, NEW r \in Req, Asks[r] # Idle, NEW i, i = Asks[r].id,
         i \in Id, Pages[i] # NoDb, Pages'[i] # NoDb,
         \A j \in Id \cup {NoId} : j # i => Pages'[j] = Pages[j],
         \A k \in AccountKey \cup CredKey :
            \/ Pages'[i][k] = Pages[i][k]
            \/ k \in DOMAIN Asks[r].patch /\ Pages'[i][k] = Asks[r].patch[k]
  PROVE  Book!Next
  <1>1. Pages' = [Pages EXCEPT ![i] = Pages'[i]]
    <2>1. \A j \in Id \cup {NoId} : Pages'[j] = [Pages EXCEPT ![i] = Pages'[i]][j]
      BY DEF Pages
    <2> QED  BY <2>1 DEF Pages
  <1>2. DOMAIN Pages[i] = AccountKey \cup CredKey
    BY StoreAssumption DEF Pages, Page
  <1>3. Book!Wrote(Pages[i], Pages'[i], Asks[r].patch)
    BY <1>2 DEF Book!Wrote
  <1>4. Book!WriteOwn(r)
    BY <1>1, <1>3 DEF Book!WriteOwn, Pages, SharedPage, Asks, AskOf
  <1>5. /\ left' \in {left, left - 1}
        /\ \A s \in Req : Asks'[s] \in {Asks[s], Idle}
    BY DEF Going
  <1> QED  BY <1>4, <1>5 DEF Book!Next, Asks, AskOf

LEMMA BookWritesShared ==
  ASSUME Going, UNCHANGED Pages, NEW r \in Req, Asks[r] # Idle,
         \A k \in GlobalKey \cup CarriedKey :
            \/ SharedPage'[k] = SharedPage[k]
            \/ k \in DOMAIN Asks[r].patch /\ SharedPage'[k] = Asks[r].patch[k]
  PROVE  Book!Next
  <1>2. DOMAIN SharedPage = GlobalKey \cup CarriedKey
    BY DEF SharedPage
  <1>3. Book!Wrote(SharedPage, SharedPage', Asks[r].patch)
    BY <1>2 DEF Book!Wrote
  <1>4. Book!WriteShared(r)
    BY <1>3 DEF Book!WriteShared, Pages, SharedPage, Asks, AskOf
  <1>5. /\ left' \in {left, left - 1}
        /\ \A s \in Req : Asks'[s] \in {Asks[s], Idle}
    BY DEF Going
  <1> QED  BY <1>4, <1>5 DEF Book!Next, Asks, AskOf

LEMMA BookErases ==
  ASSUME Going, UNCHANGED SharedPage, NEW r \in Req, Asks[r] # Idle, Asks[r].erase,
         NEW i, i = Asks[r].id, i \in Id, Pages'[i] = NoDb,
         \A j \in Id \cup {NoId} : j # i => Pages'[j] = Pages[j]
  PROVE  Book!Next
  <1>1. Pages' = [Pages EXCEPT ![i] = NoDb]
    <2>1. \A j \in Id \cup {NoId} : Pages'[j] = [Pages EXCEPT ![i] = NoDb][j]
      BY DEF Pages
    <2> QED  BY <2>1 DEF Pages
  <1>4. Book!Erase(r)
    BY <1>1 DEF Book!Erase, Pages, SharedPage, Asks, AskOf
  <1>5. /\ left' \in {left, left - 1}
        /\ \A s \in Req : Asks'[s] \in {Asks[s], Idle}
    BY DEF Going
  <1> QED  BY <1>4, <1>5 DEF Book!Next, Asks, AskOf

LEMMA BookAdopts ==
  ASSUME Going, UNCHANGED SharedPage, NEW i \in Id, Pages[NoId] # NoDb, Pages[i] = NoDb,
         Pages'[i] = Pages[NoId], Pages'[NoId] = NoDb,
         \A j \in Id : j # i => Pages'[j] = Pages[j]
  PROVE  Book!Next
  <1>1. Pages' = [Pages EXCEPT ![i] = Pages[NoId], ![NoId] = NoDb]
    <2>1. \A j \in Id \cup {NoId} : Pages'[j] = [Pages EXCEPT ![i] = Pages[NoId], ![NoId] = NoDb][j]
      BY StoreAssumption DEF Pages
    <2> QED  BY <2>1 DEF Pages
  <1>4. Book!Adopt(i)
    BY <1>1 DEF Book!Adopt, Pages, SharedPage
  <1>5. /\ left' \in {left, left - 1}
        /\ \A s \in Req : Asks'[s] \in {Asks[s], Idle}
    BY DEF Going
  <1> QED  BY <1>4, <1>5 DEF Book!Next, Asks, AskOf

LEMMA BookLoses ==
  ASSUME left' < left, UNCHANGED <<Pages, Asks>>
  PROVE  Book!Next
  BY DEF Book!Next, Book!LoseShared, Pages, Asks, AskOf

-----------------------------------------------------------------------------
\* What the boot knows of the places it finds: an old install has nothing in the new
\* places, and what it adopts is all there is.
MoveInv ==
    /\ stage \in {"off", "move"} => adopted = NoId
    /\ legacy # NoDb => Existing = {} /\ control = NoControl
    /\ stage = "commit" => legacy = NoDb /\ (adopted # NoId => Existing = {adopted})
    /\ stage = "load" /\ control = NoControl => legacy = NoDb /\ Existing = {}

\* A request is made of a process that is up, and moves nothing.
LEMMA RequestsUp ==
  ASSUME StructureInv, NEW r \in Req, RequestStep(r)
  PROVE  stage = "up" /\ control # NoControl /\ UNCHANGED <<legacy, stage, adopted>>
  <1>1. stage = "up" \/ InFlight(r)
    BY DEF RequestStep, BeginSave, BeginConnect, ReadAccountRow, WriteAccountRow, ReadGlobalRow,
       WriteGlobalRow, StoreCredential, StatementFails, Limit, BuildAnother, BuildOwn,
       EndGlobalSave, Install, Replace, ReplaceRaises, Create, OpenAccount, OpenFails, Register,
       Remove, StopLoop, DropRow, DropRowFails, Wipe, InFlight
  <1>2. stage = "up"  BY <1>1, UpAndControlled
  <1>3. control # NoControl  BY <1>2 DEF StructureInv, BootInv
  <1>4. UNCHANGED <<legacy, stage, adopted>>
    BY DEF RequestStep, BeginSave, BeginConnect, ReadAccountRow, WriteAccountRow, ReadGlobalRow,
       WriteGlobalRow, StoreCredential, StatementFails, Limit, BuildAnother, BuildOwn,
       EndGlobalSave, Install, Replace, ReplaceRaises, Create, OpenAccount, OpenFails, Register,
       Remove, StopLoop, DropRow, DropRowFails, Wipe, disk
  <1> QED  BY <1>2, <1>3, <1>4

LEMMA MoveSteps ==
  ASSUME StructureInv, MoveInv, [Next]_vars
  PROVE  MoveInv'
  <1>1. CASE Boot \/ NothingToMove \/ CommitControl \/ LoseControl
    <2>1. CASE Boot
      <3>1. UNCHANGED disk /\ adopted' = NoId /\ stage' = IF control = NoControl THEN "move" ELSE "load"
        BY <2>1 DEF Boot
      <3>2. UNCHANGED <<legacy, control, Existing>>  BY <3>1 DEF disk, Existing
      <3> QED  BY <3>1, <3>2 DEF MoveInv
    <2>2. CASE NothingToMove
      <3>1. /\ UNCHANGED <<disk, adopted>> /\ stage = "move" /\ legacy = NoDb
            /\ stage' = IF Existing = {} THEN "load" ELSE "commit"
        BY <2>2 DEF NothingToMove
      <3>2. UNCHANGED <<legacy, control, Existing>>  BY <3>1 DEF disk, Existing
      <3> QED  BY <3>1, <3>2 DEF MoveInv
    <2>3. CASE CommitControl
      <3>1. UNCHANGED <<legacy, dirs, adopted>> /\ stage = "commit" /\ stage' = "trim"
        BY <2>3 DEF CommitControl
      <3> QED  BY <3>1 DEF MoveInv
    <2>4. CASE LoseControl
      <3>1. UNCHANGED <<legacy, dirs, adopted, stage>> /\ stage = "off" /\ control # NoControl
        BY <2>4 DEF LoseControl
      <3> QED  BY <3>1 DEF MoveInv
    <2> QED  BY <1>1, <2>1, <2>2, <2>3, <2>4
  <1>2. CASE MoveLegacy
    <2>1. /\ stage = "move" /\ legacy # NoDb /\ legacy' = NoDb /\ stage' = "commit"
      BY <1>2 DEF MoveLegacy
    <2>2. PICK i \in Id \ minted : dirs' = [dirs EXCEPT ![i] = legacy] /\ adopted' = i
      BY <1>2 DEF MoveLegacy
    <2>3. Existing = {}  BY <2>1 DEF MoveInv
    <2>4. dirs \in [Id -> Db \cup {NoDb}]  BY DEF StructureInv, TypeOK, StoreTypes
    <2>5. Existing' = {i}
      <3>1. dirs'[i] # NoDb /\ \A x \in Id \ {i} : dirs'[x] = dirs[x]  BY <2>1, <2>2, <2>4
      <3> QED  BY <2>3, <3>1 DEF Existing
    <2> QED  BY <2>1, <2>2, <2>5 DEF MoveInv
  <1>3. CASE TrimAccountRow
    <2>1. UNCHANGED <<legacy, control>> /\ stage = "trim" /\ stage' = "load"
      BY <1>3 DEF TrimAccountRow
    <2>2. control # NoControl  BY <2>1 DEF StructureInv, BootInv
    <2> QED  BY <2>1, <2>2 DEF MoveInv
  <1>4. CASE Load
    <2>1. legacy' = legacy /\ stage = "load" /\ stage' = "up"  BY <1>4 DEF Load
    <2> QED  BY <2>1 DEF MoveInv
  <1>5. CASE Crash
    <2>1. UNCHANGED disk /\ adopted' = NoId /\ stage' = "off"  BY <1>5 DEF Crash
    <2>2. UNCHANGED <<legacy, control, Existing>>  BY <2>1 DEF disk, Existing
    <2> QED  BY <2>1, <2>2 DEF MoveInv
  <1>6. ASSUME NEW r \in Req, RequestStep(r) PROVE MoveInv'
    BY <1>6, RequestsUp DEF MoveInv
  <1>7. CASE (\E i \in Id : LoopExits(i)) \/ UNCHANGED vars
    <2>1. UNCHANGED disk /\ UNCHANGED <<adopted, stage>>  BY <1>7 DEF LoopExits, vars
    <2>2. UNCHANGED <<legacy, control, Existing>>  BY <2>1 DEF disk, Existing
    <2> QED  BY <2>1, <2>2 DEF MoveInv
  <1> QED  BY <1>1, <1>2, <1>3, <1>4, <1>5, <1>6, <1>7 DEF Next, MigrationStep

LEMMA MoveStarts == Init => MoveInv
  <1> SUFFICES ASSUME Init PROVE MoveInv
    OBVIOUS
  <1>1. stage = "off" /\ adopted = NoId /\ (FreshInstall \/ OldInstall \/ NewInstall)
    BY DEF Init, StoreInit
  <1>2. legacy # NoDb => Existing = {} /\ control = NoControl
    BY <1>1 DEF FreshInstall, OldInstall, NewInstall, Existing
  <1> QED  BY <1>1, <1>2 DEF MoveInv

LEMMA MoveHolds == Spec => []MoveInv
  <1>1. StructureInv /\ MoveInv /\ [Next]_vars => MoveInv'  BY MoveSteps
  <1> QED  BY <1>1, StructureHolds, MoveStarts, PTL DEF Spec

-----------------------------------------------------------------------------
(* Pages and asks under the steps of the model. *)

LEMMA ValidPage == ASSUME NEW db \in Db
  PROVE  /\ Page(db) # NoDb /\ Page(db) = [k \in AccountKey \cup CredKey |-> Valid(db.row[k])]
         /\ Page(db) \in [AccountKey \cup CredKey -> Value \cup {Unset}]
  <1>1. db # NoDb  BY PlacesAssumption
  <1>2. Page(db) = [k \in AccountKey \cup CredKey |-> Valid(db.row[k])]  BY <1>1 DEF Page
  <1>3. Page(db) \in [AccountKey \cup CredKey -> Value \cup {Unset}]
    BY <1>2, ValidTypes
  <1> QED  BY <1>2, <1>3, NoPageAssumption

LEMMA PagesAt ==
  /\ \A i \in Id : Pages[i] = Page(dirs[i]) /\ Pages'[i] = Page(dirs'[i])
  /\ Pages[NoId] = Page(legacy) /\ Pages'[NoId] = Page(legacy')
  BY StoreAssumption DEF Pages, Page

LEMMA SharedSame ==
  ASSUME \A k \in GlobalKey \cup CarriedKey : Valid(SharedRow'[k]) = Valid(SharedRow[k])
  PROVE  UNCHANGED SharedPage
  BY DEF SharedPage, Valid

LEMMA SharedStays ==
  ASSUME control # NoControl, control' # NoControl, control'.row = control.row
  PROVE  UNCHANGED SharedPage
  BY SharedSame DEF SharedRow

LEMMA AsksAt ==
  ASSUME NEW r \in Req
  PROVE  /\ Asks[r] = AskOf(r) /\ Asks'[r] = AskOf(r)'
         /\ InFlight(r) => /\ Asks[r] # Idle /\ Asks[r].id = req[r].id
                           /\ Asks[r].patch = req[r].patch /\ Asks[r].erase = req[r].erase
         /\ ~InFlight(r) => Asks[r] = Idle
  <1>1. Asks[r] = AskOf(r) /\ Asks'[r] = AskOf(r)'  BY DEF Asks
  <1>2. [id |-> req[r].id, patch |-> req[r].patch, erase |-> req[r].erase] # Idle
    <2>1. "at" \notin DOMAIN [id |-> req[r].id, patch |-> req[r].patch, erase |-> req[r].erase]
      OBVIOUS
    <2>2. "at" \in DOMAIN Idle  BY DEF Idle
    <2> QED  BY <2>1, <2>2
  <1> QED  BY <1>1, <1>2 DEF AskOf

\* The other requests ask for what they did.
LEMMA OthersAsk ==
  ASSUME NEW r \in Req, Others(r), NEW s \in Req \ {r}
  PROVE  Asks'[s] = Asks[s]
  <1>1. req'[s] = req[s]  BY DEF Others
  <1>2. AskOf(s)' = AskOf(s)  BY <1>1 DEF AskOf, InFlight
  <1>3. s \in Req  OBVIOUS
  <1> QED  BY <1>2, <1>3, AsksAt

LEMMA AskGoesOn ==
  ASSUME NEW r \in Req, NEW at \in Steps \ {"new", "done"}, Continues(r, at), InFlight(r),
         left' \in {left, left - 1}
  PROVE  Going
  <1>1. /\ req'[r].at = at /\ req'[r].id = req[r].id /\ Others(r)
        /\ req'[r].patch = req[r].patch /\ req'[r].erase = req[r].erase
    BY DEF Continues
  <1>2. Asks'[r] = Asks[r]  BY <1>1, AsksAt DEF AskOf, InFlight
  <1> QED  BY <1>1, <1>2, OthersAsk DEF Going

LEMMA AskEnds ==
  ASSUME TypeOK, NEW r \in Req, End(r), left' \in {left, left - 1}
  PROVE  Going
  <1>1. Others(r) /\ req'[r] = Done  BY EndDoes
  <1>2. Asks'[r] = Idle  BY <1>1, AsksAt, IdleTypes DEF AskOf, InFlight
  <1> QED  BY <1>1, <1>2, OthersAsk DEF Going

\* Steps that write to no page.
LEMMA BookRests ==
  ASSUME Going, UNCHANGED <<legacy, dirs, SharedPage>>
  PROVE  Book!Next
  <1>1. \A i \in Id \cup {NoId} : Pages'[i] = Pages[i]  BY PagesAt
  <1> QED  BY <1>1, BookOpens

LEMMA AsksRest ==
  ASSUME UNCHANGED <<req, left>>
  PROVE  Going
  <1>1. ASSUME NEW r \in Req PROVE Asks'[r] = Asks[r]
    BY AsksAt DEF AskOf, InFlight
  <1> QED  BY <1>1 DEF Going

-----------------------------------------------------------------------------
(* The boot, the loss of control.db and a crash, as steps of the book. *)

\* The shared page is where it was: in the old database, until control.db holds it.
LEMMA BootBooks ==
  ASSUME StructureInv, MoveInv, Boot \/ NothingToMove, UNCHANGED req
  PROVE  Book!Next
  <1>1. UNCHANGED <<legacy, dirs, control, left>>  BY DEF Boot, NothingToMove, disk
  <1>2. adopted' = adopted  BY DEF Boot, NothingToMove, MoveInv
  <1>3. UNCHANGED SharedPage
    BY <1>1, <1>2, SharedSame DEF SharedRow, Existing, Primary
  <1> QED  BY <1>1, <1>3, AsksRest, BookRests

LEMMA CommitBooks ==
  ASSUME StructureInv, StructureInv', MoveInv, CommitControl, UNCHANGED req
  PROVE  Book!Next
  <1>1. /\ UNCHANGED <<legacy, dirs, left>> /\ stage = "commit" /\ stage' = "trim"
        /\ control'.row = Only(GlobalKey \cup CarriedKey, dirs[Primary].row)
    BY DEF CommitControl
  <1>2. legacy = NoDb /\ control = NoControl /\ Existing # {} /\ control' # NoControl
    BY <1>1 DEF MoveInv, StructureInv, BootInv
  <1>3. SharedRow = dirs[Primary].row /\ SharedRow' = control'.row
    BY <1>2 DEF SharedRow
  <1>4. \A k \in GlobalKey \cup CarriedKey : Valid(SharedRow'[k]) = Valid(SharedRow[k])
    BY <1>1, <1>3 DEF Only, Key
  <1>5. UNCHANGED SharedPage  BY <1>4, SharedSame
  <1> QED  BY <1>1, <1>5, AsksRest, BookRests

LEMMA TrimBooks ==
  ASSUME StructureInv, TrimAccountRow, UNCHANGED req
  PROVE  Book!Next
  <1>1. /\ UNCHANGED <<legacy, control, left>> /\ stage = "trim" /\ dirs[Primary] \in Db
        /\ Primary \in Existing /\ dirs'[Primary] \in Db
        /\ dirs'[Primary].row = Except(GlobalKey, dirs[Primary].row)
        /\ \A i \in Id \ {Primary} : dirs'[i] = dirs[i]
    BY TrimDoes
  <1>2. control # NoControl  BY <1>1 DEF StructureInv, BootInv
  <1>3. UNCHANGED SharedPage  BY <1>1, <1>2, SharedStays
  <1> PICK p \in Id : p = Primary  BY <1>1 DEF Existing
  <1>4. /\ dirs[p] \in Db /\ dirs'[p] \in Db
        /\ \A i \in Id \ {p} : dirs'[i] = dirs[i]
        /\ \A k \in AccountKey \cup CredKey : dirs'[p].row[k] = dirs[p].row[k]
    BY <1>1, KeysApart DEF Except, Only, Key
  <1>5. Page(dirs'[p]) = Page(dirs[p])  BY <1>4, ValidPage
  <1>6. \A i \in Id \cup {NoId} : Pages'[i] = Pages[i]
    BY <1>1, <1>4, <1>5, PagesAt
  <1> QED  BY <1>1, <1>3, <1>6, AsksRest, BookOpens

LEMMA MoveBooks ==
  ASSUME StructureInv, MoveInv, MoveLegacy, UNCHANGED req
  PROVE  Book!Next
  <1>1. /\ stage = "move" /\ legacy # NoDb /\ legacy' = NoDb /\ UNCHANGED <<control, left>>
    BY DEF MoveLegacy
  <1>2. PICK i \in Id \ minted : dirs' = [dirs EXCEPT ![i] = legacy] /\ adopted' = i
    BY DEF MoveLegacy
  <1>3. /\ control = NoControl /\ dirs[i] = NoDb /\ legacy \in Db
        /\ dirs \in [Id -> Db \cup {NoDb}]
    BY <1>1 DEF MoveInv, StructureInv, BootInv, Existing, TypeOK, StoreTypes
  <1>4. dirs'[i] = legacy /\ \A j \in Id : j # i => dirs'[j] = dirs[j]
    BY <1>2, <1>3
  <1>5. i # NoId  BY StoreAssumption
  <1>6. SharedRow = legacy.row  BY <1>1, <1>3 DEF SharedRow
  <1>7. SharedRow' = legacy.row
    <2>1. Primary' = i  BY <1>2, <1>5 DEF Primary
    <2>2. i \in Existing'  BY <1>1, <1>4 DEF Existing
    <2> QED  BY <1>1, <1>3, <1>4, <2>1, <2>2 DEF SharedRow
  <1>8. UNCHANGED SharedPage  BY <1>6, <1>7, SharedSame
  <1>9. /\ Pages[NoId] # NoDb /\ Pages[i] = NoDb /\ Pages'[i] = Pages[NoId]
        /\ Pages'[NoId] = NoDb
    <2>1. Page(NoDb) = NoDb  BY DEF Page
    <2> QED  BY <1>1, <1>3, <1>4, <2>1, PagesAt, ValidPage
  <1>10. \A j \in Id : j # i => Pages'[j] = Pages[j]  BY <1>4, PagesAt
  <1>11. Going  BY <1>1, AsksRest
  <1> QED  BY <1>8, <1>9, <1>10, <1>11, BookAdopts

LEMMA LoseBooks ==
  ASSUME StructureInv, LoseControl, UNCHANGED req
  PROVE  Book!Next
  <1>1. UNCHANGED <<legacy, dirs>> /\ left' < left
    BY DEF LoseControl, Strike, StructureInv, TypeOK, StoreTypes
  <1>2. UNCHANGED Pages
    BY <1>1 DEF Pages, Page
  <1>3. UNCHANGED Asks
    BY DEF Asks, AskOf, InFlight
  <1> QED  BY <1>1, <1>2, <1>3, BookLoses

LEMMA OpenedPage ==
  ASSUME NEW i \in Id, dirs'[i] = dirs[i] \/ dirs'[i] = Opened(i)
  PROVE  \/ Pages'[i] = Pages[i]
         \/ i # NoId /\ Pages[i] = NoDb /\ Pages'[i] = EmptyPage
  <1>1. Page(NoDb) = NoDb /\ Page(EmptyDb) = EmptyPage
    <2>1. EmptyDb \in Db  BY BlankIsRow DEF EmptyDb, Db
    <2>2. \A k \in AccountKey \cup CredKey : Valid(EmptyDb.row[k]) = Unset
      BY StoreAssumption DEF EmptyDb, Blank, Key, Valid
    <2>3. Page(EmptyDb) = [k \in AccountKey \cup CredKey |-> Valid(EmptyDb.row[k])]
      BY <2>1, ValidPage
    <2> QED  BY <2>2, <2>3 DEF Page, EmptyPage
  <1>2. CASE dirs'[i] = dirs[i]  BY <1>2, PagesAt
  <1>3. CASE dirs'[i] # dirs[i]
    <2>1. dirs[i] = NoDb /\ dirs'[i] = EmptyDb  BY <1>3 DEF Opened
    <2> QED  BY <1>1, <2>1, PagesAt, StoreAssumption
  <1> QED  BY <1>2, <1>3

LEMMA LoadBooks ==
  ASSUME StructureInv, StructureInv', MoveInv, Load
  PROVE  Book!Next
  <1> DEFINE c == IF control = NoControl THEN EmptyControl ELSE control
  <1>1. /\ stage = "load" /\ stage' = "up" /\ control' = c
        /\ \A i \in c.accounts : dirs'[i] = Opened(i)
        /\ \A i \in Id \ c.accounts : dirs'[i] = dirs[i]
    BY LoadDoes
  <1>2. UNCHANGED <<legacy, left, req>>  BY DEF Load
  <1>3. UNCHANGED SharedPage
    <2>1. control' # NoControl  BY <1>1 DEF StructureInv, BootInv
    <2>2. CASE control # NoControl  BY <1>1, <2>1, <2>2, SharedStays
    <2>3. CASE control = NoControl
      <3>1. SharedRow = Blank  BY <1>1, <2>3 DEF SharedRow, MoveInv
      <3>2. SharedRow' = Blank  BY <1>1, <2>1, <2>3 DEF SharedRow, EmptyControl
      <3> QED  BY <3>1, <3>2, SharedSame
    <2> QED  BY <2>2, <2>3
  <1> HIDE DEF c
  <1>5. ASSUME NEW i \in Id
        PROVE  \/ Pages'[i] = Pages[i]
               \/ i # NoId /\ Pages[i] = NoDb /\ Pages'[i] = EmptyPage
    <2>1. dirs'[i] = dirs[i] \/ dirs'[i] = Opened(i)  BY <1>1
    <2> QED  BY <2>1, OpenedPage
  <1>6. Pages'[NoId] = Pages[NoId]  BY <1>2, PagesAt
  <1>7. Going  BY <1>2, AsksRest
  <1> QED  BY <1>3, <1>5, <1>6, <1>7, BookOpens

LEMMA LeastOfOne == ASSUME NEW x \in Nat PROVE Min({x}) = x
  <1>1. {x} \in SUBSET Nat /\ {x} # {}  OBVIOUS
  <1>2. Min({x}) \in {x}  BY <1>1, LeastOf
  <1> QED  BY <1>2

LEMMA CrashBooks ==
  ASSUME StructureInv, MoveInv, Crash
  PROVE  Book!Next
  <1>1. /\ stage # "off" /\ left' = left - 1 /\ UNCHANGED <<legacy, dirs, control>>
        /\ adopted' = NoId /\ req' = [r \in Req |-> IF InFlight(r) THEN Done ELSE req[r]]
    BY DEF Crash, Strike, disk
  <1>2. UNCHANGED SharedPage
    <2>1. CASE control # NoControl \/ legacy # NoDb \/ Existing = {}
      <3>1. Existing' = Existing  BY <1>1 DEF Existing
      <3>2. SharedRow' = SharedRow
        BY <1>1, <2>1, <3>1 DEF SharedRow
      <3> QED  BY <3>2, SharedSame
    <2>2. CASE control = NoControl /\ legacy = NoDb /\ Existing # {}
      <3>1. stage \in {"move", "commit"}
        BY <1>1, <2>2 DEF StructureInv, BootInv, TypeOK, StoreTypes, MoveInv
      <3>2. Existing' = Existing  BY <1>1 DEF Existing
      <3>3. Primary' = Primary
        <4>1. CASE adopted = NoId  BY <1>1, <3>2, <4>1 DEF Primary
        <4>2. CASE adopted # NoId
          <5>1. Existing = {adopted} /\ adopted \in Nat
            BY <3>1, <4>2, StoreAssumption DEF MoveInv, StructureInv, TypeOK, StoreTypes
          <5>2. Min(Existing) = adopted  BY <5>1, LeastOfOne
          <5> QED  BY <1>1, <3>2, <4>2, <5>2 DEF Primary
        <4> QED  BY <4>1, <4>2
      <3>4. SharedRow' = SharedRow
        BY <1>1, <2>2, <3>2, <3>3 DEF SharedRow
      <3> QED  BY <3>4, SharedSame
    <2> QED  BY <2>1, <2>2
  <1>3. Going
    <2>1. ASSUME NEW r \in Req PROVE Asks'[r] \in {Asks[r], Idle}
      <3>1. CASE InFlight(r)
        <4>1. req'[r] = Done  BY <1>1, <3>1
        <4>2. ~InFlight(r)'  BY <4>1, IdleTypes DEF InFlight
        <4> QED  BY <4>2, AsksAt DEF AskOf
      <3>2. CASE ~InFlight(r)
        <4>1. req'[r] = req[r]  BY <1>1, <3>2
        <4>2. ~InFlight(r)'  BY <3>2, <4>1 DEF InFlight
        <4> QED  BY <4>2, AsksAt DEF AskOf
      <3> QED  BY <3>1, <3>2
    <2> QED  BY <1>1, <2>1 DEF Going
  <1> QED  BY <1>1, <1>2, <1>3, BookRests

-----------------------------------------------------------------------------
(* The requests, as steps of the book. *)

LEMMA BeginBooks ==
  ASSUME StructureInv, StructureInv', NEW r \in Req,
         BeginSave(r) \/ BeginConnect(r) \/ Create(r) \/ Remove(r)
  PROVE  Book!Next
  <1>1. req[r] = Idle /\ Others(r) /\ stage = "up" /\ stage' = "up"
    <2>1. stage' = stage  BY DEF BeginSave, BeginConnect, Create, Remove
    <2> QED  BY <2>1, BeginSaveDoes, BeginConnectDoes, CreateDoes, RemoveDoes DEF StructureInv
  <1>2. control \in Control /\ control # NoControl /\ control' # NoControl
    BY <1>1 DEF StructureInv, BootInv, TypeOK, StoreTypes
  <1>3. control'.row = control.row
    <2>1. CASE Create(r)
      <3>1. control' = [control EXCEPT !.accounts = @ \cup {req'[r].id}]
        BY <2>1, CreateDoes DEF StructureInv
      <3> QED  BY <1>2, <3>1 DEF Control
    <2>2. CASE ~Create(r)
      BY <2>2 DEF BeginSave, BeginConnect, Remove, disk
    <2> QED  BY <2>1, <2>2
  <1>4. UNCHANGED <<legacy, dirs, left>>
    BY DEF BeginSave, BeginConnect, Create, Remove, disk
  <1>5. UNCHANGED Pages  BY <1>4 DEF Pages, Page
  <1>6. UNCHANGED SharedPage  BY <1>2, <1>3, SharedStays
  <1>7. Asks[r] = Idle
    <2>1. ~InFlight(r)  BY <1>1, IdleTypes DEF InFlight
    <2> QED  BY <2>1, AsksAt
  <1>8. \A s \in Req \ {r} : Asks'[s] = Asks[s]  BY <1>1, OthersAsk
  <1> QED  BY <1>4, <1>5, <1>6, <1>7, <1>8, BookAsks

\* A request that writes nothing the book knows of.
LEMMA QuietBooks ==
  ASSUME StructureInv, StructureInv', NEW r \in Req, InFlight(r), Going,
         UNCHANGED <<legacy, dirs, stage>>, control'.row = control.row
  PROVE  Book!Next
  <1>1. stage = "up" /\ control \in Control  BY UpAndControlled
  <1>2. control # NoControl /\ control' # NoControl
    BY <1>1 DEF StructureInv, BootInv
  <1>3. UNCHANGED SharedPage  BY <1>2, SharedStays
  <1> QED  BY <1>3, BookRests

LEMMA SaveRests ==
  ASSUME StructureInv, StructureInv', NEW r \in Req,
         \/ ReadAccountRow(r) \/ ReadGlobalRow(r) \/ StatementFails(r) \/ Limit(r)
         \/ BuildAnother(r) \/ BuildOwn(r) \/ EndGlobalSave(r)
         \/ Install(r) \/ Replace(r) \/ ReplaceRaises(r)
  PROVE  Book!Next
  <1>1. req[r].at \in SavingSteps
    BY DEF ReadAccountRow, ReadGlobalRow, StatementFails, Limit, BuildAnother, BuildOwn,
       EndGlobalSave, Install, Replace, ReplaceRaises, SavingSteps, Rebuilding
  <1>2. /\ Saving(r) /\ InFlight(r) /\ control \in Control /\ Placed(r)
        /\ req[r].id \in Known /\ (req[r].id \notin closed => dirs[req[r].id] \in Db)
    BY <1>1, SavingFacts DEF Saving
  <1>3. UNCHANGED <<legacy, dirs, control, stage>>
    BY DEF ReadAccountRow, ReadGlobalRow, StatementFails, Limit, BuildAnother, BuildOwn,
       EndGlobalSave, Install, Replace, ReplaceRaises, disk
  <1>4. left' \in {left, left - 1}
    BY DEF ReadAccountRow, ReadGlobalRow, StatementFails, Limit, BuildAnother, BuildOwn,
       EndGlobalSave, Install, Replace, ReplaceRaises, Strike
  <1>5. {"write", "write global", "fan out", "install", "replace"} \subseteq Steps \ {"new", "done"}
    BY DEF Steps
  <1>6. CASE ReadAccountRow(r)
    <2>1. Continues(r, "write")
      <3>1. req[r].id \notin closed  BY <1>6 DEF ReadAccountRow
      <3> QED  BY <1>2, <1>6, <3>1, ReadAccountRowDoes DEF StructureInv
    <2> QED  BY <1>2, <1>3, <1>4, <1>5, <2>1, AskGoesOn, QuietBooks
  <1>7. CASE ReadGlobalRow(r)
    <2>1. Continues(r, "write global")
      BY <1>2, <1>7, ReadGlobalRowDoes DEF StructureInv
    <2> QED  BY <1>2, <1>3, <1>4, <1>5, <2>1, AskGoesOn, QuietBooks
  <1>8. CASE Limit(r)
    <2>1. Continues(r, "fan out")
      BY <1>8, EveryoneIsKnown, LimitDoes DEF StructureInv
    <2> QED  BY <1>2, <1>3, <1>4, <1>5, <2>1, AskGoesOn, QuietBooks
  <1>9. CASE BuildAnother(r) \/ BuildOwn(r)
    <2>1. Continues(r, "install")
      <3>1. PICK i \in Known, K \in SUBSET Setting : BuildGraph(r, i, K)
        <4>1. CASE BuildAnother(r)
          <5>1. PICK i \in req[r].todo : BuildGraph(r, i, GlobalKey)
            BY <4>1 DEF BuildAnother
          <5>2. i \in Known  BY <1>2 DEF Placed, Concerns
          <5>3. GlobalKey \in SUBSET Setting  BY DEF Setting
          <5> QED  BY <5>1, <5>2, <5>3
        <4>2. CASE BuildOwn(r)
          BY <1>2, <4>2 DEF BuildOwn
        <4> QED  BY <1>9, <4>1, <4>2
      <3>2. i \in Id /\ services[i] \in Graph  BY KnownHasGraph DEF StructureInv
      <3> QED  BY <3>1, <3>2, BuildGraphDoes DEF StructureInv
    <2> QED  BY <1>2, <1>3, <1>4, <1>5, <2>1, AskGoesOn, QuietBooks
  <1>10. CASE Install(r)
    <2>1. req[r].of \in Known /\ req[r].graph \in Graph
      BY <1>10, RebuildFacts DEF Install
    <2>2. Continues(r, "replace")  BY <1>10, <2>1, InstallDoes DEF StructureInv
    <2> QED  BY <1>2, <1>3, <1>4, <1>5, <2>2, AskGoesOn, QuietBooks
  <1>11. CASE StatementFails(r) \/ EndGlobalSave(r) \/ ReplaceRaises(r)
    <2>1. End(r)  BY <1>11 DEF StatementFails, EndGlobalSave, ReplaceRaises, Fail
    <2>2. Going  BY <1>4, <2>1, AskEnds DEF StructureInv
    <2> QED  BY <1>2, <1>3, <2>2, QuietBooks
  <1>12. CASE Replace(r)
    <2>1. Continues(r, "fan out") \/ End(r)  BY <1>12, ReplaceDoes DEF StructureInv
    <2>2. Going  BY <1>2, <1>4, <1>5, <2>1, AskGoesOn, AskEnds DEF StructureInv
    <2> QED  BY <1>2, <1>3, <2>2, QuietBooks
  <1> QED  BY <1>6, <1>7, <1>8, <1>9, <1>10, <1>11, <1>12

LEMMA HolderRests ==
  ASSUME StructureInv, StructureInv', NEW r \in Req,
         Register(r) \/ OpenFails(r) \/ StopLoop(r) \/ DropRow(r) \/ DropRowFails(r)
  PROVE  Book!Next
  <1>1. req[r].at \in Locking
    BY DEF Register, OpenFails, StopLoop, DropRow, DropRowFails, Locking
  <1>2. InFlight(r) /\ control \in Control
    BY <1>1, HolderFacts DEF InFlight, Locking
  <1>3. UNCHANGED <<legacy, dirs, stage>> /\ left' \in {left, left - 1}
    BY DEF Register, OpenFails, StopLoop, DropRow, DropRowFails, disk, Strike
  <1>4. control'.row = control.row
    BY <1>2 DEF Register, OpenFails, StopLoop, DropRow, DropRowFails, disk, Control
  <1>5. CASE Register(r) \/ OpenFails(r)
    <2>1. End(r)  BY <1>5 DEF Register, OpenFails
    <2>2. Going  BY <1>3, <2>1, AskEnds DEF StructureInv
    <2> QED  BY <1>2, <1>3, <1>4, <2>2, QuietBooks
  <1>6. CASE StopLoop(r) \/ DropRow(r) \/ DropRowFails(r)
    <2>1. PICK step \in {"drop", "wipe"} : Goto(r, step)
      BY <1>6 DEF StopLoop, DropRow, DropRowFails
    <2>2. step \in Steps \ {"new", "done"} /\ step \in Steps  BY DEF Steps
    <2>3. Continues(r, step)  BY <2>1, <2>2, GotoDoes DEF StructureInv
    <2>4. Going  BY <1>2, <1>3, <2>2, <2>3, AskGoesOn
    <2> QED  BY <1>2, <1>3, <1>4, <2>4, QuietBooks
  <1> QED  BY <1>5, <1>6

LEMMA OpenAccountBooks ==
  ASSUME StructureInv, StructureInv', NEW r \in Req, OpenAccount(r)
  PROVE  Book!Next
  <1>1. req[r].at = "open" /\ req[r].at \in Locking  BY DEF OpenAccount, Locking
  <1>2. InFlight(r) /\ control \in Control /\ control # NoControl /\ req[r].id \in Id
    BY <1>1, HolderFacts DEF InFlight
  <1>3. /\ Continues(r, "register") /\ dirs'[req[r].id] = Opened(req[r].id)
        /\ \A i \in Id \ {req[r].id} : dirs'[i] = dirs[i]
    BY <1>2, OpenAccountDoes DEF StructureInv
  <1>4. UNCHANGED <<legacy, control, left>>  BY DEF OpenAccount
  <1>5. UNCHANGED SharedPage  BY <1>2, <1>4, SharedStays
  <1>6. ASSUME NEW i \in Id
        PROVE  \/ Pages'[i] = Pages[i]
               \/ i # NoId /\ Pages[i] = NoDb /\ Pages'[i] = EmptyPage
    <2>1. dirs'[i] = dirs[i] \/ dirs'[i] = Opened(i)  BY <1>3
    <2> QED  BY <2>1, OpenedPage
  <1>7. Pages'[NoId] = Pages[NoId]  BY <1>4, PagesAt
  <1>8. "register" \in Steps \ {"new", "done"}  BY DEF Steps
  <1>9. Going  BY <1>2, <1>3, <1>4, <1>8, AskGoesOn
  <1> QED  BY <1>5, <1>6, <1>7, <1>9, BookOpens

LEMMA WipeBooks ==
  ASSUME StructureInv, StructureInv', NEW r \in Req, Wipe(r)
  PROVE  Book!Next
  <1>1. req[r].at = "wipe" /\ req[r].at \in Locking /\ End(r)  BY DEF Wipe, Locking
  <1>2. InFlight(r) /\ control \in Control /\ control # NoControl /\ req[r].id \in Id
    BY <1>1, HolderFacts DEF InFlight
  <1>3. UNCHANGED <<legacy, control, stage, left>>  BY DEF Wipe
  <1>4. Going  BY <1>1, <1>3, AskEnds DEF StructureInv
  <1>5. CASE UNCHANGED dirs  BY <1>2, <1>3, <1>4, <1>5, QuietBooks
  <1>6. CASE req[r].erase /\ dirs' = [dirs EXCEPT ![req[r].id] = NoDb]
    <2> PICK i \in Id : i = req[r].id  BY <1>2
    <2>1. dirs \in [Id -> Db \cup {NoDb}]  BY DEF StructureInv, TypeOK, StoreTypes
    <2>2. dirs'[i] = NoDb /\ \A j \in Id : j # i => dirs'[j] = dirs[j]  BY <1>6, <2>1
    <2>3. Asks[r] # Idle /\ Asks[r].erase /\ i = Asks[r].id  BY <1>2, <1>6, AsksAt
    <2>4. Page(NoDb) = NoDb  BY DEF Page
    <2>5. Pages'[i] = NoDb /\ \A j \in Id \cup {NoId} : j # i => Pages'[j] = Pages[j]
      BY <1>3, <2>2, <2>4, PagesAt
    <2>6. UNCHANGED SharedPage  BY <1>2, <1>3, SharedStays
    <2> QED  BY <1>4, <2>3, <2>5, <2>6, BookErases
  <1> QED  BY <1>5, <1>6 DEF Wipe

\* What is saved is valid.
LEMMA SavedIsValid ==
  ASSUME NEW e \in Entry, e # Absent
  PROVE  Valid(e) = e
  BY StoreAssumption DEF Entry, Valid

\* A statement in an account's database, as a write on its page.
LEMMA StatementBooks ==
  ASSUME StructureInv, StructureInv', NEW r \in Req, Saving(r), InFlight(r), Going,
         NEW i \in Id, i = req[r].id, dirs[i] \in Db, dirs'[i] \in Db,
         \A j \in Id \ {i} : dirs'[j] = dirs[j], UNCHANGED <<legacy, control>>,
         \A k \in AccountKey \cup CredKey :
            \/ dirs'[i].row[k] = dirs[i].row[k]
            \/ req[r].patch[k] # Absent /\ dirs'[i].row[k] = req[r].patch[k]
  PROVE  Book!Next
  <1>1. control # NoControl
    <2>1. stage = "up"  BY UpAndControlled
    <2> QED  BY <2>1 DEF StructureInv, BootInv
  <1>2. UNCHANGED SharedPage  BY <1>1, SharedStays
  <1>3. /\ Asks[r] # Idle /\ i = Asks[r].id /\ Asks[r].patch = req[r].patch
        /\ req[r].patch \in [Setting -> Entry]
    BY AsksAt, RequestTypes DEF StructureInv
  <1>4. Pages[i] # NoDb /\ Pages'[i] # NoDb  BY PagesAt, ValidPage
  <1>5. \A j \in Id \cup {NoId} : j # i => Pages'[j] = Pages[j]  BY PagesAt
  <1>6. ASSUME NEW k \in AccountKey \cup CredKey
        PROVE  \/ Pages'[i][k] = Pages[i][k]
               \/ k \in DOMAIN Asks[r].patch /\ Pages'[i][k] = Asks[r].patch[k]
    <2>1. Pages[i][k] = Valid(dirs[i].row[k]) /\ Pages'[i][k] = Valid(dirs'[i].row[k])
      BY PagesAt, ValidPage
    <2>2. k \in Setting /\ req[r].patch[k] \in Entry  BY <1>3 DEF Setting
    <2>3. req[r].patch[k] # Absent => Valid(req[r].patch[k]) = req[r].patch[k]
      BY <2>2, SavedIsValid
    <2> QED  BY <1>3, <2>1, <2>2, <2>3
  <1> QED  BY <1>2, <1>3, <1>4, <1>5, <1>6, BookWritesOwn

LEMMA WriteAccountRowBooks ==
  ASSUME StructureInv, StructureInv', DiskInv, NEW r \in Req, WriteAccountRow(r)
  PROVE  Book!Next
  <1>1. req[r].at = "write" /\ req[r].id \notin closed /\ req[r].at \in SavingSteps
    BY DEF WriteAccountRow, SavingSteps
  <1>2. Saving(r) /\ InFlight(r) /\ dirs[req[r].id] \in Db /\ req[r].id \in Id
    BY <1>1, SavingFacts DEF Saving
  <1>3. /\ Continues(r, AfterAccountHalf(req[r].patch))
        /\ AfterAccountHalf(req[r].patch) \in {"read global", "build"}
        /\ dirs'[req[r].id] \in Db
        /\ dirs'[req[r].id].row
             = Updated(dirs[req[r].id].row, req[r].stored, req[r].patch, AccountKey)
        /\ \A j \in Id \ {req[r].id} : dirs'[j] = dirs[j]
    BY <1>2, WriteAccountRowDoes DEF StructureInv
  <1>4. UNCHANGED <<legacy, control, left>>  BY DEF WriteAccountRow
  <1>5. AfterAccountHalf(req[r].patch) \in Steps \ {"new", "done"}  BY <1>3 DEF Steps
  <1>6. Going  BY <1>2, <1>3, <1>4, <1>5, AskGoesOn
  <1> PICK i \in Id : i = req[r].id  BY <1>2
  <1>7. req[r].stored = dirs[i].row  BY <1>1, <1>2 DEF DiskInv, Disked
  <1>8. ASSUME NEW k \in AccountKey \cup CredKey
        PROVE  \/ dirs'[i].row[k] = dirs[i].row[k]
               \/ req[r].patch[k] # Absent /\ dirs'[i].row[k] = req[r].patch[k]
    BY <1>3, <1>7, KeysApart DEF Updated, Key
  <1> QED  BY <1>2, <1>3, <1>4, <1>6, <1>8, StatementBooks

LEMMA StoreCredentialBooks ==
  ASSUME StructureInv, StructureInv', DiskInv, NEW r \in Req, StoreCredential(r)
  PROVE  Book!Next
  <1> DEFINE key == Credentials[req[r].count + 1]
             at == IF req[r].count + 1 = Cardinality(CredKey) THEN "build" ELSE "store"
  <1>1. req[r].at = "store" /\ req[r].id \notin closed /\ req[r].at \in SavingSteps
    BY DEF StoreCredential, SavingSteps
  <1>2. /\ Saving(r) /\ InFlight(r) /\ dirs[req[r].id] \in Db /\ req[r].id \in Id
        /\ req[r].kind = "connect" /\ req[r].count < Cardinality(CredKey)
    BY <1>1, SavingFacts DEF Saving, Shape
  <1>3. /\ Continues(r, at) /\ key \in CredKey
        /\ dirs'[req[r].id] \in Db
        /\ dirs'[req[r].id].row = [dirs[req[r].id].row EXCEPT ![key] = req[r].patch[key]]
        /\ \A j \in Id \ {req[r].id} : dirs'[j] = dirs[j]
    BY <1>2, StoreCredentialDoes DEF StructureInv
  <1>4. UNCHANGED <<legacy, control, left>>  BY DEF StoreCredential
  <1>5. at \in Steps \ {"new", "done"}  BY DEF Steps
  <1> HIDE DEF key, at
  <1>6. Going  BY <1>2, <1>3, <1>4, <1>5, AskGoesOn
  <1> PICK i \in Id : i = req[r].id  BY <1>2
  <1>7. req[r].patch[key] # Absent  BY <1>2, <1>3 DEF DiskInv, Disked
  <1>8. dirs[i].row \in Row  BY <1>2 DEF Db
  <1>9. ASSUME NEW k \in AccountKey \cup CredKey
        PROVE  \/ dirs'[i].row[k] = dirs[i].row[k]
               \/ req[r].patch[k] # Absent /\ dirs'[i].row[k] = req[r].patch[k]
    BY <1>3, <1>7, <1>8 DEF Row, Key
  <1> QED  BY <1>2, <1>3, <1>4, <1>6, <1>9, StatementBooks

LEMMA WriteGlobalRowBooks ==
  ASSUME StructureInv, StructureInv', DiskInv, NEW r \in Req, WriteGlobalRow(r)
  PROVE  Book!Next
  <1>1. req[r].at = "write global" /\ req[r].at \in SavingSteps
    BY DEF WriteGlobalRow, SavingSteps
  <1>2. Saving(r) /\ InFlight(r) /\ control \in Control /\ control # NoControl
    BY <1>1, SavingFacts DEF Saving
  <1>3. /\ Continues(r, "limit") /\ control' \in Control
        /\ control'.row = Updated(control.row, req[r].stored, req[r].patch, GlobalKey)
    BY <1>2, WriteGlobalRowDoes DEF StructureInv
  <1>4. UNCHANGED <<legacy, dirs, left>>  BY DEF WriteGlobalRow
  <1>5. "limit" \in Steps \ {"new", "done"}  BY DEF Steps
  <1>6. Going  BY <1>2, <1>3, <1>4, <1>5, AskGoesOn
  <1>7. req[r].stored = control.row  BY <1>1, <1>2 DEF DiskInv, Disked
  <1>8. SharedRow = control.row /\ SharedRow' = control'.row
    BY <1>2, <1>3, PlacesAssumption DEF SharedRow
  <1>9. /\ Asks[r] # Idle /\ Asks[r].patch = req[r].patch
        /\ req[r].patch \in [Setting -> Entry]
    BY <1>2, AsksAt, RequestTypes DEF StructureInv
  <1>10. UNCHANGED Pages  BY <1>4 DEF Pages, Page
  <1>11. ASSUME NEW k \in GlobalKey \cup CarriedKey
         PROVE  \/ SharedPage'[k] = SharedPage[k]
                \/ k \in DOMAIN Asks[r].patch /\ SharedPage'[k] = Asks[r].patch[k]
    <2>1. SharedPage[k] = Valid(control.row[k]) /\ SharedPage'[k] = Valid(control'.row[k])
      BY <1>8 DEF SharedPage, Valid
    <2>2. CASE k \in GlobalKey /\ req[r].patch[k] # Absent
      <3>1. k \in Setting /\ req[r].patch[k] \in Entry  BY <1>9, <2>2 DEF Setting
      <3>2. control'.row[k] = req[r].patch[k]  BY <1>3, <2>2 DEF Updated, Key
      <3>3. Valid(req[r].patch[k]) = req[r].patch[k]  BY <2>2, <3>1, SavedIsValid
      <3> QED  BY <1>9, <2>1, <3>1, <3>2, <3>3
    <2>3. CASE ~ (k \in GlobalKey /\ req[r].patch[k] # Absent)
      <3>1. control'.row[k] = control.row[k]
        BY <1>3, <1>7, <2>3 DEF Updated, Key
      <3> QED  BY <2>1, <3>1
    <2> QED  BY <2>2, <2>3
  <1> QED  BY <1>6, <1>9, <1>10, <1>11, BookWritesShared

\* Every step of the system is one of the book, or none.
LEMMA BookSteps ==
  ASSUME StructureInv, StructureInv', MoveInv, DiskInv, [Next]_vars
  PROVE  [Book!Next]_(Book!vars)
  <1>1. CASE MigrationStep /\ UNCHANGED <<memory, req, torn, erased>>
    <2>1. UNCHANGED req  BY <1>1
    <2> QED  BY <1>1, <2>1, BootBooks, CommitBooks, TrimBooks, MoveBooks, LoseBooks
             DEF MigrationStep
  <1>2. CASE Load \/ Crash  BY <1>2, LoadBooks, CrashBooks
  <1>3. ASSUME NEW r \in Req, RequestStep(r) PROVE Book!Next
    BY <1>3, BeginBooks, SaveRests, HolderRests, OpenAccountBooks, WipeBooks,
       WriteAccountRowBooks, StoreCredentialBooks, WriteGlobalRowBooks DEF RequestStep
  <1>4. CASE (\E i \in Id : LoopExits(i)) \/ UNCHANGED vars
    <2>1. UNCHANGED <<legacy, dirs, control, adopted, left, req>>
      BY <1>4 DEF LoopExits, vars, disk
    <2>2. UNCHANGED SharedPage
      BY <2>1, SharedSame DEF SharedRow, Existing, Primary
    <2> QED  BY <2>1, <2>2, AsksRest, BookRests
  <1> QED  BY <1>1, <1>2, <1>3, <1>4 DEF Next

LEMMA BookStarts == Init => Book!Init
  <1> SUFFICES ASSUME Init PROVE Book!Init
    OBVIOUS
  <1>1. TypeOK  BY StructureStarts DEF StructureInv
  <1>2. req = [r \in Req |-> Idle] /\ left \in Nat  BY <1>1 DEF Init, TypeOK, StoreTypes
  <1>3. ASSUME NEW db \in Db \cup {NoDb}
        PROVE  Page(db) \in [AccountKey \cup CredKey -> Value \cup {Unset}] \cup {NoDb}
    BY ValidPage DEF Page
  <1>4. legacy \in Db \cup {NoDb} /\ dirs \in [Id -> Db \cup {NoDb}]
    BY <1>1 DEF TypeOK, StoreTypes
  <1>5. Pages \in [Id \cup {NoId} ->
                     [AccountKey \cup CredKey -> Value \cup {Unset}] \cup {NoDb}]
    BY <1>3, <1>4, StoreAssumption DEF Pages
  <1>6. SharedPage \in [GlobalKey \cup CarriedKey -> Value \cup {Unset}]
    BY ValidTypes DEF SharedPage
  <1>7. Asks = [r \in Req |-> Idle]
    BY <1>2, IdleTypes DEF Asks, AskOf, InFlight
  <1> QED
    BY <1>2, <1>5, <1>6, <1>7
    DEF Book!Init, Book!Page, Book!Entry, Pages, SharedPage, Asks, AskOf

\* If settings requests take turns, the system keeps the user's book: whatever boots,
\* migrations, crashes and failures do below, a page changes only by a save that was asked
\* for, in no other key and on no other page; the old install's page gets an id once, with
\* everything on it; a page goes only when its removal was asked for, and the shared one
\* only when control.db is lost.
THEOREM AccountsKeepTheBook ==
  ASSUME ~ConcurrentSaves
  PROVE  Spec => KeepsBook
  <1>1. StructureInv /\ StructureInv' /\ MoveInv /\ DataInv /\ [Next]_vars
          => [Book!Next]_(Book!vars)
    BY BookSteps DEF DataInv
  <1> QED
    BY <1>1, StructureHolds, MoveHolds, DataHolds, BookStarts, PTL
    DEF Spec, KeepsBook, Book!Spec
=============================================================================
