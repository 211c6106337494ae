---------------------------- MODULE SettingsBook ----------------------------
(***************************************************************************)
(* What a user may count on about settings, whatever boots, migrations and *)
(* crashes do below: a page per account and one page all accounts share.   *)
(* A page changes only by a save someone asked for, which writes no other  *)
(* key and on no other page; the old install's page gets an id once, with  *)
(* everything on it; a new page starts empty; a page goes only when its    *)
(* removal was asked for, the shared one only when control.db is lost.     *)
(***************************************************************************)
EXTENDS Integers

CONSTANTS Id, OwnKey, SharedKey, Value, Unset, Req,
          Old,     \* the place of the page that has no id yet
          NoPage, NoAsk

VARIABLES
    own,     \* the accounts' pages, and the old install's
    shared,  \* the page of all accounts
    asks,    \* the saves and removals under way
    luck     \* how often more something may go wrong

Entry == Value \cup {Unset}
Page == [OwnKey -> Entry]
EmptyPage == [k \in OwnKey |-> Unset]
vars == <<own, shared, asks, luck>>

Init ==
    /\ own \in [Id \cup {Old} -> Page \cup {NoPage}]
    /\ shared \in [SharedKey -> Entry]
    /\ asks = [r \in Req |-> NoAsk]
    /\ luck \in Nat

\* new is page with some of the keys of patch as patch has them.
Wrote(page, new, patch) ==
    \A k \in DOMAIN page : \/ new[k] = page[k]
                           \/ k \in DOMAIN patch /\ new[k] = patch[k]

Ask(r) ==
    /\ asks[r] = NoAsk
    /\ asks' = [asks EXCEPT ![r] = asks'[r]]
    /\ UNCHANGED <<own, shared>>

WriteOwn(r) ==
    /\ asks[r] # NoAsk /\ own[asks[r].id] # NoPage /\ own'[asks[r].id] # NoPage
    /\ Wrote(own[asks[r].id], own'[asks[r].id], asks[r].patch)
    /\ own' = [own EXCEPT ![asks[r].id] = own'[asks[r].id]]
    /\ UNCHANGED shared

WriteShared(r) ==
    /\ asks[r] # NoAsk
    /\ Wrote(shared, shared', asks[r].patch)
    /\ UNCHANGED own

Erase(r) ==
    /\ asks[r] # NoAsk /\ asks[r].erase
    /\ own' = [own EXCEPT ![asks[r].id] = NoPage]
    /\ UNCHANGED shared

Adopt(i) ==
    /\ own[Old] # NoPage /\ own[i] = NoPage
    /\ own' = [own EXCEPT ![i] = own[Old], ![Old] = NoPage]
    /\ UNCHANGED shared

\* Pages for accounts that have none.
Open ==
    /\ \A i \in Id \cup {Old} :
          \/ own'[i] = own[i]
          \/ i # Old /\ own[i] = NoPage /\ own'[i] = EmptyPage
    /\ UNCHANGED shared

\* Only a misfortune takes the shared page, and nothing else with it.
LoseShared == luck' < luck /\ UNCHANGED <<own, asks>>

\* With any step requests may end, done or failed; a crash ends all of them.
Next ==
    \/ LoseShared
    \/ /\ luck' \in {luck, luck - 1}
       /\ \/ \E r \in Req : Ask(r)
          \/ /\ \A r \in Req : asks'[r] \in {asks[r], NoAsk}
             /\ \/ \E r \in Req : WriteOwn(r) \/ WriteShared(r) \/ Erase(r)
                \/ \E i \in Id : Adopt(i)
                \/ Open

Spec == Init /\ [][Next]_vars
=============================================================================
