----------------------------- MODULE MCAccounts -----------------------------
(* Small instances of Accounts for TLC. *)
EXTENDS Accounts, TLC

CONSTANTS r1, r2, r3, v

DeletionsKey == "deletions_enabled"
Cap == "bandwidth_bytes_per_second"
Login == "ui_password"
ImmichConnection == <<"immich_url", "immich_api_key">>
NoCredentials == <<>>

\* A save of either half, of both, and one that clears the cap.
HalfPatches ==
    {[k \in {DeletionsKey, Cap} |-> IF k = Cap THEN cap ELSE deletions] :
        cap \in {v, Unset, Absent}, deletions \in {v, Absent}}
    \ {[k \in {DeletionsKey, Cap} |-> Absent]}

RowOf(deletions, cap, login) ==
    [k \in Key |-> CASE k = DeletionsKey -> deletions [] k = Cap -> cap
                     [] k = Login -> login [] OTHER -> Absent]
\* An old install with everything set, and one with nothing but its login.
SetOrNot == {RowOf(v, v, v), RowOf(Absent, Absent, v)}
\* An account of a new install that was given a cap.
Capped == {RowOf(Absent, v, v)}

Requests == Permutations(Req)
=============================================================================
