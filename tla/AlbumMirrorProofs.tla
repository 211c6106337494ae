-------------------------- MODULE AlbumMirrorProofs --------------------------
(***************************************************************************)
(* Theorems about AlbumMirror, for any members, album limit, batch size    *)
(* and number of passes that break off.                                    *)
(***************************************************************************)
EXTENDS AlbumMirror, TLAPS, FiniteSetTheorems, SequenceTheorems

-----------------------------------------------------------------------------
(* What the steps of a pass do. *)

Mapping == [album : DOMAIN google, count : Nat]

\* The last mapping of a chain that has one.
LEMMA LastIsMapping ==
  ASSUME TypeOK, chain # <<>>
  PROVE  /\ Len(chain) \in Nat \ {0} /\ Len(chain) \in DOMAIN chain
         /\ Last \in Mapping /\ Last.album \in DOMAIN google /\ Last.count \in Nat
  <1>1. chain \in Seq(Mapping)  BY DEF TypeOK, Mapping
  <1>2. Len(chain) \in Nat \ {0} /\ DOMAIN chain = 1 .. Len(chain)
    BY <1>1, EmptySeq, LenProperties
  <1>3. chain[Len(chain)] \in Mapping  BY <1>1, <1>2, ElementOfSeq
  <1> QED  BY <1>2, <1>3 DEF Last, Mapping

LEMMA LengthsAreNat ==
  ASSUME TypeOK
  PROVE  /\ Len(google) \in Nat /\ DOMAIN google = 1 .. Len(google)
         /\ Len(chain) \in Nat /\ DOMAIN chain = 1 .. Len(chain)
         /\ \A g \in DOMAIN google : google[g] \in SUBSET Asset
         /\ \A i \in DOMAIN chain : chain[i].album \in DOMAIN google /\ chain[i].count \in Nat
  <1>1. google \in Seq(SUBSET Asset) /\ chain \in Seq(Mapping)  BY DEF TypeOK, Mapping
  <1>2. /\ Len(google) \in Nat /\ DOMAIN google = 1 .. Len(google)
        /\ Len(chain) \in Nat /\ DOMAIN chain = 1 .. Len(chain)
    BY <1>1, LenProperties
  <1>3. \A g \in DOMAIN google : google[g] \in SUBSET Asset
    BY <1>1, <1>2, ElementOfSeq
  <1>4. \A i \in DOMAIN chain : chain[i] \in Mapping  BY <1>1, <1>2, ElementOfSeq
  <1> QED  BY <1>2, <1>3, <1>4 DEF Mapping

\* A batch is small, and part of what is pending.
LEMMA BatchIsSmall ==
  ASSUME TypeOK, NEW S \in Batches
  PROVE  /\ S \subseteq pending /\ S \subseteq Asset /\ IsFiniteSet(S)
         /\ Cardinality(S) \in 0 .. BatchSize
  <1>1. S \subseteq pending /\ pending \subseteq Asset  BY DEF Batches, TypeOK
  <1>2. IsFiniteSet(S) /\ IsFiniteSet(pending)
    BY <1>1, MirrorAssumption, FS_Subset
  <1>3. Cardinality(S) \in Nat /\ Cardinality(pending) \in Nat
    BY <1>2, FS_CardinalityType
  <1>4. Cardinality(S) <= BatchSize
    BY <1>3, MirrorAssumption DEF Batches
  <1> QED  BY <1>1, <1>2, <1>3, <1>4, MirrorAssumption

\* add_to_album: only the last album of the chain grows.
LEMMA AddGrows ==
  ASSUME TypeOK, AddToAlbum
  PROVE  \E S \in Batches :
           /\ chain # <<>> /\ Last.count + Cardinality(S) <= AlbumLimit
           /\ google' \in Seq(SUBSET Asset) /\ DOMAIN google' = DOMAIN google
           /\ Len(google') = Len(google)
           /\ google'[Last.album] = google[Last.album] \cup S
           /\ \A g \in DOMAIN google \ {Last.album} : google'[g] = google[g]
           /\ batch' = S /\ size' = Cardinality(S) /\ pending' = pending \ S
  <1>1. PICK S \in Batches :
          /\ HasRoom(Cardinality(S))
          /\ google' = [google EXCEPT ![Last.album] = @ \cup S]
          /\ batch' = S /\ size' = Cardinality(S) /\ pending' = pending \ S
    BY DEF AddToAlbum
  <1>2. chain # <<>> /\ Last.count + Cardinality(S) <= AlbumLimit
    BY <1>1 DEF HasRoom
  <1>3. Last.album \in DOMAIN google  BY <1>2, LastIsMapping
  <1>4. google[Last.album] \cup S \in SUBSET Asset
    BY <1>3, BatchIsSmall, LengthsAreNat
  <1>5. google \in Seq(SUBSET Asset) /\ Last.album \in 1 .. Len(google)
    BY <1>3, LengthsAreNat DEF TypeOK
  <1>6. google' \in Seq(SUBSET Asset) /\ Len(google') = Len(google)
    BY <1>1, <1>4, <1>5, ExceptSeq
  <1>7. DOMAIN google' = DOMAIN google  BY <1>1
  <1>8. /\ google'[Last.album] = google[Last.album] \cup S
        /\ \A g \in DOMAIN google \ {Last.album} : google'[g] = google[g]
    BY <1>1, <1>3
  <1> QED  BY <1>1, <1>2, <1>6, <1>7, <1>8

\* create_album: a new album comes to be, with the batch in it.
LEMMA CreateGrows ==
  ASSUME TypeOK, CreateAlbum
  PROVE  \E S \in Batches :
           /\ google' \in Seq(SUBSET Asset) /\ Len(google') = Len(google) + 1
           /\ DOMAIN google' = 1 .. Len(google) + 1
           /\ google'[Len(google) + 1] = S
           /\ \A g \in DOMAIN google : g \in DOMAIN google' /\ google'[g] = google[g]
           /\ batch' = S /\ size' = Cardinality(S) /\ pending' = pending \ S
  <1>1. PICK S \in Batches :
          /\ google' = Append(google, S)
          /\ batch' = S /\ size' = Cardinality(S) /\ pending' = pending \ S
    BY DEF CreateAlbum
  <1>2. S \in SUBSET Asset /\ google \in Seq(SUBSET Asset)
    BY BatchIsSmall DEF TypeOK
  <1>3. /\ google' \in Seq(SUBSET Asset) /\ Len(google') = Len(google) + 1
        /\ \A g \in 1 .. Len(google) : google'[g] = google[g]
        /\ google'[Len(google) + 1] = S
    BY <1>1, <1>2, AppendProperties
  <1>4. DOMAIN google' = 1 .. Len(google) + 1  BY <1>3, LenProperties
  <1> QED  BY <1>1, <1>3, <1>4, LengthsAreNat

\* put: the chain gets one mapping more.
LEMMA PutExtends ==
  ASSUME TypeOK, google # <<>>, Put
  PROVE  /\ chain' \in Seq(Mapping) /\ chain' # <<>>
         /\ Len(chain') = Len(chain) + 1 /\ DOMAIN chain' = 1 .. Len(chain) + 1
         /\ chain'[Len(chain) + 1] = [album |-> Len(google), count |-> size]
         /\ \A i \in DOMAIN chain : i \in DOMAIN chain' /\ chain'[i] = chain[i]
  <1> DEFINE m == [album |-> Len(google), count |-> size]
  <1>1. m \in Mapping
    <2>1. Len(google) \in DOMAIN google
      <3>1. google \in Seq(SUBSET Asset)  BY DEF TypeOK
      <3> QED  BY <3>1, EmptySeq, LenProperties
    <2> QED  BY <2>1, MirrorAssumption DEF Mapping, TypeOK
  <1>2. chain \in Seq(Mapping) /\ chain' = Append(chain, m)
    BY DEF Put, TypeOK, Mapping
  <1> HIDE DEF m
  <1>3. /\ chain' \in Seq(Mapping) /\ chain' # <<>> /\ Len(chain') = Len(chain) + 1
        /\ \A i \in 1 .. Len(chain) : chain'[i] = chain[i]
        /\ chain'[Len(chain) + 1] = m
    BY <1>1, <1>2, AppendProperties
  <1>4. DOMAIN chain' = 1 .. Len(chain) + 1  BY <1>3, LenProperties
  <1> QED  BY <1>3, <1>4, LengthsAreNat DEF m

\* bump: only the last mapping's count changes.
LEMMA BumpCounts ==
  ASSUME TypeOK, chain # <<>>, Bump
  PROVE  /\ chain' \in Seq(Mapping) /\ chain' # <<>>
         /\ Len(chain') = Len(chain) /\ DOMAIN chain' = DOMAIN chain
         /\ chain'[Len(chain)] = [album |-> Last.album, count |-> Last.count + size]
         /\ \A i \in DOMAIN chain \ {Len(chain)} : chain'[i] = chain[i]
  <1> DEFINE m == [album |-> Last.album, count |-> Last.count + size]
  <1>1. Last \in Mapping /\ size \in Nat
    BY LastIsMapping, MirrorAssumption DEF TypeOK
  <1>2. m \in Mapping /\ [Last EXCEPT !.count = Last.count + size] = m
    BY <1>1 DEF Mapping
  <1>3. chain \in Seq(Mapping) /\ Len(chain) \in 1 .. Len(chain)
        /\ Len(chain) \in DOMAIN chain
    BY LastIsMapping DEF TypeOK, Mapping
  <1>4. chain' = [chain EXCEPT ![Len(chain)] = [Last EXCEPT !.count = Last.count + size]]
    BY DEF Bump, Last
  <1>5. chain' = [chain EXCEPT ![Len(chain)] = m]
    BY <1>2, <1>4
  <1> HIDE DEF m
  <1>6. /\ chain' \in Seq(Mapping) /\ Len(chain') = Len(chain)
        /\ DOMAIN chain' = DOMAIN chain
        /\ chain'[Len(chain)] = m
        /\ \A i \in DOMAIN chain \ {Len(chain)} : chain'[i] = chain[i]
    BY <1>2, <1>3, <1>5, ExceptSeq
  <1>7. chain' # <<>>  BY <1>3, <1>6, EmptySeq
  <1> QED  BY <1>6, <1>7 DEF m

-----------------------------------------------------------------------------
(* Types. *)

\* TypeOK is not inductive alone: bump and put must find what they record.
RecordsFind == /\ step \in {"bump", "mark"} => chain # <<>>
               /\ step = "put" => google # <<>>
MirrorTypes == TypeOK /\ RecordsFind

LEMMA MirrorTypesNext == MirrorTypes /\ [Next]_vars => MirrorTypes'
  <1> SUFFICES ASSUME TypeOK, RecordsFind, [Next]_vars PROVE TypeOK' /\ RecordsFind'
    BY DEF MirrorTypes
  <1> USE MirrorAssumption
  <1>0. /\ pending \subseteq Asset /\ batch \subseteq Asset
        /\ google \in Seq(SUBSET Asset) /\ chain \in Seq(Mapping)
    BY DEF TypeOK, Mapping
  <1>1. CASE UNCHANGED vars \/ \E a \in Asset : Place(a) \/ Remove(a) \/ GetKey(a)
    <2>1. UNCHANGED <<google, chain, added, job, left>> /\ members' \subseteq Asset
          /\ keyed' \subseteq Asset
      BY <1>1 DEF vars, outside, Place, Remove, GetKey, TypeOK
    <2> QED  BY <2>1 DEF TypeOK, RecordsFind, job
  <1>2. CASE SyncOnce
    BY <1>2 DEF SyncOnce, PendingMediaKeys, TypeOK, RecordsFind, outside
  <1>3. CASE AddToAlbum
    <2>1. PICK S \in Batches :
            /\ google' \in Seq(SUBSET Asset) /\ DOMAIN google' = DOMAIN google
            /\ Len(google') = Len(google) /\ chain # <<>>
            /\ batch' = S /\ size' = Cardinality(S) /\ pending' = pending \ S
      BY <1>3, AddGrows
    <2>2. batch' \subseteq Asset /\ size' \in 0 .. BatchSize /\ pending' \subseteq Asset
      BY <1>0, <2>1, BatchIsSmall
    <2> QED  BY <1>3, <2>1, <2>2 DEF AddToAlbum, TypeOK, RecordsFind, outside
  <1>4. CASE CreateAlbum
    <2>1. PICK S \in Batches :
            /\ google' \in Seq(SUBSET Asset) /\ Len(google') = Len(google) + 1
            /\ DOMAIN google' = 1 .. Len(google) + 1
            /\ batch' = S /\ size' = Cardinality(S) /\ pending' = pending \ S
      BY <1>4, CreateGrows
    <2>2. batch' \subseteq Asset /\ size' \in 0 .. BatchSize /\ pending' \subseteq Asset
      BY <1>0, <2>1, BatchIsSmall
    <2>3. Mapping \subseteq Mapping'
      BY <2>1, LengthsAreNat DEF Mapping
    <2>4. chain' \in Seq(Mapping')
      BY <1>0, <1>4, <2>3, SeqMonotonic DEF CreateAlbum
    <2>5. google' # <<>>  BY <2>1, LengthsAreNat, EmptySeq
    <2>6. Len(google') <= MaxAlbums
      BY <1>4, <2>1, LengthsAreNat DEF CreateAlbum
    <2> QED
      BY <1>4, <2>1, <2>2, <2>4, <2>5, <2>6
      DEF CreateAlbum, TypeOK, RecordsFind, outside, Mapping
  <1>5. CASE Put
    <2>1. chain' \in Seq(Mapping) /\ chain' # <<>>
      BY <1>5, PutExtends DEF Put, RecordsFind
    <2> QED  BY <1>5, <2>1 DEF Put, TypeOK, RecordsFind, outside, Mapping
  <1>6. CASE Bump
    <2>1. chain' \in Seq(Mapping) /\ chain' # <<>>
      BY <1>6, BumpCounts DEF Bump, RecordsFind
    <2> QED  BY <1>6, <2>1 DEF Bump, TypeOK, RecordsFind, outside, Mapping
  <1>7. ASSUME NEW a \in batch, MarkAdded(a) PROVE TypeOK' /\ RecordsFind'
    <2>1. /\ size' \in 0 .. BatchSize /\ step' \in {"mark", "idle", "push"}
          /\ step = "mark"
      BY <1>7 DEF MarkAdded, Proceed, TypeOK
    <2> QED
      BY <1>0, <1>7, <2>1 DEF MarkAdded, Proceed, TypeOK, RecordsFind, outside
  <1>8. CASE BreakOff
    BY <1>8 DEF BreakOff, TypeOK, RecordsFind, outside
  <1> QED
    BY <1>1, <1>2, <1>3, <1>4, <1>5, <1>6, <1>7, <1>8 DEF Next, MirrorStep

LEMMA MirrorTypesHold == Spec => []MirrorTypes
  <1>1. Init => MirrorTypes
    BY MirrorAssumption, EmptySeq DEF Init, MirrorTypes, TypeOK, RecordsFind
  <1> QED  BY <1>1, MirrorTypesNext, PTL DEF Spec

\* Every variable keeps its type: no mapping names an album that is not there, and no
\* batch is too large.
THEOREM MirrorTypeCorrect == Spec => []TypeOK
  BY MirrorTypesHold, PTL DEF MirrorTypes

-----------------------------------------------------------------------------
(* What the mirror remembers is there. *)

\* AddedIsThere is not inductive alone: what is about to be marked must be in an album,
\* and the chain must know that album by the time the marking starts.
BatchIsThere ==
    /\ step \in {"bump", "mark"} => batch \subseteq google[Last.album]
    /\ step = "put" => batch \subseteq google[Len(google)]
ThereInv == AddedIsThere /\ BatchIsThere

\* A step that takes nothing out of an album or the chain and marks nothing.
LEMMA ThereStays ==
  ASSUME AddedIsThere, UNCHANGED added, InChain \subseteq InChain',
         \A g \in InChain : google[g] \subseteq google'[g]
  PROVE  AddedIsThere'
  BY DEF AddedIsThere

LEMMA ThereNext == MirrorTypes /\ ThereInv /\ [Next]_vars => ThereInv'
  <1> SUFFICES ASSUME MirrorTypes, ThereInv, [Next]_vars PROVE ThereInv'  OBVIOUS
  <1> USE MirrorAssumption DEF ThereInv
  <1>0. TypeOK /\ RecordsFind /\ InChain \subseteq DOMAIN google
    BY LengthsAreNat DEF MirrorTypes, InChain
  <1>1. CASE \/ UNCHANGED vars \/ SyncOnce \/ BreakOff
             \/ \E a \in Asset : Place(a) \/ Remove(a) \/ GetKey(a)
    <2>1. UNCHANGED <<google, chain, added>>
      BY <1>1 DEF vars, SyncOnce, BreakOff, Place, Remove, GetKey
    <2>2. AddedIsThere'  BY <2>1, ThereStays DEF InChain
    <2>3. step' \in {"idle", "push"} \/ UNCHANGED <<step, batch>>
      BY <1>1 DEF vars, job, SyncOnce, BreakOff, Place, Remove, GetKey
    <2>4. BatchIsThere'  BY <2>1, <2>3 DEF BatchIsThere, Last
    <2> QED  BY <2>2, <2>4
  <1>2. CASE AddToAlbum
    <2>1. PICK S \in Batches :
            /\ chain # <<>> /\ DOMAIN google' = DOMAIN google
            /\ google'[Last.album] = google[Last.album] \cup S
            /\ \A g \in DOMAIN google \ {Last.album} : google'[g] = google[g]
            /\ batch' = S
      BY <1>0, <1>2, AddGrows
    <2>2. UNCHANGED <<chain, added>> /\ step' = "bump"  BY <1>2 DEF AddToAlbum
    <2>3. AddedIsThere'
      <3>1. \A g \in DOMAIN google : google[g] \subseteq google'[g]  BY <2>1
      <3> QED  BY <1>0, <2>2, <3>1, ThereStays DEF InChain
    <2>4. BatchIsThere'  BY <2>1, <2>2 DEF BatchIsThere, Last
    <2> QED  BY <2>3, <2>4
  <1>3. CASE CreateAlbum
    <2>1. PICK S \in Batches :
            /\ Len(google') = Len(google) + 1
            /\ google'[Len(google) + 1] = S
            /\ \A g \in DOMAIN google : g \in DOMAIN google' /\ google'[g] = google[g]
            /\ batch' = S
      BY <1>0, <1>3, CreateGrows
    <2>2. UNCHANGED <<chain, added>> /\ step' = "put"  BY <1>3 DEF CreateAlbum
    <2>3. AddedIsThere'  BY <1>0, <2>1, <2>2, ThereStays DEF InChain
    <2>4. BatchIsThere'  BY <2>1, <2>2 DEF BatchIsThere
    <2> QED  BY <2>3, <2>4
  <1>4. CASE Put
    <2>1. /\ Len(chain') = Len(chain) + 1 /\ DOMAIN chain' = 1 .. Len(chain) + 1
          /\ chain'[Len(chain) + 1] = [album |-> Len(google), count |-> size]
          /\ \A i \in DOMAIN chain : i \in DOMAIN chain' /\ chain'[i] = chain[i]
      BY <1>0, <1>4, PutExtends DEF Put, RecordsFind
    <2>2. UNCHANGED <<google, added, batch>> /\ step = "put" /\ step' = "mark"
      BY <1>4 DEF Put
    <2>3. AddedIsThere'  BY <2>1, <2>2, ThereStays DEF InChain
    <2>4. Last' = [album |-> Len(google), count |-> size]  BY <2>1 DEF Last
    <2>5. BatchIsThere'  BY <2>2, <2>4 DEF BatchIsThere
    <2> QED  BY <2>3, <2>5
  <1>5. CASE Bump
    <2>1. /\ Len(chain') = Len(chain) /\ DOMAIN chain' = DOMAIN chain
          /\ chain'[Len(chain)] = [album |-> Last.album, count |-> Last.count + size]
          /\ \A i \in DOMAIN chain \ {Len(chain)} : chain'[i] = chain[i]
      BY <1>0, <1>5, BumpCounts DEF Bump, RecordsFind
    <2>2. UNCHANGED <<google, added, batch>> /\ step = "bump" /\ step' = "mark"
      BY <1>5 DEF Bump
    <2>3. \A i \in DOMAIN chain : chain'[i].album = chain[i].album
      BY <2>1 DEF Last
    <2>4. AddedIsThere'  BY <2>1, <2>2, <2>3, ThereStays DEF InChain
    <2>5. Last'.album = Last.album  BY <2>1 DEF Last
    <2>6. BatchIsThere'  BY <2>2, <2>5 DEF BatchIsThere
    <2> QED  BY <2>4, <2>6
  <1>6. ASSUME NEW a \in batch, MarkAdded(a) PROVE ThereInv'
    <2>1. /\ UNCHANGED <<google, chain>> /\ step = "mark" /\ step' \in {"mark", "idle", "push"}
          /\ added' = added \cup {a} /\ batch' = batch \ {a}
      BY <1>6 DEF MarkAdded, Proceed
    <2>2. InChain' = InChain /\ Last' = Last  BY <2>1 DEF InChain, Last
    <2>3. Last.album \in InChain
      BY <1>0, <2>1, LastIsMapping DEF RecordsFind, InChain, Last
    <2>4. a \in google[Last.album]  BY <2>1 DEF BatchIsThere
    <2>5. AddedIsThere'  BY <2>1, <2>2, <2>3, <2>4 DEF AddedIsThere
    <2>6. BatchIsThere'  BY <2>1, <2>2 DEF BatchIsThere
    <2> QED  BY <2>5, <2>6
  <1> QED  BY <1>1, <1>2, <1>3, <1>4, <1>5, <1>6 DEF Next, MirrorStep

\* A member album_member lists as added is in an album the chain knows, whatever broke
\* off between a call to Google, the write of the mapping and the marks.
THEOREM AddedStaysThere == Spec => []AddedIsThere
  <1>1. Init => ThereInv  BY DEF Init, ThereInv, AddedIsThere, BatchIsThere
  <1> QED  BY <1>1, ThereNext, MirrorTypesHold, PTL DEF Spec, ThereInv

-----------------------------------------------------------------------------
(* Albums nobody knows of. *)

Loose == DOMAIN google \ InChain

\* AlbumsLostToFailures needs that an album whose mapping is still to be written is not
\* known under another; then no album has two mappings either.
PutIsLoose    == step = "put" => Len(google) \notin InChain
MappedOnce    == \A i, j \in DOMAIN chain : chain[i].album = chain[j].album => i = j
LooseInv      == AlbumsLostToFailures /\ PutIsLoose /\ MappedOnce

LEMMA LooseNext == MirrorTypes /\ LooseInv /\ [Next]_vars => LooseInv'
  <1> SUFFICES ASSUME MirrorTypes, LooseInv, [Next]_vars PROVE LooseInv'  OBVIOUS
  <1> USE MirrorAssumption DEF LooseInv
  <1>0. /\ TypeOK /\ RecordsFind /\ InChain \subseteq DOMAIN google
        /\ left \in Nat /\ Budget \in Nat
        /\ Len(google) \in Nat /\ DOMAIN google = 1 .. Len(google)
    BY LengthsAreNat DEF MirrorTypes, InChain, TypeOK
  <1>a. IsFiniteSet(Loose) /\ Cardinality(Loose) \in Nat
    <2>1. IsFiniteSet(1 .. Len(google))  BY <1>0, FS_Interval
    <2>2. IsFiniteSet(Loose)  BY <1>0, <2>1, FS_Subset DEF Loose
    <2> QED  BY <2>2, FS_CardinalityType
  <1>b. Cardinality(Loose) <= Budget - left + IF step = "put" THEN 1 ELSE 0
    BY DEF AlbumsLostToFailures, Loose
  <1>1. CASE \/ UNCHANGED vars \/ SyncOnce \/ BreakOff \/ (\E a \in batch : MarkAdded(a))
             \/ \E a \in Asset : Place(a) \/ Remove(a) \/ GetKey(a)
    <2>1. UNCHANGED <<google, chain>>
      BY <1>1 DEF vars, SyncOnce, BreakOff, MarkAdded, Place, Remove, GetKey
    <2>2. InChain' = InChain /\ Loose' = Loose  BY <2>1 DEF InChain, Loose
    <2>3. \/ UNCHANGED <<step, left>>
          \/ step # "put" /\ step' # "put" /\ UNCHANGED left
          \/ step' = "idle" /\ left' = left - 1
      BY <1>1
      DEF vars, job, SyncOnce, BreakOff, MarkAdded, Proceed, Place, Remove, GetKey
    <2>4. AlbumsLostToFailures'
      <3>1. Cardinality(Loose) <= Budget - left' + IF step' = "put" THEN 1 ELSE 0
        <4>1. CASE UNCHANGED <<step, left>>  BY <1>b, <4>1
        <4>2. CASE step # "put" /\ step' # "put" /\ UNCHANGED left
          BY <1>0, <1>a, <1>b, <4>2
        <4>3. CASE step' = "idle" /\ left' = left - 1
          BY <1>0, <1>a, <1>b, <4>3
        <4> QED  BY <2>3, <4>1, <4>2, <4>3
      <3>2. Cardinality(Loose') = Cardinality(Loose)  BY <2>2
      <3> QED  BY <3>1, <3>2 DEF AlbumsLostToFailures, Loose
    <2> QED  BY <2>1, <2>2, <2>3, <2>4 DEF PutIsLoose, MappedOnce
  <1>2. CASE AddToAlbum
    <2>1. /\ DOMAIN google' = DOMAIN google /\ UNCHANGED <<chain, left>>
          /\ step = "push" /\ step' = "bump"
      BY <1>0, <1>2, AddGrows DEF AddToAlbum
    <2>2. InChain' = InChain /\ Loose' = Loose  BY <2>1 DEF InChain, Loose
    <2>3. AlbumsLostToFailures'
      BY <1>b, <2>1, <2>2 DEF AlbumsLostToFailures, Loose
    <2> QED  BY <2>1, <2>2, <2>3 DEF PutIsLoose, MappedOnce
  <1>3. CASE CreateAlbum
    <2>1. /\ Len(google') = Len(google) + 1 /\ DOMAIN google' = 1 .. Len(google) + 1
          /\ UNCHANGED <<chain, left>> /\ step = "push" /\ step' = "put"
      BY <1>0, <1>3, CreateGrows DEF CreateAlbum
    <2>2. InChain' = InChain /\ Len(google) + 1 \notin InChain
      BY <1>0, <2>1 DEF InChain
    <2>3. Loose' = Loose \cup {Len(google) + 1}  BY <1>0, <2>1, <2>2 DEF Loose
    <2>4. Len(google) + 1 \notin Loose  BY <1>0 DEF Loose
    <2>5. Cardinality(Loose') = Cardinality(Loose) + 1
      <3>1. Cardinality(Loose \cup {Len(google) + 1})
              = IF Len(google) + 1 \in Loose THEN Cardinality(Loose) ELSE Cardinality(Loose) + 1
        BY <1>a, FS_AddElement
      <3> QED  BY <2>3, <2>4, <3>1
    <2>6. AlbumsLostToFailures'
      BY <1>0, <1>a, <1>b, <2>1, <2>5 DEF AlbumsLostToFailures, Loose
    <2> QED  BY <2>1, <2>2, <2>6 DEF PutIsLoose, MappedOnce
  <1>4. CASE Put
    <2>1. /\ DOMAIN chain' = 1 .. Len(chain) + 1 /\ Len(chain) \in Nat
          /\ DOMAIN chain = 1 .. Len(chain)
          /\ chain'[Len(chain) + 1] = [album |-> Len(google), count |-> size]
          /\ \A i \in DOMAIN chain : i \in DOMAIN chain' /\ chain'[i] = chain[i]
      BY <1>0, <1>4, PutExtends, LengthsAreNat DEF Put, RecordsFind
    <2>2. UNCHANGED <<google, left>> /\ step = "put" /\ step' = "mark"
      BY <1>4 DEF Put
    <2>3. DOMAIN chain' = DOMAIN chain \cup {Len(chain) + 1}  BY <2>1
    <2>4. InChain' = InChain \cup {Len(google)}  BY <2>1, <2>3 DEF InChain
    <2>5. Len(google) \in Loose
      <3>1. google \in Seq(SUBSET Asset)  BY <1>0 DEF TypeOK
      <3>2. Len(google) \in DOMAIN google
        BY <1>0, <2>2, <3>1, EmptySeq DEF RecordsFind
      <3> QED  BY <2>2, <3>2 DEF Loose, PutIsLoose
    <2>6. Loose' = Loose \ {Len(google)}  BY <2>2, <2>4 DEF Loose
    <2>7. Cardinality(Loose') = Cardinality(Loose) - 1
      BY <1>a, <2>5, <2>6, FS_RemoveElement
    <2>8. AlbumsLostToFailures'
      BY <1>0, <1>a, <1>b, <2>2, <2>7 DEF AlbumsLostToFailures, Loose
    <2>9. MappedOnce'
      <3>1. \A i \in DOMAIN chain : chain[i].album # Len(google)
        BY <2>5 DEF Loose, InChain
      <3> QED  BY <2>1, <2>3, <3>1 DEF MappedOnce
    <2> QED  BY <2>2, <2>8, <2>9 DEF PutIsLoose
  <1>5. CASE Bump
    <2>1. /\ DOMAIN chain' = DOMAIN chain
          /\ chain'[Len(chain)] = [album |-> Last.album, count |-> Last.count + size]
          /\ \A i \in DOMAIN chain \ {Len(chain)} : chain'[i] = chain[i]
      BY <1>0, <1>5, BumpCounts DEF Bump, RecordsFind
    <2>2. UNCHANGED <<google, left>> /\ step = "bump" /\ step' = "mark"
      BY <1>5 DEF Bump
    <2>3. \A i \in DOMAIN chain : chain'[i].album = chain[i].album
      BY <2>1 DEF Last
    <2>4. InChain' = InChain /\ Loose' = Loose  BY <2>1, <2>2, <2>3 DEF InChain, Loose
    <2>5. AlbumsLostToFailures'
      BY <1>b, <2>2, <2>4 DEF AlbumsLostToFailures, Loose
    <2> QED  BY <2>1, <2>2, <2>3, <2>5 DEF PutIsLoose, MappedOnce
  <1> QED  BY <1>1, <1>2, <1>3, <1>4, <1>5 DEF Next, MirrorStep

LEMMA LooseInit == Init => LooseInv
  <1> SUFFICES ASSUME Init PROVE LooseInv  OBVIOUS
  <1>1. DOMAIN google = {}  BY EmptySeq, LenProperties DEF Init
  <1>2. Cardinality(DOMAIN google \ InChain) = 0  BY <1>1, FS_EmptySet
  <1> QED
    BY <1>2, MirrorAssumption
    DEF Init, LooseInv, AlbumsLostToFailures, PutIsLoose, MappedOnce, Loose

LEMMA LooseHolds == Spec => [](MirrorTypes /\ LooseInv)
  BY LooseInit, LooseNext, MirrorTypesHold, PTL DEF Spec

\* A pass that breaks off costs at most one album nobody will ever add to again: the one
\* it had created and not yet mapped.
THEOREM OneAlbumPerFailure == Spec => []AlbumsLostToFailures
  BY LooseHolds, PTL DEF LooseInv

-----------------------------------------------------------------------------
(* The mirror is exact until a pass breaks off. *)

\* What an undisturbed pass relies on: all that is in Google is marked or about to be,
\* so what is pending is in no album yet.
Apart   == \A g, h \in DOMAIN google : g # h => google[g] \cap google[h] = {}
Held    == \A g \in DOMAIN google : google[g] \subseteq added \cup batch
Fresh   == pending \cap (added \cup batch) = {}
Recorded(i) == IF step = "bump" /\ i = Len(chain) THEN chain[i].count + size ELSE chain[i].count
Counted == /\ \A i \in DOMAIN chain : Recorded(i) = Cardinality(google[chain[i].album])
           /\ step = "put" => size = Cardinality(google[Len(google)])
Exact   == Apart /\ Held /\ Fresh /\ WithinLimit /\ Counted

BetweenBatches == step \in {"idle", "push"} => batch = {}
ExactInv == BetweenBatches /\ (left = Budget => Exact)

\* A step that leaves Google and the chain alone, and neither takes an asset off the
\* books nor makes one pending that is on them.
LEMMA ExactStays ==
  ASSUME Exact, UNCHANGED <<google, chain, size>>,
         \/ UNCHANGED step
         \/ step \notin {"bump", "put"} /\ step' \notin {"bump", "put"},
         added \cup batch \subseteq added' \cup batch', Fresh'
  PROVE  Exact'
  BY DEF Exact, Apart, Held, WithinLimit, Counted, Recorded

LEMMA ExactAdd ==
  ASSUME MirrorTypes, LooseInv, BetweenBatches, Exact, AddToAlbum
  PROVE  Exact'
  <1> USE MirrorAssumption
  <1>0. TypeOK /\ chain \in Seq(Mapping)  BY DEF MirrorTypes, TypeOK, Mapping
  <1>1. PICK S \in Batches :
          /\ chain # <<>> /\ Last.count + Cardinality(S) <= AlbumLimit
          /\ DOMAIN google' = DOMAIN google /\ Len(google') = Len(google)
          /\ google'[Last.album] = google[Last.album] \cup S
          /\ \A g \in DOMAIN google \ {Last.album} : google'[g] = google[g]
          /\ batch' = S /\ size' = Cardinality(S) /\ pending' = pending \ S
    BY <1>0, AddGrows
  <1>2. UNCHANGED <<chain, added>> /\ step = "push" /\ step' = "bump"  BY DEF AddToAlbum
  <1>3. /\ S \subseteq pending /\ IsFiniteSet(S) /\ Cardinality(S) \in Nat
        /\ Last.album \in DOMAIN google /\ Len(chain) \in DOMAIN chain
        /\ Last.count \in Nat
    BY <1>0, <1>1, BatchIsSmall, LastIsMapping
  <1>4. batch = {} /\ \A g \in DOMAIN google : google[g] \cap S = {}
    BY <1>2, <1>3 DEF BetweenBatches, Exact, Held, Fresh
  <1>5. Cardinality(google'[Last.album]) = Last.count + Cardinality(S)
    <2>1. IsFiniteSet(google[Last.album])
      BY <1>0, <1>3, LengthsAreNat, FS_Subset
    <2>2. Cardinality(google[Last.album]) = Last.count
      BY <1>2, <1>3 DEF Exact, Counted, Recorded, Last
    <2>3. google[Last.album] \cap S = {}  BY <1>3, <1>4
    <2>4. Cardinality(google[Last.album] \cup S)
            = Cardinality(google[Last.album]) + Cardinality(S) - Cardinality({})
      BY <1>3, <2>1, <2>3, FS_Union
    <2> QED  BY <1>1, <1>3, <2>2, <2>4, FS_EmptySet
  <1>6. Apart'
    BY <1>1, <1>4 DEF Exact, Apart
  <1>7. Held' /\ Fresh'
    BY <1>1, <1>2, <1>3, <1>4 DEF Exact, Held, Fresh
  <1>8. WithinLimit'
    BY <1>1, <1>5 DEF Exact, WithinLimit
  <1>9. Counted'
    <2>1. ASSUME NEW i \in DOMAIN chain, i # Len(chain)
          PROVE  chain[i].count = Cardinality(google'[chain[i].album])
      <3>1. chain[i].album # Last.album /\ chain[i].album \in DOMAIN google
        BY <1>0, <1>3, <2>1, LengthsAreNat DEF LooseInv, MappedOnce, Last
      <3>2. chain[i].count = Cardinality(google[chain[i].album])
        BY <1>2 DEF Exact, Counted, Recorded
      <3> QED  BY <1>1, <3>1, <3>2
    <2>2. Last.count + size' = Cardinality(google'[Last.album])  BY <1>1, <1>5
    <2> QED  BY <1>2, <2>1, <2>2 DEF Counted, Recorded, Last
  <1> QED  BY <1>6, <1>7, <1>8, <1>9 DEF Exact

LEMMA ExactCreate ==
  ASSUME MirrorTypes, BetweenBatches, Exact, CreateAlbum
  PROVE  Exact'
  <1> USE MirrorAssumption
  <1>0. TypeOK /\ Len(google) \in Nat /\ DOMAIN google = 1 .. Len(google)
    BY LengthsAreNat DEF MirrorTypes
  <1>1. PICK S \in Batches :
          /\ Len(google') = Len(google) + 1 /\ DOMAIN google' = 1 .. Len(google) + 1
          /\ google'[Len(google) + 1] = S
          /\ \A g \in DOMAIN google : g \in DOMAIN google' /\ google'[g] = google[g]
          /\ batch' = S /\ size' = Cardinality(S) /\ pending' = pending \ S
    BY <1>0, CreateGrows
  <1>2. UNCHANGED <<chain, added>> /\ step = "push" /\ step' = "put"  BY DEF CreateAlbum
  <1>3. /\ S \subseteq pending /\ Cardinality(S) \in 0 .. BatchSize
        /\ \A i \in DOMAIN chain : chain[i].album \in DOMAIN google
    BY <1>0, BatchIsSmall, LengthsAreNat
  <1>4. batch = {} /\ \A g \in DOMAIN google : google[g] \cap S = {}
    BY <1>2, <1>3 DEF BetweenBatches, Exact, Held, Fresh
  <1>5. DOMAIN google' = DOMAIN google \cup {Len(google) + 1}  BY <1>0, <1>1
  <1>6. Apart'  BY <1>1, <1>4, <1>5 DEF Exact, Apart
  <1>7. Held' /\ Fresh'
    BY <1>1, <1>2, <1>3, <1>4, <1>5 DEF Exact, Held, Fresh
  <1>8. WithinLimit'
    <2>1. Cardinality(S) <= AlbumLimit  BY <1>3
    <2> QED  BY <1>1, <1>5, <2>1 DEF Exact, WithinLimit
  <1>9. Counted'
    BY <1>1, <1>2, <1>3 DEF Exact, Counted, Recorded
  <1> QED  BY <1>6, <1>7, <1>8, <1>9 DEF Exact

LEMMA ExactRecord ==
  ASSUME MirrorTypes, Exact, Put \/ Bump
  PROVE  Exact'
  <1>0. TypeOK /\ UNCHANGED <<google, added, pending, batch, size>> /\ step' = "mark"
    BY DEF MirrorTypes, Put, Bump
  <1>1. Apart' /\ Held' /\ Fresh' /\ WithinLimit'
    BY <1>0 DEF Exact, Apart, Held, Fresh, WithinLimit
  <1>2. CASE Put
    <2>1. /\ DOMAIN chain' = 1 .. Len(chain) + 1 /\ DOMAIN chain = 1 .. Len(chain)
          /\ Len(chain) \in Nat
          /\ chain'[Len(chain) + 1] = [album |-> Len(google), count |-> size]
          /\ \A i \in DOMAIN chain : chain'[i] = chain[i]
      BY <1>0, <1>2, PutExtends, LengthsAreNat DEF Put, MirrorTypes, RecordsFind
    <2>2. DOMAIN chain' = DOMAIN chain \cup {Len(chain) + 1}  BY <2>1
    <2>3. step = "put"  BY <1>2 DEF Put
    <2>4. Counted'
      BY <1>0, <2>1, <2>2, <2>3 DEF Exact, Counted, Recorded
    <2> QED  BY <1>1, <2>4 DEF Exact
  <1>3. CASE Bump
    <2>1. /\ DOMAIN chain' = DOMAIN chain
          /\ chain'[Len(chain)] = [album |-> Last.album, count |-> Last.count + size]
          /\ \A i \in DOMAIN chain \ {Len(chain)} : chain'[i] = chain[i]
      BY <1>0, <1>3, BumpCounts DEF Bump, MirrorTypes, RecordsFind
    <2>2. step = "bump"  BY <1>3 DEF Bump
    <2>3. Counted'
      BY <1>0, <2>1, <2>2 DEF Exact, Counted, Recorded, Last
    <2> QED  BY <1>1, <2>3 DEF Exact
  <1> QED  BY <1>2, <1>3

LEMMA ExactNext ==
  ASSUME MirrorTypes, LooseInv, ExactInv, [Next]_vars
  PROVE  ExactInv'
  <1> USE MirrorAssumption
  <1>0. left \in Nat /\ left <= Budget /\ batch \subseteq Asset
    BY DEF MirrorTypes, TypeOK
  <1>1. CASE \E a \in batch : MarkAdded(a)
    <2>1. PICK a \in batch : MarkAdded(a)  BY <1>1
    <2>2. /\ added' \cup batch' = added \cup batch
          /\ UNCHANGED <<google, chain, pending, left>>
          /\ step = "mark" /\ step' \in {"mark", "idle", "push"}
          /\ step' # "mark" => batch' = {}
      BY <2>1 DEF MarkAdded, Proceed
    <2>3. ASSUME Exact PROVE Exact'
      <3>1. Apart' /\ Held' /\ Fresh' /\ WithinLimit'
        BY <2>2, <2>3 DEF Exact, Apart, Held, Fresh, WithinLimit
      <3>2. Counted'  BY <2>2, <2>3 DEF Exact, Counted, Recorded
      <3> QED  BY <3>1, <3>2 DEF Exact
    <2> QED  BY <2>2, <2>3 DEF ExactInv, BetweenBatches
  <1>2. CASE BreakOff
    BY <1>0, <1>2 DEF BreakOff, ExactInv, BetweenBatches
  <1>3. CASE SyncOnce
    <2>1. /\ UNCHANGED <<google, chain, added, batch, size, left>>
          /\ step = "idle" /\ step' = "push" /\ pending' \cap added = {}
      BY <1>3 DEF SyncOnce, PendingMediaKeys
    <2>2. Fresh' /\ BetweenBatches'
      BY <2>1 DEF ExactInv, BetweenBatches, Fresh
    <2> QED  BY <2>1, <2>2, ExactStays DEF ExactInv
  <1>4. CASE AddToAlbum
    BY <1>4, ExactAdd DEF AddToAlbum, ExactInv, BetweenBatches
  <1>5. CASE CreateAlbum
    BY <1>5, ExactCreate DEF CreateAlbum, ExactInv, BetweenBatches
  <1>6. CASE Put \/ Bump
    BY <1>6, ExactRecord DEF Put, Bump, ExactInv, BetweenBatches
  <1>7. CASE UNCHANGED vars \/ \E a \in Asset : Place(a) \/ Remove(a) \/ GetKey(a)
    <2>1. UNCHANGED <<google, chain, added, step, pending, batch, size, left>>
      BY <1>7 DEF vars, job, Place, Remove, GetKey
    <2> QED  BY <2>1, ExactStays DEF ExactInv, BetweenBatches, Exact, Fresh
  <1> QED
    BY <1>1, <1>2, <1>3, <1>4, <1>5, <1>6, <1>7 DEF Next, MirrorStep

LEMMA ExactInit == Init => ExactInv
  <1> SUFFICES ASSUME Init PROVE ExactInv  OBVIOUS
  <1>1. DOMAIN google = {} /\ DOMAIN chain = {}  BY EmptySeq, LenProperties DEF Init
  <1> QED
    BY <1>1
    DEF Init, ExactInv, BetweenBatches, Exact, Apart, Held, Fresh, WithinLimit, Counted

LEMMA ExactHolds == Spec => [](MirrorTypes /\ ExactInv)
  BY ExactInit, ExactNext, LooseHolds, PTL DEF Spec

\* Until a pass breaks off the mirror is exact: no member is in two Google albums, none
\* of them holds more than the limit, and item_count is what Google holds whenever no
\* call is being recorded.
THEOREM ExactUntilDisturbed == Spec => []UndisturbedIsExact
  <1>1. ExactInv => UndisturbedIsExact
    BY DEF ExactInv, Exact, Apart, WithinLimit, Counted, Recorded, UndisturbedIsExact
  <1> QED  BY <1>1, ExactHolds, PTL

\* Where no pass ever breaks off, no Google album is asked to hold more than it can: what
\* the albums_overfull run shows takes a call that fails after it took effect.
COROLLARY LimitKept ==
  ASSUME Budget = 0
  PROVE  Spec => []WithinLimit
  <1>1. MirrorTypes /\ ExactInv => WithinLimit
    BY DEF MirrorTypes, TypeOK, ExactInv, Exact
  <1> QED  BY <1>1, ExactHolds, PTL
=============================================================================
