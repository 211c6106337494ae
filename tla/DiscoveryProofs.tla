--------------------------- MODULE DiscoveryProofs ---------------------------
(***************************************************************************)
(* Theorems about Discovery, for any library, page size, overlap, delays   *)
(* and number of passes that break off.                                    *)
(***************************************************************************)
EXTENDS Discovery, TLAPS, FiniteSetTheorems

-----------------------------------------------------------------------------
(* Pages. *)

\* What integer division is.
LEMMA Division ==
  ASSUME NEW n \in Nat, NEW d \in Nat \ {0}
  PROVE  /\ n \div d \in Nat
         /\ d * (n \div d) <= n
         /\ n < d * (n \div d) + d
  OBVIOUS

\* A product grows with its factors.
LEMMA ProductGrows ==
  ASSUME NEW d \in Nat, NEW m \in Nat, NEW n \in Nat, m <= n
  PROVE  d * m <= d * n
  <1> DEFINE k == n - m
  <1>1. k \in Nat /\ n = m + k  OBVIOUS
  <1> HIDE DEF k
  <1>2. d * n = d * m + d * k  BY <1>1
  <1>3. d * k \in Nat /\ d * m \in Nat  BY <1>1
  <1> QED  BY <1>2, <1>3

\* How a quotient compares with a number.
LEMMA QuotientAtLeast ==
  ASSUME NEW n \in Nat, NEW d \in Nat \ {0}, NEW q \in Nat
  PROVE  n \div d >= q <=> n >= q * d
  <1> DEFINE r == n \div d
  <1>1. r \in Nat /\ d * r <= n /\ n < d * r + d  BY Division
  <1> HIDE DEF r
  <1>2. d * r \in Nat /\ d * q \in Nat /\ q * d = d * q  BY <1>1
  <1>3. ASSUME r >= q PROVE n >= q * d
    <2>1. d * q <= d * r  BY <1>1, <1>3, ProductGrows
    <2> QED  BY <1>1, <1>2, <2>1
  <1>4. ASSUME ~ (r >= q) PROVE ~ (n >= q * d)
    <2>1. d * (r + 1) <= d * q  BY <1>1, <1>4, ProductGrows
    <2>2. d * (r + 1) = d * r + d  BY <1>1
    <2> QED  BY <1>1, <1>2, <2>1, <2>2
  <1> QED  BY <1>3, <1>4 DEF r

Before(a, found) == {b \in found : b < a}

LEMMA BeforeIsFinite ==
  ASSUME NEW found \in SUBSET Asset, NEW a \in Asset
  PROVE  /\ IsFiniteSet(found) /\ IsFiniteSet(Before(a, found))
         /\ Cardinality(found) \in Nat /\ Cardinality(Before(a, found)) \in Nat
  BY DiscoveryAssumption, FS_Subset, FS_CardinalityType DEF Before

LEMMA PageIsNat ==
  ASSUME NEW found \in SUBSET Asset, NEW a \in Asset
  PROVE  PageOf(a, found) \in Nat \ {0}
  <1>1. Cardinality(Before(a, found)) \div PageSize \in Nat
    BY BeforeIsFinite, DiscoveryAssumption, Division
  <1> QED  BY <1>1 DEF PageOf, Before

\* As a result grows its assets only move to later pages.
LEMMA PagesMoveOn ==
  ASSUME NEW found \in SUBSET Asset, NEW later \in SUBSET Asset, found \subseteq later,
         NEW a \in Asset
  PROVE  PageOf(a, found) <= PageOf(a, later)
  <1> DEFINE m == Cardinality(Before(a, found))
             n == Cardinality(Before(a, later))
  <1>1. m \in Nat /\ n \in Nat /\ PageSize \in Nat \ {0}
    BY BeforeIsFinite, DiscoveryAssumption
  <1>2. m <= n
    <2>1. Before(a, found) \in SUBSET Before(a, later)  BY DEF Before
    <2> QED  BY <2>1, BeforeIsFinite, FS_Subset
  <1> HIDE DEF m, n
  <1>3. m \div PageSize \in Nat /\ n \div PageSize \in Nat  BY <1>1, Division
  <1>4. m >= (m \div PageSize) * PageSize  BY <1>1, <1>3, QuotientAtLeast
  <1>5. (m \div PageSize) * PageSize \in Nat  BY <1>1, <1>3
  <1>6. n >= (m \div PageSize) * PageSize  BY <1>1, <1>2, <1>4, <1>5
  <1>7. n \div PageSize >= m \div PageSize  BY <1>1, <1>3, <1>6, QuotientAtLeast
  <1> QED  BY <1>3, <1>7 DEF PageOf, Before, m, n

\* An asset on a later page makes the answer name a next page.
LEMMA LaterPageIsNamed ==
  ASSUME NEW found \in SUBSET Asset, NEW a \in found, NEW p \in Nat, PageOf(a, found) > p
  PROVE  HasMore(found, p)
  <1> DEFINE m == Cardinality(Before(a, found))
  <1>1. m \in Nat /\ PageSize \in Nat \ {0} /\ Cardinality(found) \in Nat /\ a \in Asset
    BY BeforeIsFinite, DiscoveryAssumption
  <1>2. m + 1 <= Cardinality(found)
    <2>1. a \notin Before(a, found) /\ IsFiniteSet(Before(a, found))
      BY <1>1, BeforeIsFinite, DiscoveryAssumption DEF Before
    <2>2. Cardinality(Before(a, found) \cup {a}) = m + 1  BY <2>1, FS_AddElement
    <2>3. Before(a, found) \cup {a} \in SUBSET found  BY DEF Before
    <2> QED  BY <2>2, <2>3, BeforeIsFinite, FS_Subset
  <1>3. m \div PageSize >= p
    <2>1. PageOf(a, found) = 1 + m \div PageSize  BY DEF PageOf, Before
    <2>2. m \div PageSize \in Nat  BY <1>1, Division
    <2> QED  BY <2>1, <2>2
  <1> HIDE DEF m
  <1>4. m >= p * PageSize  BY <1>1, <1>3, QuotientAtLeast
  <1>5. p * PageSize \in Nat  BY <1>1
  <1> QED  BY <1>1, <1>2, <1>4, <1>5 DEF HasMore

\* And a next page that is named can be asked for.
LEMMA NextPageExists ==
  ASSUME NEW found \in SUBSET Asset, NEW p \in Nat, HasMore(found, p)
  PROVE  MaxPages \in Nat /\ p < MaxPages
  <1> DEFINE c == Cardinality(Asset)
  <1>1. /\ c \in Nat /\ Cardinality(found) \in Nat /\ Cardinality(found) <= c
        /\ PageSize \in Nat \ {0}
    BY DiscoveryAssumption, FS_CardinalityType, FS_Subset
  <1>2. p * PageSize \in Nat /\ Cardinality(found) > p * PageSize
    BY <1>1 DEF HasMore
  <1>3. Asset # {} /\ c - 1 \in Nat
    BY <1>1, <1>2, FS_EmptySet
  <1>4. c - 1 >= p * PageSize  BY <1>1, <1>2
  <1>5. (c - 1) \div PageSize \in Nat /\ (c - 1) \div PageSize >= p
    BY <1>1, <1>3, <1>4, Division, QuotientAtLeast
  <1> QED  BY <1>3, <1>5 DEF MaxPages

LEMMA SomePage == MaxPages \in Nat \ {0}
  <1>1. CASE Asset = {}  BY <1>1 DEF MaxPages
  <1>2. CASE Asset # {}
    <2>1. Cardinality(Asset) \in Nat /\ Cardinality(Asset) # 0 /\ PageSize \in Nat \ {0}
      BY <1>2, DiscoveryAssumption, FS_CardinalityType, FS_EmptySet
    <2>2. Cardinality(Asset) - 1 \in Nat  BY <2>1
    <2>3. (Cardinality(Asset) - 1) \div PageSize \in Nat  BY <2>1, <2>2, Division
    <2> QED  BY <1>2, <2>3 DEF MaxPages
  <1> QED  BY <1>1, <1>2

-----------------------------------------------------------------------------
(* Types. *)

\* TypeOK is not inductive alone: what is fetched or on its way is no newer than the
\* asset, and a next page that was named exists.
JobsAgree    == job.kind = "none" <=> job.at = "idle"
FetchedInUse == job.at # "store" => fetched = {}
NextIsThere  == job.at = "store" /\ more => page < MaxPages
NothingNewer == /\ \A s \in fetched : s.stamp <= stamp[s.asset]
                /\ \A h \in hooks : h.stamp <= stamp[h.asset]
ReadingTypes == TypeOK /\ JobsAgree /\ FetchedInUse /\ NextIsThere /\ NothingNewer

\* The step of a job, and its end, are well typed.
LEMMA JobTypes ==
  ASSUME NEW kind \in {"none", "reconcile", "backfill"}, NEW step \in Jobs
  PROVE  [kind |-> kind, at |-> step] \in [kind : {"none", "reconcile", "backfill"}, at : Jobs]
  OBVIOUS

LEMMA EndJobTypes ==
  ASSUME ReadingTypes, EndJob
  PROVE  /\ job' \in [kind : {"none", "reconcile", "backfill"}, at : Jobs]
         /\ job'.kind = "none" /\ job'.at = "idle"
         /\ started' = 0 /\ page' \in 1 .. MaxPages /\ fetched' = {} /\ more' = FALSE
  BY SomePage DEF EndJob, Go, Jobs

\* What the answer to a search holds.
LEMMA AskTypes ==
  ASSUME ReadingTypes, AskPage
  PROVE  /\ fetched' \subseteq Snapshot
         /\ \A s \in fetched' : s.stamp = stamp[s.asset]
         /\ more' \in BOOLEAN /\ (more' => page < MaxPages)
  <1> DEFINE found == Matches(job.kind)
  <1>1. /\ fetched' = {[asset |-> a, stamp |-> stamp[a]] :
                          a \in {b \in found : PageOf(b, found) = page}}
        /\ more' = HasMore(found, page)
    BY DEF AskPage
  <1>2. /\ found \subseteq Asset /\ page \in Nat /\ now \in Nat /\ now <= MaxTime
        /\ stamp \in [Asset -> 0 .. now]
        /\ \A a \in found : stamp[a] # 0
    BY SomePage, DiscoveryAssumption DEF Matches, ReadingTypes, TypeOK
  <1> HIDE DEF found
  <1>3. \A a \in found : stamp[a] \in 1 .. MaxTime  BY <1>2, DiscoveryAssumption
  <1>4. fetched' \subseteq Snapshot  BY <1>1, <1>2, <1>3 DEF Snapshot
  <1>5. \A s \in fetched' : s.stamp = stamp[s.asset]  BY <1>1
  <1>6. more' \in BOOLEAN  BY <1>1 DEF HasMore
  <1>7. more' => page < MaxPages  BY <1>1, <1>2, NextPageExists
  <1> QED  BY <1>4, <1>5, <1>6, <1>7

\* Immich's own steps: stamps only grow, and keep up with the clock.
LEMMA ImmichMoves ==
  ASSUME ReadingTypes, NEW a \in Asset, Appear(a) \/ Change(a)
  PROVE  /\ stamp' \in [Asset -> 0 .. now]
         /\ stamp'[a] > stamp[a] /\ stamp'[a] >= now - MaxSkew /\ stamp'[a] \in 1 .. now
         /\ \A b \in Asset \ {a} : stamp'[b] = stamp[b]
  <1>1. now \in 1 .. MaxTime /\ stamp \in [Asset -> 0 .. now] /\ MaxTime \in Nat
    BY DiscoveryAssumption DEF ReadingTypes, TypeOK
  <1>2. PICK s \in Stamps : s > stamp[a] /\ stamp' = [stamp EXCEPT ![a] = s]
    BY <1>1 DEF Appear, Change, Stamps
  <1> QED  BY <1>1, <1>2 DEF Stamps

LEMMA SlipsAreAssets == \A a : SlipsPast(a) \subseteq Asset
  BY DEF SlipsPast, Matches

LEMMA ReadingNext == ReadingTypes /\ [Next]_vars => ReadingTypes'
  <1> SUFFICES ASSUME ReadingTypes, [Next]_vars PROVE ReadingTypes'  OBVIOUS
  <1> USE DiscoveryAssumption, SomePage
  <1>0. /\ now \in 1 .. MaxTime /\ stamp \in [Asset -> 0 .. now] /\ row \in [Asset -> 0 .. now]
        /\ page \in 1 .. MaxPages /\ fetched \subseteq Snapshot
        /\ job \in [kind : {"none", "reconcile", "backfill"}, at : Jobs]
    BY DEF ReadingTypes, TypeOK
  <1>1. CASE PlantCursor \/ BeginPass \/ BeginSlice \/ NextPage
    <2>1. /\ cursor' \in 0 .. now /\ origin' \in 0 .. now
          /\ UNCHANGED <<now, immich, row, walk, left, fetched, more, slipped>>
      BY <1>0, <1>1
      DEF PlantCursor, BeginPass, BeginSlice, NextPage, ReadingTypes, TypeOK, reading
    <2>2. started' \in 0 .. now
      BY <1>0, <1>1
      DEF PlantCursor, BeginPass, BeginSlice, NextPage, ReadingTypes, TypeOK, reading
    <2>3. page' \in 1 .. MaxPages
      BY <1>0, <1>1
      DEF PlantCursor, BeginPass, BeginSlice, NextPage, ReadingTypes, TypeOK, reading,
          NextIsThere, At
    <2>4. /\ job' \in [kind : {"none", "reconcile", "backfill"}, at : Jobs]
          /\ JobsAgree' /\ job'.at # "store" /\ fetched = {}
      BY <1>0, <1>1
      DEF PlantCursor, BeginPass, BeginSlice, NextPage, ReadingTypes, reading, Go, Idle, At,
          Jobs, JobsAgree, FetchedInUse
    <2> QED
      BY <2>1, <2>2, <2>3, <2>4
      DEF ReadingTypes, TypeOK, FetchedInUse, NextIsThere, NothingNewer, immich, walk
  <1>2. CASE AskPage
    <2>1. /\ fetched' \subseteq Snapshot
          /\ \A s \in fetched' : s.stamp = stamp[s.asset]
          /\ more' \in BOOLEAN /\ (more' => page < MaxPages)
      BY <1>2, AskTypes
    <2>2. /\ job' \in [kind : {"none", "reconcile", "backfill"}, at : Jobs]
          /\ JobsAgree' /\ job'.at = "store"
      BY <1>0, <1>2 DEF AskPage, Go, Jobs, ReadingTypes, JobsAgree
    <2>3. UNCHANGED <<now, immich, row, cursor, origin, walk, started, page, slipped, left>>
      BY <1>2 DEF AskPage
    <2>4. \A s \in fetched' : s.stamp <= stamp[s.asset]
      BY <2>1 DEF Snapshot
    <2> QED
      BY <2>1, <2>2, <2>3, <2>4
      DEF ReadingTypes, TypeOK, FetchedInUse, NextIsThere, NothingNewer, immich, walk
  <1>3. ASSUME NEW s \in fetched, StoreAsset(s) PROVE ReadingTypes'
    <2>1. s.asset \in Asset /\ s.stamp \in 0 .. now
      <3>1. s.asset \in Asset /\ s.stamp \in 1 .. MaxTime  BY <1>0, <1>3 DEF Snapshot
      <3>2. s.stamp <= stamp[s.asset]  BY <1>3 DEF ReadingTypes, NothingNewer
      <3>3. stamp[s.asset] \in 0 .. now  BY <1>0, <3>1
      <3> QED  BY <1>0, <3>1, <3>2, <3>3
    <2>2. row' \in [Asset -> 0 .. now]  BY <1>0, <1>3, <2>1 DEF StoreAsset
    <2>3. /\ fetched' \subseteq fetched /\ job.at = "store" /\ slipped' \subseteq slipped
          /\ UNCHANGED <<now, immich, cursor, origin, walk, job, started, page, more, left>>
      BY <1>3 DEF StoreAsset
    <2>4. NothingNewer'  BY <2>3 DEF ReadingTypes, NothingNewer, immich
    <2> QED
      BY <2>2, <2>3, <2>4
      DEF ReadingTypes, TypeOK, JobsAgree, FetchedInUse, NextIsThere, immich, walk
  <1>4. CASE EndPass \/ EndSlice \/ BreakOff
    <2>1. EndJob /\ UNCHANGED <<now, immich, row, origin, toWalk>>
      BY <1>4 DEF EndPass, EndSlice, BreakOff, walk
    <2>2. cursor' \in 0 .. now /\ walkAt' \in 0 .. MaxPages /\ left' \in 0 .. Budget
      BY <1>0, <1>4
      DEF EndPass, EndSlice, BreakOff, walk, At, ReadingTypes, TypeOK, NextIsThere
    <2>7. slipped' \subseteq Asset
      BY <1>4 DEF EndPass, EndSlice, BreakOff, ReadingTypes, TypeOK
    <2>3. /\ job' \in [kind : {"none", "reconcile", "backfill"}, at : Jobs]
          /\ job'.kind = "none" /\ job'.at = "idle"
          /\ started' = 0 /\ page' \in 1 .. MaxPages /\ fetched' = {} /\ more' = FALSE
      BY <2>1, EndJobTypes
    <2>4. TypeOK'
      <3>1. /\ now' = now /\ stamp' = stamp /\ hooks' = hooks
            /\ trash' = trash /\ gone' = gone
            /\ row' = row /\ origin' = origin /\ toWalk' = toWalk
        BY <2>1 DEF immich
      <3>2. started' \in 0 .. now'  BY <1>0, <2>3, <3>1
      <3>3. fetched' \subseteq Snapshot /\ more' \in BOOLEAN  BY <2>3
      <3> QED  BY <2>2, <2>3, <2>7, <3>1, <3>2, <3>3 DEF ReadingTypes, TypeOK
    <2>5. NothingNewer'  BY <2>1, <2>3 DEF ReadingTypes, NothingNewer, immich
    <2>6. JobsAgree' /\ FetchedInUse' /\ NextIsThere'
      BY <2>3 DEF JobsAgree, FetchedInUse, NextIsThere
    <2> QED  BY <2>4, <2>5, <2>6 DEF ReadingTypes
  <1>5. CASE PressStart \/ PressReset
    <2>1. walkAt' \in 0 .. MaxPages /\ toWalk' \subseteq Asset
      BY <1>5 DEF PressStart, PressReset, Live
    <2>2. UNCHANGED <<now, immich, row, cursor, origin, reading, slipped, left>>
      BY <1>5 DEF PressStart, PressReset
    <2>3. TypeOK'  BY <2>1, <2>2 DEF ReadingTypes, TypeOK, immich, reading
    <2>4. JobsAgree' /\ FetchedInUse' /\ NextIsThere' /\ NothingNewer'
      BY <2>2
      DEF ReadingTypes, JobsAgree, FetchedInUse, NextIsThere, NothingNewer, immich, reading
    <2> QED  BY <2>3, <2>4 DEF ReadingTypes
  <1>6. ASSUME NEW h \in hooks, ReceiveWebhook(h) PROVE ReadingTypes'
    <2>1. h.asset \in Asset /\ h.stamp \in 0 .. now
      <3>1. h \in [asset : Asset, stamp : 1 .. MaxTime, until : 1 .. MaxTime + MaxDelay]
        BY <1>6 DEF ReadingTypes, TypeOK
      <3>2. h.stamp <= stamp[h.asset]  BY <1>6 DEF ReadingTypes, NothingNewer
      <3>3. h.asset \in Asset /\ h.stamp \in 1 .. MaxTime  BY <3>1
      <3>4. stamp[h.asset] \in 0 .. now  BY <1>0, <3>3
      <3> QED  BY <1>0, <3>2, <3>3, <3>4
    <2>2. row' \in [Asset -> 0 .. now]  BY <1>0, <1>6, <2>1 DEF ReceiveWebhook
    <2> QED
      BY <1>6, <2>2
      DEF ReceiveWebhook, ReadingTypes, TypeOK, JobsAgree, FetchedInUse, NextIsThere,
          NothingNewer, reading, walk
  <1>7. ASSUME NEW a \in Asset, Appear(a) \/ Change(a) PROVE ReadingTypes'
    <2>1. /\ stamp' \in [Asset -> 0 .. now] /\ stamp'[a] > stamp[a] /\ stamp'[a] \in 1 .. now
          /\ \A b \in Asset \ {a} : stamp'[b] = stamp[b]
      BY <1>7, ImmichMoves
    <2>2. /\ trash' \subseteq Asset /\ gone' \subseteq Asset /\ toWalk' \subseteq Asset
          /\ slipped' \subseteq Asset
          /\ UNCHANGED <<now, row, cursor, origin, walkAt, reading, left>>
      BY <1>7, SlipsAreAssets DEF Appear, Change, ReadingTypes, TypeOK, walk
    <2>3. \/ UNCHANGED hooks
          \/ hooks' = hooks \cup {[asset |-> a, stamp |-> stamp'[a], until |-> now + MaxDelay]}
      BY <1>0, <1>7 DEF Appear, Change
    <2>4. hooks' \subseteq [asset : Asset, stamp : 1 .. MaxTime, until : 1 .. MaxTime + MaxDelay]
      <3>1. [asset |-> a, stamp |-> stamp'[a], until |-> now + MaxDelay]
              \in [asset : Asset, stamp : 1 .. MaxTime, until : 1 .. MaxTime + MaxDelay]
        BY <1>0, <2>1
      <3> QED  BY <2>3, <3>1 DEF ReadingTypes, TypeOK
    <2>5. \A b \in Asset : stamp[b] <= stamp'[b]  BY <1>0, <2>1
    <2>6. NothingNewer'
      <3>1. ASSUME NEW s \in fetched PROVE s.stamp <= stamp'[s.asset]
        <4>1. s \in Snapshot  BY <1>0
        <4>2. s.asset \in Asset /\ s.stamp \in Nat  BY <4>1 DEF Snapshot
        <4>3. s.stamp <= stamp[s.asset]  BY DEF ReadingTypes, NothingNewer
        <4>4. stamp[s.asset] <= stamp'[s.asset]  BY <2>5, <4>2
        <4>5. stamp[s.asset] \in 0 .. now  BY <1>0, <4>2
        <4>6. stamp'[s.asset] \in 0 .. now  BY <2>1, <4>2
        <4> QED  BY <1>0, <4>2, <4>3, <4>4, <4>5, <4>6
      <3>2. ASSUME NEW h \in hooks PROVE h.stamp <= stamp'[h.asset]
        <4>1. h \in [asset : Asset, stamp : 1 .. MaxTime, until : 1 .. MaxTime + MaxDelay]
          BY DEF ReadingTypes, TypeOK
        <4>2. h.asset \in Asset /\ h.stamp \in Nat  BY <4>1
        <4>3. h.stamp <= stamp[h.asset]  BY DEF ReadingTypes, NothingNewer
        <4>4. stamp[h.asset] <= stamp'[h.asset]  BY <2>5, <4>2
        <4>5. stamp[h.asset] \in 0 .. now  BY <1>0, <4>2
        <4>6. stamp'[h.asset] \in 0 .. now  BY <2>1, <4>2
        <4> QED  BY <1>0, <4>2, <4>3, <4>4, <4>5, <4>6
      <3>3. ASSUME NEW h \in hooks' PROVE h.stamp <= stamp'[h.asset]
        BY <2>1, <2>3, <3>2, <3>3
      <3> QED  BY <2>2, <3>1, <3>3 DEF NothingNewer, reading
    <2> QED
      BY <2>1, <2>2, <2>4, <2>6
      DEF ReadingTypes, TypeOK, JobsAgree, FetchedInUse, NextIsThere, reading
  <1>8. CASE Clock
    <2>1. now' \in 1 .. MaxTime /\ 0 .. now \subseteq 0 .. now' /\ hooks' \subseteq hooks
      BY <1>0, <1>8 DEF Clock
    <2>2. UNCHANGED <<stamp, trash, gone, row, cursor, origin, walk, reading, slipped, left>>
      BY <1>8 DEF Clock
    <2>3. stamp' \in [Asset -> 0 .. now'] /\ row' \in [Asset -> 0 .. now']
      BY <1>0, <2>1, <2>2
    <2> QED
      BY <2>1, <2>2, <2>3
      DEF ReadingTypes, TypeOK, JobsAgree, FetchedInUse, NextIsThere, NothingNewer, reading, walk
  <1>9. CASE UNCHANGED vars
    BY <1>9
    DEF vars, ReadingTypes, TypeOK, JobsAgree, FetchedInUse, NextIsThere, NothingNewer, immich,
        reading, walk
  <1>10. ASSUME NEW a \in Asset, DeleteForGood(a) PROVE ReadingTypes'
    <2>1. /\ trash' \subseteq Asset /\ gone' \subseteq Asset /\ toWalk' \subseteq Asset
          /\ slipped' \subseteq Asset
      BY <1>10, SlipsAreAssets DEF DeleteForGood, ReadingTypes, TypeOK
    <2>2. UNCHANGED <<now, stamp, hooks, row, cursor, origin, walkAt, reading, left>>
      BY <1>10 DEF DeleteForGood
    <2> QED
      BY <2>1, <2>2
      DEF ReadingTypes, TypeOK, JobsAgree, FetchedInUse, NextIsThere, NothingNewer, reading
  <1> QED
    BY <1>1, <1>2, <1>3, <1>4, <1>5, <1>6, <1>7, <1>8, <1>9, <1>10 DEF Next, ReadStep

LEMMA ReadingHolds == Spec => []ReadingTypes
  <1>1. Init => ReadingTypes
    <2> SUFFICES ASSUME Init PROVE ReadingTypes  OBVIOUS
    <2>1. job \in [kind : {"none", "reconcile", "backfill"}, at : Jobs]
      BY DEF Init, Jobs
    <2>2. /\ now \in 1 .. MaxTime /\ stamp \in [Asset -> 0 .. now]
          /\ row \in [Asset -> 0 .. now]
      BY DiscoveryAssumption DEF Init
    <2>3. page \in 1 .. MaxPages /\ walkAt \in 0 .. MaxPages /\ left \in 0 .. Budget
      BY DiscoveryAssumption, SomePage DEF Init
    <2>4. /\ cursor \in 0 .. now /\ origin \in 0 .. now /\ started \in 0 .. now
          /\ more \in BOOLEAN
      <3>1. 0 \in 0 .. now  BY DEF Init
      <3> QED  BY <3>1 DEF Init
    <2>6. /\ trash \subseteq Asset /\ gone \subseteq Asset /\ toWalk \subseteq Asset
          /\ slipped \subseteq Asset /\ fetched \subseteq Snapshot
      BY DEF Init
    <2>7. hooks \subseteq [asset : Asset, stamp : 1 .. MaxTime, until : 1 .. MaxTime + MaxDelay]
      BY DEF Init
    <2>5. JobsAgree /\ FetchedInUse /\ NextIsThere /\ NothingNewer
      BY DEF Init, JobsAgree, FetchedInUse, NextIsThere, NothingNewer
    <2> QED  BY <2>1, <2>2, <2>3, <2>4, <2>5, <2>6, <2>7 DEF ReadingTypes, TypeOK
  <1> QED  BY <1>1, ReadingNext, PTL DEF Spec

\* Every variable keeps its type: no page past the last is ever asked for, and no row is
\* stamped with a time to come.
THEOREM DiscoveryTypes == Spec => []TypeOK
  BY ReadingHolds, PTL DEF ReadingTypes

-----------------------------------------------------------------------------
(* The walk. *)

\* An asset the walk owes a row to is live, and without a row it is still ahead: on the
\* page the cursor names or a later one, and in the middle of a slice on the page being
\* read or a later one.
WalkedIsLive == toWalk \subseteq Live
StillAhead ==
    \A a \in toWalk : row[a] # 0 \/ (walkAt # 0 /\ PageOf(a, Live) >= walkAt)
AheadInSlice ==
    job.kind = "backfill" =>
        \A a \in toWalk :
            \/ row[a] # 0
            \/ job.at = "ask" /\ PageOf(a, Live) >= page
            \/ job.at = "store" /\ \E s \in fetched : s.asset = a
            \/ job.at = "store" /\ more /\ PageOf(a, Live) > page
WalkInv == WalkedIsLive /\ StillAhead /\ AheadInSlice

\* The library a slice walks is what a search of the backfill finds.
LEMMA LiveMatches == Live = Matches("backfill") /\ Live \subseteq Asset
  BY DEF Live, Matches

\* A step under which the library only grows, and no row is lost, keeps what is ahead ahead.
LEMMA AheadKept ==
  ASSUME StillAhead, WalkedIsLive, Live \subseteq Live', ReadingTypes, ReadingTypes',
         \A a \in Asset : row[a] # 0 => row'[a] # 0,
         walkAt' = walkAt, toWalk' \subseteq toWalk
  PROVE  StillAhead' /\ WalkedIsLive'
  <1>1. Live \in SUBSET Asset /\ Live' \in SUBSET Asset  BY DEF Live
  <1>2. ASSUME NEW a \in toWalk', ~ (row'[a] # 0)
        PROVE  walkAt' # 0 /\ PageOf(a, Live)' >= walkAt'
    <2>1. a \in toWalk /\ a \in Asset  BY <1>1, <1>2 DEF WalkedIsLive
    <2>2. walkAt # 0 /\ PageOf(a, Live) >= walkAt  BY <1>2, <2>1 DEF StillAhead
    <2>3. PageOf(a, Live) <= PageOf(a, Live')  BY <1>1, <2>1, PagesMoveOn
    <2>4. PageOf(a, Live) \in Nat /\ PageOf(a, Live') \in Nat  BY <1>1, <2>1, PageIsNat
    <2>5. walkAt \in Nat  BY SomePage DEF ReadingTypes, TypeOK
    <2>6. PageOf(a, Live)' = PageOf(a, Live')  BY DEF PageOf
    <2> QED  BY <2>2, <2>3, <2>4, <2>5, <2>6
  <1>3. StillAhead'  BY <1>2 DEF StillAhead
  <1> QED  BY <1>3 DEF WalkedIsLive

LEMMA SliceKept ==
  ASSUME AheadInSlice, WalkedIsLive, Live \subseteq Live', ReadingTypes,
         \A a \in Asset : row[a] # 0 => row'[a] # 0,
         toWalk' \subseteq toWalk, UNCHANGED reading
  PROVE  AheadInSlice'
  <1>1. Live \in SUBSET Asset /\ Live' \in SUBSET Asset  BY DEF Live
  <1>2. ASSUME job.kind = "backfill", NEW a \in toWalk', ~ (row'[a] # 0)
        PROVE  \/ job.at = "ask" /\ PageOf(a, Live)' >= page
               \/ job.at = "store" /\ \E s \in fetched : s.asset = a
               \/ job.at = "store" /\ more /\ PageOf(a, Live)' > page
    <2>1. a \in toWalk /\ a \in Asset  BY <1>1, <1>2 DEF WalkedIsLive
    <2>2. \/ job.at = "ask" /\ PageOf(a, Live) >= page
          \/ job.at = "store" /\ \E s \in fetched : s.asset = a
          \/ job.at = "store" /\ more /\ PageOf(a, Live) > page
      BY <1>2, <2>1 DEF AheadInSlice
    <2>3. PageOf(a, Live) <= PageOf(a, Live')  BY <1>1, <2>1, PagesMoveOn
    <2>4. PageOf(a, Live) \in Nat /\ PageOf(a, Live') \in Nat  BY <1>1, <2>1, PageIsNat
    <2>5. page \in Nat  BY SomePage DEF ReadingTypes, TypeOK
    <2>6. PageOf(a, Live)' = PageOf(a, Live')  BY DEF PageOf
    <2> QED  BY <2>2, <2>3, <2>4, <2>5, <2>6
  <1>3. UNCHANGED <<job, page, fetched, more>>  BY DEF reading
  <1> QED  BY <1>2, <1>3 DEF AheadInSlice

\* Whatever is upserted, from a page or a webhook, gives its asset a row.
LEMMA RowsStay ==
  ASSUME ReadingTypes, NEW s, s \in fetched \/ s \in hooks, row' = [row EXCEPT ![s.asset] = s.stamp]
  PROVE  /\ s.asset \in Asset /\ s.stamp # 0 /\ row'[s.asset] = s.stamp
         /\ \A a \in Asset : row[a] # 0 => row'[a] # 0
  <1>1. s.asset \in Asset /\ s.stamp \in 1 .. MaxTime
    <2>1. CASE s \in fetched  BY <2>1 DEF ReadingTypes, TypeOK, Snapshot
    <2>2. CASE s \in hooks
      <3>1. s \in [asset : Asset, stamp : 1 .. MaxTime, until : 1 .. MaxTime + MaxDelay]
        BY <2>2 DEF ReadingTypes, TypeOK
      <3> QED  BY <3>1
    <2> QED  BY <2>1, <2>2
  <1>2. row \in [Asset -> 0 .. now]  BY DEF ReadingTypes, TypeOK
  <1>3. s.stamp # 0  BY <1>1
  <1> QED  BY <1>1, <1>2, <1>3

\* Immich's steps take nothing out of the library, or the walk owes nothing any more.
LEMMA LibraryGrows ==
  ASSUME ReadingTypes, NEW a \in Asset, Appear(a) \/ Change(a)
  PROVE  toWalk' = {} \/ (toWalk' = toWalk /\ Live \subseteq Live')
  <1>0. gone' = gone  BY DEF Appear, Change
  <1>1. /\ stamp \in [Asset -> 0 .. now] /\ stamp' \in [Asset -> 0 .. now]
        /\ stamp'[a] \in 1 .. now /\ \A b \in Asset \ {a} : stamp'[b] = stamp[b]
    BY ImmichMoves DEF ReadingTypes, TypeOK
  <1>2. \A b \in Asset : stamp[b] # 0 => stamp'[b] # 0
    <2> SUFFICES ASSUME NEW b \in Asset, stamp[b] # 0 PROVE stamp'[b] # 0  OBVIOUS
    <2> QED  BY <1>1
  <1>3. toWalk' = {} \/ (toWalk' = toWalk /\ trash' \subseteq trash)
    BY DEF Appear, Change, walk
  <1> QED  BY <1>0, <1>2, <1>3 DEF Live

LEMMA DeletionIsSeen ==
  ASSUME NEW a \in Asset, DeleteForGood(a)
  PROVE  toWalk' = {} \/ (toWalk' = toWalk /\ Live \subseteq Live')
  BY DEF DeleteForGood, Live

\* A slice that ends leaves what it did not reach to the next.
LEMMA SliceEnds ==
  ASSUME ReadingTypes, ReadingTypes', WalkInv, EndSlice
  PROVE  WalkInv'
  <1>1. /\ job.kind = "backfill" /\ job.at = "store" /\ fetched = {}
        /\ walkAt' = IF more THEN page + 1 ELSE 0
        /\ EndJob /\ UNCHANGED <<immich, row, toWalk>>
    BY DEF EndSlice, At
  <1>2. ASSUME NEW a \in toWalk, ~ (row[a] # 0) PROVE more /\ PageOf(a, Live) >= page + 1
    <2>1. a \in Asset /\ Live \in SUBSET Asset  BY DEF WalkInv, WalkedIsLive, Live
    <2>2. more /\ PageOf(a, Live) > page  BY <1>1, <1>2 DEF WalkInv, AheadInSlice
    <2>3. PageOf(a, Live) \in Nat /\ page \in Nat
      BY <2>1, PageIsNat, SomePage DEF ReadingTypes, TypeOK
    <2> QED  BY <2>2, <2>3
  <1>3. Live' = Live /\ page \in Nat
    BY <1>1, SomePage DEF Live, immich, ReadingTypes, TypeOK
  <1>4. \A a \in Asset : PageOf(a, Live)' = PageOf(a, Live)  BY <1>3 DEF PageOf
  <1>5. StillAhead'
    <2> SUFFICES ASSUME NEW a \in toWalk, ~ (row[a] # 0)
                 PROVE  walkAt' # 0 /\ PageOf(a, Live)' >= walkAt'
      BY <1>1 DEF StillAhead
    <2>1. more /\ PageOf(a, Live) >= page + 1  BY <1>2
    <2>2. walkAt' = page + 1  BY <1>1, <2>1
    <2>3. a \in Asset  BY DEF WalkInv, WalkedIsLive, Live
    <2> QED  BY <1>3, <1>4, <2>1, <2>2, <2>3
  <1>6. job'.kind = "none"  BY <1>1, EndJobTypes
  <1> QED  BY <1>1, <1>3, <1>5, <1>6 DEF WalkInv, WalkedIsLive, AheadInSlice

\* A page that was asked for holds what was on it, and names a next page for the rest.
LEMMA SliceAsks ==
  ASSUME ReadingTypes, ReadingTypes', WalkInv, AskPage
  PROVE  WalkInv'
  <1>1. /\ job.at = "ask" /\ job' = [kind |-> job.kind, at |-> "store"]
        /\ UNCHANGED <<immich, row, walk, page>>
        /\ fetched' = {[asset |-> a, stamp |-> stamp[a]] :
                          a \in {b \in Matches(job.kind) : PageOf(b, Matches(job.kind)) = page}}
        /\ more' = HasMore(Matches(job.kind), page)
    BY DEF AskPage, Go
  <1>2. ASSUME job.kind = "backfill", NEW a \in toWalk, ~ (row[a] # 0)
        PROVE  (\E s \in fetched' : s.asset = a) \/ (more' /\ PageOf(a, Live) > page)
    <2>1. a \in Live /\ Live = Matches(job.kind) /\ Live \in SUBSET Asset
      BY <1>2, LiveMatches DEF WalkInv, WalkedIsLive
    <2>2. PageOf(a, Live) >= page  BY <1>1, <1>2 DEF WalkInv, AheadInSlice
    <2>3. PageOf(a, Live) \in Nat /\ page \in Nat
      BY <2>1, PageIsNat, SomePage DEF ReadingTypes, TypeOK
    <2>4. CASE PageOf(a, Live) = page
      <3>1. [asset |-> a, stamp |-> stamp[a]] \in fetched'  BY <1>1, <2>1, <2>4
      <3> QED  BY <3>1
    <2>5. CASE PageOf(a, Live) > page
      BY <1>1, <2>1, <2>3, <2>5, LaterPageIsNamed
    <2> QED  BY <2>2, <2>3, <2>4, <2>5
  <1>3. Live' = Live  BY <1>1 DEF Live, immich
  <1>4. \A a \in Asset : PageOf(a, Live)' = PageOf(a, Live)  BY <1>3 DEF PageOf
  <1>5. AheadInSlice'
    <2> SUFFICES ASSUME job.kind = "backfill", NEW a \in toWalk, ~ (row[a] # 0)
                 PROVE  (\E s \in fetched' : s.asset = a) \/ (more' /\ PageOf(a, Live)' > page')
      BY <1>1 DEF AheadInSlice, walk
    <2>1. a \in Asset  BY DEF WalkInv, WalkedIsLive, Live
    <2> QED  BY <1>1, <1>2, <1>4, <2>1
  <1>6. StillAhead'
    <2> SUFFICES ASSUME NEW a \in toWalk, ~ (row[a] # 0)
                 PROVE  walkAt # 0 /\ PageOf(a, Live)' >= walkAt
      BY <1>1 DEF StillAhead, walk
    <2>1. a \in Asset  BY DEF WalkInv, WalkedIsLive, Live
    <2> QED  BY <1>4, <2>1 DEF WalkInv, StillAhead
  <1> QED  BY <1>1, <1>3, <1>5, <1>6 DEF WalkInv, WalkedIsLive, walk

LEMMA SliceStores ==
  ASSUME ReadingTypes, ReadingTypes', WalkInv, NEW s \in fetched, StoreAsset(s)
  PROVE  WalkInv'
  <1>1. /\ job.at = "store" /\ row' = [row EXCEPT ![s.asset] = s.stamp]
        /\ fetched' = fetched \ {s}
        /\ UNCHANGED <<immich, walk, job, page, more>>
    BY DEF StoreAsset
  <1>2. /\ s.asset \in Asset /\ s.stamp # 0 /\ row'[s.asset] = s.stamp
        /\ \A a \in Asset : row[a] # 0 => row'[a] # 0
    BY <1>1, RowsStay
  <1>3. Live' = Live /\ Live \subseteq Asset  BY <1>1 DEF Live, immich
  <1>4. StillAhead' /\ WalkedIsLive'
    BY <1>1, <1>2, <1>3, AheadKept DEF WalkInv, walk
  <1>5. \A a \in Asset : PageOf(a, Live)' = PageOf(a, Live)  BY <1>3 DEF PageOf
  <1>6. AheadInSlice'
    <2> SUFFICES ASSUME job.kind = "backfill", NEW a \in toWalk, ~ (row'[a] # 0)
                 PROVE  (\E t \in fetched' : t.asset = a) \/ (more /\ PageOf(a, Live)' > page)
      BY <1>1 DEF AheadInSlice, walk
    <2>1. a \in Asset /\ row[a] = 0  BY <1>2, <1>3 DEF WalkInv, WalkedIsLive
    <2>2. (\E t \in fetched : t.asset = a) \/ (more /\ PageOf(a, Live) > page)
      BY <1>1, <2>1 DEF WalkInv, AheadInSlice
    <2>3. s.asset # a  BY <1>2
    <2> QED  BY <1>1, <1>5, <2>1, <2>2, <2>3
  <1> QED  BY <1>4, <1>6 DEF WalkInv

LEMMA WalkNext == ReadingTypes /\ ReadingTypes' /\ WalkInv /\ [Next]_vars => WalkInv'
  <1> SUFFICES ASSUME ReadingTypes, ReadingTypes', WalkInv, [Next]_vars PROVE WalkInv'
    OBVIOUS
  <1>0. Live \in SUBSET Asset /\ page \in Nat /\ walkAt \in Nat
    BY SomePage DEF Live, ReadingTypes, TypeOK
  <1>1. CASE PlantCursor \/ Clock \/ UNCHANGED vars
    <2>1. UNCHANGED <<stamp, trash, gone, row, walk, reading>>
      BY <1>1 DEF PlantCursor, Clock, vars, immich
    <2>2. Live' = Live /\ walkAt' = walkAt /\ toWalk' = toWalk /\ row' = row
      BY <2>1 DEF Live, walk
    <2>3. StillAhead' /\ WalkedIsLive'  BY <2>2, AheadKept DEF WalkInv
    <2>4. AheadInSlice'  BY <2>1, <2>2, SliceKept DEF WalkInv
    <2> QED  BY <2>3, <2>4 DEF WalkInv
  <1>2. CASE BeginPass \/ NextPage \/ EndPass \/ BreakOff
    <2>1. UNCHANGED <<immich, row, walk>>
      BY <1>2 DEF BeginPass, NextPage, EndPass, BreakOff
    <2>2. Live' = Live /\ walkAt' = walkAt /\ toWalk' = toWalk /\ row' = row
      BY <2>1 DEF Live, walk, immich
    <2>3. StillAhead' /\ WalkedIsLive'  BY <2>2, AheadKept DEF WalkInv
    <2>4. job'.kind # "backfill"
      <3>1. CASE BeginPass \/ NextPage  BY <3>1 DEF BeginPass, NextPage, Go
      <3>2. CASE EndPass \/ BreakOff  BY <3>2, EndJobTypes DEF EndPass, BreakOff
      <3> QED  BY <1>2, <3>1, <3>2
    <2> QED  BY <2>3, <2>4 DEF WalkInv, AheadInSlice
  <1>3. CASE BeginSlice
    <2>1. /\ UNCHANGED <<immich, row, walk>> /\ page' = walkAt /\ walkAt # 0
          /\ job' = [kind |-> "backfill", at |-> "ask"]
      BY <1>3 DEF BeginSlice, Go
    <2>2. Live' = Live /\ walkAt' = walkAt /\ toWalk' = toWalk /\ row' = row
      BY <2>1 DEF Live, walk, immich
    <2>3. StillAhead' /\ WalkedIsLive'  BY <2>2, AheadKept DEF WalkInv
    <2>4. AheadInSlice'  BY <2>1, <2>2, <2>3 DEF StillAhead, AheadInSlice
    <2> QED  BY <2>3, <2>4 DEF WalkInv
  <1>4. CASE PressStart
    <2>1. /\ walkAt' = 1 /\ toWalk' = IF job.kind = "backfill" THEN {} ELSE Live
          /\ UNCHANGED <<immich, row, reading>>
      BY <1>4 DEF PressStart
    <2>2. Live' = Live /\ job' = job  BY <2>1 DEF Live, immich, reading
    <2>3. ASSUME NEW a \in Live PROVE PageOf(a, Live)' >= 1
      <3>1. PageOf(a, Live) \in Nat \ {0}  BY <1>0, PageIsNat
      <3>2. PageOf(a, Live)' = PageOf(a, Live)  BY <2>2 DEF PageOf
      <3> QED  BY <3>1, <3>2
    <2>4. toWalk' \subseteq Live  BY <2>1
    <2>5. StillAhead'  BY <2>1, <2>3, <2>4 DEF StillAhead
    <2>6. AheadInSlice'  BY <2>1, <2>2 DEF AheadInSlice
    <2> QED  BY <2>2, <2>4, <2>5, <2>6 DEF WalkInv, WalkedIsLive
  <1>5. CASE PressReset
    BY <1>5 DEF PressReset, WalkInv, WalkedIsLive, StillAhead, AheadInSlice
  <1>6. ASSUME NEW h \in hooks, ReceiveWebhook(h) PROVE WalkInv'
    <2>1. UNCHANGED <<stamp, trash, gone, walk, reading>> /\ row' = [row EXCEPT ![h.asset] = h.stamp]
      BY <1>6 DEF ReceiveWebhook
    <2>2. Live' = Live /\ walkAt' = walkAt /\ toWalk' = toWalk
      BY <2>1 DEF Live, walk
    <2>3. \A a \in Asset : row[a] # 0 => row'[a] # 0  BY <2>1, RowsStay
    <2>4. StillAhead' /\ WalkedIsLive'  BY <2>2, <2>3, AheadKept DEF WalkInv
    <2>5. AheadInSlice'  BY <2>1, <2>2, <2>3, SliceKept DEF WalkInv
    <2> QED  BY <2>4, <2>5 DEF WalkInv
  <1>7. ASSUME NEW a \in Asset, Appear(a) \/ Change(a) \/ DeleteForGood(a) PROVE WalkInv'
    <2>1. walkAt' = walkAt /\ row' = row /\ UNCHANGED reading
      BY <1>7 DEF Appear, Change, DeleteForGood, walk
    <2>2. CASE toWalk' = {}
      BY <2>2 DEF WalkInv, WalkedIsLive, StillAhead, AheadInSlice
    <2>3. CASE toWalk' = toWalk /\ Live \subseteq Live'
      <3>1. StillAhead' /\ WalkedIsLive'  BY <2>1, <2>3, AheadKept DEF WalkInv
      <3>2. AheadInSlice'  BY <2>1, <2>3, SliceKept DEF WalkInv
      <3> QED  BY <3>1, <3>2 DEF WalkInv
    <2> QED  BY <1>7, <2>2, <2>3, LibraryGrows, DeletionIsSeen
  <1> QED
    BY <1>1, <1>2, <1>3, <1>4, <1>5, <1>6, <1>7, SliceEnds, SliceAsks, SliceStores
    DEF Next, ReadStep

\* When the backfill is through, everything that was live when it was started has a row,
\* unless something was trashed or deleted for good or Start pressed under a slice
\* meanwhile: whatever the page size, however often a slice broke off, and whoever else wrote rows.
THEOREM WalkIsComplete == Spec => []WalkReachesAll
  <1>1. Init => WalkInv
    BY DEF Init, WalkInv, WalkedIsLive, StillAhead, AheadInSlice
  <1>2. WalkInv => WalkReachesAll
    BY DEF WalkInv, StillAhead, WalkReachesAll
  <1> QED  BY <1>1, <1>2, WalkNext, ReadingHolds, PTL DEF Spec

-----------------------------------------------------------------------------
(* The reconciler. *)

\* The pass under way will leave the cursor here.
Horizon == IF job.kind = "reconcile" THEN started ELSE cursor

\* A webhook still on its way is about an asset that changed within the overlap.
HooksAreFresh ==
    \A h \in hooks : h.until >= now /\ h.stamp >= h.until - MaxDelay - MaxSkew

CursorsInOrder == /\ cursor <= Horizon /\ Horizon <= now
                  /\ job.kind = "reconcile" => cursor # 0

\* A snapshot waiting to be stored is current, or the next pass re-reads its asset.
FetchedIsCurrent ==
    \A s \in fetched : s.stamp = stamp[s.asset] \/ stamp[s.asset] > Horizon - Overlap

\* What the pass reads and the next one will not: it is stored, about to be, or ahead,
\* or it has slipped.
Sought(a) == Reported(a) /\ stamp[a] > UpdatedAfter /\ stamp[a] <= started - Overlap
AheadInPass ==
    job.kind = "reconcile" =>
        \A a \in Asset : Sought(a) =>
            \/ row[a] = stamp[a]
            \/ job.at = "ask" /\ PageOf(a, Matches("reconcile")) >= page
            \/ job.at = "store" /\ [asset |-> a, stamp |-> stamp[a]] \in fetched
            \/ job.at = "store" /\ more /\ PageOf(a, Matches("reconcile")) > page
            \/ a \in slipped
PassInv ==
    /\ HooksAreFresh /\ CursorsInOrder /\ FetchedIsCurrent /\ AheadInPass
    /\ ForgottenOnlyBySlipping

\* A search of the reconciler finds what it is to report.
LEMMA PassMatches ==
  /\ Matches("reconcile") = {a \in Asset : Reported(a) /\ stamp[a] > UpdatedAfter}
  /\ Matches("reconcile") \in SUBSET Asset
  BY DEF Matches, Reported

\* The overlap takes in every change that shows up and every webhook that arrives.
LEMMA WithinOverlap ==
  ASSUME ReadingTypes, CursorsInOrder, NEW n \in Int, n >= now - MaxDelay - MaxSkew
  PROVE  n > now - Overlap /\ n > Horizon - Overlap /\ n > UpdatedAfter
  <1>1. /\ now \in Nat /\ cursor \in Nat /\ started \in Nat /\ Horizon \in Nat
        /\ Overlap \in Nat /\ MaxSkew \in Nat /\ MaxDelay \in Nat
    BY DiscoveryAssumption DEF ReadingTypes, TypeOK, Horizon
  <1>2. cursor <= Horizon /\ Horizon <= now /\ MaxSkew + MaxDelay < Overlap
    BY OverlapIsEnough DEF CursorsInOrder
  <1>3. n > now - Overlap  BY <1>1, <1>2
  <1> QED  BY <1>1, <1>2, <1>3 DEF UpdatedAfter

LEMMA PassTypes ==
  ASSUME ReadingTypes
  PROVE  /\ now \in Nat /\ cursor \in Nat /\ started \in Nat /\ page \in Nat /\ origin \in Nat
         /\ cursor <= now /\ started <= now
         /\ stamp \in [Asset -> Nat] /\ row \in [Asset -> Nat]
         /\ Overlap \in Nat /\ MaxSkew \in Nat /\ MaxDelay \in Nat
         /\ \A s \in fetched : s.asset \in Asset /\ s.stamp \in Nat
  BY SomePage, DiscoveryAssumption DEF ReadingTypes, TypeOK, Snapshot

LEMMA HookIsFresh ==
  ASSUME ReadingTypes, HooksAreFresh, NEW h \in hooks
  PROVE  /\ h.asset \in Asset /\ h.stamp \in Nat /\ stamp[h.asset] \in Nat
         /\ stamp[h.asset] >= now - MaxDelay - MaxSkew
  <1>1. h \in [asset : Asset, stamp : 1 .. MaxTime, until : 1 .. MaxTime + MaxDelay]
    BY DEF ReadingTypes, TypeOK
  <1>2. h.asset \in Asset /\ h.stamp \in Nat /\ h.until \in Nat  BY <1>1
  <1>3. h.stamp <= stamp[h.asset]  BY DEF ReadingTypes, NothingNewer
  <1>4. h.until >= now /\ h.stamp >= h.until - MaxDelay - MaxSkew  BY DEF HooksAreFresh
  <1>5. stamp[h.asset] \in Nat /\ now \in Nat /\ MaxDelay \in Nat /\ MaxSkew \in Nat
    BY <1>2, PassTypes
  <1> QED  BY <1>2, <1>3, <1>4, <1>5

\* What every step of the loop thread leaves alone.
LEMMA ImmichStands ==
  ASSUME HooksAreFresh, UNCHANGED <<now, immich>>
  PROVE  HooksAreFresh'
  BY DEF HooksAreFresh, immich

LEMMA PlantKeeps == ReadingTypes /\ PassInv /\ PlantCursor => PassInv'
  <1> SUFFICES ASSUME ReadingTypes, PassInv, PlantCursor PROVE PassInv'  OBVIOUS
  <1>1. /\ job.kind = "none" /\ cursor' = now
        /\ UNCHANGED <<now, immich, row, reading, slipped>> /\ origin' = now
    BY DEF PlantCursor, Idle
  <1>2. HooksAreFresh'  BY <1>1, ImmichStands DEF PassInv
  <1>3. job.at # "store" /\ fetched = {}
    BY <1>1 DEF ReadingTypes, JobsAgree, FetchedInUse
  <1>4. job' = job /\ fetched' = fetched /\ stamp' = stamp /\ now' = now
    BY <1>1 DEF reading, immich
  <1>5. CursorsInOrder'
    BY <1>1, <1>4, PassTypes DEF CursorsInOrder, Horizon
  <1>6. FetchedIsCurrent' /\ AheadInPass'  BY <1>1, <1>3, <1>4 DEF FetchedIsCurrent, AheadInPass
  <1>7. ForgottenOnlyBySlipping'
    BY <1>1, PassTypes DEF ForgottenOnlyBySlipping, Forgotten, WillBeReread, UpdatedAfter
  <1> QED  BY <1>2, <1>5, <1>6, <1>7 DEF PassInv

\* ForgottenOnlyBySlipping reads only these.
LEMMA ForgetsNothing ==
  ASSUME ForgottenOnlyBySlipping, UNCHANGED <<stamp, trash, gone, row, cursor, origin, slipped>>
  PROVE  ForgottenOnlyBySlipping'
  <1>1. \A a \in Asset : Forgotten(a)' <=> Forgotten(a)
    BY DEF Forgotten, Reported, WillBeReread, UpdatedAfter
  <1> QED  BY <1>1 DEF ForgottenOnlyBySlipping

LEMMA BeginKeeps == ReadingTypes /\ PassInv /\ (BeginPass \/ BeginSlice) => PassInv'
  <1> SUFFICES ASSUME ReadingTypes, PassInv, BeginPass \/ BeginSlice PROVE PassInv'  OBVIOUS
  <1>1. /\ job.kind = "none" /\ UNCHANGED <<now, immich, row, cursor, origin, fetched, slipped>>
        /\ job'.at = "ask"
    BY DEF BeginPass, BeginSlice, Idle, Go
  <1>2. HooksAreFresh'  BY <1>1, ImmichStands DEF PassInv
  <1>3. fetched' = {} /\ stamp' = stamp
    BY <1>1 DEF ReadingTypes, JobsAgree, FetchedInUse, immich
  <1>4. CursorsInOrder' /\ AheadInPass'
    <2>1. CASE BeginPass
      <3>1. job'.kind = "reconcile" /\ started' = now /\ page' = 1 /\ cursor # 0
        BY <2>1 DEF BeginPass, Go
      <3>2. CursorsInOrder'  BY <1>1, <3>1, PassTypes DEF CursorsInOrder, Horizon
      <3>3. ASSUME NEW a \in Asset PROVE PageOf(a, Matches("reconcile"))' >= 1
        <4>1. PageOf(a, Matches("reconcile")') \in Nat \ {0}
          BY PageIsNat DEF Matches
        <4>2. PageOf(a, Matches("reconcile"))' = PageOf(a, Matches("reconcile")')
          BY DEF PageOf
        <4> QED  BY <4>1, <4>2
      <3> QED  BY <1>1, <3>1, <3>2, <3>3 DEF AheadInPass
    <2>2. CASE BeginSlice
      <3>1. job'.kind = "backfill"  BY <2>2 DEF BeginSlice, Go
      <3> QED  BY <1>1, <3>1, PassTypes DEF CursorsInOrder, Horizon, AheadInPass
    <2> QED  BY <2>1, <2>2
  <1>5. FetchedIsCurrent'  BY <1>3 DEF FetchedIsCurrent
  <1>6. ForgottenOnlyBySlipping'  BY <1>1, ForgetsNothing DEF PassInv, immich
  <1> QED  BY <1>2, <1>4, <1>5, <1>6 DEF PassInv

LEMMA AskKeeps == ReadingTypes /\ PassInv /\ AskPage => PassInv'
  <1> SUFFICES ASSUME ReadingTypes, PassInv, AskPage PROVE PassInv'  OBVIOUS
  <1>1. /\ job.at = "ask" /\ job'.at = "store" /\ job'.kind = job.kind
        /\ UNCHANGED <<now, immich, row, cursor, origin, started, page, slipped>>
        /\ fetched' = {[asset |-> a, stamp |-> stamp[a]] :
                          a \in {b \in Matches(job.kind) : PageOf(b, Matches(job.kind)) = page}}
        /\ more' = HasMore(Matches(job.kind), page)
    BY DEF AskPage, Go
  <1>2. HooksAreFresh'  BY <1>1, ImmichStands DEF PassInv
  <1>3. CursorsInOrder'  BY <1>1 DEF PassInv, CursorsInOrder, Horizon
  <1>4. FetchedIsCurrent'  BY <1>1 DEF FetchedIsCurrent, immich
  <1>5. AheadInPass'
    <2> SUFFICES ASSUME job.kind = "reconcile", NEW a \in Asset, Sought(a), row[a] # stamp[a]
                 PROVE  \/ [asset |-> a, stamp |-> stamp[a]] \in fetched'
                        \/ more' /\ PageOf(a, Matches("reconcile"))' > page
                        \/ a \in slipped
      BY <1>1 DEF AheadInPass, Sought, Reported, immich, UpdatedAfter
    <2> DEFINE found == Matches("reconcile")
    <2>1. a \in found /\ found \in SUBSET Asset  BY PassMatches DEF Sought
    <2>2. PageOf(a, found) >= page \/ a \in slipped  BY <1>1 DEF PassInv, AheadInPass
    <2>3. PageOf(a, found) \in Nat /\ page \in Nat  BY <2>1, PageIsNat, PassTypes
    <2>4. found' = found  BY <1>1 DEF Matches, immich, UpdatedAfter
    <2>5. PageOf(a, found)' = PageOf(a, found)  BY <2>4 DEF PageOf
    <2>6. CASE PageOf(a, found) = page
      BY <1>1, <2>1, <2>6
    <2>7. CASE PageOf(a, found) > page
      BY <1>1, <2>1, <2>3, <2>5, <2>7, LaterPageIsNamed
    <2> QED  BY <2>2, <2>3, <2>6, <2>7
  <1>6. ForgottenOnlyBySlipping'  BY <1>1, ForgetsNothing DEF PassInv, immich
  <1> QED  BY <1>2, <1>3, <1>4, <1>5, <1>6 DEF PassInv

LEMMA StoreKeeps ==
  ASSUME ReadingTypes, PassInv, NEW s \in fetched, StoreAsset(s)
  PROVE  PassInv'
  <1>1. /\ job.at = "store" /\ row' = [row EXCEPT ![s.asset] = s.stamp]
        /\ fetched' = fetched \ {s} /\ slipped' = slipped \ {s.asset}
        /\ UNCHANGED <<now, immich, cursor, origin, job, started, page, more>>
    BY DEF StoreAsset
  <1>2. s.asset \in Asset /\ s.stamp \in Nat /\ row \in [Asset -> Nat] /\ stamp \in [Asset -> Nat]
    BY PassTypes
  <1>3. s.stamp = stamp[s.asset] \/ stamp[s.asset] > Horizon - Overlap
    BY DEF PassInv, FetchedIsCurrent
  <1>4. /\ row'[s.asset] = s.stamp
        /\ \A a \in Asset : a # s.asset => row'[a] = row[a]
    BY <1>1, <1>2
  <1>5. HooksAreFresh'  BY <1>1, ImmichStands DEF PassInv
  <1>6. CursorsInOrder'  BY <1>1 DEF PassInv, CursorsInOrder, Horizon
  <1>7. FetchedIsCurrent'  BY <1>1 DEF PassInv, FetchedIsCurrent, Horizon, immich
  <1>8. stamp' = stamp /\ trash' = trash /\ gone' = gone  BY <1>1 DEF immich
  <1>9. AheadInPass'
    <2> SUFFICES ASSUME job.kind = "reconcile", NEW a \in Asset, Sought(a), row'[a] # stamp[a]
                 PROVE  \/ [asset |-> a, stamp |-> stamp[a]] \in fetched'
                        \/ more /\ PageOf(a, Matches("reconcile"))' > page
                        \/ a \in slipped'
      BY <1>1, <1>8 DEF AheadInPass, Sought, Reported, UpdatedAfter
    <2>1. a # s.asset
      <3>1. SUFFICES ASSUME a = s.asset PROVE FALSE  OBVIOUS
      <3>2. stamp[a] > started - Overlap  BY <1>3, <1>4, <3>1 DEF Horizon
      <3>3. stamp[a] <= started - Overlap  BY DEF Sought
      <3> QED  BY <1>2, <3>2, <3>3, PassTypes
    <2>2. row[a] # stamp[a]  BY <1>4, <2>1
    <2>3. \/ [asset |-> a, stamp |-> stamp[a]] \in fetched
          \/ more /\ PageOf(a, Matches("reconcile")) > page
          \/ a \in slipped
      BY <1>1, <2>2 DEF PassInv, AheadInPass
    <2>4. PageOf(a, Matches("reconcile"))' = PageOf(a, Matches("reconcile"))
      BY <1>1, <1>8 DEF Matches, UpdatedAfter, PageOf
    <2> QED  BY <1>1, <2>1, <2>3, <2>4
  <1>10. ForgottenOnlyBySlipping'
    <2> SUFFICES ASSUME NEW a \in Asset, cursor # 0, Reported(a), stamp[a] > origin - Overlap
                 PROVE  row'[a] = stamp[a] \/ WillBeReread(a) \/ a \in slipped'
      BY <1>1, <1>8 DEF ForgottenOnlyBySlipping, Forgotten, Reported, WillBeReread, UpdatedAfter
    <2>1. CASE a # s.asset
      BY <1>1, <1>4, <2>1 DEF PassInv, ForgottenOnlyBySlipping, Forgotten
    <2>2. CASE a = s.asset
      <3>1. CASE s.stamp = stamp[a]  BY <1>4, <2>2, <3>1
      <3>2. CASE stamp[a] > Horizon - Overlap
        <4>1. cursor <= Horizon  BY DEF PassInv, CursorsInOrder
        <4>2. Horizon \in Nat  BY PassTypes DEF Horizon
        <4>3. stamp[a] > cursor - Overlap  BY <1>2, <3>2, <4>1, <4>2, PassTypes
        <4> QED  BY <4>3 DEF WillBeReread, UpdatedAfter
      <3> QED  BY <1>3, <2>2, <3>1, <3>2
    <2> QED  BY <2>1, <2>2
  <1> QED  BY <1>5, <1>6, <1>7, <1>9, <1>10 DEF PassInv

LEMMA NextPageKeeps == ReadingTypes /\ PassInv /\ NextPage => PassInv'
  <1> SUFFICES ASSUME ReadingTypes, PassInv, NextPage PROVE PassInv'  OBVIOUS
  <1>1. /\ job.kind = "reconcile" /\ job.at = "store" /\ fetched = {} /\ more
        /\ job'.kind = "reconcile" /\ job'.at = "ask" /\ page' = page + 1
        /\ UNCHANGED <<now, immich, row, cursor, origin, started, fetched, slipped>>
    BY DEF NextPage, At, Go
  <1>2. HooksAreFresh'  BY <1>1, ImmichStands DEF PassInv
  <1>3. CursorsInOrder'  BY <1>1 DEF PassInv, CursorsInOrder, Horizon
  <1>4. FetchedIsCurrent'  BY <1>1 DEF FetchedIsCurrent
  <1>5. stamp' = stamp /\ trash' = trash /\ gone' = gone  BY <1>1 DEF immich
  <1>6. AheadInPass'
    <2> SUFFICES ASSUME NEW a \in Asset, Sought(a), row[a] # stamp[a]
                 PROVE  PageOf(a, Matches("reconcile"))' >= page + 1 \/ a \in slipped
      BY <1>1, <1>5 DEF AheadInPass, Sought, Reported, UpdatedAfter
    <2>1. PageOf(a, Matches("reconcile")) > page \/ a \in slipped
      BY <1>1 DEF PassInv, AheadInPass
    <2>2. PageOf(a, Matches("reconcile"))' = PageOf(a, Matches("reconcile"))
      BY <1>1, <1>5 DEF Matches, UpdatedAfter, PageOf
    <2>3. PageOf(a, Matches("reconcile")) \in Nat /\ page \in Nat
      BY PageIsNat, PassTypes DEF Matches
    <2> QED  BY <2>1, <2>2, <2>3
  <1>7. ForgottenOnlyBySlipping'  BY <1>1, ForgetsNothing DEF PassInv, immich
  <1> QED  BY <1>2, <1>3, <1>4, <1>6, <1>7 DEF PassInv

\* The end of a pass: what the next one will not read is stored.
LEMMA EndPassKeeps == ReadingTypes /\ PassInv /\ EndPass => PassInv'
  <1> SUFFICES ASSUME ReadingTypes, PassInv, EndPass PROVE PassInv'  OBVIOUS
  <1>1. /\ job.kind = "reconcile" /\ job.at = "store" /\ fetched = {} /\ ~more
        /\ cursor' = started /\ EndJob
        /\ UNCHANGED <<now, immich, row, origin, slipped>>
    BY DEF EndPass, At
  <1>2. HooksAreFresh'  BY <1>1, ImmichStands DEF PassInv
  <1>3. job'.kind = "none" /\ fetched' = {}  BY <1>1, EndJobTypes
  <1>4. CursorsInOrder'  BY <1>1, <1>3, PassTypes DEF CursorsInOrder, Horizon
  <1>5. FetchedIsCurrent' /\ AheadInPass'  BY <1>3 DEF FetchedIsCurrent, AheadInPass
  <1>6. stamp' = stamp /\ trash' = trash /\ gone' = gone  BY <1>1 DEF immich
  <1>7. ForgottenOnlyBySlipping'
    <2> SUFFICES ASSUME NEW a \in Asset, started # 0, Reported(a), stamp[a] > origin - Overlap,
                        ~ (stamp[a] > started - Overlap)
                 PROVE  row[a] = stamp[a] \/ a \in slipped
      BY <1>1, <1>6 DEF ForgottenOnlyBySlipping, Forgotten, Reported, WillBeReread, UpdatedAfter
    <2>1. CASE stamp[a] > UpdatedAfter
      <3>1. Sought(a)  BY <2>1, PassTypes DEF Sought
      <3> QED  BY <1>1, <3>1 DEF PassInv, AheadInPass
    <2>2. CASE ~ (stamp[a] > UpdatedAfter)
      <3>1. cursor # 0  BY <1>1 DEF PassInv, CursorsInOrder
      <3> QED  BY <2>2, <3>1 DEF PassInv, ForgottenOnlyBySlipping, Forgotten, WillBeReread
    <2> QED  BY <2>1, <2>2
  <1> QED  BY <1>2, <1>4, <1>5, <1>7 DEF PassInv

LEMMA StopKeeps == ReadingTypes /\ PassInv /\ (EndSlice \/ BreakOff) => PassInv'
  <1> SUFFICES ASSUME ReadingTypes, PassInv, EndSlice \/ BreakOff PROVE PassInv'  OBVIOUS
  <1>1. /\ EndJob /\ UNCHANGED <<now, immich, row, cursor, origin>>
        /\ \/ slipped' = slipped
           \/ slipped' = {b \in slipped : stamp[b] <= UpdatedAfter}
    BY DEF EndSlice, BreakOff
  <1>2. HooksAreFresh'  BY <1>1, ImmichStands DEF PassInv
  <1>3. job'.kind = "none" /\ fetched' = {}  BY <1>1, EndJobTypes
  <1>4. CursorsInOrder'  BY <1>1, <1>3, PassTypes DEF CursorsInOrder, Horizon
  <1>5. FetchedIsCurrent' /\ AheadInPass'  BY <1>3 DEF FetchedIsCurrent, AheadInPass
  <1>6. ForgottenOnlyBySlipping'
    <2> SUFFICES ASSUME NEW a \in Asset, Forgotten(a)' PROVE a \in slipped'
      BY DEF ForgottenOnlyBySlipping
    <2>1. Forgotten(a)
      BY <1>1 DEF Forgotten, Reported, WillBeReread, UpdatedAfter, immich
    <2>2. a \in slipped  BY <2>1 DEF PassInv, ForgottenOnlyBySlipping
    <2>3. stamp[a] \in Nat /\ UpdatedAfter \in Int  BY PassTypes DEF UpdatedAfter
    <2>4. stamp[a] <= UpdatedAfter  BY <2>1, <2>3 DEF Forgotten, WillBeReread
    <2> QED  BY <1>1, <2>2, <2>4
  <1> QED  BY <1>2, <1>4, <1>5, <1>6 DEF PassInv

LEMMA PressKeeps == ReadingTypes /\ PassInv /\ UNCHANGED <<now, immich, row, cursor, origin, reading, slipped>>
                    => PassInv'
  <1> SUFFICES ASSUME ReadingTypes, PassInv,
                      UNCHANGED <<now, immich, row, cursor, origin, reading, slipped>>
               PROVE  PassInv'
    OBVIOUS
  <1>1. HooksAreFresh'  BY ImmichStands DEF PassInv
  <1>2. /\ stamp' = stamp /\ trash' = trash /\ gone' = gone /\ job' = job /\ started' = started /\ page' = page
        /\ fetched' = fetched /\ more' = more
    BY DEF immich, reading
  <1>3. CursorsInOrder'  BY <1>2 DEF PassInv, CursorsInOrder, Horizon
  <1>4. FetchedIsCurrent'  BY <1>2 DEF PassInv, FetchedIsCurrent, Horizon
  <1>5. \A a \in Asset :
           PageOf(a, Matches("reconcile"))' = PageOf(a, Matches("reconcile"))
    BY <1>2 DEF Matches, UpdatedAfter, PageOf
  <1>6. AheadInPass'  BY <1>2, <1>5 DEF PassInv, AheadInPass, Sought, Reported, UpdatedAfter
  <1>7. ForgottenOnlyBySlipping'  BY <1>2, ForgetsNothing DEF PassInv
  <1> QED  BY <1>1, <1>3, <1>4, <1>6, <1>7 DEF PassInv

\* A late webhook may put an old row back, but only while the asset is in the overlap.
LEMMA WebhookKeeps ==
  ASSUME ReadingTypes, PassInv, NEW h \in hooks, ReceiveWebhook(h)
  PROVE  PassInv'
  <1>1. /\ hooks' = hooks \ {h} /\ row' = [row EXCEPT ![h.asset] = h.stamp]
        /\ UNCHANGED <<now, stamp, trash, gone, cursor, origin, reading, slipped>>
    BY DEF ReceiveWebhook
  <1>2. /\ h.asset \in Asset /\ stamp[h.asset] \in Nat
        /\ stamp[h.asset] >= now - MaxDelay - MaxSkew
    BY HookIsFresh DEF PassInv
  <1>3. stamp[h.asset] > Horizon - Overlap /\ stamp[h.asset] > UpdatedAfter
    BY <1>2, WithinOverlap DEF PassInv
  <1>4. \A a \in Asset : a # h.asset => row'[a] = row[a]
    BY <1>1, PassTypes
  <1>5. /\ job' = job /\ started' = started /\ page' = page /\ fetched' = fetched /\ more' = more
    BY <1>1 DEF reading
  <1>6. HooksAreFresh'  BY <1>1 DEF PassInv, HooksAreFresh
  <1>7. CursorsInOrder'  BY <1>1, <1>5 DEF PassInv, CursorsInOrder, Horizon
  <1>8. FetchedIsCurrent'  BY <1>1, <1>5 DEF PassInv, FetchedIsCurrent, Horizon
  <1>9. AheadInPass'
    <2> SUFFICES ASSUME job.kind = "reconcile", NEW a \in Asset, Sought(a), row'[a] # stamp[a]
                 PROVE  \/ job.at = "ask" /\ PageOf(a, Matches("reconcile"))' >= page
                        \/ job.at = "store" /\ [asset |-> a, stamp |-> stamp[a]] \in fetched
                        \/ job.at = "store" /\ more /\ PageOf(a, Matches("reconcile"))' > page
                        \/ a \in slipped
      BY <1>1, <1>5 DEF AheadInPass, Sought, Reported, UpdatedAfter
    <2>1. a # h.asset
      <3>1. SUFFICES ASSUME a = h.asset PROVE FALSE  OBVIOUS
      <3>2. stamp[a] > started - Overlap  BY <1>3, <3>1 DEF Horizon
      <3>3. stamp[a] <= started - Overlap  BY DEF Sought
      <3> QED  BY <1>2, <3>1, <3>2, <3>3, PassTypes
    <2>2. row[a] # stamp[a]  BY <1>4, <2>1
    <2>3. PageOf(a, Matches("reconcile"))' = PageOf(a, Matches("reconcile"))
      BY <1>1 DEF Matches, UpdatedAfter, PageOf
    <2> QED  BY <2>2, <2>3 DEF PassInv, AheadInPass
  <1>10. ForgottenOnlyBySlipping'
    <2> SUFFICES ASSUME NEW a \in Asset, cursor # 0, Reported(a), stamp[a] > origin - Overlap
                 PROVE  row'[a] = stamp[a] \/ WillBeReread(a) \/ a \in slipped
      BY <1>1 DEF ForgottenOnlyBySlipping, Forgotten, Reported, WillBeReread, UpdatedAfter
    <2>1. CASE a # h.asset
      BY <1>4, <2>1 DEF PassInv, ForgottenOnlyBySlipping, Forgotten
    <2>2. CASE a = h.asset
      BY <1>3, <2>2 DEF WillBeReread
    <2> QED  BY <2>1, <2>2
  <1> QED  BY <1>6, <1>7, <1>8, <1>9, <1>10 DEF PassInv

\* What a step of Immich about c does: c is new to the overlap or as it was, the others
\* stand, and either what was found stays found, or c leaves and the rest of the result
\* moves up, with what slips by remembered.
Fresh(n) == n > Horizon - Overlap /\ n > UpdatedAfter
StaysFound == Matches("reconcile") \subseteq Matches("reconcile")'
Leaves(c) ==
    /\ Matches("reconcile")' = Matches("reconcile") \ {c}
    /\ SlipsPast(c) \ {c} \subseteq slipped'

LEMMA ImmichChanges ==
  ASSUME ReadingTypes, PassInv, NEW c \in Asset, Appear(c) \/ Change(c)
  PROVE  /\ Fresh(stamp'[c])
         /\ \A b \in Asset \ {c} : stamp'[b] = stamp[b] /\ (Reported(b)' <=> Reported(b))
         /\ slipped \ {c} \subseteq slipped'
         /\ StaysFound \/ Leaves(c)
  <1>1. /\ stamp' \in [Asset -> 0 .. now] /\ stamp'[c] \in 1 .. now
        /\ stamp'[c] >= now - MaxSkew
        /\ \A b \in Asset \ {c} : stamp'[b] = stamp[b]
    BY ImmichMoves
  <1>2. Fresh(stamp'[c])
    <2>1. stamp'[c] \in Int /\ stamp'[c] >= now - MaxDelay - MaxSkew  BY <1>1, PassTypes
    <2> QED  BY <2>1, WithinOverlap DEF PassInv, Fresh
  <1>3. /\ gone' = gone /\ UpdatedAfter' = UpdatedAfter
        /\ \A b \in Asset \ {c} : b \in trash' <=> b \in trash
        /\ slipped \ {c} \subseteq slipped'
    BY DEF Appear, Change, UpdatedAfter
  <1>4. \A b \in Asset \ {c} : Reported(b)' <=> Reported(b)
    BY <1>1, <1>3 DEF Reported
  <1>5. \A b \in Asset \ {c} : b \in Matches("reconcile")' <=> b \in Matches("reconcile")
    BY <1>1, <1>3, <1>4, PassMatches DEF Matches, Reported
  <1>6. CASE DeletionsEnabled \/ ~ (c \in trash')
    <2>1. c \in Matches("reconcile") => c \in Matches("reconcile")'
      <3>1. stamp'[c] # 0 /\ stamp'[c] > UpdatedAfter  BY <1>1, <1>2 DEF Fresh
      <3> QED  BY <1>3, <1>6, <3>1 DEF Matches
    <2> QED  BY <1>2, <1>1, <1>3, <1>4, <1>5, <2>1, PassMatches DEF StaysFound
  <1>7. CASE ~DeletionsEnabled /\ c \in trash'
    <2>1. c \notin Matches("reconcile")'  BY <1>7 DEF Matches
    <2>2. Matches("reconcile")' \subseteq Asset  BY DEF Matches
    <2>3. Matches("reconcile")' = Matches("reconcile") \ {c}
      BY <1>5, <2>1, <2>2, PassMatches
    <2>4. CASE c \in trash
      <3>1. c \notin Matches("reconcile")  BY <1>7, <2>4 DEF Matches
      <3> QED  BY <1>1, <1>2, <1>3, <1>4, <2>3, <3>1 DEF StaysFound
    <2>5. CASE c \notin trash
      <3>1. SlipsPast(c) \ {c} \subseteq slipped'
        BY <1>7, <2>5 DEF Appear, Change
      <3> QED  BY <1>1, <1>2, <1>3, <1>4, <2>3, <3>1 DEF Leaves
    <2> QED  BY <2>4, <2>5
  <1> QED  BY <1>6, <1>7

LEMMA ImmichDeletes ==
  ASSUME ReadingTypes, PassInv, NEW c \in Asset, DeleteForGood(c)
  PROVE  /\ stamp' = stamp /\ ~Reported(c)'
         /\ \A b \in Asset \ {c} : Reported(b)' <=> Reported(b)
         /\ slipped \ {c} \subseteq slipped'
         /\ Leaves(c)
  <1>1. /\ stamp' = stamp /\ gone' = gone \cup {c} /\ trash' = trash \ {c}
        /\ slipped' = (slipped \cup SlipsPast(c)) \ {c} /\ UpdatedAfter' = UpdatedAfter
    BY DEF DeleteForGood, UpdatedAfter
  <1>2. ~Reported(c)' /\ \A b \in Asset \ {c} : Reported(b)' <=> Reported(b)
    BY <1>1 DEF Reported
  <1>3. Matches("reconcile")' = Matches("reconcile") \ {c}
    BY <1>1 DEF Matches
  <1> QED  BY <1>1, <1>2, <1>3 DEF Leaves

\* A change is stamped within the overlap; and what was ahead of the pass stays ahead, or
\* slips.
LEMMA ImmichKeeps ==
  ASSUME ReadingTypes, PassInv, NEW c \in Asset, Appear(c) \/ Change(c) \/ DeleteForGood(c)
  PROVE  PassInv'
  <1>1. /\ Fresh(stamp'[c]) \/ (stamp' = stamp /\ ~Reported(c)')
        /\ \A b \in Asset \ {c} : stamp'[b] = stamp[b] /\ (Reported(b)' <=> Reported(b))
        /\ slipped \ {c} \subseteq slipped'
        /\ StaysFound \/ Leaves(c)
    BY ImmichChanges, ImmichDeletes
  <1>2. UNCHANGED <<now, row, cursor, origin, reading>>
    BY DEF Appear, Change, DeleteForGood
  <1>3. /\ job' = job /\ started' = started /\ page' = page /\ fetched' = fetched /\ more' = more
        /\ UpdatedAfter' = UpdatedAfter
    BY <1>2 DEF reading, UpdatedAfter
  <1>4. stamp'[c] \in Nat
    <2>1. CASE Appear(c) \/ Change(c)  BY <2>1, ImmichMoves
    <2>2. CASE DeleteForGood(c)  BY <2>2, PassTypes DEF DeleteForGood
    <2> QED  BY <2>1, <2>2
  <1>5. HooksAreFresh'
    <2>1. CASE Appear(c) \/ Change(c)
      <3>1. \/ hooks' = hooks
            \/ hooks' = hooks \cup {[asset |-> c, stamp |-> stamp'[c], until |-> now + MaxDelay]}
        BY <2>1, PassTypes DEF Appear, Change
      <3> DEFINE g == [asset |-> c, stamp |-> stamp'[c], until |-> now + MaxDelay]
      <3>2. g.until >= now /\ g.stamp >= g.until - MaxDelay - MaxSkew
        BY <2>1, <1>4, ImmichMoves, PassTypes
      <3> HIDE DEF g
      <3> QED  BY <1>2, <3>1, <3>2 DEF g, PassInv, HooksAreFresh
    <2>2. CASE DeleteForGood(c)
      BY <1>2, <2>2 DEF DeleteForGood, PassInv, HooksAreFresh
    <2> QED  BY <2>1, <2>2
  <1>6. CursorsInOrder'  BY <1>2, <1>3 DEF PassInv, CursorsInOrder, Horizon
  <1>7. Horizon' = Horizon  BY <1>2, <1>3 DEF Horizon
  <1>8. FetchedIsCurrent'
    <2> SUFFICES ASSUME NEW s \in fetched
                 PROVE  s.stamp = stamp'[s.asset] \/ stamp'[s.asset] > Horizon - Overlap
      BY <1>3, <1>7 DEF FetchedIsCurrent
    <2>1. s.asset \in Asset  BY PassTypes
    <2>2. s.stamp = stamp[s.asset] \/ stamp[s.asset] > Horizon - Overlap
      BY DEF PassInv, FetchedIsCurrent
    <2>3. stamp'[s.asset] = stamp[s.asset] \/ stamp'[s.asset] > Horizon - Overlap
      BY <1>1, <2>1 DEF Fresh
    <2> QED  BY <2>2, <2>3
  <1>9. AheadInPass'
    <2> SUFFICES ASSUME job.kind = "reconcile", NEW a \in Asset, Sought(a)', row[a] # stamp'[a]
                 PROVE  \/ job.at = "ask" /\ PageOf(a, Matches("reconcile"))' >= page
                        \/ job.at = "store" /\ [asset |-> a, stamp |-> stamp'[a]] \in fetched
                        \/ job.at = "store" /\ more /\ PageOf(a, Matches("reconcile"))' > page
                        \/ a \in slipped'
      BY <1>2, <1>3 DEF AheadInPass
    <2> DEFINE found == Matches("reconcile")
    <2>1. a # c
      <3>1. SUFFICES ASSUME a = c PROVE FALSE  OBVIOUS
      <3>2. Fresh(stamp'[a])  BY <1>1, <3>1 DEF Sought
      <3>3. stamp'[a] > started - Overlap  BY <3>2 DEF Fresh, Horizon
      <3>4. stamp'[a] <= started - Overlap  BY <1>3 DEF Sought
      <3> QED  BY <1>4, <3>1, <3>3, <3>4, PassTypes
    <2>2. stamp'[a] = stamp[a]  BY <1>1, <2>1
    <2>3. Sought(a)  BY <1>1, <1>3, <2>1, <2>2 DEF Sought
    <2>4. \/ job.at = "ask" /\ PageOf(a, found) >= page
          \/ job.at = "store" /\ [asset |-> a, stamp |-> stamp[a]] \in fetched
          \/ job.at = "store" /\ more /\ PageOf(a, found) > page
          \/ a \in slipped
      BY <2>2, <2>3 DEF PassInv, AheadInPass
    <2>5. found \in SUBSET Asset /\ found' \in SUBSET Asset /\ a \in found
      BY <2>3, PassMatches DEF Sought, Matches
    <2>6. PageOf(a, found)' = PageOf(a, found')  BY DEF PageOf
    <2>7. PageOf(a, found) \in Nat /\ PageOf(a, found') \in Nat /\ page \in Nat
      BY <2>5, PageIsNat, PassTypes
    <2>8. CASE StaysFound
      <3>1. PageOf(a, found) <= PageOf(a, found')  BY <2>5, <2>8, PagesMoveOn DEF StaysFound
      <3> HIDE DEF found
      <3> QED  BY <1>1, <2>1, <2>2, <2>4, <2>6, <2>7, <3>1 DEF found
    <2>9. CASE Leaves(c)
      <3>1. found' = found \ {c}  BY <2>9 DEF Leaves
      <3>2. CASE PageOf(a, found) > PagesRead /\ PageOf(a, found') <= PagesRead
        <4>1. a \in SlipsPast(c)
          BY <2>1, <2>2, <2>3, <2>5, <3>1, <3>2 DEF SlipsPast, Sought
        <4> QED  BY <2>1, <2>9, <4>1 DEF Leaves
      <3>3. CASE ~ (PageOf(a, found) > PagesRead /\ PageOf(a, found') <= PagesRead)
        <4> HIDE DEF found
        <4>1. CASE job.at = "ask"
          <5>1. PagesRead = page - 1  BY <4>1 DEF PagesRead
          <5> QED  BY <1>1, <2>1, <2>4, <2>6, <2>7, <3>3, <4>1, <5>1 DEF found
        <4>2. CASE job.at # "ask"
          <5>1. PagesRead = page  BY <4>2 DEF PagesRead
          <5> QED  BY <1>1, <2>1, <2>2, <2>4, <2>6, <2>7, <3>3, <4>2, <5>1 DEF found
        <4> QED  BY <4>1, <4>2
      <3> QED  BY <3>2, <3>3
    <2> QED  BY <1>1, <2>8, <2>9
  <1>10. ForgottenOnlyBySlipping'
    <2> SUFFICES ASSUME NEW a \in Asset, Forgotten(a)' PROVE a \in slipped'
      BY DEF ForgottenOnlyBySlipping
    <2>1. a # c
      <3>1. SUFFICES ASSUME a = c PROVE FALSE  OBVIOUS
      <3>2. stamp'[c] > UpdatedAfter'  BY <1>1, <1>3, <3>1 DEF Fresh, Forgotten
      <3> QED  BY <3>1, <3>2 DEF Forgotten, WillBeReread
    <2>2. stamp'[a] = stamp[a] /\ (Reported(a)' <=> Reported(a))  BY <1>1, <2>1
    <2>3. Forgotten(a)  BY <1>2, <1>3, <2>2 DEF Forgotten, WillBeReread
    <2> QED  BY <1>1, <2>1, <2>3 DEF PassInv, ForgottenOnlyBySlipping
  <1> QED  BY <1>5, <1>6, <1>8, <1>9, <1>10 DEF PassInv

LEMMA ClockKeeps == ReadingTypes /\ PassInv /\ Clock => PassInv'
  <1> SUFFICES ASSUME ReadingTypes, PassInv, Clock PROVE PassInv'  OBVIOUS
  <1>1. /\ now' = now + 1 /\ hooks' = {h \in hooks : h.until > now}
        /\ UNCHANGED <<stamp, trash, gone, row, cursor, origin, reading, slipped>>
    BY DEF Clock
  <1>2. /\ job' = job /\ started' = started /\ page' = page /\ fetched' = fetched /\ more' = more
    BY <1>1 DEF reading
  <1>3. HooksAreFresh'
    <2> SUFFICES ASSUME NEW h \in hooks, h.until > now
                 PROVE  h.until >= now + 1 /\ h.stamp >= h.until - MaxDelay - MaxSkew
      BY <1>1 DEF HooksAreFresh
    <2>1. h \in [asset : Asset, stamp : 1 .. MaxTime, until : 1 .. MaxTime + MaxDelay]
      BY DEF ReadingTypes, TypeOK
    <2>2. h.until \in Int  BY <2>1
    <2> QED  BY <2>2, PassTypes DEF PassInv, HooksAreFresh
  <1>5. CursorsInOrder'
    <2>1. Horizon' = Horizon /\ Horizon \in Nat  BY <1>1, <1>2, PassTypes DEF Horizon
    <2> QED  BY <1>1, <1>2, <2>1, PassTypes DEF PassInv, CursorsInOrder
  <1>6. FetchedIsCurrent'  BY <1>1, <1>2 DEF PassInv, FetchedIsCurrent, Horizon
  <1>7. \A a \in Asset :
           PageOf(a, Matches("reconcile"))' = PageOf(a, Matches("reconcile"))
    BY <1>1 DEF Matches, UpdatedAfter, PageOf
  <1>8. AheadInPass'  BY <1>1, <1>2, <1>7 DEF PassInv, AheadInPass, Sought, Reported, UpdatedAfter
  <1>9. ForgottenOnlyBySlipping'  BY <1>1, ForgetsNothing DEF PassInv
  <1> QED  BY <1>3, <1>5, <1>6, <1>8, <1>9 DEF PassInv

LEMMA PassNext == ReadingTypes /\ PassInv /\ [Next]_vars => PassInv'
  <1> SUFFICES ASSUME ReadingTypes, PassInv, [Next]_vars PROVE PassInv'
    OBVIOUS
  <1>1. CASE PressStart \/ PressReset \/ UNCHANGED vars
    <2>1. UNCHANGED <<now, immich, row, cursor, origin, reading, slipped>>
      BY <1>1 DEF PressStart, PressReset, vars
    <2> QED  BY <2>1, PressKeeps
  <1> QED
    BY <1>1, PlantKeeps, BeginKeeps, AskKeeps, StoreKeeps, NextPageKeeps, EndPassKeeps,
       StopKeeps, WebhookKeeps, ImmichKeeps, ClockKeeps
    DEF Next, ReadStep

\* Nothing that changed since the first pass is forgotten unless it slipped: every asset's
\* row is as new as the asset, or the next pass reads it again, or the asset was moved by
\* one that was trashed or deleted from the page a pass was to ask for next to the page it
\* had just read.  That is so for every setting, whatever webhooks were lost or late and
\* however passes broke off.
THEOREM ReconcilerForgetsOnlyBySlipping == Spec => []ForgottenOnlyBySlipping
  <1>1. Init => PassInv
    <2> SUFFICES ASSUME Init PROVE PassInv  OBVIOUS
    <2> QED
      BY DEF Init, PassInv, HooksAreFresh, CursorsInOrder, Horizon, FetchedIsCurrent,
             AheadInPass, ForgottenOnlyBySlipping, Forgotten
  <1>2. ReadingTypes /\ PassInv /\ [Next]_vars => PassInv'  BY PassNext
  <1>3. PassInv => ForgottenOnlyBySlipping  BY DEF PassInv
  <1> QED  BY <1>1, <1>2, <1>3, ReadingHolds, PTL DEF Spec

\* Nothing can leave the reconciler's results.
NothingShrinks == Deletable = {} /\ (DeletionsEnabled \/ ~TrashingAllowed)

LEMMA NothingSlips ==
  ASSUME NothingShrinks
  PROVE  Spec => [](slipped = {})
  <1>1. Init => slipped = {}  BY DEF Init
  <1>2. slipped = {} /\ [Next]_vars => (slipped = {})'
    <2> SUFFICES ASSUME slipped = {}, [Next]_vars PROVE slipped' = {}  OBVIOUS
    <2>1. CASE ReadStep
      BY <2>1 DEF ReadStep, BeginPass, BeginSlice, AskPage, NextPage, EndPass, EndSlice,
                  BreakOff, StoreAsset
    <2>2. ASSUME NEW a \in Asset, Appear(a) \/ Change(a) \/ DeleteForGood(a) PROVE slipped' = {}
      BY <2>2 DEF Appear, Change, DeleteForGood, NothingShrinks
    <2> QED
      BY <2>1, <2>2 DEF Next, PlantCursor, PressStart, PressReset, ReceiveWebhook, Clock, vars
  <1> QED  BY <1>1, <1>2, PTL DEF Spec

\* As long as nothing is deleted for good, and nothing is trashed that deletions do not
\* report, the reconciler forgets nothing at all.
THEOREM UnshrunkResultsForgetNothing ==
  ASSUME NothingShrinks
  PROVE  Spec => []NothingForgotten
  <1>1. slipped = {} /\ ForgottenOnlyBySlipping => NothingForgotten
    BY DEF ForgottenOnlyBySlipping, NothingForgotten
  <1> QED  BY <1>1, NothingSlips, ReconcilerForgetsOnlyBySlipping, PTL
=============================================================================
