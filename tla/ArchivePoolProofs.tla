-------------------------- MODULE ArchivePoolProofs --------------------------
(***************************************************************************)
(* The extraction pool, for any number of leases, keys and pages and any  *)
(* number of I/O errors and restarts.                                      *)
(*                                                                         *)
(* Bookkeeping (IInv): pins match the live leases, and a privacy mark      *)
(* always has a live lease to redeem it.                                   *)
(*                                                                         *)
(* The disk (StoreInv): what bundles lie where, what the index knows of    *)
(* them, and which of them a promise or a marker covers.  From the two     *)
(* follow that a ready manifest is only found over all the pages, that a   *)
(* private document leaves nothing behind, that no later process indexes   *)
(* one, and that room is never made out of a bundle in use.                *)
(*                                                                         *)
(* The books (BooksInv, GuardsExact): the index says the same in all of    *)
(* its parts, the running total is the sum of what its entries are         *)
(* charged, and builds are counted as the guards of the live leases are.   *)
(* From them follow the type of the store, that the accounting is exact    *)
(* while nothing failed, and that a shrink is owed only to a live lease.   *)
(***************************************************************************)
EXTENDS ArchivePool, FiniteSetTheorems, WellFoundedInduction, TLAPS

\* What the pins rest on.
BookOK ==
  /\ active \in [Keys -> Nat]
  /\ lease \in [Leases -> LeaseRecord]
  /\ \A l \in Leases : Live(l) => lease[l].key \in Keys
  /\ scoped \subseteq Keys

\* An ephemeral lease is alone on a session key, and only such a lease is.
SessionKeysExclusive ==
  /\ \A l \in Leases : Live(l) =>
       (lease[l].scope = "EPHEMERAL" <=> lease[l].key \in EphKeys)
  /\ \A l, m \in Leases :
       Live(l) /\ Live(m) /\ lease[l].key = lease[m].key /\ lease[l].key \in EphKeys
         => l = m

IInv == /\ BookOK
        /\ SessionKeysExclusive
        /\ PinsMatchLeases
        /\ MarkAwaitsRelease

\* The leases and the privacy sets keep IInv through any step that leaves
\* every lease's liveness, key and scope alone and does not lose a mark's pin.
LEMMA Bookkeeping ==
  ASSUME IInv, active' = active, lease' \in [Leases -> LeaseRecord],
         \A l \in Leases : /\ lease'[l].key = lease[l].key
                           /\ lease'[l].scope = lease[l].scope
                           /\ lease'[l].st = "free" <=> lease[l].st = "free",
         \A k \in scoped' : k \in Keys /\ active[k] > 0,
         uncacheable' \subseteq scoped'
  PROVE  IInv'
<1>1. \A l \in Leases : Live(l)' <=> Live(l)
  BY DEF Live
<1>2. \A k : Holders(k)' = Holders(k)
  BY <1>1 DEF Holders
<1>3. BookOK'
  BY <1>1 DEF IInv, BookOK
<1>4. SessionKeysExclusive'
  BY <1>1, <1>2 DEF IInv, SessionKeysExclusive
<1>5. PinsMatchLeases'
  BY <1>2 DEF IInv, PinsMatchLeases
<1>6. MarkAwaitsRelease'
  BY DEF MarkAwaitsRelease, Pinned
<1> QED
  BY <1>3, <1>4, <1>5, <1>6 DEF IInv

LEMMA HoldersFinite == \A k : IsFiniteSet(Holders(k)) /\ Cardinality(Holders(k)) \in Nat
<1> TAKE k
<1>1. Holders(k) \subseteq Leases
  BY DEF Holders
<1> QED
  BY <1>1, PoolAssumption, FS_Subset, FS_CardinalityType

\* A live lease has its key pinned.
LEMMA LivePins ==
  ASSUME IInv, NEW l \in Leases, Live(l)
  PROVE  /\ lease[l].key \in Keys
         /\ active[lease[l].key] \in Nat
         /\ active[lease[l].key] > 0
<1>1. l \in Holders(lease[l].key)
  BY DEF Holders
<1>2. Cardinality(Holders(lease[l].key)) # 0
  BY <1>1, HoldersFinite, FS_EmptySet
<1> QED
  BY <1>2, HoldersFinite DEF IInv, BookOK, PinsMatchLeases

\* A new lease takes one pin on its key.
LEMMA OpenKeeps ==
  ASSUME IInv, NEW l \in Leases, NEW k \in Keys, NEW private \in BOOLEAN,
         OpenLease(l, k, private)
  PROVE  IInv'
<1> USE DEF IInv
<1>1. lease' \in [Leases -> LeaseRecord]
  BY PoolAssumption DEF OpenLease, BookOK, LeaseRecord
<1>2. /\ ~Live(l)
      /\ Live(l)' /\ lease'[l].key = k
      /\ lease'[l].scope = IF k \in EphKeys THEN "EPHEMERAL" ELSE "PERSISTENT"
  BY DEF OpenLease, Live, BookOK
<1>3. \A m \in Leases \ {l} : lease'[m] = lease[m]
  BY DEF OpenLease, BookOK
<1>4. \A j : Holders(j)' = IF j = k THEN Holders(j) \cup {l} ELSE Holders(j)
  BY <1>2, <1>3 DEF Holders, Live
<1>5. l \notin Holders(k)
  BY <1>2 DEF Holders
<1>6. /\ active' \in [Keys -> Nat]
      /\ \A j \in Keys : active'[j] = IF j = k THEN active[j] + 1 ELSE active[j]
  BY DEF OpenLease, BookOK
<1>7. BookOK'
  BY <1>1, <1>2, <1>3, <1>6 DEF OpenLease, BookOK, Live, privacy
<1>8. SessionKeysExclusive'
  <2>1. \A m \in Leases \ {l} : Live(m)' <=> Live(m)
    BY <1>3 DEF Live
  <2>2. k \in EphKeys => \A m \in Leases : Live(m) => lease[m].key # k
    BY DEF OpenLease, Fresh, Holders
  <2> QED
    BY <2>1, <2>2, <1>2, <1>3 DEF SessionKeysExclusive
<1>9. PinsMatchLeases'
  BY <1>4, <1>5, <1>6, HoldersFinite, FS_AddElement DEF PinsMatchLeases
<1>10. MarkAwaitsRelease'
  BY <1>6 DEF MarkAwaitsRelease, Pinned, OpenLease, privacy, BookOK
<1> QED
  BY <1>7, <1>8, <1>9, <1>10

\* A promotion moves the one pin of a session key to its content hash, and
\* the privacy mark with it.
LEMMA AdoptKeeps ==
  ASSUME IInv, NEW l \in Leases, NEW t \in ExtKeys, CanPromote(l, t),
         AdoptIdentity(l, t)
  PROVE  IInv'
<1> USE DEF IInv
<1> DEFINE s == lease[l].key
<1>1. /\ Live(l) /\ lease[l].scope = "EPHEMERAL" /\ s \notin uncacheable
      /\ lease[l].st = "open"
  BY DEF CanPromote, Open, Live
<1>2. /\ s \in EphKeys /\ s \in Keys /\ Holders(s) = {l}
      /\ t \in Keys /\ t \notin EphKeys /\ s # t
  <2>1. s \in EphKeys
    BY <1>1 DEF SessionKeysExclusive
  <2>2. Holders(s) = {l}
    BY <1>1, <2>1 DEF SessionKeysExclusive, Holders
  <2> QED
    BY <2>1, <2>2, KeysAssumption DEF Keys
<1>3. active[s] = 1
  BY <1>2, FS_Singleton DEF PinsMatchLeases
<1>4. /\ lease' \in [Leases -> LeaseRecord]
      /\ Live(l)' /\ lease'[l].key = t /\ lease'[l].scope = "PERSISTENT"
      /\ \A m \in Leases \ {l} : lease'[m] = lease[m]
  BY <1>1, <1>2 DEF AdoptIdentity, BookOK, LeaseRecord, Live
<1>5. \A j : Holders(j)' = IF j = s THEN {}
                           ELSE IF j = t THEN Holders(j) \cup {l} ELSE Holders(j)
  <2>1. \A m \in Leases \ {l} : Live(m)' <=> Live(m)
    BY <1>4 DEF Live
  <2> QED
    BY <2>1, <1>1, <1>2, <1>4 DEF Holders
<1>6. /\ active' \in [Keys -> Nat]
      /\ \A j \in Keys : active'[j] = IF j = s THEN 0
                                     ELSE IF j = t THEN active[t] + 1 ELSE active[j]
  BY <1>2, <1>3 DEF AdoptIdentity, Moved, BookOK
<1>7. BookOK'
  <2>1. \A m \in Leases : Live(m)' => lease'[m].key \in Keys
    BY <1>2, <1>4 DEF BookOK, Live
  <2>2. scoped' \subseteq Keys
    BY <1>2 DEF AdoptIdentity, BookOK
  <2> QED
    BY <2>1, <2>2, <1>4, <1>6 DEF BookOK
<1>8. SessionKeysExclusive'
  <2>1. \A m \in Leases \ {l} : Live(m)' <=> Live(m)
    BY <1>4 DEF Live
  <2> QED
    BY <2>1, <1>2, <1>4 DEF SessionKeysExclusive
<1>9. PinsMatchLeases'
  <2>1. l \notin Holders(t)
    BY <1>2 DEF Holders
  <2>2. Cardinality(Holders(t) \cup {l}) = active[t] + 1
    BY ZenonT(40), <2>1, <1>2, HoldersFinite, FS_AddElement DEF PinsMatchLeases
  <2> QED
    BY <2>2, <1>2, <1>5, <1>6, FS_EmptySet DEF PinsMatchLeases
<1>10. MarkAwaitsRelease'
  <2>1. \A k \in scoped' : active'[k] > 0
    BY <1>2, <1>6 DEF AdoptIdentity, MarkAwaitsRelease, Pinned, BookOK
  <2>2. uncacheable' \subseteq scoped'
    BY <1>1 DEF AdoptIdentity, MarkAwaitsRelease
  <2> QED
    BY <2>1, <2>2 DEF MarkAwaitsRelease, Pinned
<1> QED
  BY <1>7, <1>8, <1>9, <1>10

\* Closing returns one pin; the last one takes the privacy mark with it.
LEMMA CloseKeeps ==
  ASSUME IInv, NEW l \in Leases, Close(l)
  PROVE  IInv'
<1> USE DEF IInv
<1> DEFINE k == lease[l].key
<1>1. Live(l)
  BY DEF Close, Live
<1>2. k \in Keys /\ active[k] \in Nat /\ active[k] > 0
  BY <1>1, LivePins
<1>3. /\ lease' \in [Leases -> LeaseRecord]
      /\ ~Live(l)' /\ \A m \in Leases \ {l} : lease'[m] = lease[m]
  BY PoolAssumption DEF Close, NoLease, BookOK, LeaseRecord, Live
<1>4. \A j : Holders(j)' = IF j = k THEN Holders(j) \ {l} ELSE Holders(j)
  <2>1. \A m \in Leases \ {l} : Live(m)' <=> Live(m)
    BY <1>3 DEF Live
  <2> QED
    BY <2>1, <1>1, <1>3 DEF Holders
<1>5. /\ active' \in [Keys -> Nat]
      /\ \A j \in Keys : active'[j] = IF j = k THEN active[j] - 1 ELSE active[j]
  BY <1>2 DEF Close, BookOK
<1>6. BookOK'
  BY <1>3, <1>5 DEF Close, BookOK, Live
<1>7. SessionKeysExclusive'
  <2>1. \A m \in Leases \ {l} : Live(m)' <=> Live(m)
    BY <1>3 DEF Live
  <2> QED
    BY <2>1, <1>3 DEF SessionKeysExclusive
<1>8. PinsMatchLeases'
  <2>1. l \in Holders(k)
    BY <1>1 DEF Holders
  <2>2. Cardinality(Holders(k) \ {l}) = active[k] - 1
    BY <2>1, <1>2, HoldersFinite, FS_RemoveElement DEF PinsMatchLeases
  <2> QED
    BY <2>2, <1>2, <1>4, <1>5 DEF PinsMatchLeases
<1>9. MarkAwaitsRelease'
  <2>1. \A j \in scoped' : active'[j] > 0
    BY SMTT(30), <1>2, <1>5 DEF Close, MarkAwaitsRelease, Pinned, BookOK
  <2>2. uncacheable' \subseteq scoped'
    BY DEF Close, MarkAwaitsRelease
  <2> QED
    BY <2>1, <2>2 DEF MarkAwaitsRelease, Pinned
<1> QED
  BY <1>6, <1>7, <1>8, <1>9

\* Marking a live lease's key keeps the mark redeemable.
LEMMA MarkKeeps ==
  ASSUME IInv, NEW l \in Leases, Live(l), NEW st \in {"open", "closing"},
         lease' = [lease EXCEPT ![l].st = st],
         active' = active, MarkSessionScoped(lease[l].key)
  PROVE  IInv'
<1>1. lease' \in [Leases -> LeaseRecord]
  BY DEF IInv, BookOK, LeaseRecord
<1>2. \A m \in Leases : /\ lease'[m].key = lease[m].key
                        /\ lease'[m].scope = lease[m].scope
                        /\ lease'[m].st = "free" <=> lease[m].st = "free"
  BY DEF IInv, BookOK, LeaseRecord, Live
<1>3. \A k \in scoped' : k \in Keys /\ active[k] > 0
  BY LivePins DEF IInv, BookOK, MarkSessionScoped, MarkAwaitsRelease, Pinned
<1>4. uncacheable' \subseteq scoped'
  BY DEF IInv, MarkSessionScoped, MarkAwaitsRelease
<1> QED
  BY <1>1, <1>2, <1>3, <1>4, Bookkeeping

\* When the process dies nothing is pinned, promised or refused any more.
LEMMA DieKeeps ==
  ASSUME NEW file, NEW left, NEW stamp, Die(file, left, stamp)
  PROVE  IInv'
<1>1. \A l \in Leases : lease'[l] = NoLease
  BY DEF Die
<1>2. \A k : Holders(k)' = {}
  BY <1>1 DEF Holders, Live, NoLease
<1>3. BookOK'
  BY <1>1, PoolAssumption DEF Die, BookOK, Live, NoLease, LeaseRecord
<1>4. SessionKeysExclusive'
  BY <1>1 DEF SessionKeysExclusive, Live, NoLease
<1>5. PinsMatchLeases'
  BY <1>2, FS_EmptySet DEF Die, PinsMatchLeases
<1>6. MarkAwaitsRelease'
  BY DEF Die, MarkAwaitsRelease
<1> QED
  BY <1>3, <1>4, <1>5, <1>6 DEF IInv

LEMMA InitHolds == Init => IInv
<1> SUFFICES ASSUME Init PROVE IInv
  OBVIOUS
<1>1. \A l \in Leases : lease[l] = NoLease
  BY DEF Init
<1>2. \A k : Holders(k) = {}
  BY <1>1 DEF Holders, Live, NoLease
<1>3. BookOK
  BY <1>1, PoolAssumption DEF Init, BookOK, Live, NoLease, LeaseRecord
<1>4. SessionKeysExclusive
  BY <1>1 DEF SessionKeysExclusive, Live, NoLease
<1>5. PinsMatchLeases
  BY <1>2, FS_EmptySet DEF Init, PinsMatchLeases
<1>6. MarkAwaitsRelease
  BY DEF Init, MarkAwaitsRelease
<1> QED
  BY <1>3, <1>4, <1>5, <1>6 DEF IInv

LEMMA StepKeeps == IInv /\ [Next]_vars => IInv'
<1> SUFFICES ASSUME IInv, [Next]_vars PROVE IInv'
  OBVIOUS
<1> DEFINE Quiet == /\ active' = active
                    /\ lease' = lease
                    /\ scoped' = scoped
<1>q. ASSUME Quiet, uncacheable' \subseteq scoped PROVE IInv'
  BY <1>q, Bookkeeping DEF IInv, BookOK, MarkAwaitsRelease, Pinned
<1>u. ASSUME Quiet, uncacheable' = uncacheable PROVE IInv'
  BY <1>q, <1>u DEF IInv, MarkAwaitsRelease
<1>1. ASSUME NEW l \in Leases, NEW k \in Keys, NEW private \in BOOLEAN,
             OpenLease(l, k, private)
      PROVE  IInv'
  BY <1>1, OpenKeeps
<1>2. ASSUME NEW l \in Leases, MarkPrivate(l) PROVE IInv'
  <2>1. Live(l) /\ active' = active
    BY <1>2 DEF MarkPrivate, Live, pins
  <2> QED
    BY <1>2, <2>1, MarkKeeps DEF MarkPrivate
<1>3. ASSUME NEW l \in Leases, DropUnreadable(l) PROVE IInv'
  BY <1>3, <1>u DEF DropUnreadable, pins, privacy
<1>4. ASSUME NEW l \in Leases, Touch(l) PROVE IInv'
  BY <1>4, <1>u DEF Touch, pins, privacy
<1>5. ASSUME NEW l \in Leases, WriteRefused(l) PROVE IInv'
  <2>1. uncacheable' \subseteq scoped
    BY <1>5 DEF WriteRefused, IInv, MarkAwaitsRelease
  <2> QED
    BY <1>5, <2>1, <1>q DEF WriteRefused, pins
<1>6. ASSUME NEW l \in Leases, NEW ps \in (SUBSET Pages) \ {{}}, PutMany(l, ps)
      PROVE  IInv'
  BY <1>6, <1>u DEF PutMany, pins, privacy
<1>7. ASSUME NEW l \in Leases,
             \/ PutFailed(l) \/ Publish(l) \/ PublishUnrenamed(l) \/ PublishLost(l)
             \/ PublishFailed(l) \/ PublishRefused(l) \/ PurgeUnpublished(l)
      PROVE  IInv'
  BY <1>7, <1>u DEF PutFailed, Publish, PublishUnrenamed, PublishLost,
                    PublishFailed, PublishRefused, PurgeUnpublished, pins, privacy
<1>8. ASSUME NEW l \in Leases, BeginBuild(l) \/ EndBuild(l) PROVE IInv'
  <2>1. /\ active' = active /\ scoped' = scoped /\ uncacheable' = uncacheable
    BY <1>8 DEF BeginBuild, EndBuild, privacy
  <2>2. lease' \in [Leases -> LeaseRecord]
    BY <1>8, PoolAssumption DEF BeginBuild, EndBuild, IInv, BookOK, LeaseRecord
  <2>3. \A m \in Leases : /\ lease'[m].key = lease[m].key
                          /\ lease'[m].scope = lease[m].scope
                          /\ lease'[m].st = "free" <=> lease[m].st = "free"
    BY <1>8 DEF BeginBuild, EndBuild, IInv, BookOK, LeaseRecord
  <2> QED
    BY <2>1, <2>2, <2>3, Bookkeeping DEF IInv, BookOK, MarkAwaitsRelease, Pinned
<1>9. ASSUME NEW l \in Leases, NEW t \in ExtKeys,
             \/ PromoteVanished(l, t) \/ PromoteMove(l, t) \/ PromoteMerge(l, t)
      PROVE  IInv'
  BY <1>9, AdoptKeeps DEF PromoteVanished, PromoteMove, PromoteMerge
<1>10. ASSUME NEW l \in Leases, NEW t \in ExtKeys, PromoteFailed(l, t) PROVE IInv'
  BY <1>10, <1>u DEF PromoteFailed, pins, privacy
<1>11. ASSUME NEW l \in Leases, CloseMark(l) PROVE IInv'
  <2>1. Live(l) /\ active' = active
    BY <1>11 DEF CloseMark, Open, Live, pins
  <2> QED
    BY <1>11, <2>1, MarkKeeps DEF CloseMark
<1>12. ASSUME NEW l \in Leases, Close(l) PROVE IInv'
  BY <1>12, CloseKeeps
<1>13. ASSUME NEW b \in Budgets, Resize(b) PROVE IInv'
  BY <1>13, <1>u DEF Resize, pins, privacy
<1>14. CASE Clear
  BY <1>14, <1>u DEF Clear, pins, privacy
<1>15. CASE OsPurge
  BY <1>15, <1>u DEF OsPurge, pins, privacy
<1>16. CASE CrashStep
  BY <1>16, DieKeeps DEF CrashStep, Crash, CrashInWrite, CrashInPublish,
                         CrashInPromote, CrashInRelease
<1>17. CASE Reconcile
  BY <1>17, <1>u DEF Reconcile, pins, privacy
<1>18. CASE UNCHANGED vars
  BY <1>18, <1>u DEF vars, pins, privacy
<1> QED
  BY <1>1, <1>2, <1>3, <1>4, <1>5, <1>6, <1>7, <1>8, <1>9, <1>10, <1>11, <1>12,
     <1>13, <1>14, <1>15, <1>16, <1>17, <1>18 DEF Next, LeaseStep

\* The bookkeeping invariant holds in every reachable state.
THEOREM Inductive == Spec => []IInv
<1> QED
  BY InitHolds, StepKeeps, PTL DEF Spec

\* ArchiveExtractionPool._active counts exactly the live leases of each
\* document, across every promotion, failed promotion, close and crash.
THEOREM PinsExact == Spec => []PinsMatchLeases
<1>1. IInv => PinsMatchLeases
  BY DEF IInv
<1> QED
  BY <1>1, Inductive, PTL

\* mark_session_scoped never leaves a promise without a lease whose release
\* will keep it, and release never forgets a document it refused to cache.
THEOREM MarksRedeemable == Spec => []MarkAwaitsRelease
<1>1. IInv => MarkAwaitsRelease
  BY DEF IInv
<1> QED
  BY <1>1, Inductive, PTL

\* What the bookkeeping types need of a step: the sets stay sets of keys,
\* the flags stay flags.
LEMMA TypeStep == IInv /\ BookTypeOK /\ [Next]_vars => BookTypeOK'
<1> SUFFICES ASSUME IInv, BookTypeOK, [Next]_vars PROVE BookTypeOK'
  OBVIOUS
<1>i. IInv'
  BY StepKeeps
<1>b. BookOK' /\ MarkAwaitsRelease' /\ BookOK
  BY <1>i DEF IInv
<1> USE <1>b DEF BookOK, BookTypeOK, MarkAwaitsRelease
<1>r. /\ active' \in [Keys -> Nat] /\ lease' \in [Leases -> LeaseRecord]
      /\ scoped' \subseteq Keys /\ uncacheable' \subseteq Keys
  OBVIOUS
<1> DEFINE Rest == /\ markers' \subseteq Keys /\ stamped' \in BOOLEAN
                   /\ building' \in [Keys -> Int]
                   /\ budget' \in Budgets /\ strict' \in BOOLEAN
                   /\ up' \in BOOLEAN
<1> SUFFICES Rest
  BY <1>r
<1>1. ASSUME NEW l \in Leases, NEW k \in Keys, NEW private \in BOOLEAN,
             OpenLease(l, k, private)
      PROVE  Rest
  BY <1>1 DEF OpenLease, disk, limits, env
<1>2. ASSUME NEW l \in Leases, MarkPrivate(l) \/ CloseMark(l) PROVE Rest
  <2>1. lease[l].key \in Keys
    BY <1>2 DEF MarkPrivate, CloseMark, Live, Open
  <2> QED
    BY <1>2, <2>1 DEF MarkPrivate, CloseMark, MarkSessionScoped, pins, limits, env
<1>3. ASSUME NEW l \in Leases, DropUnreadable(l) \/ Touch(l) \/ WriteRefused(l)
                                \/ PurgeUnpublished(l)
      PROVE  Rest
  BY <1>3 DEF DropUnreadable, Touch, WriteRefused, PurgeUnpublished,
              disk, pins, limits, env
<1>4. ASSUME NEW l \in Leases, NEW ps \in (SUBSET Pages) \ {{}},
             PutMany(l, ps)
      PROVE  Rest
  BY <1>4 DEF PutMany, CanWrite, pins, limits, env
<1>5. ASSUME NEW l \in Leases, \/ PutFailed(l) \/ Publish(l) \/ PublishUnrenamed(l) \/ PublishLost(l)
                                \/ PublishFailed(l) \/ PublishRefused(l)
      PROVE  Rest
  BY <1>5 DEF PutFailed, Publish, PublishUnrenamed, PublishLost, PublishFailed, PublishRefused,
              CanWrite, pins, limits, env
<1>6. ASSUME NEW l \in Leases, BeginBuild(l) \/ EndBuild(l) PROVE Rest
  BY <1>6 DEF BeginBuild, EndBuild, disk, limits, env
<1>7. ASSUME NEW l \in Leases, NEW t \in ExtKeys,
             \/ PromoteVanished(l, t) \/ PromoteMove(l, t) \/ PromoteMerge(l, t)
      PROVE  Rest
  <2>1. AdoptIdentity(l, t) /\ t \in Keys /\ lease[l].key \in Keys
    BY <1>7 DEF PromoteVanished, PromoteMove, PromoteMerge, CanPromote, Open, Live, Keys
  <2>2. building' \in [Keys -> Int]
    BY <2>1 DEF AdoptIdentity, Moved
  <2> QED
    BY <2>1, <2>2 DEF AdoptIdentity, limits, env
<1>8. ASSUME NEW l \in Leases, NEW t \in ExtKeys, PromoteFailed(l, t) PROVE Rest
  BY <1>8 DEF PromoteFailed, MarkTarget, TargetMarks, Keys, pins, limits, env
<1>9. ASSUME NEW l \in Leases, Close(l) PROVE Rest
  BY <1>9 DEF Close, env
<1>10. ASSUME NEW b \in Budgets, Resize(b) PROVE Rest
  BY <1>10 DEF Resize, disk, pins, env
<1>11. CASE Clear
  BY <1>11 DEF Clear, pins, env
<1>12. CASE OsPurge
  BY <1>12 DEF OsPurge, pins, limits, env
<1>13. ASSUME NEW file, NEW left \in SUBSET Keys, NEW stamp \in BOOLEAN,
              Die(file, left, stamp)
       PROVE  Rest
  <2>1. markers' = left /\ stamped' = stamp /\ up' = FALSE /\ strict' = FALSE
    BY <1>13 DEF Die
  <2>2. markers' \subseteq Keys /\ building' \in [Keys -> Int] /\ budget' \in Budgets
    BY <1>13, <2>1 DEF Die
  <2>3. stamped' \in BOOLEAN /\ up' \in BOOLEAN /\ strict' \in BOOLEAN
    BY <2>1, Zenon
  <2> QED
    BY <2>2, <2>3
<1>14. CASE CrashStep
  <2>1. stamped \in BOOLEAN /\ TRUE \in BOOLEAN /\ markers \in SUBSET Keys
    OBVIOUS
  <2>2. CASE Crash
    BY <1>13, <2>1, <2>2 DEF Crash
  <2>3. ASSUME NEW l \in Leases, CrashInWrite(l) PROVE Rest
    <3>1. markers \cup (scoped \cap {lease[l].key}) \in SUBSET Keys
      OBVIOUS
    <3> QED
      BY <1>13, <2>1, <2>3, <3>1 DEF CrashInWrite
  <2>4. ASSUME NEW l \in Leases, CrashInPublish(l) PROVE Rest
    <3>1. markers \cup (scoped \cap {lease[l].key}) \in SUBSET Keys
      OBVIOUS
    <3> QED
      BY SMTT(30), <1>13, <2>1, <2>4, <3>1 DEF CrashInPublish
  <2>5. ASSUME NEW l \in Leases, CrashInRelease(l) PROVE Rest
    <3>1. \E file : Die(file, markers, stamped)
      BY <2>5, Zenon DEF CrashInRelease
    <3> QED
      BY <1>13, <2>1, <3>1
  <2>6. ASSUME NEW l \in Leases, NEW t \in ExtKeys, CrashInPromote(l, t) PROVE Rest
    <3>1. markers \cup (IF lease[l].key \in scoped THEN {t} ELSE {}) \in SUBSET Keys
      BY DEF Keys
    <3>2. \E file : Die(file, markers \cup (IF lease[l].key \in scoped THEN {t} ELSE {}),
                        stamped)
      BY <2>6, Zenon DEF CrashInPromote, TargetMarks
    <3> QED
      BY <1>13, <2>1, <3>1, <3>2
  <2> QED
    BY <1>14, <2>2, <2>3, <2>4, <2>5, <2>6 DEF CrashStep
<1>15. CASE Reconcile
  <2>1. markers' \subseteq Sessions
    BY <1>15 DEF Reconcile
  <2>2. markers' \subseteq Keys
    BY <2>1 DEF Sessions
  <2>3. up' = TRUE /\ stamped' = TRUE /\ building' = building
        /\ budget' = budget /\ strict' = strict
    BY <1>15 DEF Reconcile, pins, limits
  <2> QED
    BY <2>2, <2>3
<1>16. CASE UNCHANGED vars
  <2>1. /\ markers' = markers /\ stamped' = stamped /\ building' = building
        /\ budget' = budget /\ strict' = strict /\ up' = up
    BY <1>16 DEF vars, disk, pins, limits, env
  <2> QED
    BY <2>1
<1> HIDE DEF Rest, BookTypeOK, BookOK, MarkAwaitsRelease
<1> QED
  BY <1>1, <1>2, <1>3, <1>4, <1>5, <1>6, <1>7, <1>8, <1>9, <1>10, <1>11, <1>12,
     <1>14, <1>15, <1>16 DEF Next, LeaseStep

\* The pool's bookkeeping, its privacy sets, its limits and the disk markers
\* keep their types in every reachable state.
THEOREM BookTypes == Spec => []BookTypeOK
<1>1. Init => BookTypeOK
  <2> SUFFICES ASSUME Init PROVE BookTypeOK
    OBVIOUS
  <2>1. /\ markers \subseteq Keys
        /\ active \in [Keys -> Nat] /\ building \in [Keys -> Int]
        /\ scoped \subseteq Keys /\ uncacheable \subseteq Keys
        /\ budget \in Budgets
    BY DEF Init
  <2>2. stamped = TRUE /\ strict = FALSE /\ up = TRUE
    BY DEF Init
  <2>3. lease \in [Leases -> LeaseRecord]
    BY PoolAssumption DEF Init, NoLease, LeaseRecord
  <2> QED
    BY <2>1, <2>2, <2>3, Zenon DEF BookTypeOK
<1> QED
  BY <1>1, TypeStep, Inductive, PTL DEF Spec

-----------------------------------------------------------------------------
(* The bundles.  A good one carries a ready manifest only over all pages,  *)
(* and nothing remains of one that is absent.                              *)
Good == {b \in Bundle : /\ b.ready # "none" => b.pages = Pages
                        /\ b.state = "absent" => b = Absent}

StoreOK(s) == s.file \in [Files -> Good] /\ s.at \in [Keys -> Names \cup {"none"}]

\* r is s after bundles were removed: an entry goes only with its file.
Pruned(s, r) ==
  /\ StoreOK(r)
  /\ \A f \in Files : r.file[f] \in {s.file[f], Absent}
  /\ \A k \in Keys : r.at[k] \in {s.at[k], "none"}
  /\ \A k \in Keys : r.at[k] # s.at[k] => r.file[<<k, s.at[k]>>] = Absent

LEMMA AbsentGood == Absent \in Good /\ Absent.priv = FALSE /\ Absent.state = "absent"
BY DEF Absent, Good, Bundle, Kinds

LEMMA AppendedGood ==
  ASSUME NEW b \in Good, NEW ps \in SUBSET Pages, NEW priv \in BOOLEAN
  PROVE  /\ Appended(b, ps, priv) \in Good
         /\ Appended(b, ps, priv).state = "intact"
         /\ Appended(b, ps, priv).priv => b.priv \/ priv
BY DEF Appended, Good, Bundle, Absent, Kinds

LEMMA GarbledGood ==
  ASSUME NEW b \in Good, NEW priv \in BOOLEAN
  PROVE  /\ Garbled(b, priv) \in Good
         /\ Garbled(b, priv).priv => b.priv \/ priv
BY DEF Garbled, Good, Bundle, Absent, Kinds

LEMMA RetargetedGood ==
  ASSUME NEW b \in Good, NEW t \in Keys
  PROVE  /\ Retargeted(b, t) \in Good
         /\ Retargeted(b, t).priv = b.priv /\ Retargeted(b, t).state = b.state
BY DEF Retargeted, Good, Bundle, Absent, Kinds, Kind

LEMMA MergedGood ==
  ASSUME NEW b \in Good, NEW c \in Good, NEW ready \in BOOLEAN
  PROVE  /\ Merged(b, c, ready) \in Good
         /\ Merged(b, c, ready).priv => b.priv \/ c.priv
BY DEF Merged, Good, Bundle, Absent, Kinds

\* A manifest is written only over all the pages.
LEMMA StampedGood ==
  ASSUME NEW b \in Good, b.state = "intact", b.pages = Pages, NEW k \in Keys
  PROVE  /\ [b EXCEPT !.ready = Kind(k)] \in Good
         /\ [b EXCEPT !.ready = Kind(k)].priv = b.priv
BY DEF Good, Bundle, Absent, Kinds, Kind

LEMMA PromisedGood ==
  ASSUME NEW b \in Good, b.state # "absent"
  PROVE  [b EXCEPT !.priv = TRUE] \in Good
BY DEF Good, Bundle, Absent, Kinds

LEMMA UnlinkedGood ==
  ASSUME NEW file \in [Files -> Good], NEW gone, NEW stuck
  PROVE  /\ Unlinked(file, gone, stuck) \in [Files -> Good]
         /\ \A f \in Files : Unlinked(file, gone, stuck)[f] =
              IF f \in gone \ stuck THEN Absent ELSE file[f]
BY AbsentGood DEF Unlinked

LEMMA EvictPrunes ==
  ASSUME NEW s, StoreOK(s), NEW safe, NEW b, NEW F
  PROVE  /\ Pruned(s, Evict(s, safe, b, F))
         /\ \A k \in Keys \cap safe :
              /\ Evict(s, safe, b, F).at[k] = s.at[k]
              /\ \A n \in Names : Evict(s, safe, b, F).file[<<k, n>>] = s.file[<<k, n>>]
<1> DEFINE r == Evict(s, safe, b, F)
<1>1. PICK G : /\ \A k \in G : k \notin safe
               /\ r.file = Unlinked(s.file, {<<k, s.at[k]>> : k \in G}, {})
               /\ r.at = [k \in Keys |-> IF k \in G THEN "none" ELSE s.at[k]]
  <2>1. PICK tried :
          LET gone == {k \in tried \ safe : ~Resists(s, k, F)} IN
          /\ r.file = Unlinked(s.file, {<<k, s.at[k]>> : k \in gone}, {})
          /\ r.at = [k \in Keys |-> IF k \in gone THEN "none" ELSE s.at[k]]
    BY DEF Evict
  <2> DEFINE gone == {k \in tried \ safe : ~Resists(s, k, F)}
  <2>2. \A k \in gone : k \notin safe
    OBVIOUS
  <2>3. /\ r.file = Unlinked(s.file, {<<k, s.at[k]>> : k \in gone}, {})
        /\ r.at = [k \in Keys |-> IF k \in gone THEN "none" ELSE s.at[k]]
    BY <2>1
  <2> HIDE DEF gone, r
  <2> QED
    BY <2>2, <2>3
<1> HIDE DEF r
<1>2. /\ r.file \in [Files -> Good]
      /\ \A f \in Files : r.file[f] = IF f \in {<<k, s.at[k]>> : k \in G} THEN Absent ELSE s.file[f]
  BY <1>1, UnlinkedGood DEF StoreOK
<1>3. \A k \in Keys, n \in Names : <<k, n>> \in Files
  BY DEF Files
<1>4. Pruned(s, r)
  <2>1. StoreOK(r)
    BY <1>1, <1>2 DEF StoreOK
  <2>2. \A k \in Keys : r.at[k] # s.at[k] => r.file[<<k, s.at[k]>>] = Absent
    <3> TAKE k \in Keys
    <3> HAVE r.at[k] # s.at[k]
    <3>1. k \in G /\ s.at[k] \in Names
      BY <1>1 DEF StoreOK
    <3> QED
      BY <3>1, <1>2, <1>3
  <2> QED
    BY <1>1, <1>2, <2>1, <2>2 DEF Pruned
<1>5. \A k \in Keys \cap safe :
        r.at[k] = s.at[k] /\ \A n \in Names : r.file[<<k, n>>] = s.file[<<k, n>>]
  BY <1>1, <1>2, <1>3
<1> QED
  BY <1>4, <1>5 DEF r

LEMMA SelfPruned ==
  ASSUME NEW s, StoreOK(s)
  PROVE  Pruned(s, s)
BY DEF Pruned

LEMMA ForgetPrunes ==
  ASSUME NEW s, StoreOK(s), NEW k \in Keys, NEW F
  PROVE  /\ Pruned(s, Forget(s, k, F))
         /\ \A j \in Keys \ {k} : /\ Forget(s, k, F).at[j] = s.at[j]
                                  /\ \A n \in Names : Forget(s, k, F).file[<<j, n>>] = s.file[<<j, n>>]
<1> DEFINE r == Forget(s, k, F)
<1>1. CASE r.file = s.file /\ r.at = s.at
  BY <1>1 DEF Pruned, StoreOK
<1>2. CASE /\ r.file = Unlinked(s.file, {<<k, s.at[k]>>}, {})
           /\ r.at = [s.at EXCEPT ![k] = "none"]
           /\ s.at[k] # "none"
  <2> HIDE DEF r
  <2>1. <<k, s.at[k]>> \in Files
    BY <1>2 DEF StoreOK, Files
  <2>2. /\ r.file \in [Files -> Good]
        /\ \A f \in Files : r.file[f] = IF f = <<k, s.at[k]>> THEN Absent ELSE s.file[f]
    BY <1>2, UnlinkedGood DEF StoreOK
  <2>3. \A j \in Keys : r.at[j] = IF j = k THEN "none" ELSE s.at[j]
    BY <1>2 DEF StoreOK
  <2>4. StoreOK(r)
    BY <1>2, <2>2 DEF StoreOK
  <2>5. \A j \in Keys, n \in Names : <<j, n>> \in Files
    BY DEF Files
  <2> QED
    BY <2>1, <2>2, <2>3, <2>4, <2>5 DEF Pruned, r
<1> QED
  BY <1>1, <1>2 DEF Forget

\* A purge takes both names; what cannot be unlinked keeps its entry.
LEMMA PurgePrunes ==
  ASSUME NEW s, StoreOK(s), NEW k \in Keys, NEW F
  PROVE  /\ Pruned(s, Purge(s, k, F))
         /\ \A j \in Keys \ {k} : /\ Purge(s, k, F).at[j] = s.at[j]
                                  /\ \A n \in Names : Purge(s, k, F).file[<<j, n>>] = s.file[<<j, n>>]
         /\ F = {} => \A n \in Names : Purge(s, k, F).file[<<k, n>>] = Absent
<1> DEFINE u == [s EXCEPT !.file = Unlinked(@, {k} \X Names, F)]
           r == Forget(u, k, F)
<1>1. /\ u.file = Unlinked(s.file, {k} \X Names, F) /\ u.at = s.at
  OBVIOUS
<1>2. /\ u.file \in [Files -> Good]
      /\ \A f \in Files : u.file[f] = IF f \in ({k} \X Names) \ F THEN Absent ELSE s.file[f]
  BY <1>1, UnlinkedGood DEF StoreOK
<1>3. StoreOK(u)
  BY <1>1, <1>2 DEF StoreOK
<1> HIDE DEF u
<1>4. /\ Pruned(u, r)
      /\ \A j \in Keys \ {k} : /\ r.at[j] = u.at[j]
                               /\ \A n \in Names : r.file[<<j, n>>] = u.file[<<j, n>>]
  BY <1>3, ForgetPrunes
<1> HIDE DEF r
<1>5. \A j \in Keys, n \in Names : <<j, n>> \in Files
  BY DEF Files
<1>6. Pruned(s, r)
  BY <1>1, <1>2, <1>4 DEF Pruned
<1>7. \A j \in Keys \ {k} : r.at[j] = s.at[j] /\ \A n \in Names : r.file[<<j, n>>] = s.file[<<j, n>>]
  BY <1>1, <1>2, <1>4, <1>5
<1>8. F = {} => \A n \in Names : r.file[<<k, n>>] = Absent
  BY <1>2, <1>4, <1>5 DEF Pruned
<1> QED
  BY <1>6, <1>7, <1>8 DEF r, u, Purge

LEMMA ForgetAllPrunes ==
  ASSUME NEW s, StoreOK(s), NEW F
  PROVE  /\ Pruned(s, ForgetAll(s, F))
         /\ \A f \in Files : ForgetAll(s, F).at[f[1]] = f[2] => f \in F
<1> DEFINE r == ForgetAll(s, F)
<1>1. /\ r.file = Unlinked(s.file, {<<k, s.at[k]>> : k \in Indexed(s)}, F)
      /\ r.at = [k \in Keys |-> IF Resists(s, k, F) THEN s.at[k] ELSE "none"]
  BY DEF ForgetAll, Indexed, Resists, InPlace
<1> HIDE DEF r
<1>2. /\ r.file \in [Files -> Good]
      /\ \A f \in Files : r.file[f] =
           IF f \in {<<k, s.at[k]>> : k \in Indexed(s)} \ F THEN Absent ELSE s.file[f]
  BY <1>1, UnlinkedGood DEF StoreOK
<1>3. StoreOK(r)
  BY <1>1, <1>2 DEF StoreOK
<1>4. \A k \in Keys : r.at[k] # s.at[k] => r.file[<<k, s.at[k]>>] = Absent
  <2> SUFFICES ASSUME NEW k \in Keys, r.at[k] # s.at[k] PROVE r.file[<<k, s.at[k]>>] = Absent
    OBVIOUS
  <2>1. s.at[k] # "none" /\ ~Resists(s, k, F) /\ <<k, s.at[k]>> \in Files
    BY <1>1 DEF StoreOK, Files
  <2>2. CASE <<k, s.at[k]>> \in F
    <3>1. s.file[<<k, s.at[k]>>] = Absent
      BY <2>1, <2>2 DEF Resists, InPlace, Exists, StoreOK, Good
    <3> QED
      BY <1>2, <2>1, <3>1
  <2>3. CASE <<k, s.at[k]>> \notin F
    BY <1>2, <2>1, <2>3 DEF Indexed
  <2> QED
    BY <2>2, <2>3
<1>5. \A f \in Files : r.at[f[1]] = f[2] => f \in F
  <2> SUFFICES ASSUME NEW f \in Files, r.at[f[1]] = f[2] PROVE f \in F
    OBVIOUS
  <2>1. f[1] \in Keys /\ f[2] \in Names /\ f[2] # "none" /\ f = <<f[1], f[2]>>
    BY DEF Files, Names
  <2> QED
    BY <1>1, <2>1 DEF Resists
<1> QED
  BY <1>1, <1>2, <1>3, <1>4, <1>5 DEF Pruned, r

-----------------------------------------------------------------------------
(* What lies on the disk, for a process that is running or not, after n    *)
(* I/O errors.  With none yet, a running process has an entry for every    *)
(* bundle and a promise for every private one; with at most one, private   *)
(* bundles are marked on the disk or are those of a session.               *)
Sane(s, running, n, stamp, promised, marked, held) ==
  /\ StoreOK(s)
  /\ ~stamp => \A f \in Files : ~Exists(s, f)
  /\ running /\ n = 0 => \A f \in Files : Exists(s, f) => s.at[f[1]] = f[2]
  /\ running /\ n = 0 => \A f \in Files : s.file[f].priv => f[1] \in promised
  /\ n <= 1 => \A f \in Files : s.file[f].priv => f[1] \in EphKeys \cup marked
  /\ running /\ n <= 1 => \A f \in Files :
       s.file[f].priv /\ f[1] \in EphKeys \cap held => f[1] \in promised

Held == {k \in Keys : Holders(k) # {}}

StoreInv ==
  /\ Sane(store, up, faults, stamped, scoped, markers, Held)
  /\ faults \in Nat
  /\ ~up => \A k \in Keys : store.at[k] = "none" /\ k \notin Held

\* What a step has to show of the store it makes before it evicts.
Upheld(s) == Sane(s, up', faults', stamped', scoped', markers', Held')

LEMMA PrunedUpheld ==
  ASSUME NEW s, NEW r, Pruned(s, r), Upheld(s)
  PROVE  Upheld(r)
<1>1. \A f \in Files : Exists(r, f) => Exists(s, f) /\ r.file[f] = s.file[f]
  BY AbsentGood DEF Pruned, Exists
<1>2. \A f \in Files : r.file[f].priv => s.file[f].priv
  BY AbsentGood DEF Pruned
<1>3. ASSUME NEW f \in Files, Exists(r, f), s.at[f[1]] = f[2]
      PROVE  r.at[f[1]] = f[2]
  <2>1. f[1] \in Keys /\ f = <<f[1], f[2]>>
    BY DEF Files
  <2> QED
    BY <1>3, <2>1, AbsentGood DEF Pruned, Exists
<1>4. StoreOK(r)
  BY DEF Pruned
<1> QED
  BY <1>1, <1>2, <1>3, <1>4 DEF Upheld, Sane

\* A step that leaves promises, marks and leases alone upholds the store as it was.
LEMMA QuietUpheld ==
  ASSUME StoreInv, up, up', faults' \in Nat, faults <= faults', stamped => stamped',
         markers \subseteq markers', scoped \subseteq scoped', Held' = Held
  PROVE  Upheld(store)
BY DEF StoreInv, Upheld, Sane

\* A step that writes the bundle of one held key.
LEMMA WriteUpheld ==
  ASSUME StoreInv, up, up', faults' \in Nat, faults <= faults', stamped',
         NEW k \in Held, markers' = markers \cup (scoped \cap {k}), scoped' = scoped, Held' = Held,
         NEW s, StoreOK(s),
         \A j \in Keys \ {k} : /\ s.at[j] = store.at[j]
                               /\ \A n \in Names : s.file[<<j, n>>] = store.file[<<j, n>>],
         \A n \in Names : s.file[<<k, n>>].priv
            => k \in scoped \/ \E m \in Names : store.file[<<k, m>>].priv,
         faults' = 0 => \A n \in Names : Exists(s, <<k, n>>) => s.at[k] = n
  PROVE  Upheld(s)
<1>1. \A f \in Files : f[1] \in Keys /\ f[2] \in Names /\ f = <<f[1], f[2]>>
  BY DEF Files
<1>2. \A n \in Names : <<k, n>> \in Files
  BY DEF Files, Held
<1>3. Sane(store, up, faults, stamped, scoped, markers, Held) /\ faults \in Nat
  BY DEF StoreInv
<1>4. ASSUME NEW f \in Files, f[1] # k
      PROVE  s.file[f] = store.file[f] /\ s.at[f[1]] = store.at[f[1]]
  BY <1>1, <1>4
<1>5. faults' = 0 => \A f \in Files : Exists(s, f) => s.at[f[1]] = f[2]
  BY <1>1, <1>3, <1>4 DEF Sane, Exists
<1>6. \A m \in Names : store.file[<<k, m>>].priv =>
        /\ faults = 0 => k \in scoped
        /\ faults <= 1 => k \in EphKeys \cup markers
        /\ faults <= 1 /\ k \in EphKeys => k \in scoped
  BY <1>2, <1>3 DEF Sane
<1>7. ASSUME NEW f \in Files, s.file[f].priv
      PROVE  /\ faults' = 0 => f[1] \in scoped
             /\ faults' <= 1 => f[1] \in EphKeys \cup markers'
             /\ faults' <= 1 /\ f[1] \in EphKeys \cap Held => f[1] \in scoped
  <2>1. CASE f[1] = k
    <3>1. k \in scoped \/ \E m \in Names : store.file[<<k, m>>].priv
      BY <1>1, <1>7, <2>1
    <3>2. (faults' = 0 => faults = 0) /\ (faults' <= 1 => faults <= 1)
      BY <1>3
    <3>3. CASE k \in scoped
      BY <2>1, <3>3
    <3>4. CASE \E m \in Names : store.file[<<k, m>>].priv
      <4>1. /\ faults = 0 => k \in scoped
            /\ faults <= 1 => k \in EphKeys \cup markers
            /\ faults <= 1 /\ k \in EphKeys => k \in scoped
        BY <1>6, <3>4
      <4> QED
        BY <2>1, <3>2, <4>1
    <3> QED
      BY <3>1, <3>3, <3>4
  <2>2. CASE f[1] # k
    <3>1. store.file[f].priv
      BY <1>4, <1>7, <2>2
    <3> QED
      BY <1>3, <3>1 DEF Sane
  <2> QED
    BY <2>1, <2>2
<1> QED
  BY <1>5, <1>7 DEF Upheld, Sane

LEMMA RunningKeeps ==
  ASSUME NEW s, Upheld(s), Pruned(s, store'), faults' \in Nat, up'
  PROVE  StoreInv'
<1>1. Upheld(store')
  BY PrunedUpheld
<1> QED
  BY <1>1 DEF Upheld, StoreInv

LEMMA StuckFinite ==
  ASSUME NEW F \in StuckSets
  PROVE  F \subseteq Files /\ Cardinality(F) \in Nat /\ (Cardinality(F) = 0 <=> F = {})
<1>1. IsFiniteSet(Names)
  <2>1. IsFiniteSet({"partial"}) /\ Names = {"partial"} \cup {"final"}
    BY FS_Singleton DEF Names
  <2> QED
    BY <2>1, FS_AddElement
<1>2. IsFiniteSet(Files)
  BY <1>1, FS_Product, PoolAssumption DEF Files
<1>3. F \subseteq Files
  BY DEF StuckSets
<1> QED
  BY <1>2, <1>3, FS_Subset, FS_CardinalityType, FS_EmptySet

\* What the errors of a call cost, and what they tell of its stuck files.
LEMMA Spent ==
  ASSUME faults \in Nat, NEW F \in StuckSets,
         Spend(Cardinality(F)) \/ Spend(1 + Cardinality(F))
  PROVE  /\ faults' \in Nat /\ faults <= faults'
         /\ Spend(Cardinality(F)) /\ faults' = faults => F = {}
         /\ Spend(1 + Cardinality(F)) => faults < faults' /\ (faults' <= 1 => F = {})
BY StuckFinite DEF Spend

LEMMA HeldKey ==
  ASSUME IInv, NEW l \in Leases, Live(l)
  PROVE  lease[l].key \in Held
BY LivePins DEF Held, Holders

LEMMA SameHeld ==
  ASSUME IInv, \/ lease' = lease
               \/ \A l \in Leases : /\ lease'[l].key = lease[l].key
                                    /\ lease'[l].st = "free" <=> lease[l].st = "free"
  PROVE  Held' = Held
BY DEF Held, Holders, Live

\* The index is where the files of a typed store are looked for.
LEMMA PathFacts ==
  ASSUME NEW s, StoreOK(s), NEW k \in Keys
  PROVE  /\ Path(s, k) \in Files /\ s.file[Path(s, k)] \in Good
         /\ Path(s, k) = <<k, Path(s, k)[2]>> /\ Path(s, k)[2] \in Names
         /\ s.at[k] # "none" => Path(s, k) = <<k, s.at[k]>>
         /\ s.at[k] = "none" => Path(s, k) = <<k, "partial">>
         /\ \A n \in Names : <<k, n>> \in Files /\ s.file[<<k, n>>] \in Good
BY DEF StoreOK, Path, Files, Names

-----------------------------------------------------------------------------
\* Steps that only unlink, if they touch the store at all.
LEMMA OpenUpheld ==
  ASSUME IInv, StoreInv, NEW l \in Leases, NEW k \in Keys, NEW private \in BOOLEAN,
         OpenLease(l, k, private)
  PROVE  StoreInv'
<1>1. /\ up /\ up' = up /\ UNCHANGED <<store, markers, stamped, scoped, faults>>
      /\ k \in EphKeys => Fresh(k)
  BY DEF OpenLease, disk, privacy, env
<1>2. \A m \in Leases \ {l} : lease'[m] = lease[m]
  BY DEF OpenLease, IInv, BookOK
<1>3. lease'[l].key = k
  BY DEF OpenLease, IInv, BookOK
<1>4. Held' \subseteq Held \cup {k}
  BY <1>2, <1>3 DEF Held, Holders, Live
<1>5. k \in EphKeys => \A f \in Files : f[1] = k => ~store.file[f].priv
  <2> SUFFICES ASSUME k \in EphKeys, NEW f \in Files, f[1] = k PROVE ~store.file[f].priv
    OBVIOUS
  <2>1. f = <<k, f[2]>> /\ f[2] \in Names
    BY DEF Files
  <2>2. ~Exists(store, f)
    BY <1>1, <2>1 DEF Fresh
  <2> QED
    BY <2>2, AbsentGood DEF Exists, StoreInv, Sane, StoreOK, Good
<1>6. Upheld(store)
  BY <1>1, <1>4, <1>5 DEF StoreInv, Sane, Upheld
<1> QED
  BY <1>1, <1>6, RunningKeeps, SelfPruned DEF StoreInv, Sane

\* mark_session_scoped: on disk before it is relied on, or the bytes go.
LEMMA MarkUpheld ==
  ASSUME IInv, StoreInv, up, up', NEW k \in Held, MarkSessionScoped(k),
         Held' = Held, stamped' = stamped
  PROVE  StoreInv'
<1> DEFINE s == Promised(store, k)
<1>1. StoreOK(store) /\ faults \in Nat /\ k \in Keys
  BY DEF StoreInv, Sane, Held
<1>2. /\ StoreOK(s) /\ s.at = store.at
      /\ \A f \in Files : /\ Exists(s, f) <=> Exists(store, f)
                          /\ f[1] # k => s.file[f] = store.file[f]
  <2>1. /\ s.at = store.at
        /\ s.file = [f \in Files |-> IF f[1] = k /\ store.file[f].state # "absent"
                       THEN [store.file[f] EXCEPT !.priv = TRUE] ELSE store.file[f]]
    BY <1>1 DEF Promised, StoreOK
  <2>2. \A f \in Files : s.file[f] \in Good /\ s.file[f].state = store.file[f].state
    BY <1>1, <2>1, PromisedGood DEF StoreOK, Good, Bundle
  <2> QED
    BY <1>1, <2>1, <2>2 DEF StoreOK, Exists
<1> HIDE DEF s
<1>3. CASE markers' = markers \cup {k} /\ store' = s /\ UNCHANGED faults
  <2>1. scoped' = scoped \cup {k}
    BY DEF MarkSessionScoped
  <2>2. Upheld(s)
    BY <1>2, <1>3, <2>1 DEF StoreInv, Sane, Upheld
  <2> QED
    BY <1>1, <1>2, <1>3, <2>2, SelfPruned, RunningKeeps
<1>4. ASSUME NEW F \in StuckSets, store' = Purge(s, k, F), Spend(1 + Cardinality(F)), markers' = markers
      PROVE  StoreInv'
  <2> DEFINE r == Purge(s, k, F)
  <2>1. /\ Pruned(s, r)
        /\ \A j \in Keys \ {k} : /\ r.at[j] = s.at[j]
                                 /\ \A n \in Names : r.file[<<j, n>>] = s.file[<<j, n>>]
        /\ F = {} => \A n \in Names : r.file[<<k, n>>] = Absent
    BY <1>1, <1>2, PurgePrunes
  <2>2. faults' \in Nat /\ faults < faults' /\ (faults' <= 1 => F = {})
    BY <1>1, <1>4, Spent
  <2>3. scoped' = scoped \cup {k}
    BY DEF MarkSessionScoped
  <2> HIDE DEF r
  <2>4. \A f \in Files : r.file[f].priv /\ faults' <= 1 => f[1] # k /\ store.file[f].priv
    <3> SUFFICES ASSUME NEW f \in Files, r.file[f].priv, faults' <= 1
                 PROVE  f[1] # k /\ store.file[f].priv
      OBVIOUS
    <3>1. f[1] \in Keys /\ f[2] \in Names /\ f = <<f[1], f[2]>>
      BY DEF Files
    <3>2. f[1] # k
      BY <2>1, <2>2, <3>1, AbsentGood
    <3> QED
      BY <1>2, <2>1, <3>1, <3>2
  <2>5. \A f \in Files : Exists(r, f) => Exists(store, f)
    BY <1>2, <2>1, AbsentGood DEF Pruned, Exists
  <2>6. Upheld(r)
    BY <1>1, <1>4, <2>1, <2>2, <2>3, <2>4, <2>5 DEF StoreInv, Sane, Upheld, Pruned
  <2>7. StoreOK(r)
    BY <2>1 DEF Pruned
  <2> QED
    BY <1>4, <2>2, <2>6, <2>7, SelfPruned, RunningKeeps DEF r
<1> QED
  BY <1>3, <1>4 DEF MarkSessionScoped, s

\* Dropping what is unreadable, unpublished or may not be written, a resize, a guard.
LEMMA PruningKeeps ==
  ASSUME StoreInv, up, up', Held' = Held, markers \subseteq markers', stamped => stamped',
         scoped' = scoped, faults' \in Nat, faults <= faults', Pruned(store, store')
  PROVE  StoreInv'
BY QuietUpheld, RunningKeeps

LEMMA DropsKeep ==
  ASSUME IInv, StoreInv, NEW l \in Leases,
         DropUnreadable(l) \/ WriteRefused(l) \/ PurgeUnpublished(l) \/ PublishRefused(l)
  PROVE  StoreInv'
<1> DEFINE k == lease[l].key
<1>1. Live(l) /\ k \in Keys /\ up /\ StoreOK(store) /\ faults \in Nat
  BY LivePins DEF DropUnreadable, WriteRefused, PurgeUnpublished, PublishRefused, CanWrite,
                  Open, Live, StoreInv, Sane
<1>2. /\ up' = up /\ lease' = lease /\ stamped' = stamped /\ scoped' = scoped
      /\ markers \subseteq markers'
  BY DEF DropUnreadable, WriteRefused, PurgeUnpublished, PublishRefused, CanWrite,
         env, disk, privacy
<1>3. PICK F \in StuckSets :
        /\ store' \in {store, Forget(store, k, F), Purge(store, k, F)}
        /\ Spend(Cardinality(F)) \/ Spend(1 + Cardinality(F))
  BY DEF DropUnreadable, WriteRefused, PurgeUnpublished, PublishRefused
<1>4. Pruned(store, store')
  BY <1>1, <1>3, SelfPruned, ForgetPrunes, PurgePrunes
<1>5. faults' \in Nat /\ faults <= faults'
  BY <1>1, <1>3, Spent
<1> QED
  BY <1>1, <1>2, <1>4, <1>5, SameHeld, PruningKeeps

LEMMA TouchKeepsStore ==
  ASSUME IInv, StoreInv, NEW l \in Leases, Touch(l) \/ BeginBuild(l) \/ EndBuild(l)
  PROVE  StoreInv'
<1>1. up /\ StoreOK(store) /\ faults \in Nat
  BY DEF Touch, BeginBuild, EndBuild, Open, StoreInv, Sane
<1>2. UNCHANGED <<up, markers, stamped, scoped, faults>>
  BY DEF Touch, BeginBuild, EndBuild, env, disk, privacy
<1>3. CASE Touch(l)
  <2>1. store'.file = store.file /\ store'.at = store.at
    <3> DEFINE k == lease[l].key
    <3>1. store' = Reindexed(store, k, store.at[k])
      BY <1>3 DEF Touch
    <3> HIDE DEF k
    <3>2. store'.file = store.file /\ store'.at = [store.at EXCEPT ![k] = store.at[k]]
      BY <3>1 DEF Reindexed
    <3> QED
      BY <1>1, <3>2 DEF StoreOK
  <2>2. Pruned(store, store')
    BY <1>1, <2>1 DEF Pruned, StoreOK
  <2>3. lease' = lease
    BY <1>3 DEF Touch
  <2> QED
    BY <1>1, <1>2, <2>2, <2>3, SameHeld, PruningKeeps
<1>4. CASE BeginBuild(l) \/ EndBuild(l)
  <2>1. store' = store
    BY <1>4 DEF BeginBuild, EndBuild
  <2>2. \A m \in Leases : /\ lease'[m].key = lease[m].key
                          /\ lease'[m].st = "free" <=> lease[m].st = "free"
    BY <1>4 DEF BeginBuild, EndBuild, IInv, BookOK, LeaseRecord
  <2>3. Held' = Held
    BY <2>2, SameHeld
  <2> QED
    BY <1>1, <1>2, <2>1, <2>3, SelfPruned, PruningKeeps
<1> QED
  BY <1>3, <1>4

LEMMA ResizeKeeps ==
  ASSUME IInv, StoreInv, NEW b \in Budgets, Resize(b)
  PROVE  StoreInv'
<1>1. up /\ StoreOK(store) /\ faults \in Nat
  BY DEF Resize, StoreInv, Sane
<1>2. UNCHANGED <<up, markers, stamped, scoped, lease>>
  BY DEF Resize, env, disk, privacy
<1>3. PICK F \in StuckSets : store' = Evict(store, Spared({}), b, F) /\ Spend(Cardinality(F))
  BY DEF Resize
<1>4. Pruned(store, store')
  BY <1>1, <1>3, EvictPrunes
<1>5. faults' \in Nat /\ faults <= faults'
  BY <1>1, <1>3, Spent
<1> QED
  BY <1>1, <1>2, <1>4, <1>5, SameHeld, PruningKeeps

-----------------------------------------------------------------------------
\* Steps that write the bundle of one lease's key.
LEMMA BundleUpheld ==
  ASSUME StoreInv, up, up', faults' \in Nat, faults <= faults', stamped',
         NEW k \in Held, markers' = markers \cup (scoped \cap {k}), scoped' = scoped, Held' = Held,
         NEW c \in Good, c.priv => k \in scoped \/ store.file[Path(store, k)].priv,
         NEW s, s.file = [store.file EXCEPT ![Path(store, k)] = c],
         \/ s.at = [store.at EXCEPT ![k] = Path(store, k)[2]]
         \/ s.at = store.at /\ faults' # 0
  PROVE  Upheld(s) /\ StoreOK(s)
<1> DEFINE f == Path(store, k)
<1>1. /\ k \in Keys /\ StoreOK(store) /\ faults \in Nat
      /\ faults = 0 => \A g \in Files : Exists(store, g) => store.at[g[1]] = g[2]
  BY DEF StoreInv, Sane, Held
<1>2. /\ f \in Files /\ f = <<k, f[2]>> /\ f[2] \in Names
      /\ store.at[k] # "none" => f = <<k, store.at[k]>>
      /\ \A n \in Names : <<k, n>> \in Files
  BY <1>1, PathFacts
<1> HIDE DEF f
<1>3. /\ s.file \in [Files -> Good]
      /\ \A g \in Files : s.file[g] = IF g = f THEN c ELSE store.file[g]
  BY <1>1, <1>2 DEF StoreOK, f
<1>4. s.at \in [Keys -> Names \cup {"none"}] /\ \A j \in Keys \ {k} : s.at[j] = store.at[j]
  BY <1>1, <1>2 DEF StoreOK, f
<1>5. StoreOK(s)
  BY <1>3, <1>4 DEF StoreOK
<1>6. \A j \in Keys \ {k} : \A n \in Names : s.file[<<j, n>>] = store.file[<<j, n>>]
  <2> SUFFICES ASSUME NEW j \in Keys \ {k}, NEW n \in Names
               PROVE  s.file[<<j, n>>] = store.file[<<j, n>>]
    OBVIOUS
  <2>1. <<j, n>> \in Files /\ <<j, n>> # f
    BY <1>2 DEF Files
  <2> QED
    BY <1>3, <2>1
<1>7. \A n \in Names : s.file[<<k, n>>].priv
        => k \in scoped \/ \E m \in Names : store.file[<<k, m>>].priv
  BY <1>2, <1>3 DEF f
<1>8. faults' = 0 => \A n \in Names : Exists(s, <<k, n>>) => s.at[k] = n
  <2> SUFFICES ASSUME faults' = 0, NEW n \in Names, Exists(s, <<k, n>>) PROVE s.at[k] = n
    OBVIOUS
  <2>1. s.at[k] = f[2] /\ faults = 0
    BY <1>1 DEF StoreOK, f
  <2>2. CASE <<k, n>> = f
    BY <1>2, <2>1, <2>2
  <2>3. CASE <<k, n>> # f
    <3>1. Exists(store, <<k, n>>)
      BY <1>2, <1>3, <2>3 DEF Exists
    <3>2. store.at[k] = n
      BY <1>1, <1>2, <2>1, <3>1
    <3> QED
      BY <1>2, <2>3, <3>2 DEF Names
  <2> QED
    BY <2>2, <2>3
<1> QED
  BY <1>4, <1>5, <1>6, <1>7, <1>8, WriteUpheld

LEMMA WriterFacts ==
  ASSUME IInv, StoreInv, NEW l \in Leases, CanWrite(l)
  PROVE  /\ up /\ lease[l].key \in Held /\ lease[l].key \in Keys
         /\ StoreOK(store) /\ faults \in Nat
         /\ markers' = markers \cup (scoped \cap {lease[l].key})
BY HeldKey DEF CanWrite, Open, Live, Held, StoreInv, Sane

LEMMA CompleteFacts ==
  ASSUME StoreInv, NEW k \in Keys, Complete(k)
  PROVE  /\ stamped /\ store.at[k] \in Names
         /\ Path(store, k) = <<k, store.at[k]>>
         /\ store.file[Path(store, k)].state = "intact"
         /\ store.file[Path(store, k)].pages = Pages
BY PathFacts DEF Complete, Intact, InPlace, StoreInv, Sane, StoreOK, Exists

LEMMA PutKeeps ==
  ASSUME IInv, StoreInv, NEW l \in Leases, NEW ps \in (SUBSET Pages) \ {{}}, PutMany(l, ps)
  PROVE  StoreInv'
<1> DEFINE k == lease[l].key
           f == Path(store, k)
           c == Appended(store.file[f], ps, k \in scoped)
           s == Reindexed([store EXCEPT !.file[f] = c], k, f[2])
<1>1. /\ up /\ k \in Held /\ k \in Keys /\ StoreOK(store) /\ faults \in Nat
      /\ markers' = markers \cup (scoped \cap {k})
  BY WriterFacts DEF PutMany
<1>2. up' /\ stamped' /\ scoped' = scoped /\ lease' = lease
  BY <1>1 DEF PutMany, env, privacy
<1>3. PICK F \in StuckSets : /\ store' = Evict(s, Spared({k}), budget, F)
                             /\ Spend(Cardinality(F))
  BY DEF PutMany, Admitted
<1>4. faults' \in Nat /\ faults <= faults'
  BY <1>1, <1>3, Spent
<1>5. store.file[f] \in Good
  BY <1>1, PathFacts
<1>6. c \in Good /\ (c.priv => k \in scoped \/ store.file[f].priv)
  <2>1. (k \in scoped) \in BOOLEAN
    OBVIOUS
  <2> QED
    BY <1>5, <2>1, AppendedGood
<1>7. s.file = [store.file EXCEPT ![f] = c] /\ s.at = [store.at EXCEPT ![k] = f[2]]
  <2> DEFINE w == [store EXCEPT !.file[f] = c]
  <2>1. w.file = [store.file EXCEPT ![f] = c] /\ w.at = store.at
    OBVIOUS
  <2> HIDE DEF w
  <2>2. /\ Reindexed(w, k, f[2]).file = w.file
        /\ Reindexed(w, k, f[2]).at = [w.at EXCEPT ![k] = f[2]]
    BY DEF Reindexed
  <2> QED
    BY <2>1, <2>2 DEF w
<1>8. Held' = Held
  BY <1>2, SameHeld
<1> HIDE DEF c, s
<1>9. Upheld(s) /\ StoreOK(s)
  BY <1>1, <1>2, <1>4, <1>6, <1>7, <1>8, BundleUpheld
<1> QED
  BY <1>2, <1>3, <1>4, <1>9, EvictPrunes, RunningKeeps

LEMMA PutFailedKeeps ==
  ASSUME IInv, StoreInv, NEW l \in Leases, PutFailed(l)
  PROVE  StoreInv'
<1> DEFINE k == lease[l].key
           f == Path(store, k)
           b == store.file[f]
<1>1. /\ up /\ k \in Held /\ k \in Keys /\ StoreOK(store) /\ faults \in Nat
      /\ markers' = markers \cup (scoped \cap {k})
  BY WriterFacts DEF PutFailed
<1>2. up' /\ stamped' /\ scoped' = scoped /\ lease' = lease /\ faults' = faults + 1
  BY <1>1 DEF PutFailed, env, privacy, Spend
<1>3. b \in Good
  BY <1>1, PathFacts
<1>4. PICK c : /\ \/ c = b
                  \/ c = Garbled(b, k \in scoped)
                  \/ \E ps \in SUBSET Pages : c = Appended(b, ps, k \in scoped)
               /\ store' = [store EXCEPT !.file[f] = c] \/ store' = store
  BY DEF PutFailed
<1>5. c \in Good /\ (c.priv => k \in scoped \/ b.priv)
  <2>1. (k \in scoped) \in BOOLEAN
    OBVIOUS
  <2>2. CASE c = b
    BY <1>3, <2>2
  <2>3. CASE c = Garbled(b, k \in scoped)
    BY <1>3, <2>1, <2>3, GarbledGood
  <2>4. ASSUME NEW ps \in SUBSET Pages, c = Appended(b, ps, k \in scoped)
        PROVE  c \in Good /\ (c.priv => k \in scoped \/ b.priv)
    BY <1>3, <2>1, <2>4, AppendedGood
  <2> QED
    BY <1>4, <2>2, <2>3, <2>4
<1>6. Held' = Held
  BY <1>2, SameHeld
<1>7. CASE store' = store
  BY <1>1, <1>2, <1>6, <1>7, SelfPruned, PruningKeeps
<1>8. CASE store' = [store EXCEPT !.file[f] = c]
  <2>1. store'.file = [store.file EXCEPT ![f] = c] /\ store'.at = store.at
    BY <1>8
  <2>2. faults' \in Nat /\ faults <= faults' /\ faults' # 0
    BY <1>1, <1>2
  <2> HIDE DEF k
  <2>3. Upheld(store') /\ StoreOK(store')
    BY <1>1, <1>2, <1>5, <1>6, <2>1, <2>2, BundleUpheld
  <2> QED
    BY <1>1, <1>2, <2>2, <2>3, SelfPruned, RunningKeeps
<1> QED
  BY <1>4, <1>7, <1>8

LEMMA StampFacts ==
  ASSUME StoreInv, NEW k \in Keys, Complete(k)
  PROVE  /\ Stamp(store, k).file = [store.file EXCEPT ![Path(store, k)] =
                                      [store.file[Path(store, k)] EXCEPT !.ready = Kind(k)]]
         /\ Stamp(store, k).at = store.at
         /\ [store.file[Path(store, k)] EXCEPT !.ready = Kind(k)] \in Good
         /\ [store.file[Path(store, k)] EXCEPT !.ready = Kind(k)].priv = store.file[Path(store, k)].priv
<1>1. StoreOK(store) /\ store.file[Path(store, k)] \in Good
  BY PathFacts DEF StoreInv, Sane
<1>2. store.file[Path(store, k)].state = "intact" /\ store.file[Path(store, k)].pages = Pages
  BY CompleteFacts
<1>3. /\ [store.file[Path(store, k)] EXCEPT !.ready = Kind(k)] \in Good
      /\ [store.file[Path(store, k)] EXCEPT !.ready = Kind(k)].priv = store.file[Path(store, k)].priv
  BY <1>1, <1>2, StampedGood
<1> QED
  BY <1>3 DEF Stamp

LEMMA RenamedAt ==
  ASSUME StoreInv, NEW k \in Keys, Complete(k)
  PROVE  Renamed(Stamp(store, k), k).at = store.at
<1> DEFINE t == Stamp(store, k)
<1>1. t.at = store.at
  BY StampFacts
<1> HIDE DEF t
<1>2. Renamed(t, k).at = t.at
  BY DEF Renamed
<1> QED
  BY <1>1, <1>2 DEF t

\* The rename of a stamped bundle, whatever happens after it.
LEMMA RenamedUpheld ==
  ASSUME StoreInv, up, up', faults' \in Nat, faults <= faults', stamped' = stamped,
         NEW k \in Held, markers' = markers \cup (scoped \cap {k}), scoped' = scoped, Held' = Held,
         Complete(k),
         NEW s, s.file = Renamed(Stamp(store, k), k).file,
         \/ s.at = [store.at EXCEPT ![k] = "final"]
         \/ s.at = store.at /\ faults' # 0
  PROVE  Upheld(s) /\ StoreOK(s)
<1> DEFINE c == [store.file[Path(store, k)] EXCEPT !.ready = Kind(k)]
           t == Stamp(store, k)
<1>1. /\ k \in Keys /\ StoreOK(store) /\ faults \in Nat
      /\ faults = 0 => \A g \in Files : Exists(store, g) => store.at[g[1]] = g[2]
  BY DEF StoreInv, Sane, Held
<1>2. stamped /\ store.at[k] \in Names /\ Path(store, k) = <<k, store.at[k]>>
  BY <1>1, CompleteFacts
<1>3. /\ t.file = [store.file EXCEPT ![Path(store, k)] = c] /\ t.at = store.at
      /\ c \in Good /\ c.priv = store.file[Path(store, k)].priv
  BY <1>1, StampFacts
<1> HIDE DEF c, t
<1>4. CASE store.at[k] = "final"
  <2>1. Renamed(t, k) = t
    BY <1>3, <1>4 DEF Renamed
  <2> QED
    BY <1>1, <1>2, <1>3, <1>4, <2>1, BundleUpheld DEF t
<1>5. CASE store.at[k] = "partial"
  <2>1. s.file = [t.file EXCEPT ![<<k, "final">>] = t.file[<<k, "partial">>],
                                ![<<k, "partial">>] = Absent]
    BY <1>3, <1>5 DEF Renamed, t
  <2>2. /\ <<k, "final">> \in Files /\ <<k, "partial">> \in Files
        /\ Path(store, k) = <<k, "partial">>
        /\ "final" # "partial" /\ Names = {"partial", "final"}
    BY <1>1, <1>2, <1>5 DEF Files, Names
  <2>3. /\ s.file \in [Files -> Good]
        /\ s.file[<<k, "final">>] = c /\ s.file[<<k, "partial">>] = Absent
        /\ \A g \in Files : g[1] # k => s.file[g] = store.file[g]
    BY <1>1, <1>3, <2>1, <2>2, AbsentGood DEF StoreOK
  <2>4. StoreOK(s) /\ \A j \in Keys \ {k} : s.at[j] = store.at[j]
    BY <1>1, <2>2, <2>3 DEF StoreOK
  <2>5. \A j \in Keys \ {k} : \A n \in Names : s.file[<<j, n>>] = store.file[<<j, n>>]
    BY <2>3 DEF Files
  <2>6. \A n \in Names : s.file[<<k, n>>].priv
          => k \in scoped \/ \E m \in Names : store.file[<<k, m>>].priv
    BY <1>3, <2>2, <2>3, AbsentGood
  <2>7. faults' = 0 => \A n \in Names : Exists(s, <<k, n>>) => s.at[k] = n
    BY <1>1, <2>2, <2>3, AbsentGood DEF Exists, StoreOK
  <2> QED
    BY <1>1, <1>2, <2>4, <2>5, <2>6, <2>7, WriteUpheld
<1> QED
  BY <1>2, <1>4, <1>5 DEF Names

LEMMA PublishKeeps ==
  ASSUME IInv, StoreInv, NEW l \in Leases,
         Publish(l) \/ PublishUnrenamed(l) \/ PublishLost(l) \/ PublishFailed(l)
  PROVE  StoreInv'
<1> DEFINE k == lease[l].key
<1>1. /\ up /\ k \in Held /\ k \in Keys /\ StoreOK(store) /\ faults \in Nat
      /\ markers' = markers \cup (scoped \cap {k})
  BY WriterFacts DEF Publish, PublishUnrenamed, PublishLost, PublishFailed
<1>2. up' = up /\ stamped' = stamped /\ scoped' = scoped /\ lease' = lease /\ Complete(k)
  BY DEF Publish, PublishUnrenamed, PublishLost, PublishFailed, env, privacy
<1>3. stamped /\ store.at[k] \in Names /\ Path(store, k) = <<k, store.at[k]>>
  BY <1>1, <1>2, CompleteFacts
<1>4. Held' = Held
  BY <1>2, SameHeld
<1>5. CASE Publish(l)
  <2> DEFINE s == Reindexed(Renamed(Stamp(store, k), k), k, "final")
  <2>1. PICK F \in StuckSets : /\ store' = Evict(s, Spared({k}), budget, F)
                               /\ Spend(Cardinality(F))
    BY <1>5 DEF Publish, Admitted
  <2>2. faults' \in Nat /\ faults <= faults'
    BY <1>1, <2>1, Spent
  <2>3. /\ s.file = Renamed(Stamp(store, k), k).file
        /\ s.at = [Renamed(Stamp(store, k), k).at EXCEPT ![k] = "final"]
    BY DEF Reindexed
  <2>4. Renamed(Stamp(store, k), k).at = store.at
    BY <1>1, <1>2, RenamedAt
  <2> HIDE DEF s
  <2>5. Upheld(s) /\ StoreOK(s)
    BY <1>1, <1>2, <1>3, <1>4, <2>2, <2>3, <2>4, RenamedUpheld
  <2> QED
    BY <1>1, <1>2, <2>1, <2>2, <2>5, EvictPrunes, RunningKeeps
<1>6. CASE PublishUnrenamed(l)
  <2> DEFINE s == Reindexed(Stamp(store, k), k, "partial")
  <2>1. store' = Evict(s, Spared({k}), budget, {}) /\ faults' = faults + 1 /\ store.at[k] = "partial"
    BY <1>6 DEF PublishUnrenamed, Spend
  <2>2. s.file = Stamp(store, k).file /\ s.at = [Stamp(store, k).at EXCEPT ![k] = "partial"]
    BY DEF Reindexed
  <2> HIDE DEF s
  <2> DEFINE c == [store.file[Path(store, k)] EXCEPT !.ready = Kind(k)]
  <2>3. /\ s.file = [store.file EXCEPT ![Path(store, k)] = c]
        /\ s.at = [store.at EXCEPT ![k] = Path(store, k)[2]]
        /\ c \in Good /\ (c.priv => store.file[Path(store, k)].priv)
    <3>1. Path(store, k)[2] = "partial"
      BY <1>3, <2>1
    <3>2. /\ Stamp(store, k).file = [store.file EXCEPT ![Path(store, k)] = c]
          /\ Stamp(store, k).at = store.at
          /\ c \in Good /\ c.priv = store.file[Path(store, k)].priv
      BY <1>1, <1>2, StampFacts
    <3> QED
      BY <2>2, <3>1, <3>2
  <2> HIDE DEF c, k
  <2>4. Upheld(s) /\ StoreOK(s)
    BY <1>1, <1>2, <1>3, <1>4, <2>1, <2>3, BundleUpheld
  <2> QED
    BY <1>1, <1>2, <2>1, <2>4, EvictPrunes, RunningKeeps
<1>7. CASE PublishLost(l)
  <2> DEFINE s == Renamed(Stamp(store, k), k)
  <2>1. PICK F \in SUBSET {<<k, "final">>} : store' = Purge(s, k, F) /\ Spend(1 + Cardinality(F))
    BY <1>7 DEF PublishLost
  <2>2. Cardinality(F) \in Nat
    <3>1. IsFiniteSet({<<k, "final">>}) /\ F \subseteq {<<k, "final">>}
      BY FS_Singleton
    <3> QED
      BY <3>1, FS_Subset, FS_CardinalityType
  <2>3. faults' \in Nat /\ faults <= faults' /\ faults' # 0
    BY <1>1, <2>1, <2>2 DEF Spend
  <2>4. s.at = store.at
    BY <1>1, <1>2, RenamedAt
  <2>5. s.file = Renamed(Stamp(store, k), k).file
    OBVIOUS
  <2> HIDE DEF s
  <2>6. Upheld(s) /\ StoreOK(s)
    BY <1>1, <1>2, <1>3, <1>4, <2>3, <2>4, <2>5, RenamedUpheld
  <2> QED
    BY <1>1, <1>2, <2>1, <2>3, <2>6, PurgePrunes, RunningKeeps
<1>8. CASE PublishFailed(l)
  <2> DEFINE f == Path(store, k)
             c == Garbled(store.file[f], FALSE)
  <2>1. /\ faults' = faults + 1
        /\ store' = store \/ store' = [store EXCEPT !.file[f] = c]
    BY <1>8 DEF PublishFailed, Spend
  <2>2. c \in Good /\ (c.priv => store.file[f].priv)
    <3>1. store.file[f] \in Good
      BY <1>1, PathFacts
    <3> QED
      BY <3>1, GarbledGood
  <2> HIDE DEF c
  <2>3. CASE store' = store
    BY <1>1, <1>2, <1>4, <2>1, <2>3, SelfPruned, PruningKeeps
  <2>4. CASE store' = [store EXCEPT !.file[f] = c]
    <3>1. store'.file = [store.file EXCEPT ![f] = c] /\ store'.at = store.at
      BY <2>4
    <3>2. faults' \in Nat /\ faults <= faults' /\ faults' # 0
      BY <1>1, <2>1
    <3> HIDE DEF k
    <3>3. Upheld(store') /\ StoreOK(store')
      BY <1>1, <1>2, <1>3, <1>4, <2>2, <3>1, <3>2, BundleUpheld
    <3> QED
      BY <1>1, <1>2, <3>2, <3>3, SelfPruned, RunningKeeps
  <2> QED
    BY <2>1, <2>3, <2>4
<1> QED
  BY <1>5, <1>6, <1>7, <1>8

-----------------------------------------------------------------------------
\* Promotions: a bundle, its promise and its mark move to a content hash.
LEMMA PromoterFacts ==
  ASSUME IInv, StoreInv, NEW l \in Leases, NEW t \in ExtKeys, CanPromote(l, t)
  PROVE  /\ up /\ lease[l].key \in EphKeys \cap Held /\ lease[l].key \in Keys
         /\ t \in Keys /\ t \notin EphKeys /\ t # lease[l].key
         /\ StoreOK(store) /\ faults \in Nat
         /\ Holders(lease[l].key) = {l}
<1>1. Live(l) /\ up /\ lease[l].scope = "EPHEMERAL"
  BY DEF CanPromote, Open, Live
<1>2. lease[l].key \in EphKeys /\ lease[l].key \in Held
  BY <1>1, HeldKey DEF IInv, SessionKeysExclusive
<1>3. Holders(lease[l].key) = {l}
  BY <1>1, <1>2 DEF IInv, SessionKeysExclusive, Holders
<1> QED
  BY <1>1, <1>2, <1>3, KeysAssumption DEF Keys, StoreInv, Sane

LEMMA AdoptHeld ==
  ASSUME IInv, StoreInv, NEW l \in Leases, NEW t \in ExtKeys, CanPromote(l, t), AdoptIdentity(l, t)
  PROVE  /\ Held' \subseteq (Held \ {lease[l].key}) \cup {t}
         /\ up' = up /\ stamped' = stamped
<1> DEFINE s == lease[l].key
<1>1. /\ s \in EphKeys \cap Held /\ t # s /\ Holders(s) = {l} /\ Live(l)
  BY PromoterFacts DEF CanPromote, Open, Live
<1>2. /\ \A m \in Leases \ {l} : lease'[m] = lease[m]
      /\ lease'[l].key = t
  BY DEF AdoptIdentity, IInv, BookOK, LeaseRecord
<1>3. \A j : Holders(j)' \subseteq IF j = s THEN {} ELSE IF j = t THEN Holders(j) \cup {l} ELSE Holders(j)
  <2>1. \A m \in Leases \ {l} : Live(m)' <=> Live(m)
    BY <1>2 DEF Live
  <2> QED
    BY <2>1, <1>1, <1>2 DEF Holders
<1>4. up' = up /\ stamped' = stamped
  BY DEF AdoptIdentity, env
<1> HIDE DEF s
<1>5. ASSUME NEW j \in Keys, Holders(j)' # {} PROVE j \in (Held \ {s}) \cup {t}
  BY <1>3, <1>5 DEF Held
<1>6. Held' \subseteq (Held \ {s}) \cup {t}
  BY <1>5 DEF Held
<1> QED
  BY <1>4, <1>6 DEF s

LEMMA AdoptUpheld ==
  ASSUME IInv, StoreInv, NEW l \in Leases, NEW t \in ExtKeys, CanPromote(l, t), AdoptIdentity(l, t),
         faults' \in Nat, faults <= faults',
         NEW w, StoreOK(w),
         \A j \in Keys \ {lease[l].key, t} :
            /\ w.at[j] = store.at[j]
            /\ \A n \in Names : w.file[<<j, n>>] = store.file[<<j, n>>],
         stamped \/ \A f \in Files : Exists(w, f) => Exists(store, f),
         \A n \in Names : w.file[<<t, n>>].priv =>
            \E m \in Names : store.file[<<t, m>>].priv \/ store.file[<<lease[l].key, m>>].priv,
         faults' = 0 => \A n \in Names : /\ ~Exists(w, <<lease[l].key, n>>)
                                         /\ Exists(w, <<t, n>>) => w.at[t] = n
  PROVE  Upheld(w)
<1> DEFINE s == lease[l].key
<1>1. /\ up /\ s \in EphKeys \cap Held /\ s \in Keys /\ t \in Keys /\ t \notin EphKeys /\ t # s
      /\ StoreOK(store) /\ faults \in Nat
  BY PromoterFacts
<1>2. Held' \subseteq (Held \ {s}) \cup {t} /\ up' = up /\ stamped' = stamped
  BY AdoptHeld
<1>3. /\ scoped' = IF s \in scoped THEN (scoped \ {s}) \cup {t} ELSE scoped
      /\ markers' = IF s \in scoped THEN (markers \ {s}) \cup {t} ELSE markers
  BY DEF AdoptIdentity
<1>4. Sane(store, up, faults, stamped, scoped, markers, Held)
  BY DEF StoreInv
<1> HIDE DEF s
<1>5. \A f \in Files : f[1] \in Keys /\ f[2] \in Names /\ f = <<f[1], f[2]>>
  BY DEF Files
<1>6. \A n \in Names : <<s, n>> \in Files /\ <<t, n>> \in Files
  BY <1>1 DEF Files
<1>7. \A f \in Files : f[1] \notin {s, t} => w.file[f] = store.file[f] /\ w.at[f[1]] = store.at[f[1]]
  BY <1>5 DEF s
<1>8. ~stamped' => \A f \in Files : ~Exists(w, f)
  BY <1>2, <1>4 DEF Sane
<1>9. faults' = 0 => faults = 0
  BY <1>1
<1>10. faults' <= 1 => faults <= 1
  BY <1>1
<1>11. faults' = 0 => \A f \in Files : Exists(w, f) => w.at[f[1]] = f[2] /\ f[1] # s
  <2> SUFFICES ASSUME faults' = 0, NEW f \in Files, Exists(w, f)
               PROVE  w.at[f[1]] = f[2] /\ f[1] # s
    OBVIOUS
  <2>0. f[2] \in Names /\ f = <<f[1], f[2]>>
    BY <1>5
  <2>1. f[1] # s
    <3>1. ~Exists(w, <<s, f[2]>>)
      BY <2>0 DEF s
    <3> QED
      BY <2>0, <3>1
  <2>2. CASE f[1] = t
    BY <1>1, <2>0, <2>1, <2>2 DEF s
  <2>3. CASE f[1] # t
    BY <1>1, <1>4, <1>7, <1>9, <2>1, <2>3 DEF Sane, Exists
  <2> QED
    BY <2>1, <2>2, <2>3
<1>12. ASSUME NEW f \in Files, w.file[f].priv
       PROVE  /\ faults' = 0 => f[1] \in scoped'
              /\ faults' <= 1 => f[1] \in EphKeys \cup markers'
              /\ faults' <= 1 /\ f[1] \in EphKeys \cap Held' => f[1] \in scoped'
  <2>1. CASE f[1] = s
    <3>1. w.file[f].state # "absent"
      BY <1>12, AbsentGood DEF StoreOK, Good
    <3> QED
      BY <1>1, <1>2, <1>11, <2>1, <3>1 DEF Exists
  <2>2. CASE f[1] = t
    <3>1. PICK m \in Names : store.file[<<t, m>>].priv \/ store.file[<<s, m>>].priv
      BY <1>5, <1>12, <2>2 DEF s
    <3>2. CASE store.file[<<t, m>>].priv
      <4>1. (faults = 0 => t \in scoped) /\ (faults <= 1 => t \in markers)
        BY <1>1, <1>4, <1>6, <3>2 DEF Sane
      <4> QED
        BY <1>1, <1>3, <1>9, <1>10, <2>2, <4>1
    <3>3. CASE store.file[<<s, m>>].priv
      <4>1. faults <= 1 => s \in scoped
        BY <1>1, <1>4, <1>6, <3>3 DEF Sane
      <4> QED
        BY <1>1, <1>3, <1>9, <1>10, <2>2, <4>1
    <3> QED
      BY <3>1, <3>2, <3>3
  <2>3. CASE f[1] \notin {s, t}
    <3>1. store.file[f].priv
      BY <1>7, <1>12, <2>3
    <3>2. /\ faults = 0 => f[1] \in scoped
          /\ faults <= 1 => f[1] \in EphKeys \cup markers
          /\ faults <= 1 /\ f[1] \in EphKeys \cap Held => f[1] \in scoped
      BY <1>1, <1>4, <3>1 DEF Sane
    <3> QED
      BY <1>2, <1>3, <1>9, <1>10, <2>3, <3>2
  <2> QED
    BY <2>1, <2>2, <2>3
<1>13. \A f \in Files : w.file[f].priv =>
         /\ faults' = 0 => f[1] \in scoped'
         /\ faults' <= 1 => f[1] \in EphKeys \cup markers'
         /\ faults' <= 1 /\ f[1] \in EphKeys \cap Held' => f[1] \in scoped'
  BY <1>12
<1> QED
  BY <1>8, <1>11, <1>13, ZenonT(30) DEF Upheld, Sane

LEMMA VanishedKeeps ==
  ASSUME IInv, StoreInv, NEW l \in Leases, NEW t \in ExtKeys, PromoteVanished(l, t)
  PROVE  StoreInv'
<1> DEFINE s == lease[l].key
<1>1. /\ CanPromote(l, t) /\ AdoptIdentity(l, t) /\ ~InPlace(store, s) /\ faults' = faults
      /\ store' = Forget(store, s, {})
  BY DEF PromoteVanished
<1>2. /\ up /\ s \in Keys /\ t \in Keys /\ t # s /\ StoreOK(store) /\ faults \in Nat
      /\ faults = 0 => \A f \in Files : Exists(store, f) => store.at[f[1]] = f[2]
  BY <1>1, PromoterFacts DEF StoreInv, Sane
<1>3. up'
  BY <1>1, <1>2, AdoptHeld
<1>4. /\ Pruned(store, store')
      /\ \A j \in Keys \ {s} : /\ store'.at[j] = store.at[j]
                               /\ \A n \in Names : store'.file[<<j, n>>] = store.file[<<j, n>>]
  BY <1>1, <1>2, ForgetPrunes
<1>5. \A f \in Files : Exists(store', f) => Exists(store, f)
  BY <1>4, AbsentGood DEF Pruned, Exists
<1>6. \A n \in Names : <<s, n>> \in Files /\ <<t, n>> \in Files
  BY <1>2 DEF Files
<1>7. faults' = 0 => \A n \in Names : /\ ~Exists(store', <<s, n>>)
                                      /\ Exists(store', <<t, n>>) => store'.at[t] = n
  BY <1>1, <1>2, <1>4, <1>5, <1>6 DEF InPlace, Names
<1>8. StoreOK(store')
  BY <1>4 DEF Pruned
<1> HIDE DEF s
<1>9. Upheld(store')
  BY <1>1, <1>2, <1>4, <1>5, <1>7, <1>8, AdoptUpheld DEF s
<1> QED
  BY <1>1, <1>2, <1>3, <1>8, <1>9, SelfPruned, RunningKeeps

LEMMA MoveKeeps ==
  ASSUME IInv, StoreInv, NEW l \in Leases, NEW t \in ExtKeys, PromoteMove(l, t)
  PROVE  StoreInv'
<1> DEFINE s == lease[l].key
           g == <<t, "partial">>
           b == store.file[Path(store, s)]
           To(c) == [store EXCEPT !.file = [@ EXCEPT ![Path(store, s)] = Absent, ![g] = c]]
<1>1. /\ CanPromote(l, t) /\ AdoptIdentity(l, t) /\ InPlace(store, s) /\ store.at[t] = "none"
  BY DEF PromoteMove
<1>2. PICK F \in StuckSets, keep \in {0, 1} :
        /\ store' = Evict(Adopted(To(IF keep = 1 THEN b ELSE Retargeted(b, t)), s, t, "partial"),
                          SparedAfter(s, t), budget, F)
        /\ Spend(keep + Cardinality(F))
  BY DEF PromoteMove
<1> DEFINE c == IF keep = 1 THEN b ELSE Retargeted(b, t)
           w == Adopted(To(c), s, t, "partial")
<1>3. /\ up /\ s \in Keys /\ t \in Keys /\ t # s /\ StoreOK(store) /\ faults \in Nat
      /\ faults = 0 => \A f \in Files : Exists(store, f) => store.at[f[1]] = f[2]
      /\ ~stamped => \A f \in Files : ~Exists(store, f)
  BY <1>1, PromoterFacts DEF StoreInv, Sane
<1>4. up'
  BY <1>1, <1>3, AdoptHeld
<1>5. faults' \in Nat /\ faults <= faults'
  BY <1>2, <1>3, StuckFinite DEF Spend
<1>6. /\ Path(store, s) = <<s, store.at[s]>> /\ store.at[s] \in Names
      /\ Path(store, s) \in Files /\ g \in Files /\ b \in Good
      /\ \A n \in Names : <<s, n>> \in Files /\ <<t, n>> \in Files
  BY <1>1, <1>3, PathFacts DEF InPlace, StoreOK, Names
<1>7. c \in Good /\ (c.priv => b.priv)
  BY <1>3, <1>6, RetargetedGood
<1>8. stamped
  BY <1>1, <1>3, <1>6 DEF InPlace
<1>9. /\ w.file = [store.file EXCEPT ![Path(store, s)] = Absent, ![g] = c]
      /\ w.at = [store.at EXCEPT ![s] = "none", ![t] = "partial"]
  <2> DEFINE u == To(c)
  <2>1. u.file = [store.file EXCEPT ![Path(store, s)] = Absent, ![g] = c] /\ u.at = store.at
    OBVIOUS
  <2> HIDE DEF u
  <2>2. Adopted(u, s, t, "partial").file = u.file
        /\ Adopted(u, s, t, "partial").at = [u.at EXCEPT ![s] = "none", ![t] = "partial"]
    BY DEF Adopted, Reindexed
  <2> QED
    BY <2>1, <2>2 DEF u
<1> HIDE DEF c, w, b
<1>10. /\ w.file \in [Files -> Good]
       /\ \A f \in Files : w.file[f] = IF f = g THEN c ELSE IF f = Path(store, s) THEN Absent ELSE store.file[f]
  BY <1>3, <1>6, <1>7, <1>9, AbsentGood DEF StoreOK
<1>11. /\ w.at \in [Keys -> Names \cup {"none"}]
       /\ \A j \in Keys : w.at[j] = IF j = t THEN "partial" ELSE IF j = s THEN "none" ELSE store.at[j]
  BY <1>3, <1>9 DEF StoreOK, Names
<1>12. \A j \in Keys \ {s, t} : /\ w.at[j] = store.at[j]
                                /\ \A n \in Names : w.file[<<j, n>>] = store.file[<<j, n>>]
  <2> TAKE j \in Keys \ {s, t}
  <2>1. \A n \in Names : <<j, n>> \in Files /\ <<j, n>> # g /\ <<j, n>> # Path(store, s)
    BY <1>6 DEF Files
  <2> QED
    BY <1>10, <1>11, <2>1
<1>13. \A n \in Names : w.file[<<t, n>>].priv =>
            \E m \in Names : store.file[<<t, m>>].priv \/ store.file[<<s, m>>].priv
  BY <1>3, <1>6, <1>7, <1>10 DEF b
<1>14. faults' = 0 => \A n \in Names : /\ ~Exists(w, <<s, n>>)
                                       /\ Exists(w, <<t, n>>) => w.at[t] = n
  <2> SUFFICES ASSUME faults' = 0, NEW n \in Names
               PROVE  ~Exists(w, <<s, n>>) /\ (Exists(w, <<t, n>>) => w.at[t] = n)
    OBVIOUS
  <2>1. faults = 0
    BY <1>3, <1>5
  <2>2. ~Exists(w, <<s, n>>)
    BY <1>3, <1>6, <1>10, <2>1, AbsentGood DEF Exists
  <2>3. Exists(w, <<t, n>>) => n = "partial"
    BY <1>1, <1>3, <1>6, <1>10, <2>1 DEF Exists, Names
  <2> QED
    BY <1>3, <1>11, <2>2, <2>3
<1>15. StoreOK(w)
  BY <1>10, <1>11 DEF StoreOK
<1>16. Upheld(w)
  BY <1>1, <1>5, <1>8, <1>12, <1>13, <1>14, <1>15, AdoptUpheld
<1>17. store' = Evict(w, SparedAfter(s, t), budget, F)
  BY <1>2 DEF w, c, b
<1> QED
  BY <1>4, <1>5, <1>15, <1>16, <1>17, EvictPrunes, RunningKeeps

\* A merge leaves one bundle, and whatever it cannot unlink is no promise's business:
\* the session key is never looked at again.
LEMMA MergeKeeps ==
  ASSUME IInv, StoreInv, NEW l \in Leases, NEW t \in ExtKeys, PromoteMerge(l, t)
  PROVE  StoreInv'
<1> DEFINE s     == lease[l].key
           ready == Intact(store, t) /\ Published(store.file[Path(store, t)], t)
           name  == IF ready THEN "final" ELSE "partial"
           out   == Merged(store.file[Path(store, t)], store.file[Path(store, s)], ready)
           w(F)  == Adopted([store EXCEPT !.file =
                       [Unlinked(@, {Path(store, t), Path(store, s)}, F)
                          EXCEPT ![<<t, name>>] = out]], s, t, name)
<1>1. /\ CanPromote(l, t) /\ AdoptIdentity(l, t) /\ InPlace(store, s) /\ InPlace(store, t)
  BY DEF PromoteMerge, Intact
<1>2. PICK F \in StuckSets :
        /\ store' = Evict(w(F), SparedAfter(s, t), budget, F)
        /\ Spend(Cardinality(F))
  BY DEF PromoteMerge
<1>3. /\ up /\ s \in Keys /\ t \in Keys /\ t # s /\ StoreOK(store) /\ faults \in Nat
      /\ faults = 0 => \A f \in Files : Exists(store, f) => store.at[f[1]] = f[2]
      /\ ~stamped => \A f \in Files : ~Exists(store, f)
  BY <1>1, PromoterFacts DEF StoreInv, Sane
<1>4. up'
  BY <1>1, <1>3, AdoptHeld
<1>5. faults' \in Nat /\ faults <= faults' /\ (faults' = 0 => F = {} /\ faults = 0)
  BY <1>2, <1>3, StuckFinite DEF Spend
<1>6. /\ Path(store, s) = <<s, store.at[s]>> /\ store.at[s] \in Names
      /\ Path(store, t) = <<t, store.at[t]>> /\ store.at[t] \in Names
      /\ Path(store, s) \in Files /\ Path(store, t) \in Files
      /\ \A n \in Names : <<s, n>> \in Files /\ <<t, n>> \in Files
      /\ name \in Names
  BY <1>1, <1>3, PathFacts DEF InPlace, StoreOK, Names
<1>7. out \in Good /\ (out.priv => store.file[Path(store, t)].priv \/ store.file[Path(store, s)].priv)
  <2>1. ready \in BOOLEAN
    BY DEF Intact, InPlace, Published
  <2>2. store.file[Path(store, t)] \in Good /\ store.file[Path(store, s)] \in Good
    BY <1>3, PathFacts
  <2> HIDE DEF ready
  <2> QED
    BY <2>1, <2>2, MergedGood
<1>8. stamped
  BY <1>1, <1>3, <1>6 DEF InPlace
<1> HIDE DEF ready, name, out
<1>9. /\ w(F).file = [Unlinked(store.file, {Path(store, t), Path(store, s)}, F) EXCEPT ![<<t, name>>] = out]
      /\ w(F).at = [store.at EXCEPT ![s] = "none", ![t] = name]
  <2> DEFINE u == [store EXCEPT !.file = [Unlinked(@, {Path(store, t), Path(store, s)}, F)
                                            EXCEPT ![<<t, name>>] = out]]
  <2>1. /\ u.file = [Unlinked(store.file, {Path(store, t), Path(store, s)}, F) EXCEPT ![<<t, name>>] = out]
        /\ u.at = store.at
    OBVIOUS
  <2> HIDE DEF u
  <2>2. Adopted(u, s, t, name).file = u.file
        /\ Adopted(u, s, t, name).at = [u.at EXCEPT ![s] = "none", ![t] = name]
    BY DEF Adopted, Reindexed
  <2> QED
    BY <2>1, <2>2 DEF u
<1> DEFINE r == w(F)
<1>10. r.file = [Unlinked(store.file, {Path(store, t), Path(store, s)}, F) EXCEPT ![<<t, name>>] = out]
       /\ r.at = [store.at EXCEPT ![s] = "none", ![t] = name]
       /\ store' = Evict(r, SparedAfter(s, t), budget, F)
  BY <1>2, <1>9
<1> HIDE DEF r, w
<1>11. /\ r.file \in [Files -> Good]
       /\ \A f \in Files : r.file[f] = IF f = <<t, name>> THEN out
            ELSE IF f \in {Path(store, t), Path(store, s)} \ F THEN Absent ELSE store.file[f]
  <2> DEFINE v == Unlinked(store.file, {Path(store, t), Path(store, s)}, F)
  <2>1. /\ v \in [Files -> Good]
        /\ \A f \in Files : v[f] =
             IF f \in {Path(store, t), Path(store, s)} \ F THEN Absent ELSE store.file[f]
    BY <1>3, UnlinkedGood DEF StoreOK
  <2>2. r.file = [v EXCEPT ![<<t, name>>] = out]
    BY <1>10
  <2>3. <<t, name>> \in Files
    BY <1>6
  <2> HIDE DEF v, s
  <2> QED
    BY <1>7, <2>1, <2>2, <2>3
<1>12. /\ r.at \in [Keys -> Names \cup {"none"}]
       /\ \A j \in Keys : r.at[j] = IF j = t THEN name ELSE IF j = s THEN "none" ELSE store.at[j]
  BY <1>3, <1>6, <1>10 DEF StoreOK
<1>13. \A j \in Keys \ {s, t} : /\ r.at[j] = store.at[j]
                                /\ \A n \in Names : r.file[<<j, n>>] = store.file[<<j, n>>]
  <2> TAKE j \in Keys \ {s, t}
  <2>1. \A n \in Names : /\ <<j, n>> \in Files /\ <<j, n>> # <<t, name>>
                         /\ <<j, n>> # Path(store, s) /\ <<j, n>> # Path(store, t)
    BY <1>6 DEF Files
  <2> QED
    BY <1>11, <1>12, <2>1
<1>14. \A n \in Names : r.file[<<t, n>>].priv =>
            \E m \in Names : store.file[<<t, m>>].priv \/ store.file[<<s, m>>].priv
  <2> SUFFICES ASSUME NEW n \in Names, r.file[<<t, n>>].priv
               PROVE  \E m \in Names : store.file[<<t, m>>].priv \/ store.file[<<s, m>>].priv
    OBVIOUS
  <2>1. r.file[<<t, n>>] \in {out, Absent, store.file[<<t, n>>]}
    BY <1>6, <1>11
  <2> QED
    BY <1>6, <1>7, <2>1, AbsentGood
<1>15. faults' = 0 => \A n \in Names : /\ ~Exists(r, <<s, n>>)
                                       /\ Exists(r, <<t, n>>) => r.at[t] = n
  <2> SUFFICES ASSUME faults' = 0, NEW n \in Names
               PROVE  ~Exists(r, <<s, n>>) /\ (Exists(r, <<t, n>>) => r.at[t] = n)
    OBVIOUS
  <2>1. faults = 0 /\ F = {}
    BY <1>5
  <2>0. /\ Exists(store, <<s, n>>) => store.at[s] = n
        /\ Exists(store, <<t, n>>) => store.at[t] = n
    <3>1. /\ <<s, n>> \in Files /\ <<s, n>>[1] = s /\ <<s, n>>[2] = n
          /\ <<t, n>> \in Files /\ <<t, n>>[1] = t /\ <<t, n>>[2] = n
      BY <1>6
    <3> HIDE DEF s
    <3> QED
      BY <1>3, <2>1, <3>1
  <2>2. ~Exists(r, <<s, n>>)
    <3>1. n = store.at[s] => r.file[<<s, n>>] = Absent
      BY <1>3, <1>6, <1>11, <2>1
    <3>2. n # store.at[s] => r.file[<<s, n>>] = store.file[<<s, n>>] /\ ~Exists(store, <<s, n>>)
      BY <1>3, <1>6, <1>11, <2>0
    <3> QED
      BY <3>1, <3>2, AbsentGood DEF Exists
  <2>3. n # name => ~Exists(r, <<t, n>>)
    <3>1. n # name /\ n = store.at[t] => r.file[<<t, n>>] = Absent
      BY <1>3, <1>6, <1>11, <2>1
    <3>2. n # name /\ n # store.at[t] => r.file[<<t, n>>] = store.file[<<t, n>>] /\ ~Exists(store, <<t, n>>)
      BY <1>3, <1>6, <1>11, <2>0
    <3> QED
      BY <3>1, <3>2, AbsentGood DEF Exists
  <2> QED
    BY <1>3, <1>12, <2>2, <2>3
<1>16. StoreOK(r)
  BY <1>11, <1>12 DEF StoreOK
<1>17. Upheld(r)
  BY <1>1, <1>5, <1>8, <1>13, <1>14, <1>15, <1>16, AdoptUpheld
<1> QED
  BY <1>4, <1>5, <1>10, <1>16, <1>17, EvictPrunes, RunningKeeps

\* A promotion given up after the rename leaves a bundle no index knows, under
\* a name already marked.
LEMMA PromoteFailedKeeps ==
  ASSUME IInv, StoreInv, NEW l \in Leases, NEW t \in ExtKeys, PromoteFailed(l, t)
  PROVE  StoreInv'
<1> DEFINE s == lease[l].key
           g == <<t, "partial">>
           b == store.file[Path(store, s)]
           c == Retargeted(b, t)
<1>1. /\ CanPromote(l, t) /\ InPlace(store, s)
      /\ UNCHANGED <<stamped, scoped, lease, up>>
      /\ markers' = TargetMarks(s, t)
  BY DEF PromoteFailed, MarkTarget, privacy, env
<1>2. /\ up /\ s \in EphKeys \cap Held /\ s \in Keys /\ t \in Keys /\ t \notin EphKeys /\ t # s
      /\ StoreOK(store) /\ faults \in Nat
      /\ Sane(store, up, faults, stamped, scoped, markers, Held)
  BY <1>1, PromoterFacts DEF StoreInv
<1>3. Held' = Held
  BY <1>1, SameHeld
<1>4. markers \subseteq markers'
  BY <1>1 DEF TargetMarks
<1>5. CASE store' = store /\ (UNCHANGED faults \/ Spend(1))
  <2>1. faults' \in Nat /\ faults <= faults'
    BY <1>2, <1>5 DEF Spend
  <2> QED
    BY <1>1, <1>2, <1>3, <1>4, <1>5, <2>1, SelfPruned, PruningKeeps
<1>6. CASE /\ Spend(1)
           /\ store' = [store EXCEPT !.file = [@ EXCEPT ![Path(store, s)] = Absent, ![g] = c]]
  <2>1. /\ store'.file = [store.file EXCEPT ![Path(store, s)] = Absent, ![g] = c]
        /\ store'.at = store.at
    BY <1>6
  <2>2. faults' = faults + 1
    BY <1>6 DEF Spend
  <2>3. /\ Path(store, s) \in Files /\ g \in Files /\ b \in Good /\ Path(store, s)[1] = s
    <3>1. /\ Path(store, s) \in Files /\ b \in Good /\ Path(store, s) = <<s, Path(store, s)[2]>>
      BY <1>2, PathFacts
    <3>2. g \in Files
      BY <1>2 DEF Names, Files
    <3> HIDE DEF b, g, s
    <3> QED
      BY <3>1, <3>2
  <2>4. c \in Good /\ c.priv = b.priv
    BY <1>2, <2>3, RetargetedGood
  <2>5. stamped
    <3>1. Exists(store, Path(store, s))
      BY <1>1, <1>2, PathFacts DEF InPlace
    <3> QED
      BY <1>2, <2>3, <3>1 DEF Sane
  <2>6. b.priv /\ faults = 0 => s \in scoped
    BY <1>2, <2>3 DEF Sane
  <2> HIDE DEF b, c, s
  <2>7. /\ store'.file \in [Files -> Good]
        /\ \A f \in Files : store'.file[f] = IF f = g THEN c
             ELSE IF f = Path(store, s) THEN Absent ELSE store.file[f]
    BY <1>2, <2>1, <2>3, <2>4, AbsentGood DEF StoreOK
  <2>8. ASSUME NEW f \in Files, store'.file[f].priv, faults' <= 1
        PROVE  f[1] \in EphKeys \cup markers' /\ (f[1] \in EphKeys \cap Held => f[1] \in scoped)
    <3>1. faults = 0
      BY <1>2, <2>2, <2>8
    <3>2. CASE f = g
      <4>1. c.priv
        BY <2>7, <2>8, <3>2
      <4>2. s \in scoped /\ f[1] = t
        BY <2>4, <2>6, <3>1, <3>2, <4>1
      <4> QED
        BY <1>1, <1>2, <4>2 DEF TargetMarks
    <3>3. CASE f # g
      <4>1. store.file[f].priv
        BY <2>7, <2>8, <3>3, AbsentGood
      <4> QED
        BY <1>2, <1>4, <3>1, <4>1 DEF Sane
    <3> QED
      BY <3>2, <3>3
  <2>9. StoreOK(store')
    BY <1>2, <2>1, <2>7 DEF StoreOK
  <2>10. faults' \in Nat /\ faults' # 0
    BY <1>2, <2>2
  <2>11. Upheld(store')
    BY <1>1, <1>2, <1>3, <2>5, <2>8, <2>9, <2>10 DEF Upheld, Sane
  <2> QED
    BY <1>1, <1>2, <2>9, <2>10, <2>11, SelfPruned, RunningKeeps
<1> QED
  BY <1>5, <1>6 DEF PromoteFailed

-----------------------------------------------------------------------------
\* A release: the last one takes the promise back and the bytes with it.
LEMMA CloseKeepsStore ==
  ASSUME IInv, StoreInv, NEW l \in Leases, Close(l)
  PROVE  StoreInv'
<1> DEFINE k    == lease[l].key
           last == k \in scoped /\ active[k] = 1
<1>1. Live(l) /\ up /\ up' = up /\ stamped' = stamped
  BY DEF Close, Live, env
<1>2. k \in Keys /\ StoreOK(store) /\ faults \in Nat
      /\ Sane(store, up, faults, stamped, scoped, markers, Held)
  BY <1>1, LivePins DEF StoreInv, Sane
<1>3. /\ lease'[l] = NoLease /\ \A m \in Leases \ {l} : lease'[m] = lease[m]
  BY DEF Close, IInv, BookOK
<1>4. \A j : Holders(j)' \subseteq Holders(j) \ {l}
  BY <1>3 DEF Holders, Live, NoLease
<1>5. Held' \subseteq Held
  BY <1>4 DEF Held
<1>6. last => Held' \subseteq Held \ {k}
  <2> SUFFICES ASSUME last PROVE Held' \subseteq Held \ {k}
    OBVIOUS
  <2>1. l \in Holders(k) /\ Cardinality(Holders(k)) = 1
    BY <1>1, <1>2 DEF Holders, IInv, PinsMatchLeases
  <2>2. Cardinality(Holders(k) \ {l}) = 0
    <3> DEFINE H == Holders(k)
    <3>1. IsFiniteSet(H) /\ l \in H /\ Cardinality(H) = 1
      BY <2>1, HoldersFinite
    <3> HIDE DEF H
    <3>2. Cardinality(H \ {l}) = Cardinality(H) - 1
      BY <3>1, FS_RemoveElement
    <3> QED
      BY <3>1, <3>2 DEF H
  <2>3. Holders(k) \ {l} = {}
    BY <2>2, HoldersFinite, FS_RemoveElement, FS_EmptySet
  <2> HIDE DEF k, last
  <2>4. \A j : j = k => Holders(j)' = {}
    BY <1>4, <2>3
  <2> QED
    BY <1>5, <2>4 DEF Held
<1>7. PICK F \in StuckSets :
        LET purged == IF last THEN Purge(store, k, F) ELSE store
            spared == {j \in Keys : active'[j] > 0 \/ building[j] > 0}
        IN /\ store' = IF strict THEN Evict(purged, spared, budget, F) ELSE purged
           /\ markers' = IF last /\ \A n \in Names : ~Exists(purged, <<k, n>>)
                         THEN markers \ {k} ELSE markers
           /\ Spend(Cardinality(F))
  BY DEF Close
<1>8. scoped' = IF last THEN scoped \ {k} ELSE scoped
  BY DEF Close
<1>9. faults' \in Nat /\ faults <= faults' /\ (faults' = 0 => F = {})
  BY <1>2, <1>7, StuckFinite DEF Spend
<1> DEFINE r == IF last THEN Purge(store, k, F) ELSE store
<1>10. /\ Pruned(store, r)
       /\ last /\ F = {} => \A n \in Names : ~Exists(r, <<k, n>>)
  BY <1>2, PurgePrunes, SelfPruned, AbsentGood DEF Exists
<1> HIDE DEF last
<1>11. ASSUME last PROVE Upheld(r)
  <2>1. /\ scoped' = scoped \ {k} /\ Held' \subseteq Held \ {k}
        /\ markers' = markers \/ (markers' = markers \ {k} /\ \A n \in Names : ~Exists(r, <<k, n>>))
    BY <1>6, <1>7, <1>8, <1>11
  <2> HIDE DEF k, r
  <2>2. \A f \in Files : Exists(r, f) => Exists(store, f) /\ (store.at[f[1]] = f[2] => r.at[f[1]] = f[2])
    <3> SUFFICES ASSUME NEW f \in Files, Exists(r, f)
                 PROVE  Exists(store, f) /\ (store.at[f[1]] = f[2] => r.at[f[1]] = f[2])
      OBVIOUS
    <3>1. f[1] \in Keys /\ f = <<f[1], f[2]>>
      BY DEF Files
    <3> QED
      BY <1>10, <3>1, AbsentGood DEF Pruned, Exists
  <2>3. \A f \in Files : r.file[f].priv => store.file[f].priv /\ Exists(r, f)
    <3> SUFFICES ASSUME NEW f \in Files, r.file[f].priv PROVE store.file[f].priv /\ Exists(r, f)
      OBVIOUS
    <3>1. r.file[f] \in {store.file[f], Absent} /\ r.file[f] \in Good
      BY <1>10 DEF Pruned, StoreOK
    <3> QED
      BY <3>1, AbsentGood DEF Exists, Good
  <2>4. \A f \in Files : f[1] = k /\ (faults' = 0 \/ markers' # markers) => ~Exists(r, f)
    <3> SUFFICES ASSUME NEW f \in Files, f[1] = k, faults' = 0 \/ markers' # markers
                 PROVE  ~Exists(r, f)
      OBVIOUS
    <3>1. f[2] \in Names /\ f = <<k, f[2]>>
      BY DEF Files
    <3>2. \A n \in Names : ~Exists(r, <<k, n>>)
      BY <1>9, <1>10, <1>11, <2>1
    <3> QED
      BY <3>1, <3>2
  <2> QED
    BY <1>1, <1>2, <1>9, <1>10, <2>1, <2>2, <2>3, <2>4 DEF Upheld, Sane, Pruned
<1>12. ASSUME ~last PROVE Upheld(r)
  BY <1>1, <1>2, <1>5, <1>7, <1>8, <1>9, <1>12 DEF Upheld, Sane
<1>13. StoreOK(r)
  BY <1>10 DEF Pruned
<1>14. Pruned(r, store')
  <2> DEFINE spared == {j \in Keys : active'[j] > 0 \/ building[j] > 0}
  <2>1. store' = IF strict THEN Evict(r, spared, budget, F) ELSE r
    BY <1>7
  <2> HIDE DEF r, spared
  <2> QED
    BY <1>13, <2>1, EvictPrunes, SelfPruned
<1> HIDE DEF r
<1> QED
  BY <1>1, <1>9, <1>11, <1>12, <1>14, RunningKeeps

\* Without an error a clear leaves nothing; with one, what it could not remove
\* keeps the mark of its promise.
LEMMA ClearKeeps ==
  ASSUME IInv, StoreInv, Clear
  PROVE  StoreInv'
<1> DEFINE Strays(s) == {f \in Files : Exists(s, f) /\ s.at[f[1]] # f[2]}
<1>1. /\ up /\ up' = up /\ stamped' /\ scoped' = scoped /\ lease' = lease
      /\ StoreOK(store) /\ faults \in Nat
      /\ Sane(store, up, faults, stamped, scoped, markers, Held)
  BY DEF Clear, env, privacy, StoreInv, Sane
<1>2. PICK F \in StuckSets :
        LET s == ForgetAll(store, F) IN
        /\ \/ /\ Strays(s) \cap F = {}
              /\ store' = [s EXCEPT !.file = Unlinked(@, Strays(s), {})]
              /\ markers' = markers \cap scoped
           \/ /\ Strays(s) \cap F # {}
              /\ \E swept \in SUBSET (Strays(s) \ F), m \in SUBSET (markers \ scoped) :
                   /\ store' = [s EXCEPT !.file = Unlinked(@, swept, {})]
                   /\ markers' = markers \ m
        /\ Spend(Cardinality(F))
  BY DEF Clear
<1> DEFINE s == ForgetAll(store, F)
<1>3. PICK swept \in SUBSET Strays(s) :
        /\ store' = [s EXCEPT !.file = Unlinked(@, swept, {})]
        /\ Strays(s) \cap F = {} => swept = Strays(s)
        /\ markers \cap scoped \subseteq markers'
  BY <1>2
<1>4. /\ Pruned(store, s)
      /\ \A f \in Files : s.at[f[1]] = f[2] => f \in F
  BY <1>1, ForgetAllPrunes
<1> HIDE DEF s
<1>5. faults' \in Nat /\ faults <= faults' /\ (F # {} => faults < faults')
  BY <1>1, <1>2, StuckFinite DEF Spend
<1>6. StoreOK(s)
  BY <1>4 DEF Pruned
<1>7. /\ store'.at = s.at
      /\ store'.file \in [Files -> Good]
      /\ \A f \in Files : store'.file[f] = IF f \in swept THEN Absent ELSE s.file[f]
  <2>1. store'.file = Unlinked(s.file, swept, {}) /\ store'.at = s.at
    BY <1>3
  <2> QED
    BY <1>6, <2>1, UnlinkedGood DEF StoreOK
<1>8. StoreOK(store')
  BY <1>6, <1>7 DEF StoreOK
<1>9. F = {} => \A f \in Files : store'.file[f] = Absent
  <2> SUFFICES ASSUME F = {}, NEW f \in Files, f \notin swept PROVE s.file[f] = Absent
    BY <1>7
  <2>1. ~Exists(s, f)
    BY <1>3, <1>4
  <2> QED
    BY <1>6, <2>1 DEF Exists, StoreOK, Good
<1>10. \A f \in Files : store'.file[f].priv => store.file[f].priv
  BY <1>4, <1>7, AbsentGood DEF Pruned
<1>11. Held' = Held
  BY <1>1, SameHeld
<1>12. ASSUME NEW f \in Files, store'.file[f].priv, faults' <= 1
       PROVE  /\ faults' # 0
              /\ f[1] \in EphKeys \cup markers'
              /\ f[1] \in EphKeys \cap Held => f[1] \in scoped
  <2>1. F # {}
    BY <1>9, <1>12, AbsentGood
  <2>2. faults = 0 /\ faults' # 0
    BY <1>1, <1>5, <1>12, <2>1
  <2>3. f[1] \in scoped /\ f[1] \in EphKeys \cup markers
    BY <1>1, <1>10, <1>12, <2>2 DEF Sane
  <2> QED
    BY <1>3, <2>2, <2>3
<1>13. faults' = 0 => \A f \in Files : ~Exists(store', f)
  BY <1>1, <1>5, <1>9, AbsentGood DEF Exists
<1>14. Upheld(store')
  BY <1>1, <1>5, <1>8, <1>11, <1>12, <1>13 DEF Upheld, Sane
<1> QED
  BY <1>1, <1>5, <1>8, <1>14, SelfPruned, RunningKeeps

LEMMA OsPurgeKeeps ==
  ASSUME IInv, StoreInv, OsPurge
  PROVE  StoreInv'
<1>1. /\ up /\ up' = up /\ scoped' = scoped /\ lease' = lease /\ faults' = faults
      /\ StoreOK(store) /\ faults \in Nat
  BY DEF OsPurge, env, privacy, StoreInv, Sane
<1>2. store'.at = store.at /\ store'.file = [f \in Files |-> Absent]
  BY DEF OsPurge
<1>3. StoreOK(store') /\ \A f \in Files : store'.file[f] = Absent
  BY <1>1, <1>2, AbsentGood DEF StoreOK
<1>4. Upheld(store')
  BY <1>1, <1>3, AbsentGood DEF Upheld, Sane, Exists
<1> QED
  BY <1>1, <1>3, <1>4, SelfPruned, RunningKeeps

-----------------------------------------------------------------------------
\* A process that dies leaves its files and marks; its index and its leases go.
LEMMA DieKeepsStore ==
  ASSUME StoreInv, NEW file \in [Files -> Good], NEW left, NEW stamp, Die(file, left, stamp),
         faults <= 1 => \A f \in Files : file[f].priv => f[1] \in EphKeys \cup left,
         stamp \/ \A f \in Files : file[f].state = "absent"
  PROVE  StoreInv'
<1>1. /\ store'.file = file /\ store'.at = [k \in Keys |-> "none"]
      /\ ~up' /\ markers' = left /\ stamped' = stamp /\ faults' = faults
  BY DEF Die, NewStore
<1>2. \A l \in Leases : lease'[l] = NoLease
  BY DEF Die
<1>3. Held' = {}
  BY <1>2 DEF Held, Holders, Live, NoLease
<1>4. StoreOK(store')
  BY <1>1 DEF StoreOK
<1> QED
  BY <1>1, <1>3, <1>4 DEF StoreInv, Sane, Exists

LEMMA CrashInPromoteKeeps ==
  ASSUME IInv, StoreInv, NEW l \in Leases, NEW t \in ExtKeys, CrashInPromote(l, t)
  PROVE  StoreInv'
<1> DEFINE s      == lease[l].key
           marked == TargetMarks(s, t)
           ready  == Intact(store, t) /\ Published(store.file[Path(store, t)], t)
           name   == IF ready THEN "final" ELSE "partial"
           out    == Merged(store.file[Path(store, t)], store.file[Path(store, s)], ready)
<1>1. CanPromote(l, t) /\ InPlace(store, s)
  BY DEF CrashInPromote
<1>2. /\ up /\ s \in EphKeys \cap Held /\ s \in Keys /\ t \in Keys
      /\ StoreOK(store) /\ faults \in Nat
      /\ Sane(store, up, faults, stamped, scoped, markers, Held)
  BY <1>1, PromoterFacts DEF StoreInv
<1>3. /\ Path(store, s) \in Files /\ store.file[Path(store, s)] \in Good
      /\ Path(store, t) \in Files /\ store.file[Path(store, t)] \in Good
      /\ <<t, "partial">> \in Files /\ <<t, name>> \in Files
  BY <1>2, PathFacts DEF Names
<1>4. Path(store, s)[1] = s /\ Path(store, t)[1] = t
  <2>1. Path(store, s) = <<s, Path(store, s)[2]>> /\ Path(store, t) = <<t, Path(store, t)[2]>>
    BY <1>2, PathFacts
  <2> HIDE DEF s
  <2> QED
    BY <2>1
<1>5. stamped
  <2>1. Exists(store, Path(store, s))
    BY <1>1, <1>2, PathFacts DEF InPlace
  <2> QED
    BY <1>2, <1>3, <2>1 DEF Sane
<1>6. faults <= 1 =>
        /\ \A f \in Files : store.file[f].priv => f[1] \in EphKeys \cup marked
        /\ store.file[Path(store, s)].priv \/ store.file[Path(store, t)].priv => t \in EphKeys \cup marked
  <2> SUFFICES ASSUME faults <= 1
               PROVE  /\ \A f \in Files : store.file[f].priv => f[1] \in EphKeys \cup marked
                      /\ store.file[Path(store, s)].priv \/ store.file[Path(store, t)].priv
                           => t \in EphKeys \cup marked
    OBVIOUS
  <2>1. \A f \in Files : store.file[f].priv => f[1] \in EphKeys \cup marked
    BY <1>2 DEF Sane, TargetMarks
  <2>2. store.file[Path(store, s)].priv => s \in scoped
    BY <1>2, <1>3, <1>4 DEF Sane
  <2>3. s \in scoped => t \in marked
    BY DEF TargetMarks
  <2> QED
    BY <1>3, <1>4, <2>1, <2>2, <2>3
<1>7. out \in Good /\ (out.priv => store.file[Path(store, t)].priv \/ store.file[Path(store, s)].priv)
  <2>1. ready \in BOOLEAN
    BY DEF Intact, InPlace, Published
  <2> HIDE DEF ready
  <2> QED
    BY <1>3, <2>1, MergedGood
<1>8. \/ Die(store.file, marked, stamped)
      \/ Die([store.file EXCEPT ![<<t, "partial">>] = store.file[Path(store, s)],
                                ![Path(store, s)] = Absent], marked, stamped)
      \/ Die([store.file EXCEPT ![<<t, name>>] = out], marked, stamped)
  BY DEF CrashInPromote
<1> HIDE DEF s, marked, name, out
<1>9. CASE Die(store.file, marked, stamped)
  BY <1>2, <1>5, <1>6, <1>9, DieKeepsStore DEF StoreOK
<1>10. CASE Die([store.file EXCEPT ![<<t, "partial">>] = store.file[Path(store, s)],
                                   ![Path(store, s)] = Absent], marked, stamped)
  <2> DEFINE file == [store.file EXCEPT ![<<t, "partial">>] = store.file[Path(store, s)],
                                        ![Path(store, s)] = Absent]
  <2>1. /\ file \in [Files -> Good]
        /\ \A f \in Files : \/ file[f] \in {store.file[f], Absent}
                            \/ f[1] = t /\ file[f] = store.file[Path(store, s)]
    BY <1>2, <1>3, AbsentGood DEF StoreOK
  <2>2. Die(file, marked, stamped)
    BY <1>10
  <2> HIDE DEF file
  <2>3. faults <= 1 => \A f \in Files : file[f].priv => f[1] \in EphKeys \cup marked
    BY <1>6, <2>1, AbsentGood
  <2> QED
    BY <1>5, <2>1, <2>2, <2>3, DieKeepsStore
<1>11. CASE Die([store.file EXCEPT ![<<t, name>>] = out], marked, stamped)
  <2> DEFINE file == [store.file EXCEPT ![<<t, name>>] = out]
  <2>1. /\ file \in [Files -> Good]
        /\ \A f \in Files : file[f] = store.file[f] \/ (f[1] = t /\ file[f] = out)
    BY <1>2, <1>3, <1>7 DEF StoreOK
  <2>2. Die(file, marked, stamped)
    BY <1>11
  <2> HIDE DEF file
  <2>3. faults <= 1 => \A f \in Files : file[f].priv => f[1] \in EphKeys \cup marked
    BY <1>6, <1>7, <2>1
  <2> QED
    BY <1>5, <2>1, <2>2, <2>3, DieKeepsStore
<1> QED
  BY <1>8, <1>9, <1>10, <1>11

LEMMA CrashKeepsStore ==
  ASSUME IInv, StoreInv, CrashStep
  PROVE  StoreInv'
<1>1. StoreOK(store) /\ faults \in Nat
      /\ Sane(store, up, faults, stamped, scoped, markers, Held)
  BY DEF StoreInv, Sane
<1>2. CASE Crash
  BY <1>1, <1>2, DieKeepsStore DEF Crash, Sane, StoreOK, Exists
<1>3. ASSUME NEW l \in Leases, CrashInWrite(l) PROVE StoreInv'
  <2> DEFINE k == lease[l].key
             f == Path(store, k)
             c == Garbled(store.file[f], k \in scoped)
             file == [store.file EXCEPT ![f] = c]
             left == markers \cup (scoped \cap {k})
  <2>1. Open(l) /\ Die(file, left, TRUE)
    BY <1>3 DEF CrashInWrite
  <2>2. up /\ k \in Held /\ k \in Keys
    BY <2>1, HeldKey DEF Open, Live, Held
  <2>3. f \in Files /\ store.file[f] \in Good /\ f = <<k, f[2]>>
    BY <1>1, <2>2, PathFacts
  <2>4. f[1] = k
    <3> HIDE DEF k, f
    <3> QED
      BY <2>3
  <2>5. c \in Good /\ (c.priv => store.file[f].priv \/ k \in scoped)
    <3>1. (k \in scoped) \in BOOLEAN
      OBVIOUS
    <3> QED
      BY <2>3, <3>1, GarbledGood
  <2> HIDE DEF c, f, k
  <2>6. /\ file \in [Files -> Good]
        /\ \A g \in Files : file[g] = store.file[g] \/ (g = f /\ file[g] = c)
    BY <1>1, <2>3, <2>5 DEF StoreOK
  <2> HIDE DEF file
  <2>7. faults <= 1 => \A g \in Files : file[g].priv => g[1] \in EphKeys \cup left
    BY <1>1, <2>2, <2>3, <2>4, <2>5, <2>6 DEF Sane
  <2> QED
    BY <2>1, <2>6, <2>7, DieKeepsStore
<1>4. ASSUME NEW l \in Leases, CrashInPublish(l) PROVE StoreInv'
  <2> DEFINE k == lease[l].key
             f == Path(store, k)
             c == [store.file[f] EXCEPT !.ready = Kind(k)]
             file == Stamp(store, k).file
             left == markers \cup (scoped \cap {k})
  <2>1. Open(l) /\ Complete(k) /\ Die(file, left, stamped)
    BY <1>4 DEF CrashInPublish
  <2>2. up /\ k \in Held /\ k \in Keys
    BY <2>1, HeldKey DEF Open, Live, Held
  <2>3. f \in Files /\ store.file[f] \in Good /\ stamped
    BY <1>1, <2>1, <2>2, PathFacts, CompleteFacts
  <2>4. /\ file = [store.file EXCEPT ![f] = c] /\ c \in Good /\ c.priv = store.file[f].priv
    BY <2>1, <2>2, StampFacts
  <2> HIDE DEF c, f, file
  <2>5. /\ file \in [Files -> Good]
        /\ \A g \in Files : file[g].priv = store.file[g].priv
    BY <1>1, <2>3, <2>4 DEF StoreOK
  <2>6. faults <= 1 => \A g \in Files : file[g].priv => g[1] \in EphKeys \cup left
    BY <1>1, <2>5 DEF Sane
  <2> QED
    BY <2>1, <2>3, <2>5, <2>6, DieKeepsStore
<1>5. ASSUME NEW l \in Leases, CrashInRelease(l) PROVE StoreInv'
  <2>1. PICK gone : Die(Unlinked(store.file, gone, {}), markers, stamped)
    BY <1>5 DEF CrashInRelease
  <2> DEFINE file == Unlinked(store.file, gone, {})
  <2>2. /\ file \in [Files -> Good]
        /\ \A g \in Files : file[g] \in {store.file[g], Absent}
    BY <1>1, UnlinkedGood DEF StoreOK
  <2>3. Die(file, markers, stamped)
    BY <2>1
  <2> HIDE DEF file
  <2>4. faults <= 1 => \A g \in Files : file[g].priv => g[1] \in EphKeys \cup markers
    BY <1>1, <2>2, AbsentGood DEF Sane
  <2>5. stamped \/ \A g \in Files : file[g].state = "absent"
    BY <1>1, <2>2, AbsentGood DEF Sane, Exists
  <2> QED
    BY <2>2, <2>3, <2>4, <2>5, DieKeepsStore
<1> QED
  BY <1>2, <1>3, <1>4, <1>5, CrashInPromoteKeeps DEF CrashStep

-----------------------------------------------------------------------------
\* The next process takes the directory over.
LEMMA RecoveredFrom ==
  ASSUME NEW file \in [Files -> Good], NEW K, K \subseteq Late(file)
  PROVE  /\ Recovered(file, K) \in [Files -> Good]
         /\ \A f \in Files : Recovered(file, K)[f] = Absent
              \/ \E n \in Names : Recovered(file, K)[f] = file[<<f[1], n>>]
<1>1. \A f \in Files : /\ f[1] \in Keys /\ f[2] \in Names /\ f = <<f[1], f[2]>>
                       /\ \A n \in Names : <<f[1], n>> \in Files
  BY DEF Files
<1>2. "partial" \in Names
  BY DEF Names
<1>3. \A f \in Files : Recovered(file, K)[f] = IF f[1] \notin K THEN file[f]
         ELSE IF f[2] = "final" THEN file[<<f[1], "partial">>] ELSE Absent
  BY DEF Recovered
<1>4. \A f \in Files : Recovered(file, K)[f] = Absent
        \/ \E n \in Names : Recovered(file, K)[f] = file[<<f[1], n>>]
  <2> TAKE f \in Files
  <2>1. f[2] \in Names /\ file[<<f[1], f[2]>>] = file[f]
    BY <1>1
  <2> QED
    BY <1>2, <1>3, <2>1
<1>5. \A f \in Files : Recovered(file, K)[f] \in Good
  BY <1>1, <1>4, AbsentGood
<1> QED
  BY <1>4, <1>5 DEF Recovered

\* What the index is built of: intact bundles of keys no session and no mark claims.
LEMMA IndexBuiltFrom ==
  ASSUME NEW file \in [Files -> Good], NEW F, IndexBuilt(file, F)
  PROVE  /\ StoreOK(store')
         /\ \A f \in Files : store'.file[f] \in {file[f], Absent}
         /\ \A k \in Keys : store'.at[k] # "none" => k \notin EphKeys \cup Sessions
         /\ F = {} /\ (\A f \in Files : file[f].state # "absent" =>
                         file[f].state = "intact" /\ f[1] \notin EphKeys \cup Sessions)
            => \A f \in Files : Exists(store', f) => store'.at[f[1]] = f[2]
<1> DEFINE Has(k, n) == file[<<k, n>>].state = "intact" /\ k \notin EphKeys \cup Sessions
           known     == {k \in Keys : \E n \in Names : Has(k, n)}
           Stale(at) == {f \in known \X Names : Has(f[1], f[2]) /\ at[f[1]] # f[2]}
<1>1. PICK at \in [known -> Names], rank \in [known -> 1 .. Cardinality(known)] :
        LET s      == [file  |-> Unlinked(file, Stale(at), F),
                       at    |-> [k \in Keys |-> IF k \in known THEN at[k] ELSE "none"],
                       size  |-> [k \in Keys |-> IF k \in known
                                    THEN SizeOf(file[<<k, at[k]>>]) ELSE 0],
                       lru   |-> Ranked(Keys, rank), bytes |-> 0]
            newest == {k \in known : rank[k] = Cardinality(known)}
        IN store' = Evict([s EXCEPT !.bytes = TotalOf(s, known)], newest, budget, F)
  BY DEF IndexBuilt
<1> DEFINE s == [file  |-> Unlinked(file, Stale(at), F),
                 at    |-> [k \in Keys |-> IF k \in known THEN at[k] ELSE "none"],
                 size  |-> [k \in Keys |-> IF k \in known
                              THEN SizeOf(file[<<k, at[k]>>]) ELSE 0],
                 lru   |-> Ranked(Keys, rank), bytes |-> 0]
           r == [s EXCEPT !.bytes = TotalOf(s, known)]
<1>2. PICK newest : store' = Evict(r, newest, budget, F)
  BY <1>1
<1>3. /\ r.file = Unlinked(file, Stale(at), F)
      /\ r.at = [k \in Keys |-> IF k \in known THEN at[k] ELSE "none"]
  OBVIOUS
<1> HIDE DEF r, s, Stale
<1>4. /\ r.file \in [Files -> Good]
      /\ \A f \in Files : r.file[f] = IF f \in Stale(at) \ F THEN Absent ELSE file[f]
  BY <1>3, UnlinkedGood
<1>5. /\ r.at \in [Keys -> Names \cup {"none"}]
      /\ \A k \in Keys : /\ r.at[k] # "none" => k \in known
                         /\ k \in known => r.at[k] = at[k]
  BY <1>3 DEF Names
<1>6. StoreOK(r)
  BY <1>4, <1>5 DEF StoreOK
<1>7. Pruned(r, store')
  BY <1>2, <1>6, EvictPrunes
<1>8. \A f \in Files : store'.file[f] \in {file[f], Absent}
  BY <1>4, <1>7 DEF Pruned
<1>9. \A k \in Keys : store'.at[k] # "none" => k \notin EphKeys \cup Sessions
  BY <1>5, <1>7 DEF Pruned
<1>10. ASSUME F = {}, \A f \in Files : file[f].state # "absent" =>
                        file[f].state = "intact" /\ f[1] \notin EphKeys \cup Sessions,
              NEW f \in Files, Exists(store', f)
       PROVE  store'.at[f[1]] = f[2]
  <2>1. f[1] \in Keys /\ f[2] \in Names /\ f = <<f[1], f[2]>>
    BY DEF Files
  <2>2. store'.file[f] = r.file[f] /\ r.file[f] = file[f] /\ f \notin Stale(at)
    BY <1>4, <1>7, <1>10, AbsentGood DEF Pruned, Exists
  <2>3. Has(f[1], f[2]) /\ f[1] \in known
    <3>1. file[f].state = "intact" /\ f[1] \notin EphKeys \cup Sessions
      BY <1>10, <2>2 DEF Exists
    <3> QED
      BY <2>1, <3>1
  <2>4. at[f[1]] = f[2] /\ r.at[f[1]] = f[2]
    <3>1. f \in known \X Names
      BY <2>1, <2>3
    <3> HIDE DEF Has, known
    <3> QED
      BY <1>5, <2>1, <2>2, <2>3, <3>1 DEF Stale
  <2>5. <<f[1], r.at[f[1]]>> = f
    BY <2>1, <2>4
  <2>6. store'.file[f] # Absent
    BY <1>10, AbsentGood DEF Exists
  <2> HIDE DEF known
  <2> QED
    BY <1>7, <2>1, <2>4, <2>5, <2>6 DEF Pruned
<1>11. StoreOK(store')
  BY <1>7 DEF Pruned
<1> QED
  BY <1>8, <1>9, <1>10, <1>11

\* Reconciling costs nothing unless a file resists or a rename fails.
LEMMA ReconcileKeeps ==
  ASSUME IInv, StoreInv, Reconcile
  PROVE  /\ StoreInv'
         /\ faults <= 1 => \A k \in Indexed(store') : ~store'.file[Path(store', k)].priv
<1>1. /\ ~up /\ up' /\ stamped' /\ lease' = lease
      /\ StoreOK(store) /\ faults \in Nat
      /\ Sane(store, up, faults, stamped, scoped, markers, Held)
      /\ \A k \in Keys : k \notin Held
  BY DEF Reconcile, StoreInv, Sane
<1>2. PICK F \in StuckSets, K \in SUBSET Keys :
        LET swept  == Swept(store.file, F)
            left   == Unlinked(swept, Doomed(swept, Sessions), F)
            file   == Recovered(left, K)
            failed == {k \in Late(left) \ K : swept[<<k, "final">>].state = "absent"}
        IN /\ K \subseteq Late(left)
           /\ markers' = {k \in Sessions : \E n \in Names : file[<<k, n>>].state # "absent"}
           /\ IndexBuilt(file, F)
           /\ Spend(Cardinality(F) + Cardinality(failed))
  BY DEF Reconcile
<1> DEFINE swept  == Swept(store.file, F)
           left   == Unlinked(swept, Doomed(swept, Sessions), F)
           file   == Recovered(left, K)
           failed == {k \in Late(left) \ K : swept[<<k, "final">>].state = "absent"}
<1>3. /\ K \subseteq Late(left)
      /\ markers' = {k \in Sessions : \E n \in Names : file[<<k, n>>].state # "absent"}
      /\ IndexBuilt(file, F)
      /\ Spend(Cardinality(F) + Cardinality(failed))
  BY <1>2
<1>4. faults' \in Nat /\ faults <= faults' /\ (faults' = 0 => F = {})
  <2>1. Cardinality(failed) \in Nat
    <3>1. failed \subseteq Keys
      BY DEF Late
    <3> QED
      BY <3>1, PoolAssumption, FS_Subset, FS_CardinalityType
  <2> HIDE DEF failed
  <2> QED
    BY <1>1, <1>3, <2>1, StuckFinite DEF Spend
<1>5. swept \in [Files -> Good] /\ \A f \in Files : swept[f] \in {store.file[f], Absent}
  BY <1>1, UnlinkedGood DEF Swept, StoreOK
<1> HIDE DEF swept, failed
<1>6. /\ left \in [Files -> Good]
      /\ \A f \in Files : left[f] = IF f \in Doomed(swept, Sessions) \ F THEN Absent ELSE swept[f]
  BY <1>5, UnlinkedGood
<1> HIDE DEF left
<1>7. /\ file \in [Files -> Good]
      /\ \A f \in Files : file[f] = Absent \/ \E n \in Names : file[f] = left[<<f[1], n>>]
  BY <1>3, <1>6, RecoveredFrom
<1> HIDE DEF file
<1>8. /\ StoreOK(store')
      /\ \A f \in Files : store'.file[f] \in {file[f], Absent}
      /\ \A k \in Keys : store'.at[k] # "none" => k \notin EphKeys \cup Sessions
      /\ F = {} /\ (\A f \in Files : file[f].state # "absent" =>
                      file[f].state = "intact" /\ f[1] \notin EphKeys \cup Sessions)
         => \A f \in Files : Exists(store', f) => store'.at[f[1]] = f[2]
  BY <1>3, <1>7, IndexBuiltFrom
<1>9. \A f \in Files : /\ f[1] \in Keys /\ f[2] \in Names /\ f = <<f[1], f[2]>>
                       /\ \A n \in Names : <<f[1], n>> \in Files /\ <<f[1], n>>[1] = f[1]
  BY DEF Files
\* A private bundle was on the disk before, under the same key, and that key is marked.
<1>10. ASSUME NEW f \in Files, file[f].priv, faults <= 1
       PROVE  f[1] \in EphKeys \cup markers'
  <2>1. PICK n \in Names : file[f] = left[<<f[1], n>>]
    BY <1>7, <1>10, AbsentGood
  <2> DEFINE g == <<f[1], n>>
  <2>2. g \in Files /\ g[1] = f[1] /\ store.file[g].priv
    BY <1>5, <1>6, <1>9, <1>10, <2>1, AbsentGood
  <2>3. f[1] \in EphKeys \cup markers
    BY <1>1, <1>10, <2>2 DEF Sane
  <2>4. stamped
    BY <1>1, <2>2, AbsentGood DEF Sane, Exists, StoreOK, Good
  <2>5. file[f].state # "absent"
    BY <1>7, <1>10, AbsentGood DEF Good
  <2>6. \E m \in Names : file[<<f[1], m>>].state # "absent"
    BY <1>9, <2>5
  <2> QED
    BY <1>3, <2>3, <2>4, <2>6 DEF Sessions
<1>11. ASSUME F = {}, NEW f \in Files, file[f].state # "absent"
       PROVE  file[f].state = "intact" /\ f[1] \notin EphKeys \cup Sessions
  <2>1. PICK n \in Names : file[f] = left[<<f[1], n>>]
    BY <1>7, <1>11, AbsentGood
  <2> DEFINE g == <<f[1], n>>
  <2>2. g \in Files /\ g[1] = f[1] /\ file[f] = left[g]
    BY <1>9, <2>1
  <2> HIDE DEF g
  <2>3. g \notin Doomed(swept, Sessions) /\ left[g] = swept[g]
    BY <1>6, <1>11, <2>2, AbsentGood
  <2>4. left[g].state \in {"absent", "intact", "corrupt"}
    BY <1>6, <2>2 DEF Good, Bundle
  <2> QED
    BY <1>11, <2>2, <2>3, <2>4 DEF Doomed
<1>12. \A f \in Files : store'.file[f].priv => file[f].priv
  BY <1>8, AbsentGood
<1>13. Held' = Held
  BY <1>1, SameHeld
<1>14. faults' = 0 => \A f \in Files : /\ Exists(store', f) => store'.at[f[1]] = f[2]
                                       /\ ~store'.file[f].priv
  <2> SUFFICES ASSUME faults' = 0
               PROVE  \A f \in Files : /\ Exists(store', f) => store'.at[f[1]] = f[2]
                                       /\ ~store'.file[f].priv
    OBVIOUS
  <2>1. F = {} /\ faults <= 1
    BY <1>1, <1>4
  <2>2. \A f \in Files : Exists(store', f) => store'.at[f[1]] = f[2]
    BY <1>8, <1>11, <2>1
  <2>3. ASSUME NEW f \in Files, store'.file[f].priv PROVE FALSE
    <3>1. f[1] \in EphKeys \cup Sessions
      BY <1>3, <1>10, <1>12, <2>1, <2>3
    <3>2. file[f].state = "absent"
      BY <1>11, <2>1, <3>1
    <3> QED
      BY <1>7, <1>12, <2>3, <3>2, AbsentGood DEF Good
  <2> QED
    BY <2>2, <2>3
<1>15. Upheld(store')
  <2>1. faults' <= 1 => \A f \in Files : store'.file[f].priv => f[1] \in EphKeys \cup markers'
    BY <1>1, <1>4, <1>10, <1>12
  <2>2. \A f \in Files : f[1] \notin Held'
    BY <1>1, <1>9, <1>13
  <2> QED
    BY <1>1, <1>8, <1>14, <2>1, <2>2 DEF Upheld, Sane
<1>16. StoreInv'
  BY <1>1, <1>4, <1>8, <1>15, SelfPruned, RunningKeeps
<1>17. ASSUME faults <= 1, NEW k \in Indexed(store') PROVE ~store'.file[Path(store', k)].priv
  <2>1. k \in Keys /\ store'.at[k] # "none"
    BY <1>17 DEF Indexed
  <2>2. Path(store', k) \in Files /\ Path(store', k) = <<k, store'.at[k]>>
    BY <1>8, <2>1, PathFacts
  <2>3. Path(store', k)[1] = k
    BY <2>2
  <2>4. markers' \subseteq Sessions
    BY <1>3
  <2> QED
    BY <1>8, <1>10, <1>12, <1>17, <2>1, <2>2, <2>3, <2>4
<1> QED
  BY <1>16, <1>17

-----------------------------------------------------------------------------
LEMMA InitStore == Init => StoreInv
<1> SUFFICES ASSUME Init PROVE StoreInv
  OBVIOUS
<1>1. /\ store.file = [f \in Files |-> Absent] /\ store.at = [k \in Keys |-> "none"]
      /\ up /\ faults = 0 /\ stamped
  BY DEF Init, NewStore
<1>2. StoreOK(store) /\ \A f \in Files : store.file[f] = Absent
  BY <1>1, AbsentGood DEF StoreOK
<1> QED
  BY <1>1, <1>2, AbsentGood DEF StoreInv, Sane, Exists

\* Every step of the pool, its leases, the system and the next process.
LEMMA StoreStep == IInv /\ StoreInv /\ [Next]_vars => StoreInv'
<1> SUFFICES ASSUME IInv, StoreInv, [Next]_vars PROVE StoreInv'
  OBVIOUS
<1>1. ASSUME NEW l \in Leases, NEW k \in Keys, NEW private \in BOOLEAN,
             OpenLease(l, k, private)
      PROVE  StoreInv'
  BY <1>1, OpenUpheld
<1>2. ASSUME NEW l \in Leases, MarkPrivate(l) \/ CloseMark(l) PROVE StoreInv'
  <2>1. /\ Live(l) /\ up /\ up' = up /\ stamped' = stamped
        /\ MarkSessionScoped(lease[l].key)
    BY <1>2 DEF MarkPrivate, CloseMark, Open, Live, env
  <2>2. \A m \in Leases : /\ lease'[m].key = lease[m].key
                          /\ lease'[m].st = "free" <=> lease[m].st = "free"
    BY <1>2 DEF MarkPrivate, CloseMark, Open, IInv, BookOK, LeaseRecord
  <2>3. Held' = Held /\ lease[l].key \in Held
    BY <2>1, <2>2, SameHeld, HeldKey
  <2> QED
    BY <2>1, <2>3, MarkUpheld
<1>3. ASSUME NEW l \in Leases,
             DropUnreadable(l) \/ WriteRefused(l) \/ PurgeUnpublished(l) \/ PublishRefused(l)
      PROVE  StoreInv'
  BY <1>3, DropsKeep
<1>4. ASSUME NEW l \in Leases, Touch(l) \/ BeginBuild(l) \/ EndBuild(l) PROVE StoreInv'
  BY <1>4, TouchKeepsStore
<1>5. ASSUME NEW l \in Leases, NEW ps \in (SUBSET Pages) \ {{}}, PutMany(l, ps)
      PROVE  StoreInv'
  BY <1>5, PutKeeps
<1>6. ASSUME NEW l \in Leases, PutFailed(l) PROVE StoreInv'
  BY <1>6, PutFailedKeeps
<1>7. ASSUME NEW l \in Leases,
             Publish(l) \/ PublishUnrenamed(l) \/ PublishLost(l) \/ PublishFailed(l)
      PROVE  StoreInv'
  BY <1>7, PublishKeeps
<1>8. ASSUME NEW l \in Leases, NEW t \in ExtKeys,
             \/ PromoteVanished(l, t) \/ PromoteMove(l, t)
             \/ PromoteMerge(l, t) \/ PromoteFailed(l, t)
      PROVE  StoreInv'
  BY <1>8, VanishedKeeps, MoveKeeps, MergeKeeps, PromoteFailedKeeps
<1>9. ASSUME NEW l \in Leases, Close(l) PROVE StoreInv'
  BY <1>9, CloseKeepsStore
<1>10. ASSUME NEW b \in Budgets, Resize(b) PROVE StoreInv'
  BY <1>10, ResizeKeeps
<1>11. CASE Clear
  BY <1>11, ClearKeeps
<1>12. CASE OsPurge
  BY <1>12, OsPurgeKeeps
<1>13. CASE CrashStep
  BY <1>13, CrashKeepsStore
<1>14. CASE Reconcile
  BY <1>14, ReconcileKeeps
<1>15. CASE UNCHANGED vars
  <2>1. UNCHANGED <<store, markers, stamped, scoped, lease, up, faults>>
    BY <1>15 DEF vars, disk, privacy, env
  <2>2. Held' = Held
    BY <2>1, SameHeld
  <2> QED
    BY <2>1, <2>2 DEF StoreInv, Sane
<1> QED
  BY <1>1, <1>2, <1>3, <1>4, <1>5, <1>6, <1>7, <1>8, <1>9, <1>10, <1>11, <1>12,
     <1>13, <1>14, <1>15 DEF Next, LeaseStep

\* The disk, the index and the promises agree in every reachable state.
THEOREM StoreInductive == Spec => []StoreInv
<1> QED
  BY InitStore, StoreStep, Inductive, PTL DEF Spec

\* Whatever appends, merges, promotions, evictions, crashes and recoveries a
\* bundle goes through, a ready manifest is only ever found over all its pages.
THEOREM PublishedComplete == Spec => []PublishedIsComplete
<1>1. StoreInv => PublishedIsComplete
  BY DEF StoreInv, Sane, StoreOK, Good, PublishedIsComplete, Published, Kind
<1> QED
  BY <1>1, StoreInductive, PTL

\* ArchiveExtractionPool.release: while no I/O error intervened, the pages of a
\* private document are on disk only under a key that is promised and pinned.
THEOREM PrivateDies == Spec => []PrivateDiesWithLastLease
<1>1. IInv /\ StoreInv => PrivateDiesWithLastLease
  BY DEF IInv, MarkAwaitsRelease, StoreInv, Sane, PrivateDiesWithLastLease
<1> QED
  BY <1>1, Inductive, StoreInductive, PTL

\* A process that is down takes no other step than the start of the next.
LEMMA OnlyReconcileStarts ==
  ASSUME Next, ~up
  PROVE  Reconcile
<1>1. ASSUME NEW l \in Leases, NEW k \in Keys, NEW private \in BOOLEAN,
             OpenLease(l, k, private)
      PROVE  FALSE
  BY <1>1 DEF OpenLease
<1>2. ASSUME NEW l \in Leases,
             \/ MarkPrivate(l) \/ CloseMark(l) \/ Close(l)
             \/ DropUnreadable(l) \/ Touch(l) \/ WriteRefused(l)
             \/ PurgeUnpublished(l) \/ BeginBuild(l) \/ EndBuild(l)
      PROVE  FALSE
  BY <1>2 DEF MarkPrivate, CloseMark, Close, DropUnreadable, Touch, WriteRefused,
              PurgeUnpublished, BeginBuild, EndBuild, Open
<1>3. ASSUME NEW l \in Leases,
             \/ PutFailed(l) \/ Publish(l) \/ PublishUnrenamed(l) \/ PublishLost(l)
             \/ PublishFailed(l) \/ PublishRefused(l)
             \/ \E ps \in (SUBSET Pages) \ {{}} : PutMany(l, ps)
      PROVE  FALSE
  <2>1. CanWrite(l)
    BY <1>3 DEF PutMany, PutFailed, Publish, PublishUnrenamed, PublishLost,
                PublishFailed, PublishRefused
  <2> QED
    BY <2>1 DEF CanWrite, Open
<1>4. ASSUME NEW l \in Leases, NEW t \in ExtKeys,
             \/ PromoteVanished(l, t) \/ PromoteMove(l, t)
             \/ PromoteMerge(l, t) \/ PromoteFailed(l, t)
      PROVE  FALSE
  <2>1. CanPromote(l, t)
    BY <1>4 DEF PromoteVanished, PromoteMove, PromoteMerge, PromoteFailed
  <2> QED
    BY <2>1 DEF CanPromote, Open
<1>5. ~CrashStep
  BY DEF CrashStep, Crash, CrashInWrite, CrashInPublish, CrashInRelease, CrashInPromote, Die
<1>6. ~Clear /\ ~OsPurge /\ \A b \in Budgets : ~Resize(b)
  BY DEF Clear, OsPurge, Resize
<1> QED
  BY <1>1, <1>2, <1>3, <1>4, <1>5, <1>6 DEF Next, LeaseStep

\* ArchiveExtractionPool._reconcile_locked: with at most one I/O error in the past,
\* a new process indexes no bundle of a private document.
THEOREM PrivateStaysOut == Spec => PrivateNotReindexed
<1>1. IInv /\ StoreInv /\ [Next]_vars =>
        [(~up /\ up' /\ faults <= 1) =>
           \A k \in Indexed(store') : ~store'.file[Path(store', k)].priv]_vars
  <2> SUFFICES ASSUME IInv, StoreInv, Next, ~up, up', faults <= 1
               PROVE  \A k \in Indexed(store') : ~store'.file[Path(store', k)].priv
    OBVIOUS
  <2>1. Reconcile
    BY OnlyReconcileStarts
  <2> QED
    BY <2>1, ReconcileKeeps
<1> QED
  BY <1>1, Inductive, StoreInductive, PTL DEF Spec, PrivateNotReindexed

-----------------------------------------------------------------------------
(* Who may take a pinned bundle away.                                      *)

\* The bundle of k is the same in both stores.
SameAt(s, r, k) == /\ r.at[k] = s.at[k]
                   /\ \A n \in Names : r.file[<<k, n>>] = s.file[<<k, n>>]

LEMMA SameInPlace ==
  ASSUME StoreOK(store), NEW k \in Keys, InPlace(store, k), SameAt(store, store', k)
  PROVE  InPlace(store', k)
BY DEF InPlace, Exists, SameAt, StoreOK

\* Making room keeps what is spared, a step on one key the other keys.
LEMMA EvictSame ==
  ASSUME NEW s, StoreOK(s), NEW safe, NEW b, NEW F, NEW k \in Keys, k \in safe,
         SameAt(store, s, k)
  PROVE  SameAt(store, Evict(s, safe, b, F), k)
BY EvictPrunes DEF SameAt

LEMMA ForgetSame ==
  ASSUME NEW s, StoreOK(s), NEW j \in Keys, NEW F, NEW k \in Keys, k # j, SameAt(store, s, k)
  PROVE  SameAt(store, Forget(s, j, F), k) /\ SameAt(store, Purge(s, j, F), k)
BY ForgetPrunes, PurgePrunes DEF SameAt

LEMMA WriteSame ==
  ASSUME StoreOK(store), NEW j \in Keys, NEW k \in Keys, k # j, NEW s, NEW c, NEW name,
         s.file \in {store.file, [store.file EXCEPT ![Path(store, j)] = c]},
         s.at \in {store.at, [store.at EXCEPT ![j] = name]}
  PROVE  SameAt(store, s, k)
<1>1. Path(store, j) = <<j, Path(store, j)[2]>>
  BY PathFacts
<1>2. \A n \in Names : <<k, n>> \in Files /\ <<k, n>> # Path(store, j)
  BY <1>1 DEF Files
<1> QED
  BY <1>2 DEF SameAt, StoreOK

LEMMA RenamedSame ==
  ASSUME StoreInv, NEW j \in Keys, Complete(j), NEW k \in Keys, k # j,
         NEW s, s.file = Renamed(Stamp(store, j), j).file,
         s.at \in {store.at, [store.at EXCEPT ![j] = "final"]}
  PROVE  SameAt(store, s, k)
<1> DEFINE c == [store.file[Path(store, j)] EXCEPT !.ready = Kind(j)]
           u == Stamp(store, j)
<1>1. StoreOK(store)
  BY DEF StoreInv, Sane
<1>2. u.file = [store.file EXCEPT ![Path(store, j)] = c] /\ u.at = store.at
  BY StampFacts
<1>3. SameAt(store, u, k)
  BY <1>1, <1>2, WriteSame
<1> HIDE DEF u, c
<1>4. s.file \in {u.file, [u.file EXCEPT ![<<j, "final">>] = u.file[<<j, "partial">>],
                                         ![<<j, "partial">>] = Absent]}
  BY DEF Renamed, u
<1>5. u.file \in [Files -> Good]
  BY <1>1, <1>2, StampFacts DEF StoreOK, c
<1>6. \A n \in Names : /\ <<k, n>> \in Files
                       /\ <<k, n>> # <<j, "final">> /\ <<k, n>> # <<j, "partial">>
  BY DEF Files
<1>7. \A n \in Names : s.file[<<k, n>>] = u.file[<<k, n>>]
  BY <1>4, <1>5, <1>6
<1>8. s.at[k] = store.at[k]
  BY <1>1 DEF StoreOK
<1> QED
  BY <1>3, <1>7, <1>8 DEF SameAt

\* The key a step of lease l works on, if not the one it works on is k.
LEMMA WritersSame ==
  ASSUME IInv, StoreInv, NEW l \in Leases, NEW k \in Keys, l \notin Holders(k), k \in Spared({}),
         \/ \E ps \in (SUBSET Pages) \ {{}} : PutMany(l, ps)
         \/ PutFailed(l) \/ Publish(l) \/ PublishUnrenamed(l)
         \/ PublishLost(l) \/ PublishFailed(l)
  PROVE  SameAt(store, store', k)
<1> DEFINE j == lease[l].key
           f == Path(store, j)
           S == Spared({j})
<1>1. CanWrite(l)
  BY DEF PutMany, PutFailed, Publish, PublishUnrenamed, PublishLost, PublishFailed
<1>2. j \in Keys /\ StoreOK(store) /\ j \in Held
  BY <1>1, WriterFacts
<1>3. k # j
  BY <1>1 DEF CanWrite, Open, Live, Holders
<1>4. k \in S
  BY DEF Spared
<1>5. SameAt(store, store, k)
  BY DEF SameAt
<1>6. ASSUME NEW ps \in (SUBSET Pages) \ {{}}, PutMany(l, ps) PROVE SameAt(store, store', k)
  <2> DEFINE c == Appended(store.file[f], ps, j \in scoped)
             w == [store EXCEPT !.file[f] = c]
             s == Reindexed(w, j, f[2])
  <2>1. PICK F : store' = Evict(s, S, budget, F)
    BY <1>6 DEF PutMany, Admitted
  <2>2. w.file = [store.file EXCEPT ![f] = c] /\ w.at = store.at
    OBVIOUS
  <2>3. c \in Good
    <3>1. (j \in scoped) \in BOOLEAN /\ store.file[f] \in Good
      BY <1>2, PathFacts
    <3> QED
      BY <3>1, AppendedGood
  <2> HIDE DEF w, c
  <2>4. s.file = w.file /\ s.at = [w.at EXCEPT ![j] = f[2]]
    BY DEF Reindexed
  <2> HIDE DEF s
  <2>5. SameAt(store, s, k)
    <3>1. s.file = [store.file EXCEPT ![f] = c] /\ s.at = [store.at EXCEPT ![j] = f[2]]
      BY <2>2, <2>4
    <3> HIDE DEF j
    <3> QED
      BY <1>2, <1>3, <3>1, WriteSame
  <2>6. StoreOK(s)
    BY <1>2, <2>2, <2>3, <2>4, PathFacts DEF StoreOK
  <2> QED
    BY <1>4, <2>1, <2>5, <2>6, EvictSame
<1>7. CASE PutFailed(l)
  <2>1. PICK c : store' = store \/ store' = [store EXCEPT !.file[f] = c]
    BY <1>7 DEF PutFailed
  <2>2. store'.at = store.at /\ store'.file \in {store.file, [store.file EXCEPT ![f] = c]}
    <3>1. CASE store' = store
      BY <3>1
    <3>2. CASE store' = [store EXCEPT !.file[f] = c]
      BY <3>2
    <3> QED
      BY <2>1, <3>1, <3>2
  <2> QED
    BY <1>2, <1>3, <2>2, WriteSame
<1>8. CASE Publish(l) \/ PublishLost(l)
  <2>1. Complete(j)
    BY <1>8 DEF Publish, PublishLost
  <2> DEFINE u == Renamed(Stamp(store, j), j)
  <2>2. u.at = store.at
    BY <1>2, <2>1, RenamedAt
  <2>3. SameAt(store, u, k)
    BY <1>2, <1>3, <2>1, <2>2, RenamedSame
  <2>4. u.file \in [Files -> Good]
    <3> DEFINE c == [store.file[f] EXCEPT !.ready = Kind(j)]
               v == Stamp(store, j)
    <3>1. v.file = [store.file EXCEPT ![f] = c] /\ c \in Good
      BY <1>2, <2>1, StampFacts
    <3> HIDE DEF c, v
    <3>2. v.file \in [Files -> Good]
      BY <1>2, <3>1 DEF StoreOK
    <3>3. /\ <<j, "final">> \in Files /\ <<j, "partial">> \in Files
      BY <1>2 DEF Files, Names
    <3>4. u.file \in {v.file, [v.file EXCEPT ![<<j, "final">>] = v.file[<<j, "partial">>],
                                             ![<<j, "partial">>] = Absent]}
      BY DEF Renamed, v
    <3> HIDE DEF u
    <3> QED
      BY <3>2, <3>3, <3>4, AbsentGood
  <2>5. CASE Publish(l)
    <3> DEFINE s == Reindexed(u, j, "final")
    <3>1. PICK F : store' = Evict(s, S, budget, F)
      BY <2>5 DEF Publish, Admitted
    <3>2. s.file = u.file /\ s.at = [u.at EXCEPT ![j] = "final"]
      BY DEF Reindexed
    <3> HIDE DEF s
    <3>3. SameAt(store, s, k)
      BY <1>2, <1>3, <2>1, <2>2, <3>2, RenamedSame
    <3>4. StoreOK(s)
      BY <1>2, <2>2, <2>4, <3>2 DEF StoreOK, Names
    <3> QED
      BY <1>4, <3>1, <3>3, <3>4, EvictSame
  <2>6. CASE PublishLost(l)
    <3>1. PICK F : store' = Purge(u, j, F)
      BY <2>6 DEF PublishLost
    <3>2. StoreOK(u)
      BY <1>2, <2>2, <2>4 DEF StoreOK
    <3> QED
      BY <1>2, <1>3, <2>3, <3>1, <3>2, ForgetSame
  <2> QED
    BY <1>8, <2>5, <2>6
<1>9. CASE PublishUnrenamed(l)
  <2> DEFINE c == [store.file[f] EXCEPT !.ready = Kind(j)]
             u == Stamp(store, j)
             s == Reindexed(u, j, "partial")
  <2>1. Complete(j) /\ store' = Evict(s, S, budget, {})
    BY <1>9 DEF PublishUnrenamed
  <2>2. u.file = [store.file EXCEPT ![f] = c] /\ u.at = store.at /\ c \in Good
    BY <1>2, <2>1, StampFacts
  <2> HIDE DEF u, c
  <2>3. s.file = u.file /\ s.at = [u.at EXCEPT ![j] = "partial"]
    BY DEF Reindexed
  <2> HIDE DEF s
  <2>4. SameAt(store, s, k)
    BY <1>2, <1>3, <2>2, <2>3, WriteSame
  <2>5. StoreOK(s)
    <3>1. store.file \in [Files -> Good] /\ store.at \in [Keys -> Names \cup {"none"}]
      BY <1>2 DEF StoreOK
    <3> HIDE DEF f, j
    <3>2. s.file \in [Files -> Good]
      BY <2>2, <2>3, <3>1
    <3>3. s.at \in [Keys -> Names \cup {"none"}]
      BY <2>2, <2>3, <3>1 DEF Names
    <3> QED
      BY <3>2, <3>3 DEF StoreOK
  <2> QED
    BY <1>4, <2>1, <2>4, <2>5, EvictSame
<1>10. CASE PublishFailed(l)
  <2>1. PICK c : store' = store \/ store' = [store EXCEPT !.file[f] = c]
    BY <1>10 DEF PublishFailed
  <2>2. store'.at = store.at /\ store'.file \in {store.file, [store.file EXCEPT ![f] = c]}
    <3>1. CASE store' = store
      BY <3>1
    <3>2. CASE store' = [store EXCEPT !.file[f] = c]
      BY <3>2
    <3> QED
      BY <2>1, <3>1, <3>2
  <2> QED
    BY <1>2, <1>3, <2>2, WriteSame
<1> QED
  BY <1>6, <1>7, <1>8, <1>9, <1>10

LEMMA PromotersSame ==
  ASSUME IInv, BookTypeOK, StoreInv, NEW l \in Leases, NEW t \in ExtKeys, NEW k \in Keys,
         l \notin Holders(k), k \in Spared({}), InPlace(store, k),
         \/ PromoteVanished(l, t) \/ PromoteMove(l, t)
         \/ PromoteMerge(l, t) \/ PromoteFailed(l, t)
  PROVE  InPlace(store', k)
<1> DEFINE s == lease[l].key
<1>1. CanPromote(l, t)
  BY DEF PromoteVanished, PromoteMove, PromoteMerge, PromoteFailed
<1>2. s \in Keys /\ t \in Keys /\ s # t /\ StoreOK(store) /\ s # k
  BY <1>1, PromoterFacts DEF CanPromote, Open, Live, Holders
<1>3. k # t => k \in SparedAfter(s, t)
  <2>1. SparedAfter(s, t) = {t} \cup {j \in Keys : Moved(active, s, t)[j] > 0
                                         \/ Moved(building, s, t)[j] > 0}
    BY DEF SparedAfter
  <2>2. ASSUME k # t PROVE Moved(active, s, t)[k] = active[k] /\ Moved(building, s, t)[k] = building[k]
    BY <1>2, <2>2 DEF Moved, BookTypeOK
  <2> QED
    BY <2>1, <2>2 DEF Spared
<1>4. store.at[k] \in Names /\ Exists(store, <<k, store.at[k]>>)
  BY <1>2 DEF InPlace, StoreOK
<1>5. ASSUME SameAt(store, store', k) PROVE InPlace(store', k)
  BY <1>2, <1>5, SameInPlace
<1>6. SameAt(store, store, k)
  BY DEF SameAt
<1>7. \A n \in Names : <<k, n>> \in Files /\ <<k, n>> # Path(store, s)
  <2>1. Path(store, s) = <<s, Path(store, s)[2]>>
    BY <1>2, PathFacts
  <2> HIDE DEF s
  <2> QED
    BY <1>2, <2>1 DEF Files
<1>8. CASE PromoteVanished(l, t)
  BY <1>2, <1>5, <1>6, <1>8, ForgetSame DEF PromoteVanished
<1>9. CASE PromoteMove(l, t)
  <2> DEFINE g == <<t, "partial">>
             b == store.file[Path(store, s)]
             To(c) == [store EXCEPT !.file = [@ EXCEPT ![Path(store, s)] = Absent, ![g] = c]]
  <2>1. PICK F \in StuckSets, keep \in {0, 1} :
          store' = Evict(Adopted(To(IF keep = 1 THEN b ELSE Retargeted(b, t)), s, t, "partial"),
                         SparedAfter(s, t), budget, F)
    BY <1>9 DEF PromoteMove
  <2> DEFINE c == IF keep = 1 THEN b ELSE Retargeted(b, t)
             u == To(c)
             w == Adopted(u, s, t, "partial")
  <2>2. k # t
    BY <1>4, <1>9 DEF PromoteMove, Names
  <2>3. c \in Good
    BY <1>2, PathFacts, RetargetedGood
  <2>4. u.file = [store.file EXCEPT ![Path(store, s)] = Absent, ![g] = c] /\ u.at = store.at
    OBVIOUS
  <2>5. store' = Evict(w, SparedAfter(s, t), budget, F)
    BY <2>1
  <2> HIDE DEF u, c, s
  <2>6. w.file = u.file /\ w.at = [u.at EXCEPT ![s] = "none", ![t] = "partial"]
    BY DEF Adopted, Reindexed
  <2> HIDE DEF w
  <2>7. SameAt(store, w, k)
    <3>1. \A n \in Names : <<k, n>> # g
      BY <2>2
    <3> QED
      BY <1>2, <1>7, <2>2, <2>4, <2>6, <3>1 DEF SameAt, StoreOK
  <2>8. StoreOK(w)
    <3>1. store.file \in [Files -> Good] /\ store.at \in [Keys -> Names \cup {"none"}]
      BY <1>2 DEF StoreOK
    <3>0. g \in Files /\ Path(store, s) \in Files
      BY <1>2, PathFacts DEF Names
    <3> HIDE DEF g, b
    <3>2. w.file \in [Files -> Good]
      BY <2>3, <2>4, <2>6, <3>0, <3>1, AbsentGood
    <3>3. w.at \in [Keys -> Names \cup {"none"}]
      BY <1>2, <2>4, <2>6, <3>1 DEF Names
    <3> QED
      BY <3>2, <3>3 DEF StoreOK
  <2> QED
    BY <1>3, <1>5, <2>2, <2>5, <2>7, <2>8, EvictSame
<1>10. CASE PromoteMerge(l, t)
  <2> DEFINE ready == Intact(store, t) /\ Published(store.file[Path(store, t)], t)
             name  == IF ready THEN "final" ELSE "partial"
             out   == Merged(store.file[Path(store, t)], store.file[Path(store, s)], ready)
             v(F)  == Unlinked(store.file, {Path(store, t), Path(store, s)}, F)
             u(F)  == [store EXCEPT !.file =
                         [Unlinked(@, {Path(store, t), Path(store, s)}, F) EXCEPT ![<<t, name>>] = out]]
             w(F)  == Adopted(u(F), s, t, name)
  <2>1. PICK F \in StuckSets : store' = Evict(w(F), SparedAfter(s, t), budget, F)
    BY <1>10 DEF PromoteMerge
  <2>2. out \in Good /\ out.state = "intact" /\ name \in Names
    <3>1. ready \in BOOLEAN
      BY DEF Intact, InPlace, Published
    <3>2. store.file[Path(store, t)] \in Good /\ store.file[Path(store, s)] \in Good
      BY <1>2, PathFacts
    <3> HIDE DEF ready
    <3>3. out \in Good
      BY <3>1, <3>2, MergedGood
    <3> QED
      BY <3>3 DEF Merged, Names
  <2> HIDE DEF out, name
  <2>3. u(F).file = [v(F) EXCEPT ![<<t, name>>] = out] /\ u(F).at = store.at
    OBVIOUS
  <2> HIDE DEF u, s
  <2>4. w(F).file = u(F).file /\ w(F).at = [u(F).at EXCEPT ![s] = "none", ![t] = name]
    BY DEF Adopted, Reindexed
  <2> HIDE DEF w
  <2>5. /\ v(F) \in [Files -> Good]
        /\ \A f \in Files : v(F)[f] = IF f \in {Path(store, t), Path(store, s)} \ F THEN Absent
                                      ELSE store.file[f]
    BY <1>2, UnlinkedGood DEF StoreOK
  <2> HIDE DEF v
  <2>6. <<t, name>> \in Files
    BY <1>2, <2>2 DEF Files
  <2>7. StoreOK(w(F))
    <3>1. store.at \in [Keys -> Names \cup {"none"}]
      BY <1>2 DEF StoreOK
    <3>2. w(F).file \in [Files -> Good]
      BY <2>2, <2>3, <2>4, <2>5, <2>6
    <3>3. w(F).at \in [Keys -> Names \cup {"none"}]
      BY <2>2, <2>3, <2>4, <3>1
    <3> QED
      BY <3>2, <3>3 DEF StoreOK
  <2>8. CASE k = t
    <3>1. w(F).at[t] = name /\ w(F).file[<<t, name>>] = out
      BY <1>2, <2>2, <2>3, <2>4, <2>5, <2>6 DEF StoreOK
    <3>2. t \in SparedAfter(s, t)
      BY DEF SparedAfter
    <3>3. store'.at[t] = name /\ store'.file[<<t, name>>] = out
      BY <1>2, <2>1, <2>2, <2>7, <3>1, <3>2, EvictPrunes
    <3> QED
      BY <2>2, <2>8, <3>3 DEF InPlace, Exists, Names
  <2>9. CASE k # t
    <3>1. \A n \in Names : <<k, n>> # <<t, name>> /\ <<k, n>> # Path(store, t)
      <4>1. Path(store, t) = <<t, Path(store, t)[2]>>
        BY <1>2, PathFacts
      <4> QED
        BY <2>9, <4>1
    <3>2. SameAt(store, w(F), k)
      BY <1>2, <1>7, <2>3, <2>4, <2>5, <2>9, <3>1 DEF SameAt, StoreOK
    <3> QED
      BY <1>3, <1>5, <2>1, <2>7, <2>9, <3>2, EvictSame
  <2> QED
    BY <2>8, <2>9
<1>11. CASE PromoteFailed(l, t)
  <2> DEFINE g == <<t, "partial">>
             c == Retargeted(store.file[Path(store, s)], t)
  <2>1. CASE store' = store
    BY <2>1
  <2>2. CASE /\ store.at[t] = "none"
             /\ store' = [store EXCEPT !.file = [@ EXCEPT ![Path(store, s)] = Absent, ![g] = c]]
    <3>1. store'.file = [store.file EXCEPT ![Path(store, s)] = Absent, ![g] = c] /\ store'.at = store.at
      BY <2>2
    <3>2. k # t
      BY <1>4, <2>2 DEF Names
    <3>3. \A n \in Names : <<k, n>> # g
      BY <3>2
    <3> HIDE DEF g, c, s
    <3>4. SameAt(store, store', k)
      BY <1>2, <1>7, <3>1, <3>3 DEF SameAt, StoreOK
    <3> QED
      BY <1>5, <3>4
  <2> QED
    BY <1>11, <2>1, <2>2 DEF PromoteFailed
<1> QED
  BY <1>8, <1>9, <1>10, <1>11

\* A lease that does not hold a pinned document never takes its bundle.
LEMMA LeaseKeepsOthers ==
  ASSUME IInv, BookTypeOK, StoreInv, NEW l \in Leases, LeaseStep(l), NEW k \in Keys,
         InPlace(store, k), k \in Spared({}), l \notin Holders(k)
  PROVE  InPlace(store', k)
<1> DEFINE j == lease[l].key
<1>1. StoreOK(store)
  BY DEF StoreInv, Sane
<1>2. SameAt(store, store, k)
  BY DEF SameAt
<1>3. ASSUME Live(l) PROVE j \in Keys /\ k # j
  BY <1>3, LivePins DEF Holders
<1>4. ASSUME store' = store PROVE InPlace(store', k)
  BY <1>4
<1>5. ASSUME SameAt(store, store', k) PROVE InPlace(store', k)
  BY <1>1, <1>5, SameInPlace
<1>6. ASSUME \/ BeginBuild(l) \/ EndBuild(l)
             \/ \E q \in Keys, private \in BOOLEAN : OpenLease(l, q, private)
      PROVE  InPlace(store', k)
  BY <1>4, <1>6 DEF BeginBuild, EndBuild, OpenLease
<1>7. ASSUME MarkPrivate(l) \/ CloseMark(l) PROVE InPlace(store', k)
  <2>1. j \in Keys /\ k # j /\ MarkSessionScoped(j)
    BY <1>3, <1>7 DEF MarkPrivate, CloseMark, Open, Live
  <2> DEFINE s == Promised(store, j)
  <2>2. /\ s.at = store.at
        /\ s.file = [f \in Files |-> IF f[1] = j /\ store.file[f].state # "absent"
                       THEN [store.file[f] EXCEPT !.priv = TRUE] ELSE store.file[f]]
    BY <1>1 DEF Promised, StoreOK
  <2> HIDE DEF s
  <2>3. StoreOK(s)
    <3>1. \A f \in Files : s.file[f] \in Good
      BY <1>1, <2>2, PromisedGood DEF StoreOK
    <3> QED
      BY <1>1, <2>2, <3>1 DEF StoreOK
  <2>4. SameAt(store, s, k)
    BY <2>1, <2>2 DEF SameAt, Files
  <2>5. store' = s \/ \E F \in StuckSets : store' = Purge(s, j, F)
    BY <2>1 DEF MarkSessionScoped, s
  <2> HIDE DEF j
  <2>6. SameAt(store, store', k)
    BY <2>1, <2>3, <2>4, <2>5, ForgetSame
  <2> QED
    BY <1>5, <2>6
<1>8. ASSUME DropUnreadable(l) \/ WriteRefused(l) \/ PurgeUnpublished(l) \/ PublishRefused(l)
      PROVE  InPlace(store', k)
  <2>1. Live(l)
    BY <1>8 DEF DropUnreadable, WriteRefused, PurgeUnpublished, PublishRefused, CanWrite, Open, Live
  <2>2. j \in Keys /\ k # j
    BY <1>3, <2>1
  <2>3. PICK F \in StuckSets : store' \in {store, Forget(store, j, F), Purge(store, j, F)}
    BY <1>8 DEF DropUnreadable, WriteRefused, PurgeUnpublished, PublishRefused
  <2> HIDE DEF j
  <2>4. SameAt(store, store', k)
    BY <1>1, <1>2, <2>2, <2>3, ForgetSame
  <2> QED
    BY <1>5, <2>4
<1>9. ASSUME Touch(l) PROVE InPlace(store', k)
  <2>1. Live(l) /\ store' = Reindexed(store, j, store.at[j])
    BY <1>9 DEF Touch, Open, Live
  <2>2. j \in Keys /\ k # j
    BY <1>3, <2>1
  <2> HIDE DEF j
  <2>3. store'.file = store.file /\ store'.at = [store.at EXCEPT ![j] = store.at[j]]
    BY <2>1 DEF Reindexed
  <2>4. SameAt(store, store', k)
    BY <1>1, <2>2, <2>3 DEF SameAt, StoreOK
  <2> QED
    BY <1>5, <2>4
<1>10. ASSUME \/ \E ps \in (SUBSET Pages) \ {{}} : PutMany(l, ps)
              \/ PutFailed(l) \/ Publish(l) \/ PublishUnrenamed(l)
              \/ PublishLost(l) \/ PublishFailed(l)
       PROVE  InPlace(store', k)
  <2>1. SameAt(store, store', k)
    BY <1>10, WritersSame
  <2> QED
    BY <1>5, <2>1
<1>11. ASSUME NEW t \in ExtKeys,
              \/ PromoteVanished(l, t) \/ PromoteMove(l, t)
              \/ PromoteMerge(l, t) \/ PromoteFailed(l, t)
       PROVE  InPlace(store', k)
  BY <1>11, PromotersSame
<1>12. ASSUME Close(l) PROVE InPlace(store', k)
  <2> DEFINE last   == j \in scoped /\ active[j] = 1
             spared == {q \in Keys : active'[q] > 0 \/ building[q] > 0}
  <2>1. Live(l) /\ active' = [active EXCEPT ![j] = @ - 1]
    BY <1>12 DEF Close, Live
  <2>2. j \in Keys /\ k # j
    BY <1>3, <2>1
  <2>3. PICK F \in StuckSets :
          LET purged == IF last THEN Purge(store, j, F) ELSE store
          IN store' = IF strict THEN Evict(purged, spared, budget, F) ELSE purged
    BY <1>12 DEF Close
  <2> DEFINE r == IF last THEN Purge(store, j, F) ELSE store
  <2>4. store' = IF strict THEN Evict(r, spared, budget, F) ELSE r
    BY <2>3
  <2>5. active'[k] = active[k]
    BY <2>1, <2>2 DEF IInv, BookOK
  <2>6. k \in spared
    BY <2>5 DEF Spared
  <2> HIDE DEF j, spared
  <2>7. StoreOK(r) /\ SameAt(store, r, k)
    BY <1>1, <1>2, <2>2, ForgetSame, PurgePrunes DEF Pruned
  <2> HIDE DEF r
  <2>8. SameAt(store, store', k)
    BY <2>4, <2>6, <2>7, EvictSame
  <2> QED
    BY <1>5, <2>8
<1> QED
  BY <1>6, <1>7, <1>8, <1>9, <1>10, <1>11, <1>12 DEF LeaseStep

\* ArchiveExtractionPool._evict_locked: room is never made out of a bundle that a
\* live lease has pinned or is building, whichever lease, resize or restart asks.
THEOREM PinnedSurvives == Spec => PinnedSurvivesEviction
<1>1. IInv /\ BookTypeOK /\ StoreInv /\ [Next]_vars =>
        [\A k \in Keys :
           (InPlace(store, k) /\ (active[k] > 0 \/ building[k] > 0) /\ ~InPlace(store', k))
             => \/ ~up' \/ Clear \/ OsPurge
                \/ \E l \in Holders(k) : LeaseStep(l)]_vars
  <2> SUFFICES ASSUME IInv, BookTypeOK, StoreInv, Next, NEW k \in Keys,
                      InPlace(store, k), active[k] > 0 \/ building[k] > 0,
                      ~InPlace(store', k)
               PROVE  \/ ~up' \/ Clear \/ OsPurge
                      \/ \E l \in Holders(k) : LeaseStep(l)
    OBVIOUS
  <2>1. StoreOK(store) /\ k \in Spared({}) /\ SameAt(store, store, k)
    BY DEF StoreInv, Sane, Spared, SameAt
  <2>2. ASSUME NEW l \in Leases, LeaseStep(l) PROVE l \in Holders(k)
    BY <2>1, <2>2, LeaseKeepsOthers
  <2>3. ASSUME NEW b \in Budgets, Resize(b) PROVE FALSE
    <3>1. PICK F : store' = Evict(store, Spared({}), b, F)
      BY <2>3 DEF Resize
    <3> QED
      BY <2>1, <3>1, EvictSame, SameInPlace
  <2>4. CrashStep => ~up'
    BY DEF CrashStep, Crash, CrashInWrite, CrashInPublish, CrashInRelease, CrashInPromote, Die
  <2>5. ~Reconcile
    BY DEF Reconcile, StoreInv, InPlace
  <2> QED
    BY <2>2, <2>3, <2>4, <2>5 DEF Next
<1> QED
  BY <1>1, Inductive, BookTypes, StoreInductive, PTL DEF Spec, PinnedSurvivesEviction

-----------------------------------------------------------------------------
(* Sums.  A sum is the number of its units, so that the cardinality        *)
(* theorems say what is needed of it.                                      *)
Units(f, S) == UNION {{x} \X (1 .. f[x]) : x \in S}

LEMMA UnitsFinite ==
  ASSUME NEW S, IsFiniteSet(S), NEW f, \A x \in S : f[x] \in Nat
  PROVE  IsFiniteSet(Units(f, S)) /\ Sum(f, S) = Cardinality(Units(f, S)) /\ Sum(f, S) \in Nat
<1> DEFINE part == [x \in S |-> {x} \X (1 .. f[x])]
           Parts == {{x} \X (1 .. f[x]) : x \in S}
<1>1. part \in Surjection(S, Parts)
  BY DEF Surjection
<1>2. IsFiniteSet(Parts)
  BY <1>1, FS_Surjection
<1>3. ASSUME NEW x \in S PROVE IsFiniteSet({x} \X (1 .. f[x]))
  <2>1. IsFiniteSet({x})
    BY FS_Singleton
  <2>2. 1 \in Int /\ f[x] \in Int
    OBVIOUS
  <2>3. IsFiniteSet(1 .. f[x])
    BY <2>2, FS_Interval
  <2> QED
    BY <2>1, <2>3, FS_Product
<1>4. IsFiniteSet(UNION Parts)
  BY <1>2, <1>3, FS_UNION
<1> QED
  BY <1>4, FS_CardinalityType DEF Units, Sum

\* How a sum splits, restates one of its terms, drops some, and vanishes.
LEMMA SumEmpty ==
  ASSUME NEW f
  PROVE  Sum(f, {}) = 0
<1>1. UNION {{x} \X (1 .. f[x]) : x \in {}} = {}
  OBVIOUS
<1> QED
  BY <1>1, FS_EmptySet DEF Sum

LEMMA SumOne ==
  ASSUME NEW x, NEW f, f[x] \in Nat
  PROVE  Sum(f, {x}) = f[x]
<1>1. UNION {{y} \X (1 .. f[y]) : y \in {x}} = {x} \X (1 .. f[x])
  OBVIOUS
<1>2. IsFiniteSet({x}) /\ Cardinality({x}) = 1
  BY FS_Singleton
<1>3. IsFiniteSet(1 .. f[x]) /\ Cardinality(1 .. f[x]) = f[x]
  <2>1. 1 \in Int /\ f[x] \in Int
    OBVIOUS
  <2>2. IsFiniteSet(1 .. f[x]) /\ Cardinality(1 .. f[x]) = (IF 1 > f[x] THEN 0 ELSE f[x] - 1 + 1)
    BY <2>1, FS_Interval
  <2> QED
    BY <2>2
<1>4. Cardinality({x} \X (1 .. f[x])) = Cardinality({x}) * Cardinality(1 .. f[x])
  BY <1>2, <1>3, FS_Product
<1>5. 1 * f[x] = f[x]
  OBVIOUS
<1> QED
  BY <1>1, <1>2, <1>3, <1>4, <1>5 DEF Sum

LEMMA SumSplit ==
  ASSUME NEW S, NEW T, IsFiniteSet(S), IsFiniteSet(T), S \cap T = {},
         NEW f, \A x \in S \cup T : f[x] \in Nat
  PROVE  /\ Sum(f, S \cup T) = Sum(f, S) + Sum(f, T)
         /\ Sum(f, S) \in Nat /\ Sum(f, T) \in Nat
<1>1. /\ IsFiniteSet(Units(f, S)) /\ Sum(f, S) = Cardinality(Units(f, S)) /\ Sum(f, S) \in Nat
      /\ IsFiniteSet(Units(f, T)) /\ Sum(f, T) = Cardinality(Units(f, T)) /\ Sum(f, T) \in Nat
  BY UnitsFinite
<1>2. Units(f, S \cup T) = Units(f, S) \cup Units(f, T)
  BY DEF Units
<1>3. Units(f, S) \cap Units(f, T) = {}
  BY DEF Units
<1>4. Cardinality(Units(f, S) \cup Units(f, T)) = Sum(f, S) + Sum(f, T) - Cardinality({})
  BY <1>1, <1>3, FS_Union
<1>5. IsFiniteSet(S \cup T)
  BY FS_Union
<1>6. Sum(f, S \cup T) = Cardinality(Units(f, S \cup T))
  BY <1>5, UnitsFinite
<1>7. Cardinality({}) = 0
  BY FS_EmptySet
<1>8. Sum(f, S) + Sum(f, T) - Cardinality({}) = Sum(f, S) + Sum(f, T)
  BY <1>1, <1>7
<1>9. Sum(f, S \cup T) = Sum(f, S) + Sum(f, T)
  BY <1>2, <1>4, <1>6, <1>8, Zenon
<1> QED
  BY <1>1, <1>9

LEMMA SumSame ==
  ASSUME NEW S, NEW f, NEW g, \A x \in S : f[x] = g[x]
  PROVE  Sum(f, S) = Sum(g, S)
<1>1. {{x} \X (1 .. f[x]) : x \in S} = {{x} \X (1 .. g[x]) : x \in S}
  OBVIOUS
<1> QED
  BY <1>1 DEF Sum

\* A sum is zero just when every part is.
LEMMA SumZero ==
  ASSUME NEW S, IsFiniteSet(S), NEW f, \A x \in S : f[x] \in Nat
  PROVE  Sum(f, S) = 0 <=> \A x \in S : f[x] = 0
<1>1. /\ IsFiniteSet(Units(f, S)) /\ Sum(f, S) = Cardinality(Units(f, S))
  BY UnitsFinite
<1>2. Sum(f, S) = 0 <=> Units(f, S) = {}
  BY <1>1, FS_EmptySet
<1>3. Units(f, S) = {} <=> \A x \in S : 1 .. f[x] = {}
  <2>1. ASSUME NEW x \in S, NEW n \in 1 .. f[x] PROVE Units(f, S) # {}
    <3>1. <<x, n>> \in {x} \X (1 .. f[x])
      OBVIOUS
    <3>2. <<x, n>> \in Units(f, S)
      BY <3>1 DEF Units
    <3> QED
      BY <3>2
  <2>2. ASSUME NEW u \in Units(f, S) PROVE \E x \in S : 1 .. f[x] # {}
    <3>1. PICK x \in S : u \in {x} \X (1 .. f[x])
      BY DEF Units
    <3> QED
      BY <3>1
  <2> QED
    BY <2>1, <2>2
<1>4. \A n \in Nat : 1 .. n = {} <=> n = 0
  <2> TAKE n \in Nat
  <2>1. n # 0 => 1 \in 1 .. n
    OBVIOUS
  <2>2. n = 0 => 1 .. n = {}
    OBVIOUS
  <2> QED
    BY <2>1, <2>2
<1> QED
  BY <1>2, <1>3, <1>4

\* Sums of what an operation drops or restates.
LEMMA SumDropped ==
  ASSUME NEW S, IsFiniteSet(S), NEW G \in SUBSET S, NEW f, NEW g, \A x \in S : f[x] \in Nat,
         \A x \in S : g[x] = IF x \in G THEN 0 ELSE f[x]
  PROVE  /\ Sum(g, S) = Sum(f, S) - Sum(f, G)
         /\ Sum(f, S) \in Nat /\ Sum(f, G) \in Nat /\ Sum(g, S) \in Nat
<1> DEFINE R == S \ G
<1>1. IsFiniteSet(G) /\ IsFiniteSet(R) /\ R \cap G = {} /\ S = R \cup G
  BY FS_Subset, FS_Difference
<1>2. (\A x \in R : g[x] = f[x]) /\ (\A x \in G : g[x] = 0 /\ g[x] \in Nat)
      /\ \A x \in R \cup G : f[x] \in Nat /\ g[x] \in Nat
  BY <1>1
<1> HIDE DEF R
<1>3. Sum(f, R \cup G) = Sum(f, R) + Sum(f, G) /\ Sum(f, R) \in Nat /\ Sum(f, G) \in Nat
  BY <1>1, <1>2, SumSplit
<1>4. Sum(g, R \cup G) = Sum(g, R) + Sum(g, G) /\ Sum(g, R) \in Nat /\ Sum(g, G) \in Nat
  BY <1>1, <1>2, SumSplit
<1>5. Sum(g, R) = Sum(f, R)
  BY <1>2, SumSame
<1>6. Sum(g, G) = 0
  BY <1>1, <1>2, SumZero
<1> QED
  BY <1>1, <1>3, <1>4, <1>5, <1>6

LEMMA SumRestated ==
  ASSUME NEW S, IsFiniteSet(S), NEW y \in S, NEW f, NEW g, \A x \in S : f[x] \in Nat,
         g[y] \in Nat, \A x \in S \ {y} : g[x] = f[x]
  PROVE  /\ Sum(g, S) = Sum(f, S) - f[y] + g[y]
         /\ Sum(f, S) \in Nat /\ Sum(g, S) \in Nat /\ f[y] <= Sum(f, S)
<1> DEFINE R == S \ {y}
<1>1. IsFiniteSet({y}) /\ IsFiniteSet(R) /\ R \cap {y} = {} /\ S = R \cup {y}
  BY FS_Singleton, FS_Difference
<1>2. (\A x \in R : g[x] = f[x]) /\ \A x \in R \cup {y} : f[x] \in Nat /\ g[x] \in Nat
  BY <1>1
<1> HIDE DEF R
<1>3. Sum(f, R \cup {y}) = Sum(f, R) + Sum(f, {y}) /\ Sum(f, R) \in Nat
  BY <1>1, <1>2, SumSplit
<1>4. Sum(g, R \cup {y}) = Sum(g, R) + Sum(g, {y}) /\ Sum(g, R) \in Nat
  BY <1>1, <1>2, SumSplit
<1>5. Sum(g, R) = Sum(f, R)
  BY <1>2, SumSame
<1>6. f[y] \in Nat /\ Sum(f, {y}) = f[y] /\ Sum(g, {y}) = g[y]
  BY SumOne
<1> QED
  BY <1>1, <1>3, <1>4, <1>5, <1>6

LEMMA SumMonotone ==
  ASSUME NEW S, IsFiniteSet(S), NEW G \in SUBSET S, NEW f, \A x \in S : f[x] \in Nat
  PROVE  Sum(f, G) <= Sum(f, S) /\ Sum(f, G) \in Nat /\ Sum(f, S) \in Nat
<1> DEFINE R == S \ G
<1>1. IsFiniteSet(G) /\ IsFiniteSet(R) /\ R \cap G = {} /\ S = R \cup G
  BY FS_Subset, FS_Difference
<1>2. \A x \in R \cup G : f[x] \in Nat
  BY <1>1
<1> HIDE DEF R
<1>3. Sum(f, R \cup G) = Sum(f, R) + Sum(f, G) /\ Sum(f, R) \in Nat /\ Sum(f, G) \in Nat
  BY <1>1, <1>2, SumSplit
<1> QED
  BY <1>1, <1>3

-----------------------------------------------------------------------------
(* The order of the index.                                                 *)
LEMMA EmptyOrder ==
  ASSUME NEW K
  PROVE  Empty(K) \in Orders(K) /\ Listed(Empty(K)) = {}
BY DEF Empty, Orders, Listed

LEMMA WithoutOrder ==
  ASSUME NEW K, NEW q \in Orders(K), NEW X
  PROVE  Without(q, X) \in Orders(K) /\ Listed(Without(q, X)) = Listed(q) \ X
<1> DEFINE w == Without(q, X)
<1>1. q \in [K -> SUBSET K]
  BY DEF Orders
<1>2. w \in [K -> SUBSET K] /\ \A k \in K : w[k] = IF k \in X THEN {} ELSE q[k] \ X
  BY <1>1 DEF Without
<1> HIDE DEF w
<1>3. Listed(w) = Listed(q) \ X
  BY <1>1, <1>2 DEF Listed
<1>4. /\ \A k \in K : \A j \in q[k] : /\ j \in Listed(q) /\ k \in Listed(q)
                                      /\ q[j] \subseteq q[k] /\ (k \in q[j] => j = k)
      /\ \A j, k \in Listed(q) : j \in q[k] \/ k \in q[j]
      /\ Listed(q) \subseteq K
  BY <1>1 DEF Orders, Listed
<1>5. ASSUME NEW k \in K, NEW j \in w[k]
      PROVE  j \in Listed(w) /\ k \in Listed(w) /\ w[j] \subseteq w[k] /\ (k \in w[j] => j = k)
  <2>1. k \notin X /\ j \in q[k] /\ j \notin X /\ j \in K
    BY <1>2, <1>5, <1>1
  <2> QED
    BY <2>1, <1>2, <1>3, <1>4
<1>6. \A j, k \in Listed(w) : j \in w[k] \/ k \in w[j]
  BY <1>2, <1>3, <1>4
<1>7. w \in Orders(K)
  BY <1>2, <1>5, <1>6 DEF Orders
<1> QED
  BY <1>3, <1>7 DEF w

LEMMA WithLastOrder ==
  ASSUME NEW K, NEW q \in Orders(K), NEW x \in K
  PROVE  WithLast(q, x) \in Orders(K) /\ Listed(WithLast(q, x)) = Listed(q) \cup {x}
<1> DEFINE w == WithLast(q, x)
<1>1. q \in [K -> SUBSET K]
  BY DEF Orders
<1>2. CASE x \in q[x]
  BY <1>1, <1>2 DEF WithLast, Listed
<1>3. CASE x \notin q[x]
  <2>1. w \in [K -> SUBSET K] /\ \A k \in K : w[k] = IF k = x THEN Listed(q) \cup {x} ELSE q[k]
    BY <1>1, <1>3 DEF WithLast, Listed
  <2> HIDE DEF w
  <2>2. Listed(w) = Listed(q) \cup {x} /\ x \notin Listed(q)
    BY <1>1, <1>3, <2>1 DEF Listed
  <2>3. /\ \A k \in K : \A j \in q[k] : /\ j \in Listed(q) /\ k \in Listed(q)
                                        /\ q[j] \subseteq q[k] /\ (k \in q[j] => j = k)
        /\ \A j, k \in Listed(q) : j \in q[k] \/ k \in q[j]
        /\ Listed(q) \subseteq K
    BY <1>1 DEF Orders, Listed
  <2>4. ASSUME NEW k \in K, NEW j \in w[k]
        PROVE  j \in Listed(w) /\ k \in Listed(w) /\ w[j] \subseteq w[k] /\ (k \in w[j] => j = k)
    <3>1. \A m \in K : q[m] \subseteq Listed(q)
      BY <2>3
    <3>2. CASE k = x
      BY <2>1, <2>2, <2>3, <2>4, <3>1, <3>2
    <3>3. CASE k # x
      <4>1. j \in q[k] /\ j # x /\ j \in K
        BY <2>1, <2>2, <2>3, <2>4, <3>3
      <4> QED
        BY <2>1, <2>2, <2>3, <3>3, <4>1
    <3> QED
      BY <3>2, <3>3
  <2>5. \A j, k \in Listed(w) : j \in w[k] \/ k \in w[j]
    BY <2>1, <2>2, <2>3
  <2>6. w \in Orders(K)
    BY <2>1, <2>4, <2>5 DEF Orders
  <2> QED
    BY <2>2, <2>6 DEF w
<1> QED
  BY <1>2, <1>3

LEMMA ToFrontOrder ==
  ASSUME NEW K, NEW q \in Orders(K), NEW X \in SUBSET Listed(q)
  PROVE  ToFront(q, X) \in Orders(K) /\ Listed(ToFront(q, X)) = Listed(q)
<1> DEFINE w == ToFront(q, X)
<1>1. q \in [K -> SUBSET K]
  BY DEF Orders
<1>2. /\ \A k \in K : \A j \in q[k] : /\ j \in Listed(q) /\ k \in Listed(q)
                                      /\ q[j] \subseteq q[k] /\ (k \in q[j] => j = k)
      /\ \A j, k \in Listed(q) : j \in q[k] \/ k \in q[j]
      /\ Listed(q) \subseteq K /\ X \subseteq K
  BY <1>1 DEF Orders, Listed
<1>3. /\ w \in [K -> SUBSET K]
      /\ \A k \in K : w[k] = IF k \in X THEN {j \in X : k \in q[j]}
                             ELSE IF k \in q[k] THEN q[k] \cup X ELSE {}
  BY <1>1, <1>2 DEF ToFront
<1> HIDE DEF w
<1>4. \A k \in K : k \in Listed(q) <=> k \in q[k]
  BY <1>1 DEF Listed
<1>5. Listed(w) = Listed(q)
  <2>1. \A k \in K : k \in Listed(w) <=> k \in w[k]
    BY <1>3 DEF Listed
  <2>2. Listed(w) \subseteq K
    BY <1>3 DEF Listed
  <2>3. \A k \in K : k \in w[k] <=> k \in q[k]
    BY <1>2, <1>3, <1>4
  <2> QED
    BY <1>2, <1>4, <2>1, <2>2, <2>3
<1>6. ASSUME NEW k \in K, NEW j \in w[k]
      PROVE  j \in Listed(w) /\ k \in Listed(w) /\ w[j] \subseteq w[k] /\ (k \in w[j] => j = k)
  <2>1. CASE k \in X
    <3>1. j \in X /\ k \in q[j] /\ j \in K
      BY <1>2, <1>3, <1>6, <2>1
    <3>2. w[j] = {i \in X : j \in q[i]} /\ w[k] = {i \in X : k \in q[i]}
      BY <1>2, <1>3, <2>1, <3>1
    <3> QED
      BY <1>2, <1>5, <2>1, <3>1, <3>2
  <2>2. CASE k \notin X
    <3>1. k \in q[k] /\ w[k] = q[k] \cup X /\ j \in K
      BY <1>2, <1>3, <1>6, <2>2
    <3>2. CASE j \in X
      <4>1. w[j] \subseteq X
        BY <1>3, <3>1, <3>2
      <4> QED
        BY <1>2, <1>4, <1>5, <2>2, <3>1, <3>2, <4>1
    <3>3. CASE j \notin X
      <4>1. j \in q[k] /\ j \in q[j] /\ w[j] = q[j] \cup X
        BY <1>2, <1>3, <1>4, <1>6, <3>1, <3>3
      <4> QED
        BY <1>2, <1>4, <1>5, <2>2, <3>1, <4>1
    <3> QED
      BY <3>2, <3>3
  <2> QED
    BY <2>1, <2>2
<1>7. \A j, k \in Listed(w) : j \in w[k] \/ k \in w[j]
  <2> TAKE j, k \in Listed(w)
  <2>1. j \in K /\ k \in K /\ j \in q[j] /\ k \in q[k] /\ (j \in q[k] \/ k \in q[j])
    BY <1>2, <1>4, <1>5
  <2> QED
    BY <1>3, <2>1
<1>8. w \in Orders(K)
  BY <1>3, <1>6, <1>7 DEF Orders
<1> QED
  BY <1>5, <1>8 DEF w

LEMMA RankedOrder ==
  ASSUME NEW K, NEW J \in SUBSET K, NEW n \in Nat, NEW rank \in [J -> 1 .. n],
         \A i, j \in J : rank[i] = rank[j] => i = j
  PROVE  Ranked(K, rank) \in Orders(K) /\ Listed(Ranked(K, rank)) = J
<1> DEFINE w == Ranked(K, rank)
<1>1. \A i \in J : rank[i] \in Int
  OBVIOUS
<1>2. /\ w \in [K -> SUBSET K]
      /\ \A k \in K : w[k] = {j \in J : k \in J /\ rank[j] <= rank[k]}
  BY DEF Ranked
<1> HIDE DEF w
<1>3. Listed(w) = J
  BY <1>1, <1>2 DEF Listed
<1>4. ASSUME NEW k \in K, NEW j \in w[k]
      PROVE  j \in Listed(w) /\ k \in Listed(w) /\ w[j] \subseteq w[k] /\ (k \in w[j] => j = k)
  <2>1. j \in J /\ k \in J /\ rank[j] <= rank[k]
    BY <1>2, <1>4
  <2>2. w[j] = {i \in J : rank[i] <= rank[j]} /\ w[k] = {i \in J : rank[i] <= rank[k]}
    BY <1>2, <2>1
  <2>3. \A i \in J : rank[i] <= rank[j] => rank[i] <= rank[k]
    BY <1>1, <2>1
  <2>4. rank[k] <= rank[j] => rank[k] = rank[j]
    BY <1>1, <2>1
  <2> QED
    BY <1>3, <2>1, <2>2, <2>3, <2>4
<1>5. \A j, k \in Listed(w) : j \in w[k] \/ k \in w[j]
  BY <1>1, <1>2, <1>3
<1>6. w \in Orders(K)
  BY <1>2, <1>4, <1>5 DEF Orders
<1> QED
  BY <1>3, <1>6 DEF w

-----------------------------------------------------------------------------
(* The books of a store: its index says the same in all of its parts.      *)
Recorded(s) == s = [file |-> s.file, at |-> s.at, size |-> s.size, lru |-> s.lru, bytes |-> s.bytes]

Books(s) ==
  /\ Recorded(s)
  /\ s.at \in [Keys -> Names \cup {"none"}] /\ s.size \in [Keys -> Nat]
  /\ s.lru \in Orders(Keys) /\ Listed(s.lru) = Indexed(s)
  /\ \A k \in Keys : s.at[k] = "none" => s.size[k] = 0
  /\ s.bytes = TotalOf(s, Keys)

\* An entry is charged what its file occupies, but for the keys of X.
Exact(s, X) ==
  \A k \in Keys \ X : InPlace(s, k) => s.size[k] = SizeOf(s.file[<<k, s.at[k]>>])

\* r is s after a removal: what is still there is as it was.
KeptEntries(s, r) ==
  /\ \A k \in Keys, n \in Names : r.file[<<k, n>>] \in {s.file[<<k, n>>], Absent}
  /\ \A k \in Keys : r.at[k] # "none" => r.at[k] = s.at[k] /\ r.size[k] = s.size[k]

LEMMA UnlinkedEither ==
  ASSUME NEW file, NEW gone, NEW stuck, NEW k \in Keys, NEW n \in Names
  PROVE  Unlinked(file, gone, stuck)[<<k, n>>] \in {file[<<k, n>>], Absent}
BY DEF Unlinked, Files

LEMMA BooksTyped ==
  ASSUME NEW s, Books(s), StoreOK(s)
  PROVE  s \in Store
<1>1. s.file \in [Files -> Bundle]
  BY DEF StoreOK, Good
<1>2. s.bytes \in Nat
  BY PoolAssumption, SumMonotone DEF Books, TotalOf
<1> QED
  BY <1>1, <1>2 DEF Books, Recorded, Store

LEMMA SizeNat ==
  ASSUME NEW b \in Good
  PROVE  SizeOf(b) \in Nat
<1>1. b.pages \subseteq Pages
  BY DEF Good, Bundle
<1>2. Cardinality(b.pages) \in Nat
  BY <1>1, KeysAssumption, FS_Subset, FS_CardinalityType
<1> QED
  BY <1>2 DEF SizeOf

LEMMA FileBooks ==
  ASSUME NEW s, Books(s), NEW r, Recorded(r),
         r.at = s.at, r.size = s.size, r.lru = s.lru, r.bytes = s.bytes
  PROVE  Books(r)
BY DEF Books, Indexed, TotalOf

\* Entries that are dropped with what they were charged leave the books balanced.
LEMMA DroppedBooks ==
  ASSUME NEW s, Books(s), NEW G \in SUBSET Keys, NEW r, Recorded(r),
         \A k \in Keys, n \in Names : r.file[<<k, n>>] \in {s.file[<<k, n>>], Absent},
         r.at = [k \in Keys |-> IF k \in G THEN "none" ELSE s.at[k]],
         r.size = [k \in Keys |-> IF k \in G THEN 0 ELSE s.size[k]],
         r.lru \in Orders(Keys), Listed(r.lru) = Listed(s.lru) \ G,
         r.bytes = s.bytes - TotalOf(s, G)
  PROVE  Books(r) /\ KeptEntries(s, r)
<1>1. /\ r.at \in [Keys -> Names \cup {"none"}] /\ r.size \in [Keys -> Nat]
      /\ \A k \in Keys : r.at[k] = "none" => r.size[k] = 0
      /\ KeptEntries(s, r)
  BY DEF Books, KeptEntries
<1>2. Listed(r.lru) = Indexed(r)
  BY DEF Books, Indexed
<1>3. r.bytes = TotalOf(r, Keys)
  <2>1. s.bytes = Sum(s.size, Keys) /\ r.bytes = s.bytes - Sum(s.size, G)
    BY DEF Books, TotalOf
  <2>2. \A k \in Keys : s.size[k] \in Nat /\ r.size[k] = IF k \in G THEN 0 ELSE s.size[k]
    BY DEF Books
  <2>3. Sum(r.size, Keys) = Sum(s.size, Keys) - Sum(s.size, G)
    BY <2>2, PoolAssumption, SumDropped
  <2> QED
    BY <2>1, <2>3 DEF TotalOf
<1> QED
  BY <1>1, <1>2, <1>3 DEF Books

\* An entry restated gives back what it was charged.
LEMMA ReindexedBooks ==
  ASSUME NEW s, Books(s), NEW k \in Keys, NEW name \in Names, s.file[<<k, name>>] \in Good
  PROVE  /\ Books(Reindexed(s, k, name))
         /\ \A X : Exact(s, X) => Exact(Reindexed(s, k, name), X \ {k})
<1> DEFINE r == Reindexed(s, k, name)
           new == SizeOf(s.file[<<k, name>>])
           q == WithLast(Without(s.lru, {k}), k)
<1>1. new \in Nat
  BY SizeNat
<1>2. /\ r.file = s.file /\ r.at = [s.at EXCEPT ![k] = name] /\ r.size = [s.size EXCEPT ![k] = new]
      /\ r.lru = q /\ r.bytes = s.bytes - s.size[k] + new /\ Recorded(r)
  <2>1. s = [file |-> s.file, at |-> s.at, size |-> s.size, lru |-> s.lru, bytes |-> s.bytes]
    BY DEF Books, Recorded
  <2>2. r = [s EXCEPT !.at[k] = name, !.size[k] = new, !.lru = q, !.bytes = s.bytes - s.size[k] + new]
    BY DEF Reindexed
  <2> HIDE DEF r, new, q
  <2>3. r = [file |-> s.file, at |-> [s.at EXCEPT ![k] = name], size |-> [s.size EXCEPT ![k] = new],
             lru |-> q, bytes |-> s.bytes - s.size[k] + new]
    BY <2>1, <2>2
  <2> QED
    BY <2>3 DEF Recorded
<1> HIDE DEF r, new, q
<1>3. q \in Orders(Keys) /\ Listed(q) = Indexed(s) \cup {k}
  <2> DEFINE w == Without(s.lru, {k})
  <2>1. w \in Orders(Keys) /\ Listed(w) = Indexed(s) \ {k}
    BY WithoutOrder DEF Books
  <2>2. q = WithLast(w, k)
    BY DEF q
  <2> HIDE DEF w
  <2>3. q \in Orders(Keys) /\ Listed(q) = Listed(w) \cup {k}
    BY <2>1, <2>2, WithLastOrder
  <2> QED
    BY <2>1, <2>3
<1>4. /\ r.at \in [Keys -> Names \cup {"none"}] /\ r.size \in [Keys -> Nat]
      /\ \A j \in Keys : /\ r.at[j] = IF j = k THEN name ELSE s.at[j]
                         /\ r.size[j] = IF j = k THEN new ELSE s.size[j]
  BY <1>1, <1>2 DEF Books
<1>5. name # "none"
  BY DEF Names
<1>6. Listed(r.lru) = Indexed(r) /\ \A j \in Keys : r.at[j] = "none" => r.size[j] = 0
  BY <1>2, <1>3, <1>4, <1>5 DEF Books, Indexed
<1>7. r.bytes = TotalOf(r, Keys)
  <2>1. s.bytes = Sum(s.size, Keys) /\ \A j \in Keys : s.size[j] \in Nat
    BY DEF Books, TotalOf
  <2>2. r.size[k] = new /\ \A j \in Keys \ {k} : r.size[j] = s.size[j]
    BY <1>4
  <2>3. Sum(r.size, Keys) = Sum(s.size, Keys) - s.size[k] + r.size[k]
    BY <1>1, <2>1, <2>2, PoolAssumption, SumRestated
  <2> QED
    BY <1>2, <2>1, <2>2, <2>3 DEF TotalOf
<1>8. Books(r)
  BY <1>2, <1>3, <1>4, <1>6, <1>7 DEF Books
<1>9. ASSUME NEW X, Exact(s, X) PROVE Exact(r, X \ {k})
  <2> SUFFICES ASSUME NEW j \in Keys \ (X \ {k}), InPlace(r, j)
               PROVE  r.size[j] = SizeOf(r.file[<<j, r.at[j]>>])
    BY DEF Exact
  <2>1. CASE j = k
    BY <1>2, <1>4, <2>1 DEF new
  <2>2. CASE j # k
    <3>1. InPlace(s, j) /\ j \in Keys \ X
      BY <1>2, <1>4, <2>2 DEF InPlace, Exists
    <3> QED
      BY <1>2, <1>4, <1>9, <2>2, <3>1 DEF Exact
  <2> QED
    BY <2>1, <2>2
<1> QED
  BY <1>8, <1>9 DEF r

LEMMA SelfKept == \A s : KeptEntries(s, s)
BY DEF KeptEntries

\* A removal leaves the charges right.
LEMMA KeptExact ==
  ASSUME NEW s, Books(s), NEW r, KeptEntries(s, r), NEW X, Exact(s, X)
  PROVE  Exact(r, X)
<1> SUFFICES ASSUME NEW k \in Keys \ X, InPlace(r, k)
             PROVE  r.size[k] = SizeOf(r.file[<<k, r.at[k]>>])
  BY DEF Exact
<1>1. r.at[k] # "none" /\ r.at[k] = s.at[k] /\ r.size[k] = s.size[k] /\ s.at[k] \in Names
  BY DEF InPlace, KeptEntries, Books
<1>2. r.file[<<k, r.at[k]>>] = s.file[<<k, s.at[k]>>]
  BY <1>1, AbsentGood DEF KeptEntries, InPlace, Exists
<1> QED
  BY <1>1, <1>2 DEF Exact, InPlace, Exists

\* The removals of the store, one bundle at a time and all at once.
LEMMA ForgetBooks ==
  ASSUME NEW s, Books(s), NEW k \in Keys, NEW F
  PROVE  Books(Forget(s, k, F)) /\ KeptEntries(s, Forget(s, k, F))
<1>1. CASE s.at[k] = "none"
  BY <1>1, SelfKept DEF Forget
<1>2. CASE s.at[k] # "none" /\ Resists(s, k, F)
  <2> DEFINE w == ToFront(s.lru, {k})
             r == [s EXCEPT !.lru = w]
  <2>1. Forget(s, k, F) = r
    BY <1>2 DEF Forget
  <2>2. {k} \in SUBSET Listed(s.lru)
    BY <1>2 DEF Books, Indexed
  <2>3. w \in Orders(Keys) /\ Listed(w) = Listed(s.lru)
    BY <2>2, ToFrontOrder DEF Books
  <2>4. s = [file |-> s.file, at |-> s.at, size |-> s.size, lru |-> s.lru, bytes |-> s.bytes]
    BY DEF Books, Recorded
  <2> HIDE DEF w
  <2>5. r = [file |-> s.file, at |-> s.at, size |-> s.size, lru |-> w, bytes |-> s.bytes]
    BY <2>4
  <2> HIDE DEF r
  <2>6. Recorded(r) /\ r.at = s.at /\ r.size = s.size /\ r.lru = w /\ r.bytes = s.bytes /\ r.file = s.file
    BY <2>5 DEF Recorded
  <2>7. Books(r) /\ KeptEntries(s, r)
    BY <2>3, <2>6 DEF Books, Indexed, TotalOf, KeptEntries
  <2> QED
    BY <2>1, <2>7
<1>3. CASE s.at[k] # "none" /\ ~Resists(s, k, F)
  <2> DEFINE r == Forget(s, k, F)
  <2>1. r = [file  |-> Unlinked(s.file, {<<k, s.at[k]>>}, {}),
             at    |-> [s.at EXCEPT ![k] = "none"],
             size  |-> [s.size EXCEPT ![k] = 0],
             lru   |-> Without(s.lru, {k}),
             bytes |-> s.bytes - s.size[k]]
    BY <1>3 DEF Forget
  <2> HIDE DEF r
  <2>2. Recorded(r)
    BY <2>1 DEF Recorded
  <2>3. /\ r.at = [j \in Keys |-> IF j \in {k} THEN "none" ELSE s.at[j]]
        /\ r.size = [j \in Keys |-> IF j \in {k} THEN 0 ELSE s.size[j]]
    BY <2>1 DEF Books
  <2>4. r.lru \in Orders(Keys) /\ Listed(r.lru) = Listed(s.lru) \ {k}
    BY <2>1, WithoutOrder DEF Books
  <2>5. TotalOf(s, {k}) = s.size[k]
    BY SumOne DEF Books, TotalOf
  <2>6. r.bytes = s.bytes - TotalOf(s, {k})
    BY <2>1, <2>5
  <2>8. \A j \in Keys, n \in Names : r.file[<<j, n>>] \in {s.file[<<j, n>>], Absent}
    BY <2>1, UnlinkedEither
  <2>7. Books(r) /\ KeptEntries(s, r)
    BY <2>2, <2>3, <2>4, <2>6, <2>8, DroppedBooks
  <2> QED
    BY <2>7 DEF r
<1> QED
  BY <1>1, <1>2, <1>3

\* The index does not change with the files.
LEMMA Refiled ==
  ASSUME NEW s, Books(s), NEW file
  PROVE  /\ Books([s EXCEPT !.file = file])
         /\ [s EXCEPT !.file = file].file = file
         /\ [s EXCEPT !.file = file].at = s.at
         /\ [s EXCEPT !.file = file].size = s.size
         /\ [s EXCEPT !.file = file].lru = s.lru
<1> DEFINE r == [s EXCEPT !.file = file]
<1>1. s = [file |-> s.file, at |-> s.at, size |-> s.size, lru |-> s.lru, bytes |-> s.bytes]
  BY DEF Books, Recorded
<1>2. r = [file |-> file, at |-> s.at, size |-> s.size, lru |-> s.lru, bytes |-> s.bytes]
  BY <1>1
<1> HIDE DEF r
<1>3. Recorded(r) /\ r.at = s.at /\ r.size = s.size /\ r.lru = s.lru /\ r.bytes = s.bytes /\ r.file = file
  BY <1>2 DEF Recorded
<1>4. Books(r)
  BY <1>3, FileBooks
<1> QED
  BY <1>3, <1>4 DEF r

LEMMA PurgeBooks ==
  ASSUME NEW s, Books(s), NEW k \in Keys, NEW F
  PROVE  Books(Purge(s, k, F)) /\ KeptEntries(s, Purge(s, k, F))
<1> DEFINE u == [s EXCEPT !.file = Unlinked(s.file, {k} \X Names, F)]
<1>1. Books(u) /\ u.at = s.at /\ u.size = s.size
      /\ u.file = Unlinked(s.file, {k} \X Names, F)
  BY Refiled
<1>2. Purge(s, k, F) = Forget(u, k, F)
  BY DEF Purge
<1> HIDE DEF u
<1>4. \A j \in Keys, n \in Names : u.file[<<j, n>>] \in {s.file[<<j, n>>], Absent}
  <2> DEFINE gone == {k} \X Names
  <2>1. u.file = Unlinked(s.file, gone, F)
    BY <1>1
  <2> HIDE DEF gone
  <2> QED
    BY <2>1, UnlinkedEither
<1>3. Books(Forget(u, k, F)) /\ KeptEntries(u, Forget(u, k, F))
  BY <1>1, ForgetBooks
<1> QED
  BY <1>1, <1>2, <1>3, <1>4 DEF KeptEntries

LEMMA ForgetAllBooks ==
  ASSUME NEW s, Books(s), NEW F
  PROVE  /\ Books(ForgetAll(s, F)) /\ KeptEntries(s, ForgetAll(s, F))
         /\ F = {} => ForgetAll(s, F).bytes = 0
<1> DEFINE kept == {k \in Indexed(s) : Resists(s, k, F)}
           G == Indexed(s) \ kept
           r == ForgetAll(s, F)
<1>1. r = [file  |-> Unlinked(s.file, {<<k, s.at[k]>> : k \in Indexed(s)}, F),
           at    |-> [k \in Keys |-> IF k \in kept THEN s.at[k] ELSE "none"],
           size  |-> [k \in Keys |-> IF k \in kept THEN s.size[k] ELSE 0],
           lru   |-> Without(ToFront(s.lru, kept), Keys \ kept),
           bytes |-> s.bytes - TotalOf(s, G)]
  BY DEF ForgetAll
<1>2. F = {} => kept = {}
  BY DEF Resists
<1>3. Indexed(s) \subseteq Keys /\ kept \in SUBSET Listed(s.lru)
  BY DEF Indexed, Books
<1> HIDE DEF r, kept
<1>4. Recorded(r)
  BY <1>1 DEF Recorded
<1>5. /\ r.at = [k \in Keys |-> IF k \in G THEN "none" ELSE s.at[k]]
      /\ r.size = [k \in Keys |-> IF k \in G THEN 0 ELSE s.size[k]]
  <2>1. \A k \in Keys : k \notin Indexed(s) => s.at[k] = "none" /\ s.size[k] = 0
    BY DEF Indexed, Books
  <2>2. kept \subseteq Indexed(s)
    BY DEF kept
  <2> QED
    BY <1>1, <2>1, <2>2
<1>6. r.lru \in Orders(Keys) /\ Listed(r.lru) = Listed(s.lru) \ G
  <2> DEFINE w == ToFront(s.lru, kept)
  <2>1. w \in Orders(Keys) /\ Listed(w) = Listed(s.lru)
    BY <1>3, ToFrontOrder DEF Books
  <2>2. r.lru = Without(w, Keys \ kept)
    BY <1>1
  <2> HIDE DEF w
  <2>3. r.lru \in Orders(Keys) /\ Listed(r.lru) = Listed(w) \ (Keys \ kept)
    BY <2>1, <2>2, WithoutOrder
  <2> QED
    BY <1>3, <2>1, <2>3 DEF Books
<1>7. r.bytes = s.bytes - TotalOf(s, G)
  BY <1>1
<1>10. \A k \in Keys, n \in Names : r.file[<<k, n>>] \in {s.file[<<k, n>>], Absent}
  BY <1>1, UnlinkedEither
<1>8. Books(r) /\ KeptEntries(s, r)
  BY <1>3, <1>4, <1>5, <1>6, <1>7, <1>10, DroppedBooks
<1>9. ASSUME F = {} PROVE r.bytes = 0
  <2>1. \A k \in Keys : r.size[k] = 0
    BY <1>1, <1>2, <1>9
  <2>2. r.bytes = Sum(r.size, Keys)
    BY <1>8 DEF Books, TotalOf
  <2> QED
    BY <2>1, <2>2, PoolAssumption, SumZero
<1> QED
  BY <1>8, <1>9 DEF r

\* An eviction balances the books, and without errors it stops short of the
\* budget only for a bundle it must spare: were all of the queue removable, the
\* first key at which enough is gone would be the last one tried.
LEMMA EvictBooks ==
  ASSUME NEW s, Books(s), NEW safe, NEW b, NEW F
  PROVE  Books(Evict(s, safe, b, F)) /\ KeptEntries(s, Evict(s, safe, b, F))
<1> DEFINE Gone(K) == {k \in K \ safe : ~Resists(s, k, F)}
           tried   == {k \in Listed(s.lru) : ~(s.bytes - TotalOf(s, Gone(s.lru[k] \ {k})) <= b)}
           gone    == Gone(tried)
           stuck   == tried \ (safe \cup gone)
           r       == Evict(s, safe, b, F)
<1>1. r = [file  |-> Unlinked(s.file, {<<k, s.at[k]>> : k \in gone}, {}),
           at    |-> [k \in Keys |-> IF k \in gone THEN "none" ELSE s.at[k]],
           size  |-> [k \in Keys |-> IF k \in gone THEN 0 ELSE s.size[k]],
           lru   |-> Without(ToFront(s.lru, stuck), gone),
           bytes |-> s.bytes - TotalOf(s, gone)]
  BY DEF Evict
<1>2. gone \subseteq tried /\ stuck \subseteq tried /\ tried \subseteq Listed(s.lru)
  OBVIOUS
<1>3. Listed(s.lru) \subseteq Keys
  BY DEF Books, Indexed
<1> HIDE DEF r, stuck, gone, tried
<1>4. Recorded(r)
  BY <1>1 DEF Recorded
<1>5. r.lru \in Orders(Keys) /\ Listed(r.lru) = Listed(s.lru) \ gone
  <2> DEFINE w == ToFront(s.lru, stuck)
  <2>1. stuck \in SUBSET Listed(s.lru)
    BY <1>2
  <2>2. w \in Orders(Keys) /\ Listed(w) = Listed(s.lru)
    BY <2>1, ToFrontOrder DEF Books
  <2>3. r.lru = Without(w, gone)
    BY <1>1
  <2> HIDE DEF w
  <2> QED
    BY <2>2, <2>3, WithoutOrder
<1>6. /\ r.at = [k \in Keys |-> IF k \in gone THEN "none" ELSE s.at[k]]
      /\ r.size = [k \in Keys |-> IF k \in gone THEN 0 ELSE s.size[k]]
      /\ r.bytes = s.bytes - TotalOf(s, gone)
  BY <1>1
<1>7. gone \in SUBSET Keys
  BY <1>2, <1>3
<1>8. \A k \in Keys, n \in Names : r.file[<<k, n>>] \in {s.file[<<k, n>>], Absent}
  BY <1>1, UnlinkedEither
<1> QED
  BY <1>4, <1>5, <1>6, <1>7, <1>8, DroppedBooks DEF r

\* An eviction that nothing resists meets the budget, or is left with a
\* bundle it had to spare.
LEMMA EvictMeets ==
  ASSUME NEW s, Books(s), NEW safe, NEW b \in Nat
  PROVE  Evict(s, safe, b, {}).bytes <= b \/ Indexed(s) \cap safe # {}
<1> SUFFICES ASSUME Indexed(s) \cap safe = {} PROVE Evict(s, safe, b, {}).bytes <= b
  OBVIOUS
<1> DEFINE Gone(K)   == {k \in K \ safe : ~Resists(s, k, {})}
           Enough(K) == s.bytes - TotalOf(s, Gone(K)) <= b
           tried     == {k \in Listed(s.lru) : ~Enough(s.lru[k] \ {k})}
<1>1. Evict(s, safe, b, {}).bytes = s.bytes - TotalOf(s, Gone(tried))
  BY DEF Evict
<1>2. ASSUME NEW K, K \subseteq Indexed(s) PROVE Gone(K) = K
  BY <1>2 DEF Resists
<1>3. /\ Listed(s.lru) = Indexed(s) /\ Indexed(s) \subseteq Keys
      /\ s.lru \in Orders(Keys) /\ s.lru \in [Keys -> SUBSET Keys]
  BY DEF Books, Indexed, Orders
<1>4. \A k \in Indexed(s) : /\ s.lru[k] \subseteq Indexed(s)
                            /\ \A j \in s.lru[k] \ {k} : s.lru[j] \subseteq s.lru[k] \ {k}
  BY <1>3 DEF Orders
<1>5. \A k \in Keys : s.size[k] \in Nat
  BY DEF Books
<1>6. ASSUME NEW K \in SUBSET Keys
      PROVE  TotalOf(s, K) \in Nat /\ TotalOf(s, K) <= TotalOf(s, Keys)
  BY <1>5, PoolAssumption, SumMonotone DEF TotalOf
<1>7. ASSUME NEW K \in SUBSET Keys, NEW J \in SUBSET K
      PROVE  TotalOf(s, J) <= TotalOf(s, K)
  <2>1. IsFiniteSet(K)
    BY PoolAssumption, FS_Subset
  <2> QED
    BY <1>5, <2>1, SumMonotone DEF TotalOf
<1>8. TotalOf(s, Indexed(s)) = s.bytes
  <2>1. \A k \in Keys : s.size[k] = IF k \in Keys \ Indexed(s) THEN 0 ELSE s.size[k]
    BY DEF Books, Indexed
  <2>2. IsFiniteSet(Indexed(s)) /\ IsFiniteSet(Keys \ Indexed(s))
    BY <1>3, PoolAssumption, FS_Subset, FS_Difference
  <2>3. \A k \in Keys \ Indexed(s) : s.size[k] = 0 /\ s.size[k] \in Nat
    BY <2>1
  <2>4. Sum(s.size, Keys \ Indexed(s)) = 0
    BY <2>2, <2>3, SumZero
  <2> DEFINE I == Indexed(s)
             R == Keys \ Indexed(s)
  <2>5. I \cap R = {} /\ I \cup R = Keys /\ IsFiniteSet(I) /\ IsFiniteSet(R)
        /\ \A k \in I \cup R : s.size[k] \in Nat
    BY <1>3, <1>5, <2>2
  <2>6. Sum(s.size, R) = 0
    BY <2>4
  <2> HIDE DEF I, R
  <2>7. Sum(s.size, I \cup R) = Sum(s.size, I) + Sum(s.size, R) /\ Sum(s.size, I) \in Nat
    BY <2>5, SumSplit
  <2>8. Sum(s.size, I \cup R) = Sum(s.size, Keys)
    BY <2>5, Zenon
  <2>9. Sum(s.size, I) = Sum(s.size, I \cup R)
    BY <2>6, <2>7
  <2> QED
    BY <2>8, <2>9 DEF I, TotalOf, Books
<1>9. s.bytes \in Nat
  BY <1>3, <1>6, <1>8
<1>10. Gone(tried) = tried /\ tried \in SUBSET Keys
  <2>1. tried \subseteq Indexed(s)
    BY <1>3
  <2> HIDE DEF tried, Gone
  <2> QED
    BY <1>2, <1>3, <2>1
<1>11. CASE tried = Indexed(s)
  <2> HIDE DEF tried, Gone
  <2> QED
    BY <1>1, <1>8, <1>9, <1>10, <1>11
<1>12. CASE tried # Indexed(s)
  <2>1. PICK k \in Indexed(s) \ tried :
          \A j \in Indexed(s) \ tried : ~(j \in s.lru[k] \ {k})
    <3> DEFINE U == {s.lru[k] : k \in Indexed(s) \ tried}
    <3>0. \A K \in SUBSET Keys : IsFiniteSet(K)
      BY PoolAssumption, FS_Subset
    <3>a. tried \subseteq Indexed(s)
      BY <1>3
    <3> HIDE DEF tried
    <3>b. Indexed(s) \ tried # {}
      BY <1>12, <3>a
    <3>1. U # {} /\ U \subseteq FiniteSubsetsOf(Keys)
      BY <1>3, <3>0, <3>b DEF FiniteSubsetsOf
    <3>2. PICK p \in U : \A q \in U : ~(<<q, p>> \in StrictSubsetOrdering(Keys))
      BY <3>1, FS_StrictSubsetOrderingWellFounded, WFMin
    <3>3. PICK k \in Indexed(s) \ tried : p = s.lru[k]
      BY <3>2
    <3>4. ASSUME NEW j \in Indexed(s) \ tried, j \in s.lru[k] \ {k} PROVE FALSE
      <4>1. s.lru[j] \subseteq s.lru[k] \ {k} /\ k \in s.lru[k] /\ s.lru[j] \in U
        BY <1>3, <1>4, <3>4 DEF Listed
      <4>2. s.lru[j] \in SUBSET Keys /\ s.lru[k] \in SUBSET Keys
        BY <1>3
      <4>3. <<s.lru[j], s.lru[k]>> \in StrictSubsetOrdering(Keys)
        BY <4>1, <4>2 DEF StrictSubsetOrdering
      <4> QED
        BY <3>2, <3>3, <4>1, <4>3
    <3> QED
      BY <3>4
  <2> DEFINE before == s.lru[k] \ {k}
  <2>2. before \subseteq tried
    <3>1. before \subseteq Indexed(s)
      BY <1>4
    <3> HIDE DEF tried
    <3> QED
      BY <2>1, <3>1
  <2>3. Enough(before)
    BY <1>3, <2>1
  <2>4. Gone(before) = before
    <3>1. before \subseteq Indexed(s)
      BY <1>4
    <3> HIDE DEF before, Gone
    <3> QED
      BY <1>2, <3>1
  <2>5. s.bytes - TotalOf(s, before) <= b
    BY <2>3, <2>4
  <2> HIDE DEF before, tried, Gone, Enough
  <2>6. TotalOf(s, before) <= TotalOf(s, tried) /\ TotalOf(s, before) \in Nat /\ TotalOf(s, tried) \in Nat
    BY <1>6, <1>7, <1>10, <2>2
  <2> QED
    BY <1>1, <1>9, <1>10, <2>5, <2>6
<1> QED
  BY <1>11, <1>12

\* The source of a promotion is dropped and its target restated.
LEMMA AdoptedBooks ==
  ASSUME NEW st, Books(st), NEW s \in Keys, NEW t \in Keys, s # t, NEW name \in Names,
         st.file[<<t, name>>] \in Good
  PROVE  /\ Books(Adopted(st, s, t, name))
         /\ Exact(st, {s, t}) => Exact(Adopted(st, s, t, name), {})
<1> DEFINE u == [st EXCEPT !.at[s] = "none", !.size[s] = 0,
                           !.lru = Without(@, {s}), !.bytes = @ - st.size[s]]
<1>1. st = [file |-> st.file, at |-> st.at, size |-> st.size, lru |-> st.lru, bytes |-> st.bytes]
  BY DEF Books, Recorded
<1>3. Adopted(st, s, t, name) = Reindexed(u, t, name)
  BY DEF Adopted
<1>2. u = [file |-> st.file, at |-> [st.at EXCEPT ![s] = "none"], size |-> [st.size EXCEPT ![s] = 0],
           lru |-> Without(st.lru, {s}), bytes |-> st.bytes - st.size[s]]
  <2> DEFINE w == Without(st.lru, {s})
             n == st.bytes - st.size[s]
  <2>1. u = [st EXCEPT !.at[s] = "none", !.size[s] = 0, !.lru = w, !.bytes = n]
    OBVIOUS
  <2> HIDE DEF u, w, n
  <2>2. u = [file |-> st.file, at |-> [st.at EXCEPT ![s] = "none"], size |-> [st.size EXCEPT ![s] = 0],
             lru |-> w, bytes |-> n]
    BY <1>1, <2>1
  <2> QED
    BY <2>2 DEF w, n
<1> HIDE DEF u
<1>4. Recorded(u) /\ u.file = st.file
  BY <1>2 DEF Recorded
<1>5. /\ u.at = [j \in Keys |-> IF j \in {s} THEN "none" ELSE st.at[j]]
      /\ u.size = [j \in Keys |-> IF j \in {s} THEN 0 ELSE st.size[j]]
  BY <1>2 DEF Books
<1>6. u.lru \in Orders(Keys) /\ Listed(u.lru) = Listed(st.lru) \ {s}
  BY <1>2, WithoutOrder DEF Books
<1>7. u.bytes = st.bytes - TotalOf(st, {s})
  <2>1. TotalOf(st, {s}) = st.size[s]
    BY SumOne DEF Books, TotalOf
  <2> QED
    BY <1>2, <2>1
<1>8. Books(u)
  BY <1>4, <1>5, <1>6, <1>7, DroppedBooks
<1>9. /\ Books(Reindexed(u, t, name))
      /\ \A X : Exact(u, X) => Exact(Reindexed(u, t, name), X \ {t})
  BY <1>4, <1>8, ReindexedBooks
<1>10. ASSUME Exact(st, {s, t}) PROVE Exact(u, {t})
  <2> SUFFICES ASSUME NEW k \in Keys \ {t}, InPlace(u, k)
               PROVE  u.size[k] = SizeOf(u.file[<<k, u.at[k]>>])
    BY DEF Exact
  <2>1. k # s
    BY <1>5 DEF InPlace
  <2>2. u.at[k] = st.at[k] /\ u.size[k] = st.size[k]
    BY <1>5, <2>1
  <2>3. InPlace(st, k)
    BY <1>4, <2>2 DEF InPlace, Exists
  <2> QED
    BY <1>4, <1>10, <2>1, <2>2, <2>3 DEF Exact
<1>11. {t} \ {t} = {}
  OBVIOUS
<1>12. Exact(st, {s, t}) => Exact(Reindexed(u, t, name), {})
  BY <1>9, <1>10, <1>11
<1> QED
  BY <1>3, <1>9, <1>12

\* The books a process opens with.
LEMMA IndexBuiltBooks ==
  ASSUME NEW file \in [Files -> Good], NEW F, IndexBuilt(file, F)
  PROVE  Books(store') /\ Exact(store', {})
<1> DEFINE Has(k, n) == file[<<k, n>>].state = "intact" /\ k \notin EphKeys \cup Sessions
           known     == {k \in Keys : \E n \in Names : Has(k, n)}
           Stale(at) == {f \in known \X Names : Has(f[1], f[2]) /\ at[f[1]] # f[2]}
<1>1. PICK at \in [known -> Names], rank \in [known -> 1 .. Cardinality(known)] :
        /\ LET s      == [file  |-> Unlinked(file, Stale(at), F),
                          at    |-> [k \in Keys |-> IF k \in known THEN at[k] ELSE "none"],
                          size  |-> [k \in Keys |-> IF k \in known
                                       THEN SizeOf(file[<<k, at[k]>>]) ELSE 0],
                          lru   |-> Ranked(Keys, rank), bytes |-> 0]
               newest == {k \in known : rank[k] = Cardinality(known)}
           IN store' = Evict([s EXCEPT !.bytes = TotalOf(s, known)], newest, budget, F)
        /\ \A k, j \in known : rank[j] = rank[k] => j = k
  BY DEF IndexBuilt
<1> DEFINE s == [file  |-> Unlinked(file, Stale(at), F),
                 at    |-> [k \in Keys |-> IF k \in known THEN at[k] ELSE "none"],
                 size  |-> [k \in Keys |-> IF k \in known
                              THEN SizeOf(file[<<k, at[k]>>]) ELSE 0],
                 lru   |-> Ranked(Keys, rank), bytes |-> 0]
           r == [s EXCEPT !.bytes = TotalOf(s, known)]
<1>2. PICK newest : store' = Evict(r, newest, budget, F)
  BY <1>1
<1>3. /\ r.file = Unlinked(file, Stale(at), F)
      /\ r.at = [k \in Keys |-> IF k \in known THEN at[k] ELSE "none"]
      /\ r.size = [k \in Keys |-> IF k \in known THEN SizeOf(file[<<k, at[k]>>]) ELSE 0]
      /\ r.lru = Ranked(Keys, rank)
      /\ r.bytes = Sum(r.size, known) /\ Recorded(r)
  <2> DEFINE lists == Unlinked(file, Stale(at), F)
             points == [k \in Keys |-> IF k \in known THEN at[k] ELSE "none"]
             sizes == [k \in Keys |-> IF k \in known THEN SizeOf(file[<<k, at[k]>>]) ELSE 0]
             queue == Ranked(Keys, rank)
             total == TotalOf(s, known)
  <2>1. s = [file |-> lists, at |-> points, size |-> sizes, lru |-> queue, bytes |-> 0]
    OBVIOUS
  <2>2. r = [s EXCEPT !.bytes = total]
    OBVIOUS
  <2> HIDE DEF lists, points, sizes, queue, total, s, r
  <2>3. r = [file |-> lists, at |-> points, size |-> sizes, lru |-> queue, bytes |-> total]
    BY <2>1, <2>2
  <2>4. s.size = sizes
    BY <2>1
  <2>5. /\ r.file = lists /\ r.at = points /\ r.size = sizes /\ r.lru = queue
        /\ r.bytes = total /\ Recorded(r)
    BY <2>3 DEF Recorded
  <2>6. total = Sum(sizes, known)
    BY <2>4 DEF total, TotalOf
  <2> QED
    BY <2>5, <2>6 DEF lists, points, sizes, queue
<1>4. known \in SUBSET Keys
  OBVIOUS
<1>5. \A k \in known : ~(<<k, at[k]>> \in Stale(at))
  OBVIOUS
<1> HIDE DEF r, s, Stale, known
<1>6. \A k \in known : at[k] \in Names /\ at[k] # "none" /\ <<k, at[k]>> \in Files
  BY <1>4 DEF Names, Files
<1>7. \A k \in known : SizeOf(file[<<k, at[k]>>]) \in Nat
  BY <1>6, SizeNat
<1>8. /\ r.at \in [Keys -> Names \cup {"none"}] /\ r.size \in [Keys -> Nat]
      /\ \A k \in Keys : /\ r.at[k] = "none" <=> k \notin known
                         /\ r.at[k] = "none" => r.size[k] = 0
  BY <1>3, <1>4, <1>6, <1>7 DEF Names
<1>9. IsFiniteSet(known) /\ Cardinality(known) \in Nat
  BY <1>4, PoolAssumption, FS_Subset, FS_CardinalityType
<1>10. r.lru \in Orders(Keys) /\ Listed(r.lru) = known
  <2> DEFINE n == Cardinality(known)
  <2>1. n \in Nat /\ rank \in [known -> 1 .. n] /\ \A i, j \in known : rank[i] = rank[j] => i = j
    BY <1>1, <1>9
  <2> HIDE DEF n
  <2>2. Ranked(Keys, rank) \in Orders(Keys) /\ Listed(Ranked(Keys, rank)) = known
    BY <1>4, <2>1, RankedOrder
  <2> QED
    BY <1>3, <2>2
<1>11. Indexed(r) = known
  BY <1>4, <1>8 DEF Indexed
<1>12. r.bytes = TotalOf(r, Keys)
  <2> DEFINE R == Keys \ known
  <2>1. IsFiniteSet(R) /\ R \cap known = {} /\ known \cup R = Keys /\ IsFiniteSet(known)
        /\ (\A k \in known \cup R : r.size[k] \in Nat) /\ (\A k \in R : r.size[k] = 0 /\ r.size[k] \in Nat)
    BY <1>4, <1>8, <1>9, PoolAssumption, FS_Difference
  <2> HIDE DEF R
  <2>2. Sum(r.size, known \cup R) = Sum(r.size, known) + Sum(r.size, R) /\ Sum(r.size, known) \in Nat
    BY <2>1, SumSplit
  <2>3. Sum(r.size, R) = 0
    BY <2>1, SumZero
  <2>4. Sum(r.size, known \cup R) = Sum(r.size, Keys)
    BY <2>1, Zenon
  <2>5. Sum(r.size, known) = Sum(r.size, known \cup R)
    BY <2>2, <2>3
  <2> QED
    BY <1>3, <2>4, <2>5 DEF TotalOf
<1>13. Books(r)
  BY <1>3, <1>8, <1>10, <1>11, <1>12 DEF Books
<1>14. Exact(r, {})
  <2> SUFFICES ASSUME NEW k \in Keys, InPlace(r, k) PROVE r.size[k] = SizeOf(r.file[<<k, r.at[k]>>])
    BY DEF Exact
  <2>1. k \in known /\ r.at[k] = at[k] /\ r.size[k] = SizeOf(file[<<k, at[k]>>])
    BY <1>3, <1>8 DEF InPlace
  <2>2. r.file[<<k, at[k]>>] = file[<<k, at[k]>>]
    BY <1>3, <1>5, <1>6, <2>1, UnlinkedGood
  <2> QED
    BY <2>1, <2>2
<1>15. Books(store') /\ KeptEntries(r, store')
  BY <1>2, <1>13, EvictBooks
<1> QED
  BY <1>13, <1>14, <1>15, KeptExact

BooksInv == Books(store) /\ (up /\ faults = 0 => Exact(store, {}))

\* A step that ends in a removal.
LEMMA KeptKeeps ==
  ASSUME NEW s, Books(s), up' /\ faults' = 0 => Exact(s, {}), Books(store'), KeptEntries(s, store')
  PROVE  BooksInv'
<1>1. Books(store)'
  OBVIOUS
<1>2. (up /\ faults = 0 => Exact(store, {}))'
  BY KeptExact
<1> QED
  BY <1>1, <1>2 DEF BooksInv

\* A store that is left as it was, by a step of a running process.
LEMMA StillExact ==
  ASSUME BooksInv, StoreInv, up, faults' \in Nat, faults <= faults'
  PROVE  Books(store) /\ (up' /\ faults' = 0 => Exact(store, {}))
BY DEF BooksInv, StoreInv

LEMMA SameKeeps ==
  ASSUME BooksInv, StoreInv, up, faults' \in Nat, faults <= faults', store' = store
  PROVE  BooksInv'
<1>1. Books(store) /\ (up' /\ faults' = 0 => Exact(store, {}))
  BY StillExact
<1>2. KeptEntries(store, store')
  BY SelfKept
<1> QED
  BY <1>1, <1>2, KeptKeeps

\* Files written under the keys of X alone leave the other charges right.
LEMMA ElsewhereExact ==
  ASSUME NEW s, Books(s), NEW w, NEW X,
         \A j \in Keys \ X : /\ w.at[j] = s.at[j] /\ w.size[j] = s.size[j]
                             /\ \A n \in Names : w.file[<<j, n>>] = s.file[<<j, n>>],
         Exact(s, {})
  PROVE  Exact(w, X)
<1> SUFFICES ASSUME NEW j \in Keys \ X, InPlace(w, j)
             PROVE  w.size[j] = SizeOf(w.file[<<j, w.at[j]>>])
  BY DEF Exact
<1>1. w.at[j] # "none" /\ w.at[j] = s.at[j] /\ w.at[j] \in Names
  BY DEF InPlace, Books
<1>2. w.file[<<j, w.at[j]>>] = s.file[<<j, s.at[j]>>] /\ w.size[j] = s.size[j]
  BY <1>1
<1> QED
  BY <1>1, <1>2 DEF Exact, InPlace, Exists

LEMMA ElsewhereOne ==
  ASSUME NEW s, Books(s), NEW k, NEW v, v.at = s.at, v.size = s.size,
         \A j \in Keys \ {k} : \A m \in Names : v.file[<<j, m>>] = s.file[<<j, m>>]
  PROVE  Exact(s, {}) => Exact(v, {k})
<1> SUFFICES ASSUME Exact(s, {}) PROVE Exact(v, {k})
  OBVIOUS
<1>1. \A j \in Keys \ {k} : /\ v.at[j] = s.at[j] /\ v.size[j] = s.size[j]
                               /\ \A m \in Names : v.file[<<j, m>>] = s.file[<<j, m>>]
  OBVIOUS
<1> QED
  BY <1>1, ElsewhereExact

LEMMA MarkBooks ==
  ASSUME BooksInv, StoreInv, up, NEW k \in Held, MarkSessionScoped(k)
  PROVE  BooksInv'
<1> DEFINE file == [f \in Files |-> IF f[1] = k /\ store.file[f].state # "absent"
                                    THEN [store.file[f] EXCEPT !.priv = TRUE] ELSE store.file[f]]
           s == [store EXCEPT !.file = file]
<1>1. Promised(store, k) = s
  BY DEF Promised
<1>2. StoreOK(store) /\ faults \in Nat /\ k \in Keys /\ Books(store)
  BY DEF StoreInv, Sane, Held, BooksInv
<1>3. \A f \in Files : SizeOf(file[f]) = SizeOf(store.file[f])
                       /\ file[f].state = store.file[f].state
  <2> TAKE f \in Files
  <2>1. store.file[f] \in Bundle
    BY <1>2 DEF StoreOK, Good
  <2>2. /\ file[f].state = store.file[f].state /\ file[f].pages = store.file[f].pages
        /\ file[f].ready = store.file[f].ready
    BY <2>1 DEF Bundle
  <2> HIDE DEF file
  <2> QED
    BY <2>2 DEF SizeOf
<1> HIDE DEF file
<1>4. Books(s) /\ s.file = file /\ s.at = store.at /\ s.size = store.size
  BY <1>2, Refiled
<1> HIDE DEF s
<1>5. Exact(store, {}) => Exact(s, {})
  <2> SUFFICES ASSUME Exact(store, {}), NEW j \in Keys, InPlace(s, j)
               PROVE  s.size[j] = SizeOf(s.file[<<j, s.at[j]>>])
    BY DEF Exact
  <2>1. <<j, s.at[j]>> \in Files
    BY <1>4 DEF InPlace, Books, Files
  <2>2. InPlace(store, j)
    BY <1>3, <1>4, <2>1 DEF InPlace, Exists
  <2> QED
    BY <1>3, <1>4, <2>1, <2>2 DEF Exact
<1>6. CASE store' = s /\ UNCHANGED faults
  <2>1. up' /\ faults' = 0 => Exact(s, {})
    BY <1>5, <1>6, StillExact, <1>2
  <2>2. KeptEntries(s, store')
    BY <1>6, SelfKept
  <2> QED
    BY <1>4, <1>6, <2>1, <2>2, KeptKeeps
<1>7. ASSUME NEW F \in StuckSets, store' = Purge(s, k, F), Spend(1 + Cardinality(F))
      PROVE  BooksInv'
  <2>1. faults' # 0
    BY <1>2, <1>7, StuckFinite DEF Spend
  <2>2. Books(store') /\ KeptEntries(s, store')
    BY <1>2, <1>4, <1>7, PurgeBooks
  <2> QED
    BY <1>4, <2>1, <2>2, KeptKeeps
<1> QED
  BY <1>1, <1>6, <1>7 DEF MarkSessionScoped

LEMMA DropsBooks ==
  ASSUME IInv, BooksInv, StoreInv, NEW l \in Leases,
         DropUnreadable(l) \/ WriteRefused(l) \/ PurgeUnpublished(l) \/ PublishRefused(l)
  PROVE  BooksInv'
<1> DEFINE k == lease[l].key
<1>1. Live(l) /\ k \in Keys /\ up /\ faults \in Nat /\ Books(store)
  BY LivePins DEF DropUnreadable, WriteRefused, PurgeUnpublished, PublishRefused, CanWrite,
                  Open, Live, StoreInv, BooksInv
<1>2. PICK F \in StuckSets :
        /\ store' \in {store, Forget(store, k, F), Purge(store, k, F)}
        /\ Spend(Cardinality(F)) \/ Spend(1 + Cardinality(F))
  BY DEF DropUnreadable, WriteRefused, PurgeUnpublished, PublishRefused
<1>3. faults' \in Nat /\ faults <= faults'
  BY <1>1, <1>2, Spent
<1>4. Books(store') /\ KeptEntries(store, store')
  BY <1>1, <1>2, SelfKept, ForgetBooks, PurgeBooks
<1>5. Books(store) /\ (up' /\ faults' = 0 => Exact(store, {}))
  BY <1>1, <1>3, StillExact
<1> QED
  BY <1>4, <1>5, KeptKeeps

LEMMA TouchBooks ==
  ASSUME IInv, BooksInv, StoreInv, NEW l \in Leases, Touch(l)
  PROVE  BooksInv'
<1> DEFINE k == lease[l].key
<1>1. /\ Live(l) /\ k \in Keys /\ up /\ faults \in Nat /\ StoreOK(store) /\ faults' = faults
      /\ store' = Reindexed(store, k, store.at[k]) /\ InPlace(store, k)
  BY LivePins DEF Touch, Open, Live, StoreInv, Sane, Intact
<1>2. store.at[k] \in Names /\ store.file[<<k, store.at[k]>>] \in Good
  BY <1>1 DEF InPlace, StoreOK, Files
<1>3. Books(store) /\ (up' /\ faults' = 0 => Exact(store, {}))
  BY <1>1, StillExact
<1>4. {} \ {k} = {}
  OBVIOUS
<1> HIDE DEF k
<1>5. Books(store') /\ (Exact(store, {}) => Exact(store', {} \ {k}))
  BY <1>1, <1>2, <1>3, ReindexedBooks
<1>6. KeptEntries(store', store')
  BY SelfKept
<1> QED
  BY <1>3, <1>4, <1>5 DEF BooksInv

\* After an error only the balance of the books is claimed.
LEMMA FaultyKeeps ==
  ASSUME Books(store'), faults' # 0
  PROVE  BooksInv'
<1>1. Books(store)'
  OBVIOUS
<1>2. (up /\ faults = 0 => Exact(store, {}))'
  OBVIOUS
<1> QED
  BY <1>1, <1>2 DEF BooksInv

\* The bundle of one key, rewritten where it lies.
LEMMA PathWritten ==
  ASSUME Books(store), StoreOK(store), NEW k \in Keys, NEW c \in Good
  PROVE  LET w == [store EXCEPT !.file[Path(store, k)] = c]
         IN /\ Books(w) /\ w.file[Path(store, k)] = c /\ w.at = store.at
            /\ w.file \in [Files -> Good] /\ w.file = [store.file EXCEPT ![Path(store, k)] = c]
            /\ Exact(store, {}) => Exact(w, {k})
<1> DEFINE n == Path(store, k)[2]
           file == [store.file EXCEPT ![Path(store, k)] = c]
           w == [store EXCEPT !.file = file]
<1>1. Path(store, k) = <<k, n>> /\ n \in Names /\ Path(store, k) \in Files
  BY PathFacts
<1>2. [store EXCEPT !.file[Path(store, k)] = c] = w
  OBVIOUS
<1> HIDE DEF n
<1>3. /\ file \in [Files -> Good] /\ file[Path(store, k)] = c
      /\ \A j \in Keys \ {k} : \A m \in Names : file[<<j, m>>] = store.file[<<j, m>>]
  BY <1>1 DEF StoreOK, Files
<1> HIDE DEF file
<1>4. Books(w) /\ w.file = file /\ w.at = store.at /\ w.size = store.size
  BY Refiled
<1> HIDE DEF w
<1>5. Exact(store, {}) => Exact(w, {k})
  BY <1>3, <1>4, ElsewhereOne
<1>6. /\ Books(w) /\ w.file[Path(store, k)] = c /\ w.at = store.at
      /\ w.file \in [Files -> Good] /\ w.file = [store.file EXCEPT ![Path(store, k)] = c]
      /\ Exact(store, {}) => Exact(w, {k})
  BY <1>3, <1>4, <1>5 DEF file
<1> QED
  BY <1>2, <1>6, Zenon

\* A bundle written and indexed again.
LEMMA AdmittedBooks ==
  ASSUME NEW w, Books(w), NEW k \in Keys, NEW name \in Names, w.file[<<k, name>>] \in Good,
         up' /\ faults' = 0 => Exact(w, {k}),
         NEW safe, NEW F, store' = Evict(Reindexed(w, k, name), safe, budget, F)
  PROVE  BooksInv'
<1> DEFINE r == Reindexed(w, k, name)
<1>1. {k} \ {k} = {}
  OBVIOUS
<1>2. Books(r) /\ (Exact(w, {k}) => Exact(r, {}))
  <2>1. Books(r) /\ (Exact(w, {k}) => Exact(r, {k} \ {k}))
    BY ReindexedBooks
  <2> QED
    BY <1>1, <2>1, Zenon
<1>3. store' = Evict(r, safe, budget, F)
  OBVIOUS
<1> HIDE DEF r
<1>4. Books(store') /\ KeptEntries(r, store')
  BY <1>2, <1>3, EvictBooks
<1> QED
  BY <1>2, <1>4, KeptKeeps

\* The writers of one bundle.
LEMMA PutBooks ==
  ASSUME IInv, StoreInv, BooksInv, NEW l \in Leases, NEW ps \in (SUBSET Pages) \ {{}}, PutMany(l, ps)
  PROVE  BooksInv'
<1> DEFINE k == lease[l].key
           f == Path(store, k)
           c == Appended(store.file[f], ps, k \in scoped)
           w == [store EXCEPT !.file[f] = c]
<1>1. up /\ k \in Keys /\ StoreOK(store) /\ faults \in Nat
  BY WriterFacts DEF PutMany
<1>2. PICK F \in StuckSets : /\ store' = Evict(Reindexed(w, k, f[2]), Spared({k}), budget, F)
                             /\ Spend(Cardinality(F))
  BY DEF PutMany, Admitted
<1>3. faults' \in Nat /\ faults <= faults'
  BY <1>1, <1>2, Spent
<1>4. store.file[f] \in Good /\ f = <<k, f[2]>> /\ f[2] \in Names
  BY <1>1, PathFacts
<1>5. c \in Good
  <2>1. (k \in scoped) \in BOOLEAN
    OBVIOUS
  <2> QED
    BY <1>4, <2>1, AppendedGood
<1>6. Books(store) /\ (up' /\ faults' = 0 => Exact(store, {}))
  BY <1>1, <1>3, StillExact
<1> HIDE DEF c
<1>7. Books(w) /\ w.file[f] = c /\ (Exact(store, {}) => Exact(w, {k}))
  BY <1>1, <1>5, <1>6, PathWritten
<1> HIDE DEF w
<1>8. w.file[<<k, f[2]>>] \in Good
  BY <1>4, <1>5, <1>7
<1> HIDE DEF f, k
<1> QED
  BY <1>1, <1>2, <1>4, <1>6, <1>7, <1>8, AdmittedBooks

LEMMA PutFailedBooks ==
  ASSUME IInv, StoreInv, BooksInv, NEW l \in Leases, PutFailed(l)
  PROVE  BooksInv'
<1> DEFINE k == lease[l].key
           f == Path(store, k)
           b == store.file[f]
<1>1. k \in Keys /\ StoreOK(store) /\ faults \in Nat /\ Books(store)
  BY WriterFacts DEF PutFailed, BooksInv
<1>2. faults' # 0
  BY <1>1 DEF PutFailed, Spend
<1>3. b \in Good
  BY <1>1, PathFacts
<1>4. PICK c : /\ \/ c = b
                  \/ c = Garbled(b, k \in scoped)
                  \/ \E ps \in SUBSET Pages : c = Appended(b, ps, k \in scoped)
               /\ store' = [store EXCEPT !.file[f] = c] \/ store' = store
  BY DEF PutFailed
<1>5. c \in Good
  <2>1. (k \in scoped) \in BOOLEAN
    OBVIOUS
  <2>2. CASE c = b
    BY <1>3, <2>2
  <2>3. CASE c = Garbled(b, k \in scoped)
    BY <1>3, <2>1, <2>3, GarbledGood
  <2>4. ASSUME NEW ps \in SUBSET Pages, c = Appended(b, ps, k \in scoped)
        PROVE  c \in Good
    BY <1>3, <2>1, <2>4, AppendedGood
  <2> QED
    BY <1>4, <2>2, <2>3, <2>4
<1>6. Books([store EXCEPT !.file[f] = c])
  BY <1>1, <1>5, PathWritten
<1>7. Books(store')
  BY <1>1, <1>4, <1>6, Zenon
<1> QED
  BY <1>2, <1>7, FaultyKeeps

\* The rename moves a bundle within its own key.
LEMMA RenamedBooks ==
  ASSUME NEW s, Books(s), s.file \in [Files -> Good], NEW k \in Keys
  PROVE  /\ Books(Renamed(s, k)) /\ Renamed(s, k).file \in [Files -> Good]
         /\ Exact(s, {k}) => Exact(Renamed(s, k), {k})
<1>1. CASE s.at[k] = "final"
  BY <1>1 DEF Renamed
<1>2. CASE s.at[k] # "final"
  <2> DEFINE file == [s.file EXCEPT ![<<k, "final">>] = s.file[<<k, "partial">>],
                                    ![<<k, "partial">>] = Absent]
             w == [s EXCEPT !.file = file]
  <2>1. Renamed(s, k) = w
    BY <1>2 DEF Renamed
  <2>2. <<k, "final">> \in Files /\ <<k, "partial">> \in Files
    BY DEF Files, Names
  <2>3. file \in [Files -> Good]
    BY <2>2, AbsentGood
  <2>4. \A j \in Keys \ {k} : \A n \in Names : file[<<j, n>>] = s.file[<<j, n>>]
    BY <2>2 DEF Files
  <2> HIDE DEF file
  <2>5. Books(w) /\ w.file = file /\ w.at = s.at /\ w.size = s.size
    BY Refiled
  <2> HIDE DEF w
  <2>6. Exact(s, {k}) => Exact(w, {k})
    <3> SUFFICES ASSUME Exact(s, {k}), NEW j \in Keys \ {k}, InPlace(w, j)
                 PROVE  w.size[j] = SizeOf(w.file[<<j, w.at[j]>>])
      BY DEF Exact
    <3>1. w.at[j] \in Names
      BY <2>5 DEF InPlace, Books
    <3>2. w.file[<<j, w.at[j]>>] = s.file[<<j, s.at[j]>>]
      BY <2>4, <2>5, <3>1
    <3> QED
      BY <2>5, <3>2 DEF Exact, InPlace, Exists
  <2> QED
    BY <2>1, <2>3, <2>5, <2>6
<1> QED
  BY <1>1, <1>2

\* The stamped bundle of a complete document.
LEMMA StampBooks ==
  ASSUME StoreInv, Books(store), NEW k \in Keys, Complete(k)
  PROVE  /\ Books(Stamp(store, k)) /\ Stamp(store, k).file \in [Files -> Good]
         /\ Exact(store, {}) => Exact(Stamp(store, k), {k})
<1> DEFINE c == [store.file[Path(store, k)] EXCEPT !.ready = Kind(k)]
           w == [store EXCEPT !.file[Path(store, k)] = c]
<1>1. StoreOK(store) /\ c \in Good
  BY StampFacts DEF StoreInv, Sane
<1>2. Stamp(store, k) = w
  BY DEF Stamp
<1> HIDE DEF c
<1>3. /\ Books(w) /\ w.file \in [Files -> Good] /\ (Exact(store, {}) => Exact(w, {k}))
  BY <1>1, PathWritten
<1> HIDE DEF w
<1> QED
  BY <1>2, <1>3

LEMMA PublishBooks ==
  ASSUME IInv, StoreInv, BooksInv, NEW l \in Leases,
         Publish(l) \/ PublishUnrenamed(l) \/ PublishLost(l) \/ PublishFailed(l)
  PROVE  BooksInv'
<1> DEFINE k == lease[l].key
           t == Stamp(store, k)
           w == Renamed(t, k)
<1>1. up /\ k \in Keys /\ StoreOK(store) /\ faults \in Nat /\ Complete(k) /\ Books(store)
  BY WriterFacts DEF Publish, PublishUnrenamed, PublishLost, PublishFailed, BooksInv
<1>2. Books(t) /\ t.file \in [Files -> Good] /\ (Exact(store, {}) => Exact(t, {k}))
  BY <1>1, StampBooks
<1> HIDE DEF t
<1>3. Books(w) /\ w.file \in [Files -> Good] /\ (Exact(t, {k}) => Exact(w, {k}))
  BY <1>1, <1>2, RenamedBooks
<1>4. \A n \in Names : <<k, n>> \in Files
  BY <1>1 DEF Files
<1>5. "final" \in Names /\ "partial" \in Names
  BY DEF Names
<1>6. CASE Publish(l)
  <2>1. PICK F \in StuckSets : /\ store' = Evict(Reindexed(w, k, "final"), Spared({k}), budget, F)
                               /\ Spend(Cardinality(F))
    BY <1>6 DEF Publish, Admitted, t
  <2>2. faults' \in Nat /\ faults <= faults'
    BY <1>1, <2>1, Spent
  <2>3. up' /\ faults' = 0 => Exact(store, {})
    BY <1>1, <2>2, StillExact
  <2> HIDE DEF w
  <2>4. (up' /\ faults' = 0 => Exact(w, {k})) /\ w.file[<<k, "final">>] \in Good
    BY <1>2, <1>3, <1>4, <1>5, <2>3
  <2> HIDE DEF k
  <2> QED
    BY <1>1, <1>3, <1>5, <2>1, <2>4, AdmittedBooks
<1>7. CASE PublishUnrenamed(l)
  <2>1. store' = Evict(Reindexed(t, k, "partial"), Spared({k}), budget, {}) /\ faults' = faults + 1
    BY <1>7 DEF PublishUnrenamed, Spend, t
  <2>2. faults' # 0 /\ t.file[<<k, "partial">>] \in Good
    BY <1>1, <1>2, <1>4, <1>5, <2>1
  <2> HIDE DEF k
  <2>3. Books(Reindexed(t, k, "partial"))
    BY <1>1, <1>2, <1>5, <2>2, ReindexedBooks
  <2>4. Books(store')
    BY <2>1, <2>3, EvictBooks
  <2> QED
    BY <2>2, <2>4, FaultyKeeps
<1>8. CASE PublishLost(l)
  <2>1. PICK F \in SUBSET {<<k, "final">>} : store' = Purge(w, k, F) /\ Spend(1 + Cardinality(F))
    BY <1>8 DEF PublishLost, t
  <2>2. Cardinality(F) \in Nat
    <3>1. IsFiniteSet({<<k, "final">>}) /\ F \subseteq {<<k, "final">>}
      BY FS_Singleton
    <3> QED
      BY <3>1, FS_Subset, FS_CardinalityType
  <2>3. faults' # 0
    BY <1>1, <2>1, <2>2 DEF Spend
  <2> HIDE DEF w
  <2>4. Books(store')
    BY <1>1, <1>3, <2>1, PurgeBooks
  <2> QED
    BY <2>3, <2>4, FaultyKeeps
<1>9. CASE PublishFailed(l)
  <2> DEFINE f == Path(store, k)
             c == Garbled(store.file[f], FALSE)
  <2>1. /\ faults' = faults + 1
        /\ store' = store \/ store' = [store EXCEPT !.file[f] = c]
    BY <1>9 DEF PublishFailed, Spend
  <2>2. c \in Good
    <3>1. store.file[f] \in Good
      BY <1>1, PathFacts
    <3> QED
      BY <3>1, GarbledGood
  <2> HIDE DEF c
  <2>3. Books([store EXCEPT !.file[f] = c])
    BY <1>1, <2>2, PathWritten
  <2>4. Books(store')
    BY <1>1, <2>1, <2>3, Zenon
  <2>5. faults' # 0
    BY <1>1, <2>1
  <2> QED
    BY <2>4, <2>5, FaultyKeeps
<1> QED
  BY <1>6, <1>7, <1>8, <1>9

\* A bundle that went from one key to another, and is indexed where it now lies.
LEMMA AdoptingBooks ==
  ASSUME Books(store), up' /\ faults' = 0 => Exact(store, {}),
         NEW s \in Keys, NEW t \in Keys, s # t, NEW name \in Names,
         NEW file, file[<<t, name>>] \in Good,
         \A j \in Keys \ {s, t} : \A n \in Names : file[<<j, n>>] = store.file[<<j, n>>],
         NEW u, u = [store EXCEPT !.file = file],
         NEW safe, NEW F, store' = Evict(Adopted(u, s, t, name), safe, budget, F)
  PROVE  BooksInv'
<1> DEFINE r == Adopted(u, s, t, name)
<1>1. Books(u) /\ u.file = file /\ u.at = store.at /\ u.size = store.size
  <2>1. /\ Books([store EXCEPT !.file = file]) /\ [store EXCEPT !.file = file].file = file
        /\ [store EXCEPT !.file = file].at = store.at
        /\ [store EXCEPT !.file = file].size = store.size
    BY Refiled
  <2> QED
    BY <2>1, Zenon
<1>2. Exact(store, {}) => Exact(u, {s, t})
  <2> SUFFICES ASSUME Exact(store, {}), NEW j \in Keys \ {s, t}, InPlace(u, j)
               PROVE  u.size[j] = SizeOf(u.file[<<j, u.at[j]>>])
    BY DEF Exact
  <2>1. u.at[j] \in Names
    BY <1>1 DEF InPlace, Books
  <2>2. u.file[<<j, u.at[j]>>] = store.file[<<j, store.at[j]>>]
    BY <1>1, <2>1
  <2> QED
    BY <1>1, <2>2 DEF Exact, InPlace, Exists
<1>3. u.file[<<t, name>>] \in Good
  BY <1>1
<1>4. Books(r) /\ (Exact(u, {s, t}) => Exact(r, {}))
  BY <1>1, <1>3, AdoptedBooks
<1>5. store' = Evict(r, safe, budget, F)
  OBVIOUS
<1> HIDE DEF r
<1>6. Books(store') /\ KeptEntries(r, store')
  BY <1>4, <1>5, EvictBooks
<1> QED
  BY <1>2, <1>4, <1>6, KeptKeeps

\* The promotions.
LEMMA MoveBooks ==
  ASSUME IInv, StoreInv, BooksInv, NEW l \in Leases, NEW t \in ExtKeys, PromoteMove(l, t)
  PROVE  BooksInv'
<1> DEFINE s == lease[l].key
           g == <<t, "partial">>
           b == store.file[Path(store, s)]
           To(c) == [store EXCEPT !.file = [@ EXCEPT ![Path(store, s)] = Absent, ![g] = c]]
<1>1. CanPromote(l, t) /\ AdoptIdentity(l, t)
  BY DEF PromoteMove
<1>2. PICK F \in StuckSets, keep \in {0, 1} :
        /\ store' = Evict(Adopted(To(IF keep = 1 THEN b ELSE Retargeted(b, t)), s, t, "partial"),
                          SparedAfter(s, t), budget, F)
        /\ Spend(keep + Cardinality(F))
  BY DEF PromoteMove
<1> DEFINE c == IF keep = 1 THEN b ELSE Retargeted(b, t)
           file == [store.file EXCEPT ![Path(store, s)] = Absent, ![g] = c]
           u == To(c)
<1>3. up /\ s \in Keys /\ t \in Keys /\ t # s /\ StoreOK(store) /\ faults \in Nat
  BY <1>1, PromoterFacts
<1>4. faults' \in Nat /\ faults <= faults'
  BY <1>2, <1>3, StuckFinite DEF Spend
<1>5. Books(store) /\ (up' /\ faults' = 0 => Exact(store, {}))
  BY <1>3, <1>4, StillExact
<1>6. Path(store, s) = <<s, Path(store, s)[2]>> /\ g \in Files /\ b \in Good /\ "partial" \in Names
  BY <1>3, PathFacts DEF Files, Names
<1>7. c \in Good
  BY <1>3, <1>6, RetargetedGood
<1>8. u = [store EXCEPT !.file = file]
  OBVIOUS
<1>9. store' = Evict(Adopted(u, s, t, "partial"), SparedAfter(s, t), budget, F)
  BY <1>2
<1> HIDE DEF c, u, b
<1>10. file[g] = c
  BY <1>3, <1>6 DEF StoreOK
<1>11. \A j \in Keys \ {s, t} : \A n \in Names : file[<<j, n>>] = store.file[<<j, n>>]
  <2> TAKE j \in Keys \ {s, t}
  <2>1. \A n \in Names : <<j, n>> \in Files /\ <<j, n>> # g /\ <<j, n>> # Path(store, s)
    BY <1>6 DEF Files
  <2> QED
    BY <1>3, <2>1 DEF StoreOK
<1> HIDE DEF file, s
<1>12. file[<<t, "partial">>] \in Good
  BY <1>7, <1>10
<1> QED
  BY <1>3, <1>5, <1>6, <1>8, <1>9, <1>11, <1>12, AdoptingBooks

LEMMA MergeBooks ==
  ASSUME IInv, StoreInv, BooksInv, NEW l \in Leases, NEW t \in ExtKeys, PromoteMerge(l, t)
  PROVE  BooksInv'
<1> DEFINE s     == lease[l].key
           ready == Intact(store, t) /\ Published(store.file[Path(store, t)], t)
           name  == IF ready THEN "final" ELSE "partial"
           out   == Merged(store.file[Path(store, t)], store.file[Path(store, s)], ready)
           gone  == {Path(store, t), Path(store, s)}
<1>1. CanPromote(l, t) /\ AdoptIdentity(l, t)
  BY DEF PromoteMerge
<1>2. PICK F \in StuckSets :
        /\ store' = Evict(
             Adopted([store EXCEPT !.file = [Unlinked(@, gone, F) EXCEPT ![<<t, name>>] = out]],
                     s, t, name), SparedAfter(s, t), budget, F)
        /\ Spend(Cardinality(F))
  BY DEF PromoteMerge
<1> DEFINE v == Unlinked(store.file, gone, F)
           file == [v EXCEPT ![<<t, name>>] = out]
           u == [store EXCEPT !.file = file]
<1>3. up /\ s \in Keys /\ t \in Keys /\ t # s /\ StoreOK(store) /\ faults \in Nat
  BY <1>1, PromoterFacts
<1>4. faults' \in Nat /\ faults <= faults'
  BY <1>2, <1>3, Spent
<1>5. Books(store) /\ (up' /\ faults' = 0 => Exact(store, {}))
  BY <1>3, <1>4, StillExact
<1>6. /\ Path(store, s) = <<s, Path(store, s)[2]>> /\ Path(store, t) = <<t, Path(store, t)[2]>>
      /\ store.file[Path(store, t)] \in Good /\ store.file[Path(store, s)] \in Good
      /\ name \in Names /\ <<t, name>> \in Files
  BY <1>3, PathFacts DEF Files, Names
<1>7. out \in Good
  <2>1. ready \in BOOLEAN
    BY DEF Intact, InPlace, Published
  <2> HIDE DEF ready
  <2> QED
    BY <1>6, <2>1, MergedGood
<1>8. store' = Evict(Adopted(u, s, t, name), SparedAfter(s, t), budget, F)
  BY <1>2
<1>9. v \in [Files -> Good] /\ \A f \in Files : f \notin gone => v[f] = store.file[f]
  BY <1>3, UnlinkedGood DEF StoreOK
<1> HIDE DEF out, v, ready, name
<1>10. file[<<t, name>>] \in Good
  BY <1>6, <1>7, <1>9
<1>11. \A j \in Keys \ {s, t} : \A n \in Names : file[<<j, n>>] = store.file[<<j, n>>]
  <2> TAKE j \in Keys \ {s, t}
  <2>1. \A n \in Names : <<j, n>> \in Files /\ <<j, n>> # <<t, name>> /\ <<j, n>> \notin gone
    BY <1>6 DEF Files
  <2> QED
    BY <1>9, <2>1
<1> HIDE DEF file
<1>12. u = [store EXCEPT !.file = file]
  OBVIOUS
<1> HIDE DEF s, u, gone
<1> QED
  BY <1>3, <1>5, <1>6, <1>8, <1>10, <1>11, <1>12, AdoptingBooks

LEMMA PromoteBooks ==
  ASSUME IInv, StoreInv, BooksInv, NEW l \in Leases, NEW t \in ExtKeys,
         \/ PromoteVanished(l, t) \/ PromoteMove(l, t)
         \/ PromoteMerge(l, t) \/ PromoteFailed(l, t)
  PROVE  BooksInv'
<1> DEFINE s == lease[l].key
<1>1. CanPromote(l, t)
  BY DEF PromoteVanished, PromoteMove, PromoteMerge, PromoteFailed
<1>2. up /\ s \in Keys /\ t \in Keys /\ StoreOK(store) /\ faults \in Nat /\ Books(store)
  BY <1>1, PromoterFacts DEF BooksInv
<1>3. CASE PromoteVanished(l, t)
  <2>1. store' = Forget(store, s, {}) /\ faults' = faults
    BY <1>3 DEF PromoteVanished
  <2>2. Books(store') /\ KeptEntries(store, store')
    BY <1>2, <2>1, ForgetBooks
  <2>3. up' /\ faults' = 0 => Exact(store, {})
    BY <1>2, <2>1, StillExact
  <2> QED
    BY <1>2, <2>2, <2>3, KeptKeeps
<1>4. CASE PromoteFailed(l, t)
  <2>1. CASE UNCHANGED <<store, faults>>
    BY <1>2, <2>1, SameKeeps
  <2>2. CASE Spend(1) /\ UNCHANGED store
    <3>1. faults' # 0
      BY <1>2, <2>2 DEF Spend
    <3> QED
      BY <1>2, <2>2, <3>1, FaultyKeeps
  <2>3. ASSUME NEW file, Spend(1), store' = [store EXCEPT !.file = file]
        PROVE  BooksInv'
    <3>1. faults' # 0
      BY <1>2, <2>3 DEF Spend
    <3>2. Books([store EXCEPT !.file = file])
      BY <1>2, Refiled
    <3> QED
      BY <2>3, <3>1, <3>2, FaultyKeeps
  <2> QED
    BY <1>4, <2>1, <2>2, <2>3 DEF PromoteFailed
<1> QED
  BY <1>3, <1>4, MoveBooks, MergeBooks

\* The release, the settings page and the operating system.
LEMMA CloseBooks ==
  ASSUME IInv, StoreInv, BooksInv, NEW l \in Leases, Close(l)
  PROVE  BooksInv'
<1> DEFINE k    == lease[l].key
           last == k \in scoped /\ active[k] = 1
           spared == {j \in Keys : active'[j] > 0 \/ building[j] > 0}
<1>1. Live(l) /\ up /\ k \in Keys /\ faults \in Nat
  BY LivePins DEF Close, Live, StoreInv
<1>2. PICK F \in StuckSets :
        LET purged == IF last THEN Purge(store, k, F) ELSE store
        IN /\ store' = IF strict THEN Evict(purged, spared, budget, F) ELSE purged
           /\ Spend(Cardinality(F))
  BY DEF Close
<1> DEFINE r == IF last THEN Purge(store, k, F) ELSE store
<1>3. faults' \in Nat /\ faults <= faults'
  BY <1>1, <1>2, Spent
<1>4. Books(store) /\ (up' /\ faults' = 0 => Exact(store, {}))
  BY <1>1, <1>3, StillExact
<1>5. Books(r) /\ KeptEntries(store, r)
  BY <1>1, <1>4, PurgeBooks, SelfKept
<1>6. store' = IF strict THEN Evict(r, spared, budget, F) ELSE r
  BY <1>2
<1> HIDE DEF r, spared
<1>7. up' /\ faults' = 0 => Exact(r, {})
  BY <1>4, <1>5, KeptExact
<1>8. Books(store') /\ KeptEntries(r, store')
  BY <1>5, <1>6, EvictBooks, SelfKept
<1> QED
  BY <1>5, <1>7, <1>8, KeptKeeps

LEMMA ResizeBooks ==
  ASSUME IInv, StoreInv, BooksInv, NEW b \in Budgets, Resize(b)
  PROVE  BooksInv'
<1>1. up /\ faults \in Nat
  BY DEF Resize, StoreInv
<1>2. PICK F \in StuckSets : store' = Evict(store, Spared({}), b, F) /\ Spend(Cardinality(F))
  BY DEF Resize
<1>3. faults' \in Nat /\ faults <= faults'
  BY <1>1, <1>2, Spent
<1>4. Books(store) /\ (up' /\ faults' = 0 => Exact(store, {}))
  BY <1>1, <1>3, StillExact
<1>5. Books(store') /\ KeptEntries(store, store')
  BY <1>2, <1>4, EvictBooks
<1> QED
  BY <1>4, <1>5, KeptKeeps

LEMMA ClearBooks ==
  ASSUME IInv, StoreInv, BooksInv, Clear
  PROVE  BooksInv'
<1>1. up /\ faults \in Nat
  BY DEF Clear, StoreInv
<1>2. PICK F \in StuckSets, swept \in SUBSET Files :
        /\ store' = [ForgetAll(store, F) EXCEPT !.file = Unlinked(@, swept, {})]
        /\ Spend(Cardinality(F))
  BY DEF Clear
<1> DEFINE s == ForgetAll(store, F)
           file == Unlinked(s.file, swept, {})
<1>3. faults' \in Nat /\ faults <= faults'
  BY <1>1, <1>2, Spent
<1>4. Books(store) /\ (up' /\ faults' = 0 => Exact(store, {}))
  BY <1>1, <1>3, StillExact
<1>5. Books(s) /\ KeptEntries(store, s)
  BY <1>4, ForgetAllBooks
<1>6. store' = [s EXCEPT !.file = file]
  BY <1>2
<1> HIDE DEF s
<1>7. \A k \in Keys, n \in Names : file[<<k, n>>] \in {s.file[<<k, n>>], Absent}
  BY UnlinkedEither
<1> HIDE DEF file
<1>8. Books(store') /\ KeptEntries(s, store')
  <2>1. /\ Books([s EXCEPT !.file = file]) /\ [s EXCEPT !.file = file].file = file
        /\ [s EXCEPT !.file = file].at = s.at /\ [s EXCEPT !.file = file].size = s.size
    BY <1>5, Refiled
  <2>2. Books(store') /\ store'.file = file /\ store'.at = s.at /\ store'.size = s.size
    BY <1>6, <2>1, Zenon
  <2> QED
    BY <1>7, <2>2 DEF KeptEntries
<1>9. up' /\ faults' = 0 => Exact(s, {})
  BY <1>4, <1>5, KeptExact
<1> QED
  BY <1>5, <1>8, <1>9, KeptKeeps

LEMMA OsPurgeBooks ==
  ASSUME StoreInv, BooksInv, OsPurge
  PROVE  BooksInv'
<1> DEFINE file == [f \in Files |-> Absent]
<1>1. up /\ faults \in Nat /\ faults' = faults
  BY DEF OsPurge, StoreInv
<1>2. Books(store) /\ (up' /\ faults' = 0 => Exact(store, {}))
  BY <1>1, StillExact
<1>3. store' = [store EXCEPT !.file = file]
  BY DEF OsPurge
<1>4. \A k \in Keys, n \in Names : file[<<k, n>>] = Absent
  BY DEF Files
<1> HIDE DEF file
<1>5. Books(store') /\ store'.file = file /\ store'.at = store.at /\ store'.size = store.size
  <2>1. /\ Books([store EXCEPT !.file = file]) /\ [store EXCEPT !.file = file].file = file
        /\ [store EXCEPT !.file = file].at = store.at
        /\ [store EXCEPT !.file = file].size = store.size
    BY <1>2, Refiled
  <2> QED
    BY <1>3, <2>1, Zenon
<1>6. KeptEntries(store, store')
  BY <1>4, <1>5 DEF KeptEntries
<1> QED
  BY <1>2, <1>5, <1>6, KeptKeeps

\* The books of a new process are empty, whatever lies in the directory.
LEMMA NewBooks ==
  ASSUME NEW file
  PROVE  Books([NewStore EXCEPT !.file = file])
<1> DEFINE r == [NewStore EXCEPT !.file = file]
           z == [k \in Keys |-> 0]
           q == Empty(Keys)
           at == [k \in Keys |-> "none"]
<1>1. r = [file |-> file, at |-> at, size |-> z, lru |-> q, bytes |-> 0]
  BY DEF NewStore
<1>2. Sum(z, Keys) = 0
  <2>1. \A k \in Keys : z[k] \in Nat /\ z[k] = 0
    OBVIOUS
  <2> HIDE DEF z
  <2> QED
    BY <2>1, PoolAssumption, SumZero
<1>3. q \in Orders(Keys) /\ Listed(q) = {}
  BY EmptyOrder
<1>4. at \in [Keys -> Names \cup {"none"}] /\ z \in [Keys -> Nat] /\ \A k \in Keys : at[k] = "none" /\ z[k] = 0
  OBVIOUS
<1> HIDE DEF r, z, q, at
<1>5. Recorded(r) /\ r.at = at /\ r.size = z /\ r.lru = q /\ r.bytes = 0
  BY <1>1 DEF Recorded
<1>6. Books(r)
  BY <1>2, <1>3, <1>4, <1>5 DEF Books, Indexed, TotalOf
<1> QED
  BY <1>6 DEF r

LEMMA CrashBooks ==
  ASSUME CrashStep
  PROVE  BooksInv'
<1>1. PICK file : store' = [NewStore EXCEPT !.file = file] /\ ~up'
  BY DEF CrashStep, Crash, CrashInWrite, CrashInPublish, CrashInRelease, CrashInPromote, Die
<1>2. Books(store')
  BY <1>1, NewBooks, Zenon
<1>3. Books(store)'
  BY <1>2
<1>4. (up /\ faults = 0 => Exact(store, {}))'
  BY <1>1
<1> QED
  BY <1>3, <1>4 DEF BooksInv

LEMMA ReconcileBooks ==
  ASSUME StoreInv, Reconcile
  PROVE  BooksInv'
<1>1. StoreOK(store)
  BY DEF StoreInv, Sane
<1>2. PICK F \in StuckSets, K \in SUBSET Keys :
        LET swept  == Swept(store.file, F)
            left   == Unlinked(swept, Doomed(swept, Sessions), F)
            file   == Recovered(left, K)
        IN K \subseteq Late(left) /\ IndexBuilt(file, F)
  BY DEF Reconcile
<1> DEFINE swept  == Swept(store.file, F)
           left   == Unlinked(swept, Doomed(swept, Sessions), F)
           file   == Recovered(left, K)
<1>3. K \subseteq Late(left) /\ IndexBuilt(file, F)
  BY <1>2
<1>4. swept \in [Files -> Good]
  BY <1>1, UnlinkedGood DEF Swept, StoreOK
<1> HIDE DEF swept
<1>5. left \in [Files -> Good]
  BY <1>4, UnlinkedGood
<1> HIDE DEF left
<1>6. file \in [Files -> Good]
  BY <1>3, <1>5, RecoveredFrom
<1> HIDE DEF file
<1>7. Books(store') /\ Exact(store', {})
  BY <1>3, <1>6, IndexBuiltBooks
<1>8. KeptEntries(store', store')
  BY SelfKept
<1> QED
  BY <1>7, <1>8, KeptKeeps

LEMMA InitBooks == Init => BooksInv
<1> SUFFICES ASSUME Init PROVE BooksInv
  OBVIOUS
<1> DEFINE file == [f \in Files |-> Absent]
<1>1. store = [NewStore EXCEPT !.file = file]
  BY DEF Init, NewStore
<1>2. \A k \in Keys : store.at[k] = "none"
  BY DEF Init, NewStore
<1> HIDE DEF file
<1>3. Books(store)
  BY <1>1, NewBooks, Zenon
<1>4. Exact(store, {})
  BY <1>2 DEF Exact, InPlace
<1> QED
  BY <1>3, <1>4 DEF BooksInv

LEMMA BooksStep == IInv /\ StoreInv /\ BooksInv /\ [Next]_vars => BooksInv'
<1> SUFFICES ASSUME IInv, StoreInv, BooksInv, [Next]_vars PROVE BooksInv'
  OBVIOUS
<1>0. faults \in Nat
  BY DEF StoreInv
<1>1. ASSUME NEW l \in Leases, NEW k \in Keys, NEW private \in BOOLEAN,
             OpenLease(l, k, private)
      PROVE  BooksInv'
  BY <1>0, <1>1, SameKeeps DEF OpenLease
<1>2. ASSUME NEW l \in Leases, MarkPrivate(l) \/ CloseMark(l) PROVE BooksInv'
  <2>1. Live(l) /\ up /\ MarkSessionScoped(lease[l].key)
    BY <1>2 DEF MarkPrivate, CloseMark, Open, Live
  <2>2. lease[l].key \in Held
    BY <2>1, HeldKey
  <2> QED
    BY <2>1, <2>2, MarkBooks
<1>3. ASSUME NEW l \in Leases,
             DropUnreadable(l) \/ WriteRefused(l) \/ PurgeUnpublished(l) \/ PublishRefused(l)
      PROVE  BooksInv'
  BY <1>3, DropsBooks
<1>4. ASSUME NEW l \in Leases, Touch(l) PROVE BooksInv'
  BY <1>4, TouchBooks
<1>5. ASSUME NEW l \in Leases, BeginBuild(l) \/ EndBuild(l) PROVE BooksInv'
  BY <1>0, <1>5, SameKeeps DEF BeginBuild, EndBuild, Open
<1>6. ASSUME NEW l \in Leases, NEW ps \in (SUBSET Pages) \ {{}}, PutMany(l, ps)
      PROVE  BooksInv'
  BY <1>6, PutBooks
<1>7. ASSUME NEW l \in Leases, PutFailed(l) PROVE BooksInv'
  BY <1>7, PutFailedBooks
<1>8. ASSUME NEW l \in Leases,
             Publish(l) \/ PublishUnrenamed(l) \/ PublishLost(l) \/ PublishFailed(l)
      PROVE  BooksInv'
  BY <1>8, PublishBooks
<1>9. ASSUME NEW l \in Leases, NEW t \in ExtKeys,
             \/ PromoteVanished(l, t) \/ PromoteMove(l, t)
             \/ PromoteMerge(l, t) \/ PromoteFailed(l, t)
      PROVE  BooksInv'
  BY <1>9, PromoteBooks
<1>10. ASSUME NEW l \in Leases, Close(l) PROVE BooksInv'
  BY <1>10, CloseBooks
<1>11. ASSUME NEW b \in Budgets, Resize(b) PROVE BooksInv'
  BY <1>11, ResizeBooks
<1>12. CASE Clear
  BY <1>12, ClearBooks
<1>13. CASE OsPurge
  BY <1>13, OsPurgeBooks
<1>14. CASE CrashStep
  BY <1>14, CrashBooks
<1>15. CASE Reconcile
  BY <1>15, ReconcileBooks
<1>16. CASE UNCHANGED vars
  <2>1. UNCHANGED <<store, up, faults>>
    BY <1>16 DEF vars, env
  <2> QED
    BY <2>1 DEF BooksInv
<1> QED
  BY <1>1, <1>2, <1>3, <1>4, <1>5, <1>6, <1>7, <1>8, <1>9, <1>10, <1>11, <1>12,
     <1>13, <1>14, <1>15, <1>16 DEF Next, LeaseStep

\* The index of the pool says the same in all of its parts.
THEOREM BooksInductive == Spec => []BooksInv
<1> QED
  BY InitBooks, BooksStep, Inductive, StoreInductive, PTL DEF Spec

-----------------------------------------------------------------------------
\* The build guards: a key is building as often as its live leases are.
Guards == [l \in Leases |-> lease[l].guards]

GuardsExact == \A k \in Keys : building[k] = Sum(Guards, Holders(k))

LEMMA GuardsTyped ==
  ASSUME IInv
  PROVE  /\ \A l \in Leases : Guards[l] \in Nat /\ Guards[l] = lease[l].guards
         /\ \A k : \A l \in Holders(k) : Guards[l] \in Nat
BY PoolAssumption DEF Guards, IInv, BookOK, LeaseRecord, Holders

\* Steps that leave every lease its key and its guards.
LEMMA GuardsKept ==
  ASSUME GuardsExact, building' = building,
         \A l \in Leases : /\ lease'[l].key = lease[l].key
                           /\ lease'[l].guards = lease[l].guards
                           /\ lease'[l].st = "free" <=> lease[l].st = "free"
  PROVE  GuardsExact'
<1>1. \A k : Holders(k)' = Holders(k)
  BY DEF Holders, Live
<1>2. Guards' = Guards
  BY DEF Guards
<1> QED
  BY <1>1, <1>2 DEF GuardsExact

\* A lease is opened without guards.
LEMMA OpenGuards ==
  ASSUME IInv, GuardsExact, NEW l \in Leases, NEW k \in Keys, NEW private \in BOOLEAN,
         OpenLease(l, k, private)
  PROVE  GuardsExact'
<1>1. /\ ~Live(l) /\ Live(l)' /\ lease'[l].key = k /\ lease'[l].guards = 0
      /\ building' = building
  BY DEF OpenLease, Live, IInv, BookOK
<1>2. \A m \in Leases \ {l} : lease'[m] = lease[m]
  BY DEF OpenLease, IInv, BookOK
<1>3. \A j : Holders(j)' = IF j = k THEN Holders(j) \cup {l} ELSE Holders(j)
  BY <1>1, <1>2 DEF Holders, Live
<1>4. \A j : l \notin Holders(j)
  BY <1>1 DEF Holders
<1>5. Guards'[l] = 0 /\ \A m \in Leases \ {l} : Guards'[m] = Guards[m] /\ Guards[m] \in Nat
  BY <1>1, <1>2, GuardsTyped DEF Guards
<1> SUFFICES ASSUME NEW j \in Keys PROVE building'[j] = Sum(Guards', Holders(j)')
  BY DEF GuardsExact
<1>6. PICK H : H = Holders(j) /\ IsFiniteSet(H) /\ H \subseteq Leases
  BY HoldersFinite DEF Holders
<1>7. PICK G : G = Guards'
  OBVIOUS
<1>8. building'[j] = Sum(Guards, H)
  BY <1>1, <1>6 DEF GuardsExact
<1>9. Sum(G, H) = Sum(Guards, H)
  BY <1>4, <1>5, <1>6, <1>7, SumSame
<1>10. Sum(G, H \cup {l}) = Sum(G, H)
  <2>1. \A x \in H \cup {l} : G[x] \in Nat
    BY <1>4, <1>5, <1>6, <1>7
  <2>2. H \cap {l} = {} /\ IsFiniteSet({l})
    BY <1>4, <1>6, FS_Singleton
  <2>3. Sum(G, H \cup {l}) = Sum(G, H) + Sum(G, {l}) /\ Sum(G, H) \in Nat
    BY <1>6, <2>1, <2>2, SumSplit
  <2>4. Sum(G, {l}) = 0
    BY <1>5, <1>7, SumOne
  <2> QED
    BY <2>3, <2>4
<1>11. Holders(j)' = H \/ Holders(j)' = H \cup {l}
  BY <1>3, <1>6
<1> QED
  BY <1>7, <1>8, <1>9, <1>10, <1>11

LEMMA BuildGuards ==
  ASSUME IInv, BookTypeOK, GuardsExact, NEW l \in Leases, BeginBuild(l) \/ EndBuild(l)
  PROVE  GuardsExact'
<1> DEFINE k == lease[l].key
<1>1. Live(l) /\ k \in Keys /\ l \in Holders(k)
  BY LivePins DEF BeginBuild, EndBuild, Open, Live, Holders
<1>2. lease \in [Leases -> LeaseRecord] /\ building \in [Keys -> Int]
  BY DEF BookTypeOK
<1>3. \A m \in Leases : /\ lease'[m].key = lease[m].key
                        /\ lease'[m].st = "free" <=> lease[m].st = "free"
  BY <1>2 DEF BeginBuild, EndBuild, LeaseRecord
<1>4. \A j : Holders(j)' = Holders(j)
  BY <1>3 DEF Holders, Live
<1>5. lease[l].guards \in Nat /\ lease'[l].guards \in Nat
      /\ building'[k] = building[k] - lease[l].guards + lease'[l].guards
  BY <1>1, <1>2, PoolAssumption DEF BeginBuild, EndBuild, LeaseRecord
<1>6. /\ \A j \in Keys \ {k} : building'[j] = building[j]
      /\ \A m \in Leases \ {l} : lease'[m] = lease[m]
  BY <1>2 DEF BeginBuild, EndBuild
<1>7. /\ \A m \in Leases : Guards[m] \in Nat
      /\ Guards[l] = lease[l].guards /\ Guards'[l] = lease'[l].guards
      /\ \A m \in Leases \ {l} : Guards'[m] = Guards[m]
  BY <1>6, GuardsTyped DEF Guards
<1> HIDE DEF k
<1> SUFFICES ASSUME NEW j \in Keys PROVE building'[j] = Sum(Guards', Holders(j)')
  BY DEF GuardsExact
<1>8. PICK H : H = Holders(j) /\ IsFiniteSet(H) /\ H \subseteq Leases
  BY HoldersFinite DEF Holders
<1>9. PICK G : G = Guards'
  OBVIOUS
<1>10. building[j] = Sum(Guards, H) /\ Holders(j)' = H
  BY <1>4, <1>8 DEF GuardsExact
<1>11. CASE j = k
  <2>1. l \in H
    BY <1>1, <1>8, <1>11
  <2>2. /\ \A x \in H : Guards[x] \in Nat
        /\ G[l] \in Nat /\ \A x \in H \ {l} : G[x] = Guards[x]
    BY <1>5, <1>7, <1>8, <1>9
  <2>3. Sum(G, H) = Sum(Guards, H) - Guards[l] + G[l]
    BY <1>8, <2>1, <2>2, SumRestated
  <2> QED
    BY <1>5, <1>7, <1>9, <1>10, <1>11, <2>3
<1>12. CASE j # k
  <2>1. \A x \in H : G[x] = Guards[x]
    BY <1>1, <1>7, <1>8, <1>9, <1>12 DEF Holders, k
  <2>2. Sum(G, H) = Sum(Guards, H)
    BY <2>1, SumSame
  <2> QED
    BY <1>6, <1>9, <1>10, <1>12, <2>2
<1> QED
  BY <1>11, <1>12

\* The guards of a lease move with it.
LEMMA AdoptGuards ==
  ASSUME IInv, BookTypeOK, GuardsExact, NEW l \in Leases, NEW t \in ExtKeys,
         CanPromote(l, t), AdoptIdentity(l, t)
  PROVE  GuardsExact'
<1> DEFINE s == lease[l].key
<1>1. Live(l) /\ lease[l].scope = "EPHEMERAL"
  BY DEF CanPromote, Open, Live
<1>2. s \in EphKeys /\ s \in Keys /\ Holders(s) = {l} /\ t \in Keys /\ s # t
  <2>1. s \in EphKeys
    BY <1>1 DEF IInv, SessionKeysExclusive
  <2>2. Holders(s) = {l}
    BY <1>1, <2>1 DEF IInv, SessionKeysExclusive, Holders
  <2> QED
    BY <2>1, <2>2, KeysAssumption DEF Keys
<1>3. lease \in [Leases -> LeaseRecord] /\ building \in [Keys -> Int]
  BY DEF BookTypeOK
<1>4. /\ Live(l)' /\ lease'[l].key = t /\ lease'[l].guards = lease[l].guards
      /\ \A m \in Leases \ {l} : lease'[m] = lease[m]
  BY <1>1, <1>2, <1>3 DEF AdoptIdentity, LeaseRecord, Live
<1>5. \A j : Holders(j)' = IF j = s THEN {}
                           ELSE IF j = t THEN Holders(j) \cup {l} ELSE Holders(j)
  <2>1. \A m \in Leases \ {l} : Live(m)' <=> Live(m)
    BY <1>4 DEF Live
  <2> QED
    BY <2>1, <1>1, <1>2, <1>4 DEF Holders
<1>6. \A j \in Keys : building'[j] = IF j = s THEN 0
                                     ELSE IF j = t THEN building[t] + building[s] ELSE building[j]
  BY <1>2, <1>3 DEF AdoptIdentity, Moved
<1>7. Guards' = Guards
  BY <1>4 DEF Guards
<1>8. \A m \in Leases : Guards[m] \in Nat
  BY GuardsTyped
<1> HIDE DEF s
<1> SUFFICES ASSUME NEW j \in Keys PROVE building'[j] = Sum(Guards, Holders(j)')
  BY <1>7 DEF GuardsExact
<1>9. PICK H : H = Holders(j) /\ IsFiniteSet(H) /\ H \subseteq Leases
  BY HoldersFinite DEF Holders
<1>10. building[j] = Sum(Guards, H) /\ building[s] = Sum(Guards, {l})
  BY <1>2, <1>9 DEF GuardsExact
<1>11. CASE j = s
  BY <1>5, <1>6, <1>11, SumEmpty
<1>12. CASE j = t
  <2>1. l \notin H
    BY <1>2, <1>9, <1>12 DEF Holders, s
  <2>2. /\ H \cap {l} = {} /\ IsFiniteSet({l}) /\ \A x \in H \cup {l} : Guards[x] \in Nat
    BY <1>8, <1>9, <2>1, FS_Singleton
  <2>3. Sum(Guards, H \cup {l}) = Sum(Guards, H) + Sum(Guards, {l})
    BY <1>9, <2>2, SumSplit
  <2>4. Holders(j)' = H \cup {l}
    BY <1>2, <1>5, <1>9, <1>12
  <2>5. building'[j] = building[j] + building[s]
    BY <1>2, <1>6, <1>12
  <2> QED
    BY <1>10, <2>3, <2>4, <2>5
<1>13. CASE j \notin {s, t}
  BY <1>5, <1>6, <1>9, <1>10, <1>13
<1> QED
  BY <1>11, <1>12, <1>13

\* A lease closes when its guards are returned.
LEMMA CloseGuards ==
  ASSUME IInv, BookTypeOK, GuardsExact, NEW l \in Leases, Close(l)
  PROVE  GuardsExact'
<1> DEFINE k == lease[l].key
<1>1. Live(l) /\ lease[l].guards = 0 /\ building' = building /\ k \in Keys
  BY LivePins DEF Close, Live
<1>2. /\ ~Live(l)' /\ lease'[l].guards = 0 /\ \A m \in Leases \ {l} : lease'[m] = lease[m]
  BY DEF Close, NoLease, BookTypeOK, Live
<1>3. \A j : Holders(j)' = IF j = k THEN Holders(j) \ {l} ELSE Holders(j)
  <2>1. \A m \in Leases \ {l} : Live(m)' <=> Live(m)
    BY <1>2 DEF Live
  <2> QED
    BY <2>1, <1>1, <1>2 DEF Holders
<1>4. Guards' = Guards /\ Guards[l] = 0
  BY <1>1, <1>2 DEF Guards
<1>5. \A m \in Leases : Guards[m] \in Nat
  BY GuardsTyped
<1> SUFFICES ASSUME NEW j \in Keys PROVE building[j] = Sum(Guards, Holders(j)')
  BY <1>1, <1>4 DEF GuardsExact
<1>6. PICK H : H = Holders(j) /\ IsFiniteSet(H) /\ H \subseteq Leases
  BY HoldersFinite DEF Holders
<1>7. building[j] = Sum(Guards, H)
  BY <1>6 DEF GuardsExact
<1>8. ASSUME l \in H PROVE Sum(Guards, H \ {l}) = Sum(Guards, H)
  <2> DEFINE R == H \ {l}
  <2>1. R \cap {l} = {} /\ IsFiniteSet(R) /\ IsFiniteSet({l}) /\ H = R \cup {l}
    BY <1>6, <1>8, FS_Singleton, FS_Subset
  <2>2. \A x \in R \cup {l} : Guards[x] \in Nat
    BY <1>5, <1>6
  <2> HIDE DEF R
  <2>3. Sum(Guards, R \cup {l}) = Sum(Guards, R) + Sum(Guards, {l}) /\ Sum(Guards, R) \in Nat
    BY <2>1, <2>2, SumSplit
  <2>4. Sum(Guards, {l}) = 0
    BY <1>4, SumOne
  <2>5. Sum(Guards, H) = Sum(Guards, R) + Sum(Guards, {l})
    BY <2>1, <2>3, Zenon
  <2>6. Sum(Guards, R) = Sum(Guards, H)
    BY <2>3, <2>4, <2>5
  <2> QED
    BY <2>6 DEF R
<1>9. CASE l \in H
  BY <1>1, <1>3, <1>6, <1>7, <1>8, <1>9 DEF Holders
<1>10. CASE l \notin H
  <2>1. Holders(j)' = H
    BY <1>3, <1>6, <1>10
  <2> QED
    BY <1>7, <2>1
<1> QED
  BY <1>9, <1>10

LEMMA DieGuards ==
  ASSUME NEW file, NEW left, NEW stamp, Die(file, left, stamp)
  PROVE  GuardsExact'
<1>1. /\ \A l \in Leases : lease'[l] = NoLease
      /\ \A k \in Keys : building'[k] = 0
  BY DEF Die
<1>2. \A k : Holders(k)' = {}
  BY <1>1 DEF Holders, Live, NoLease
<1> QED
  BY <1>1, <1>2, SumEmpty DEF GuardsExact

LEMMA GuardsStep == IInv /\ BookTypeOK /\ GuardsExact /\ [Next]_vars => GuardsExact'
<1> SUFFICES ASSUME IInv, BookTypeOK, GuardsExact, [Next]_vars PROVE GuardsExact'
  OBVIOUS
<1>q. ASSUME building' = building, lease' = lease PROVE GuardsExact'
  BY <1>q, GuardsKept
<1>1. ASSUME NEW l \in Leases, NEW k \in Keys, NEW private \in BOOLEAN,
             OpenLease(l, k, private)
      PROVE  GuardsExact'
  BY <1>1, OpenGuards
<1>2. ASSUME NEW l \in Leases, MarkPrivate(l) \/ CloseMark(l) PROVE GuardsExact'
  <2>1. building' = building
    BY <1>2 DEF MarkPrivate, CloseMark, pins
  <2>2. \A m \in Leases : /\ lease'[m].key = lease[m].key
                          /\ lease'[m].guards = lease[m].guards
                          /\ lease'[m].st = "free" <=> lease[m].st = "free"
    BY <1>2 DEF MarkPrivate, CloseMark, Open, BookTypeOK, LeaseRecord
  <2> QED
    BY <2>1, <2>2, GuardsKept
<1>3. ASSUME NEW l \in Leases, DropUnreadable(l) \/ Touch(l) \/ WriteRefused(l)
                                \/ PurgeUnpublished(l)
      PROVE  GuardsExact'
  BY <1>3, <1>q DEF DropUnreadable, Touch, WriteRefused, PurgeUnpublished, pins
<1>4. ASSUME NEW l \in Leases, NEW ps \in (SUBSET Pages) \ {{}}, PutMany(l, ps)
      PROVE  GuardsExact'
  BY <1>4, <1>q DEF PutMany, pins
<1>5. ASSUME NEW l \in Leases, \/ PutFailed(l) \/ Publish(l) \/ PublishUnrenamed(l) \/ PublishLost(l)
                                \/ PublishFailed(l) \/ PublishRefused(l)
      PROVE  GuardsExact'
  BY <1>5, <1>q DEF PutFailed, Publish, PublishUnrenamed, PublishLost, PublishFailed,
                    PublishRefused, pins
<1>6. ASSUME NEW l \in Leases, BeginBuild(l) \/ EndBuild(l) PROVE GuardsExact'
  BY <1>6, BuildGuards
<1>7. ASSUME NEW l \in Leases, NEW t \in ExtKeys,
             \/ PromoteVanished(l, t) \/ PromoteMove(l, t) \/ PromoteMerge(l, t)
      PROVE  GuardsExact'
  <2>1. CanPromote(l, t) /\ AdoptIdentity(l, t)
    BY <1>7 DEF PromoteVanished, PromoteMove, PromoteMerge
  <2> QED
    BY <2>1, AdoptGuards
<1>8. ASSUME NEW l \in Leases, NEW t \in ExtKeys, PromoteFailed(l, t) PROVE GuardsExact'
  BY <1>8, <1>q DEF PromoteFailed, pins
<1>9. ASSUME NEW l \in Leases, Close(l) PROVE GuardsExact'
  BY <1>9, CloseGuards
<1>10. ASSUME NEW b \in Budgets, Resize(b) PROVE GuardsExact'
  BY <1>10, <1>q DEF Resize, pins
<1>11. CASE Clear \/ OsPurge \/ Reconcile
  BY <1>11, <1>q DEF Clear, OsPurge, Reconcile, pins
<1>12. CASE CrashStep
  <2>1. \E file, left, stamp : Die(file, left, stamp)
    BY <1>12, Zenon DEF CrashStep, Crash, CrashInWrite, CrashInPublish, CrashInRelease,
                        CrashInPromote
  <2> QED
    BY <2>1, DieGuards
<1>13. CASE UNCHANGED vars
  BY <1>13, <1>q DEF vars, pins
<1> QED
  BY <1>1, <1>2, <1>3, <1>4, <1>5, <1>6, <1>7, <1>8, <1>9, <1>10, <1>11, <1>12,
     <1>13 DEF Next, LeaseStep

LEMMA InitGuards == Init => GuardsExact
<1> SUFFICES ASSUME Init PROVE GuardsExact
  OBVIOUS
<1>1. \A k : Holders(k) = {}
  BY DEF Init, Holders, Live, NoLease
<1>2. \A k \in Keys : building[k] = 0
  BY DEF Init
<1> QED
  BY <1>1, <1>2, SumEmpty DEF GuardsExact

\* begin_build and end_build: the builds counted are those of live leases.
THEOREM GuardsCounted == Spec => []GuardsExact
<1> QED
  BY InitGuards, GuardsStep, Inductive, BookTypes, PTL DEF Spec

-----------------------------------------------------------------------------
\* The bounds' counters, and errors that only grow.
Limits == /\ faults \in Nat /\ faults <= MaxFaults
          /\ restarts \in 0 .. MaxRestarts /\ (~up => restarts < MaxRestarts)

LEMMA Costs ==
  ASSUME NEW n \in Nat, faults \in Nat, Spend(n)
  PROVE  faults' \in Nat /\ faults <= faults' /\ faults' <= MaxFaults
BY PoolAssumption DEF Spend

\* What every step costs.
LEMMA FaultsGrow ==
  ASSUME faults \in Nat, faults <= MaxFaults, [Next]_vars
  PROVE  faults' \in Nat /\ faults <= faults' /\ faults' <= MaxFaults
<1> DEFINE Grows == faults' \in Nat /\ faults <= faults' /\ faults' <= MaxFaults
<1> SUFFICES Grows
  OBVIOUS
<1>s. ASSUME faults' = faults PROVE Grows
  BY <1>s
<1>c. ASSUME NEW F \in StuckSets, Spend(Cardinality(F)) \/ Spend(1 + Cardinality(F)) PROVE Grows
  <2>1. Cardinality(F) \in Nat /\ 1 + Cardinality(F) \in Nat
    BY StuckFinite
  <2> QED
    BY <1>c, <2>1, Costs
<1>o. ASSUME Spend(1) PROVE Grows
  BY <1>o, Costs
<1> HIDE DEF Grows
<1>1. ASSUME NEW l \in Leases, NEW k \in Keys, NEW private \in BOOLEAN,
             OpenLease(l, k, private)
      PROVE  Grows
  BY <1>1, <1>s DEF OpenLease
<1>2. ASSUME NEW l \in Leases, MarkPrivate(l) \/ CloseMark(l) PROVE Grows
  <2>1. faults' = faults \/ \E F \in StuckSets : Spend(1 + Cardinality(F))
    BY <1>2 DEF MarkPrivate, CloseMark, MarkSessionScoped
  <2> QED
    BY <2>1, <1>s, <1>c
<1>3. ASSUME NEW l \in Leases, DropUnreadable(l) \/ Touch(l) \/ WriteRefused(l)
                                \/ PurgeUnpublished(l) \/ PublishRefused(l)
      PROVE  Grows
  <2>1. faults' = faults \/ \E F \in StuckSets : Spend(Cardinality(F)) \/ Spend(1 + Cardinality(F))
    BY <1>3 DEF DropUnreadable, Touch, WriteRefused, PurgeUnpublished, PublishRefused
  <2> QED
    BY <2>1, <1>s, <1>c
<1>4. ASSUME NEW l \in Leases, NEW ps \in (SUBSET Pages) \ {{}}, PutMany(l, ps) PROVE Grows
  <2>1. \E F \in StuckSets : Spend(Cardinality(F))
    BY <1>4 DEF PutMany, Admitted
  <2> QED
    BY <2>1, <1>c
<1>5. ASSUME NEW l \in Leases, PutFailed(l) \/ PublishUnrenamed(l) \/ PublishFailed(l) PROVE Grows
  BY <1>5, <1>o DEF PutFailed, PublishUnrenamed, PublishFailed
<1>6. ASSUME NEW l \in Leases, Publish(l) PROVE Grows
  <2>1. \E F \in StuckSets : Spend(Cardinality(F))
    BY <1>6 DEF Publish, Admitted
  <2> QED
    BY <2>1, <1>c
<1>7. ASSUME NEW l \in Leases, PublishLost(l) PROVE Grows
  <2>1. PICK F \in SUBSET {<<lease[l].key, "final">>} : Spend(1 + Cardinality(F))
    BY <1>7 DEF PublishLost
  <2>2. Cardinality(F) \in Nat
    <3>1. IsFiniteSet({<<lease[l].key, "final">>}) /\ F \subseteq {<<lease[l].key, "final">>}
      BY FS_Singleton
    <3> QED
      BY <3>1, FS_Subset, FS_CardinalityType
  <2>3. 1 + Cardinality(F) \in Nat
    BY <2>2
  <2> QED
    BY <2>1, <2>3, Costs DEF Grows
<1>8. ASSUME NEW l \in Leases, BeginBuild(l) \/ EndBuild(l) PROVE Grows
  BY <1>8, <1>s DEF BeginBuild, EndBuild
<1>9. ASSUME NEW l \in Leases, NEW t \in ExtKeys, PromoteVanished(l, t) \/ PromoteMerge(l, t)
      PROVE  Grows
  <2>1. faults' = faults \/ \E F \in StuckSets : Spend(Cardinality(F))
    BY <1>9 DEF PromoteVanished, PromoteMerge
  <2> QED
    BY <2>1, <1>s, <1>c
<1>10. ASSUME NEW l \in Leases, NEW t \in ExtKeys, PromoteMove(l, t) PROVE Grows
  <2>1. PICK F \in StuckSets, keep \in {0, 1} : Spend(keep + Cardinality(F))
    BY <1>10 DEF PromoteMove
  <2>2. keep + Cardinality(F) \in Nat
    BY StuckFinite
  <2> QED
    BY <2>1, <2>2, Costs DEF Grows
<1>11. ASSUME NEW l \in Leases, NEW t \in ExtKeys, PromoteFailed(l, t) PROVE Grows
  BY <1>11, <1>s, <1>o DEF PromoteFailed
<1>12. ASSUME NEW l \in Leases, Close(l) PROVE Grows
  <2>1. \E F \in StuckSets : Spend(Cardinality(F))
    BY <1>12 DEF Close
  <2> QED
    BY <2>1, <1>c
<1>13. ASSUME NEW b \in Budgets, Resize(b) PROVE Grows
  <2>1. \E F \in StuckSets : Spend(Cardinality(F))
    BY <1>13 DEF Resize
  <2> QED
    BY <2>1, <1>c
<1>14. CASE Clear
  <2>1. \E F \in StuckSets : Spend(Cardinality(F))
    BY <1>14 DEF Clear
  <2> QED
    BY <2>1, <1>c
<1>15. CASE OsPurge
  BY <1>15, <1>s DEF OsPurge
<1>16. CASE CrashStep
  <2>1. \E file, left, stamp : Die(file, left, stamp)
    BY <1>16, Zenon DEF CrashStep, Crash, CrashInWrite, CrashInPublish, CrashInRelease,
                        CrashInPromote
  <2> QED
    BY <2>1, <1>s DEF Die
<1>17. CASE Reconcile
  <2>1. PICK F \in StuckSets, K \in SUBSET Keys : \E L :
          Spend(Cardinality(F) + Cardinality({k \in L \ K :
                  Swept(store.file, F)[<<k, "final">>].state = "absent"}))
          /\ L \subseteq Keys
    BY <1>17 DEF Reconcile, Late
  <2>2. PICK L : /\ L \subseteq Keys
                 /\ Spend(Cardinality(F) + Cardinality({k \in L \ K :
                      Swept(store.file, F)[<<k, "final">>].state = "absent"}))
    BY <2>1
  <2> DEFINE failed == {k \in L \ K : Swept(store.file, F)[<<k, "final">>].state = "absent"}
  <2>3. failed \subseteq Keys
    BY <2>2
  <2>4. Spend(Cardinality(F) + Cardinality(failed))
    BY <2>2
  <2> HIDE DEF failed
  <2>5. Cardinality(failed) \in Nat
    BY <2>3, PoolAssumption, FS_Subset, FS_CardinalityType
  <2>6. Cardinality(F) + Cardinality(failed) \in Nat
    BY <2>5, StuckFinite
  <2> QED
    BY <2>4, <2>6, Costs DEF Grows
<1>18. CASE UNCHANGED vars
  BY <1>18, <1>s DEF vars
<1> QED
  BY <1>1, <1>2, <1>3, <1>4, <1>5, <1>6, <1>7, <1>8, <1>9, <1>10, <1>11, <1>12,
     <1>13, <1>14, <1>15, <1>16, <1>17, <1>18 DEF Next, LeaseStep

\* Only the end of a process and the start of the next touch their count.
LEMMA LivesCounted ==
  ASSUME [Next]_vars
  PROVE  \/ UNCHANGED <<up, restarts>>
         \/ ~up' /\ restarts < MaxRestarts /\ restarts' = restarts
         \/ ~up /\ up' /\ restarts' = restarts + 1
<1> DEFINE Counted == \/ UNCHANGED <<up, restarts>>
                      \/ ~up' /\ restarts < MaxRestarts /\ restarts' = restarts
                      \/ ~up /\ up' /\ restarts' = restarts + 1
<1> SUFFICES Counted
  OBVIOUS
<1>1. ASSUME NEW l \in Leases, LeaseStep(l) PROVE Counted
  BY <1>1 DEF LeaseStep, OpenLease, MarkPrivate, DropUnreadable, Touch, WriteRefused, PutFailed,
              PutMany, Publish, PublishUnrenamed, PublishLost, PublishFailed, PublishRefused,
              PurgeUnpublished, BeginBuild, EndBuild, PromoteVanished, PromoteMove, PromoteMerge,
              PromoteFailed, AdoptIdentity, CloseMark, Close, env
<1>2. ASSUME NEW b \in Budgets, Resize(b) PROVE Counted
  BY <1>2 DEF Resize, env
<1>3. CASE Clear \/ OsPurge
  BY <1>3 DEF Clear, OsPurge, env
<1>4. CASE CrashStep
  <2>1. \E file, left, stamp : Die(file, left, stamp)
    BY <1>4, Zenon DEF CrashStep, Crash, CrashInWrite, CrashInPublish, CrashInRelease,
                       CrashInPromote
  <2> QED
    BY <2>1 DEF Die
<1>5. CASE Reconcile
  BY <1>5 DEF Reconcile
<1>6. CASE UNCHANGED vars
  BY <1>6 DEF vars, env
<1> QED
  BY <1>1, <1>2, <1>3, <1>4, <1>5, <1>6 DEF Next

LEMMA LimitsStep == Limits /\ [Next]_vars => Limits'
<1> SUFFICES ASSUME Limits, [Next]_vars PROVE Limits'
  OBVIOUS
<1>1. faults' \in Nat /\ faults <= faults' /\ faults' <= MaxFaults
  BY FaultsGrow DEF Limits
<1>2. restarts' \in 0 .. MaxRestarts /\ (~up' => restarts' < MaxRestarts)
  BY LivesCounted, PoolAssumption DEF Limits
<1> QED
  BY <1>1, <1>2 DEF Limits

\* Every variable of the pool keeps its type.
THEOREM PoolTypes == Spec => []TypeOK
<1>1. Init => Limits
  BY PoolAssumption DEF Init, Limits
<1>2. BookTypeOK /\ StoreInv /\ BooksInv /\ Limits => TypeOK
  <2> SUFFICES ASSUME BookTypeOK, StoreInv, BooksInv, Limits PROVE TypeOK
    OBVIOUS
  <2>1. store \in Store
    BY BooksTyped DEF StoreInv, Sane, BooksInv
  <2>2. faults \in 0 .. MaxFaults /\ restarts \in 0 .. MaxRestarts
    BY DEF Limits
  <2> QED
    BY <2>1, <2>2 DEF TypeOK
<1> QED
  BY <1>1, <1>2, LimitsStep, BookTypes, StoreInductive, BooksInductive, PTL DEF Spec

\* The running total is the sum of the entries, the builds counted are those
\* of live leases, and while nothing failed an entry is charged what its file
\* occupies and every file is one an eviction can see.
THEOREM BooksBalance == Spec => []AccountingExact
<1>1. StoreInv /\ BooksInv /\ GuardsExact => AccountingExact
  <2> SUFFICES ASSUME StoreInv, BooksInv, GuardsExact PROVE AccountingExact
    OBVIOUS
  <2>1. store.bytes = TotalOf(store, Keys)
    BY DEF BooksInv, Books
  <2>2. \A k \in Keys : building[k] = Sum([l \in Leases |-> lease[l].guards], Holders(k))
    BY DEF GuardsExact, Guards
  <2>3. ASSUME up, faults = 0, NEW k \in Keys, InPlace(store, k)
        PROVE  store.size[k] = SizeOf(store.file[Path(store, k)])
    BY <2>3 DEF BooksInv, Exact, InPlace, Path
  <2>4. ASSUME up, faults = 0, NEW f \in Files, Exists(store, f) PROVE store.at[f[1]] = f[2]
    BY <2>4 DEF StoreInv, Sane
  <2> QED
    BY <2>1, <2>2, <2>3, <2>4 DEF AccountingExact
<1> QED
  BY <1>1, StoreInductive, BooksInductive, GuardsCounted, PTL

-----------------------------------------------------------------------------
\* While nothing failed, a shrink that is still owed waits for a live lease.
ShrinkOwed == strict /\ faults = 0 => \E k \in Keys : active[k] > 0

\* A spared key is pinned: its builds are those of a lease that pins it.
LEMMA SparedPinned ==
  ASSUME IInv', GuardsExact', NEW k \in Keys, active'[k] > 0 \/ building'[k] > 0
  PROVE  active'[k] > 0
<1> SUFFICES ASSUME building'[k] > 0 PROVE active'[k] > 0
  OBVIOUS
<1>1. PICK H : H = Holders(k)'
  OBVIOUS
<1>2. building'[k] = Sum(Guards', H) /\ active'[k] = Cardinality(H)
  BY <1>1 DEF GuardsExact, IInv, PinsMatchLeases
<1>3. H # {}
  <2> SUFFICES ASSUME H = {} PROVE FALSE
    OBVIOUS
  <2>1. Sum(Guards', H) = 0
    BY SumEmpty, Zenon
  <2> QED
    BY <1>2, <2>1
<1>4. IsFiniteSet(H)
  <2>1. H \subseteq Leases
    BY <1>1 DEF Holders
  <2> QED
    BY <2>1, PoolAssumption, FS_Subset
<1> QED
  BY <1>2, <1>3, <1>4, FS_EmptySet, FS_CardinalityType

LEMMA BudgetNat == ASSUME BookTypeOK PROVE budget \in Nat
BY PoolAssumption DEF BookTypeOK

\* An eviction without errors that does not meet the budget was stopped by a
\* bundle in use.
LEMMA ShortEviction ==
  ASSUME IInv', GuardsExact', NEW s, Books(s), NEW b \in Nat, NEW spared,
         spared \subseteq {k \in Keys : active'[k] > 0 \/ building'[k] > 0},
         Evict(s, spared, b, {}).bytes > b
  PROVE  \E k \in Keys : active'[k] > 0
<1>1. Evict(s, spared, b, {}).bytes \in Int
  <2>1. Books(Evict(s, spared, b, {}))
    BY EvictBooks
  <2>2. PICK e : e = Evict(s, spared, b, {})
    OBVIOUS
  <2>3. Books(e)
    BY <2>1, <2>2
  <2>4. e.bytes \in Nat
    BY <2>3, PoolAssumption, SumMonotone DEF Books, TotalOf
  <2> QED
    BY <2>2, <2>4
<1>2. PICK k \in Indexed(s) : k \in spared
  BY <1>1, EvictMeets
<1> QED
  BY <1>2, SparedPinned

LEMMA ShrinkStep ==
  IInv /\ IInv' /\ GuardsExact /\ GuardsExact' /\ BookTypeOK /\ Limits /\ BooksInv /\ ShrinkOwed
    /\ [Next]_vars => ShrinkOwed'
<1> SUFFICES ASSUME IInv, IInv', GuardsExact, GuardsExact', BookTypeOK, Limits, BooksInv,
                    ShrinkOwed, [Next]_vars, strict', faults' = 0
             PROVE  \E k \in Keys : active'[k] > 0
  BY DEF ShrinkOwed
<1> DEFINE Waits == \E k \in Keys : active'[k] > 0
<1>0. faults = 0 /\ Books(store)
  <2>1. faults \in Nat /\ faults <= faults'
    BY FaultsGrow DEF Limits
  <2> QED
    BY <2>1 DEF BooksInv
<1>q. ASSUME active' = active, strict' = strict PROVE Waits
  BY <1>0, <1>q DEF ShrinkOwed
<1>f. ASSUME NEW F \in StuckSets, Spend(Cardinality(F)) PROVE F = {}
  BY <1>0, <1>f, StuckFinite DEF Spend
<1> HIDE DEF Waits
<1>1. ASSUME NEW l \in Leases, NEW k \in Keys, NEW private \in BOOLEAN,
             OpenLease(l, k, private)
      PROVE  Waits
  <2>1. active \in [Keys -> Nat] /\ active' = [active EXCEPT ![k] = @ + 1]
    BY <1>1 DEF OpenLease, BookTypeOK
  <2>2. active'[k] > 0
    BY <2>1
  <2> QED
    BY <2>2 DEF Waits
<1>2. ASSUME NEW l \in Leases, MarkPrivate(l) \/ CloseMark(l) PROVE Waits
  BY <1>2, <1>q DEF MarkPrivate, CloseMark, pins, limits
<1>3. ASSUME NEW l \in Leases, DropUnreadable(l) \/ Touch(l) \/ WriteRefused(l)
                                \/ PurgeUnpublished(l)
      PROVE  Waits
  BY <1>3, <1>q DEF DropUnreadable, Touch, WriteRefused, PurgeUnpublished, pins, limits
<1>4. ASSUME NEW l \in Leases, NEW ps \in (SUBSET Pages) \ {{}}, PutMany(l, ps) PROVE Waits
  BY <1>4, <1>q DEF PutMany, pins, limits
<1>5. ASSUME NEW l \in Leases, \/ PutFailed(l) \/ Publish(l) \/ PublishUnrenamed(l) \/ PublishLost(l)
                                \/ PublishFailed(l) \/ PublishRefused(l)
      PROVE  Waits
  BY <1>5, <1>q DEF PutFailed, Publish, PublishUnrenamed, PublishLost, PublishFailed,
                    PublishRefused, pins, limits
<1>6. ASSUME NEW l \in Leases, BeginBuild(l) \/ EndBuild(l) PROVE Waits
  BY <1>6, <1>q DEF BeginBuild, EndBuild, limits
<1>7. ASSUME NEW l \in Leases, NEW t \in ExtKeys,
             \/ PromoteVanished(l, t) \/ PromoteMove(l, t) \/ PromoteMerge(l, t)
      PROVE  Waits
  <2> DEFINE s == lease[l].key
  <2>1. CanPromote(l, t) /\ AdoptIdentity(l, t) /\ Live(l) /\ lease[l].scope = "EPHEMERAL"
    BY <1>7 DEF PromoteVanished, PromoteMove, PromoteMerge, CanPromote, Open, Live
  <2>2. s \in Keys /\ active[s] > 0 /\ s \in EphKeys /\ t \in Keys /\ t # s
    BY <2>1, LivePins, KeysAssumption DEF Keys, IInv, SessionKeysExclusive
  <2>3. active \in [Keys -> Nat] /\ active' = [active EXCEPT ![s] = 0, ![t] = @ + active[s]]
    BY <2>1 DEF AdoptIdentity, Moved, BookTypeOK
  <2> HIDE DEF s
  <2>4. active'[t] > 0
    BY <2>2, <2>3
  <2> QED
    BY <2>2, <2>4 DEF Waits
<1>8. ASSUME NEW l \in Leases, NEW t \in ExtKeys, PromoteFailed(l, t) PROVE Waits
  BY <1>8, <1>q DEF PromoteFailed, pins, limits
<1>9. ASSUME NEW l \in Leases, Close(l) PROVE Waits
  <2> DEFINE k    == lease[l].key
             last == k \in scoped /\ active[k] = 1
             spared == {j \in Keys : active'[j] > 0 \/ building[j] > 0}
  <2>1. PICK F \in StuckSets :
          LET purged == IF last THEN Purge(store, k, F) ELSE store
              kept   == IF strict THEN Evict(purged, spared, budget, F) ELSE purged
          IN strict' = (strict /\ kept.bytes > budget) /\ Spend(Cardinality(F))
    BY <1>9 DEF Close
  <2> DEFINE r == IF last THEN Purge(store, k, {}) ELSE store
  <2>2. F = {}
    BY <1>f, <2>1
  <2>3. Evict(r, spared, budget, {}).bytes > budget
    BY <2>1, <2>2
  <2>4. k \in Keys /\ building' = building
    BY <1>9, LivePins DEF Close, Live
  <2>5. Books(r)
    BY <1>0, <2>4, PurgeBooks
  <2>6. spared \subseteq {j \in Keys : active'[j] > 0 \/ building'[j] > 0}
    BY <2>4
  <2> HIDE DEF r, spared
  <2> QED
    BY <2>3, <2>5, <2>6, BudgetNat, ShortEviction DEF Waits
<1>10. ASSUME NEW b \in Budgets, Resize(b) PROVE Waits
  <2>1. PICK F \in StuckSets : /\ store' = Evict(store, Spared({}), b, F)
                               /\ Spend(Cardinality(F))
    BY <1>10 DEF Resize
  <2>2. F = {}
    BY <1>f, <2>1
  <2>3. strict' = (store'.bytes > b) /\ active' = active /\ building' = building
    BY <1>10 DEF Resize, pins
  <2>4. Evict(store, Spared({}), b, {}).bytes > b
    BY <2>1, <2>2, <2>3
  <2>5. Spared({}) \subseteq {j \in Keys : active'[j] > 0 \/ building'[j] > 0}
    BY <2>3 DEF Spared
  <2>6. b \in Nat
    BY PoolAssumption
  <2> QED
    BY <1>0, <2>4, <2>5, <2>6, ShortEviction DEF Waits
<1>11. CASE Clear
  <2>1. PICK F \in StuckSets : /\ Spend(Cardinality(F))
                               /\ strict' = (ForgetAll(store, F).bytes > budget)
    BY <1>11 DEF Clear
  <2>2. F = {}
    BY <1>f, <2>1
  <2>3. ForgetAll(store, F).bytes = 0
    BY <1>0, <2>2, ForgetAllBooks
  <2>4. 0 > budget
    BY <2>1, <2>3
  <2> QED
    BY <2>4, BudgetNat
<1>12. CASE OsPurge \/ Reconcile
  <2>1. UNCHANGED <<pins, limits>>
    BY <1>12 DEF OsPurge, Reconcile
  <2>2. active' = active /\ strict' = strict
    BY <2>1 DEF pins, limits
  <2> QED
    BY <1>q, <2>2 DEF Waits
<1>13. CASE CrashStep
  <2>1. \E file, left, stamp : Die(file, left, stamp)
    BY <1>13, Zenon DEF CrashStep, Crash, CrashInWrite, CrashInPublish, CrashInRelease,
                        CrashInPromote
  <2>2. strict' = FALSE
    BY <2>1 DEF Die
  <2> QED
    BY <2>2, Zenon
<1>14. CASE UNCHANGED vars
  <2>1. UNCHANGED <<pins, limits>>
    BY <1>14 DEF vars
  <2>2. active' = active /\ strict' = strict
    BY <2>1 DEF pins, limits
  <2> QED
    BY <1>q, <2>2 DEF Waits
<1> QED
  BY <1>1, <1>2, <1>3, <1>4, <1>5, <1>6, <1>7, <1>8, <1>9, <1>10, <1>11, <1>12,
     <1>13, <1>14 DEF Next, LeaseStep, Waits

\* _strict_eviction_pending: a shrink that could not be met at once is only
\* owed while a lease is live whose release will finish it.
THEOREM ShrinkHonoured == Spec => []ShrinkIsHonoured
<1>1. Init => ShrinkOwed
  <2>1. Init => strict = FALSE
    BY DEF Init
  <2> QED
    BY <2>1, Zenon DEF ShrinkOwed
<1>2. Init => Limits
  BY PoolAssumption DEF Init, Limits
<1>3. ShrinkOwed => ShrinkIsHonoured
  BY DEF ShrinkOwed, ShrinkIsHonoured
<1>4. Spec => []Limits
  BY <1>2, LimitsStep, PTL DEF Spec
<1>5. Spec => []ShrinkOwed
  BY <1>1, <1>4, ShrinkStep, Inductive, GuardsCounted, BookTypes, BooksInductive, PTL DEF Spec
<1> QED
  BY <1>3, <1>5, PTL
=============================================================================
