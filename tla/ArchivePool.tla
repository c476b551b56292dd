----------------------------- MODULE ArchivePool -----------------------------
(***************************************************************************)
(* ArchiveExtractionPool and the ArchiveCacheLease objects that use it.   *)
(* Every public method of the pool runs under one lock, so each is one    *)
(* action; what interleaves is the calls of the leases, the settings      *)
(* page (resize, clear), the operating system emptying the cache          *)
(* directory, and the process dying inside or between calls.  I/O errors  *)
(* are explicit: every unlink, write or rename that fails costs one of    *)
(* MaxFaults.                                                              *)
(***************************************************************************)
EXTENDS ArchiveBundles

CONSTANTS
  Leases,       \* the lease objects alive at one time
  Budgets,      \* the values the cache budget may be set to
  MaxGuards,    \* bound: build guards one lease nests
  MaxFaults,    \* bound: I/O errors in one behaviour
  MaxRestarts   \* bound: process lifetimes after the first

ASSUME PoolAssumption ==
  /\ IsFiniteSet(Leases) /\ IsFiniteSet(Keys)
  /\ Budgets \subseteq Nat /\ Budgets # {}
  /\ MaxGuards \in Nat /\ MaxFaults \in Nat /\ MaxRestarts \in Nat

VARIABLES
  store,        \* _index, _current_bytes and the bundle files
  markers,      \* keys with a session privacy marker on disk
  stamped,      \* the schema marker is on disk
  active,       \* _active: pins per key
  building,     \* _building: builds per key
  scoped,       \* _session_scoped
  uncacheable,  \* _uncacheable_session_keys
  budget,       \* _max_bytes
  strict,       \* _strict_eviction_pending
  lease,        \* the lease objects
  up,           \* the process is running
  faults, restarts

disk   == <<markers, stamped>>
pins   == <<active, building>>
privacy == <<scoped, uncacheable>>
limits == <<budget, strict>>
env    == <<up, restarts>>
vars   == <<store, disk, pins, privacy, limits, lease, env, faults>>

NoLease == [st |-> "free", key |-> "none", scope |-> "none", guards |-> 0]

Live(l)      == lease[l].st # "free"
Open(l)      == up /\ lease[l].st = "open"
Holders(k)   == {l \in Leases : Live(l) /\ lease[l].key = k}
Pinned(k)    == active[k] > 0
\* Mutant: only builds protect a bundle from eviction.
SparedBuilds(K) == K \cup {k \in Keys : building[k] > 0}
Spared(K)    == K \cup {k \in Keys : active[k] > 0 \/ building[k] > 0}
Spend(n)     == faults + n <= MaxFaults /\ faults' = faults + n
StuckSets    == IF faults = MaxFaults THEN {{}} ELSE
                {F \in SUBSET {f \in Files : Exists(store, f)} :
                   Cardinality(F) <= MaxFaults - faults}

NewStore == [file  |-> [f \in Files |-> Absent],
             at    |-> [k \in Keys |-> "none"],
             size  |-> [k \in Keys |-> 0],
             lru   |-> Empty(Keys), bytes |-> 0]

Init ==
  /\ store = NewStore
  /\ markers = {} /\ stamped = TRUE
  /\ active = [k \in Keys |-> 0] /\ building = [k \in Keys |-> 0]
  /\ scoped = {} /\ uncacheable = {}
  /\ budget \in Budgets /\ strict = FALSE
  /\ lease = [l \in Leases |-> NoLease]
  /\ up = TRUE /\ faults = 0 /\ restarts = 0

------------------------------------------------------------------------------
(* Opening: the lease pins its key; a reader that must leave nothing      *)
(* behind marks the document right after, before any page is read.        *)

\* A session key is drawn afresh for each reader, so nothing knows it yet.
Fresh(k) == /\ Holders(k) = {} /\ k \notin markers \cup scoped
            /\ store.at[k] = "none" /\ \A n \in Names : ~Exists(store, <<k, n>>)

OpenLease(l, k, private) ==
  /\ up /\ lease[l].st = "free"
  /\ k \in EphKeys => Fresh(k)
  /\ lease' = [lease EXCEPT ![l] =
       [st |-> IF private THEN "opening" ELSE "open", key |-> k,
        scope |-> IF k \in EphKeys THEN "EPHEMERAL" ELSE "PERSISTENT",
        guards |-> 0]]
  /\ active' = [active EXCEPT ![k] = @ + 1]
  /\ UNCHANGED <<store, disk, building, privacy, limits, env, faults>>

\* mark_session_scoped: the promise covers the pages already on disk.
Promised(s, k) == [s EXCEPT !.file = [f \in Files |->
  IF f[1] = k /\ @[f].state # "absent" THEN [@[f] EXCEPT !.priv = TRUE] ELSE @[f]]]

MarkSessionScoped(k) ==
  /\ scoped' = scoped \cup {k}
  /\ \/ /\ markers' = markers \cup {k}
        /\ store' = Promised(store, k)
        /\ UNCHANGED <<uncacheable, faults>>
     \/ /\ k \notin markers          \* the marker cannot be written
        /\ uncacheable' = uncacheable \cup {k}
        /\ \E F \in StuckSets : /\ store' = Purge(Promised(store, k), k, F)
                                /\ Spend(1 + Cardinality(F))
        /\ UNCHANGED markers

MarkPrivate(l) ==
  /\ up /\ lease[l].st = "opening"
  /\ lease' = [lease EXCEPT ![l].st = "open"]
  /\ MarkSessionScoped(lease[l].key)
  /\ UNCHANGED <<stamped, pins, limits, env>>

------------------------------------------------------------------------------
(* Reading and writing pages                                              *)

\* get and contains_many drop a bundle that is gone or unreadable.
DropUnreadable(l) ==
  LET k == lease[l].key IN
  /\ Open(l) /\ k \notin uncacheable
  /\ store.at[k] # "none" /\ ~Intact(store, k)
  /\ \E F \in StuckSets : store' = Forget(store, k, F) /\ Spend(Cardinality(F))
  /\ UNCHANGED <<disk, pins, privacy, limits, lease, env>>

\* A hit moves the whole bundle to the most recently used end.
Touch(l) ==
  LET k == lease[l].key IN
  /\ Open(l) /\ k \notin uncacheable
  /\ Intact(store, k) /\ SizeOf(store.file[Path(store, k)]) > 0
  /\ store' = Reindexed(store, k, store.at[k])
  /\ UNCHANGED <<disk, pins, privacy, limits, lease, env, faults>>

\* _can_write_locked finds the marker of a private document missing.
WriteRefused(l) ==
  LET k == lease[l].key IN
  /\ Open(l) /\ k \in scoped \ (uncacheable \cup markers)
  /\ uncacheable' = uncacheable \cup {k}
  /\ \E F \in StuckSets : /\ store' = Purge(store, k, F)
                          /\ Spend(1 + Cardinality(F))
  /\ UNCHANGED <<disk, pins, scoped, limits, lease, env>>

\* _can_write_locked lets the write through, restoring a lost marker.
CanWrite(l) ==
  LET k == lease[l].key IN
  /\ Open(l) /\ k \notin uncacheable
  /\ markers' = markers \cup (scoped \cap {k})

\* Reindex what was written and make room for it.
Admitted(s, k, name) ==
  \E F \in StuckSets :
    /\ store' = Evict(Reindexed(s, k, name), Spared({k}), budget, F)
    /\ Spend(Cardinality(F))

PutMany(l, ps) ==
  LET k == lease[l].key
      f == Path(store, k) IN
  /\ CanWrite(l)
  /\ stamped' = TRUE
  /\ Admitted([store EXCEPT !.file[f] = Appended(@, ps, k \in scoped)], k, f[2])
  /\ UNCHANGED <<pins, privacy, limits, lease, env>>

\* The append raises: nothing, some of the pages, or a ruined archive is left,
\* and the index is not told.
PutFailed(l) ==
  LET k    == lease[l].key
      f    == Path(store, k)
      left == {Garbled(store.file[f], k \in scoped)} \cup
              {Appended(store.file[f], ps, k \in scoped) : ps \in SUBSET Pages} IN
  /\ CanWrite(l) /\ Spend(1)
  /\ stamped' = TRUE
  /\ store' \in {store} \cup {[store EXCEPT !.file[f] = b] : b \in left}
  /\ UNCHANGED <<pins, privacy, limits, lease, env>>

------------------------------------------------------------------------------
(* Publication: the pages are verified and the manifest written under one *)
(* hold of the lock; the rename to the published name comes last.         *)

Complete(k) == Intact(store, k) /\ store.file[Path(store, k)].pages = Pages

Stamp(s, k)  == [s EXCEPT !.file[Path(s, k)].ready = Kind(k)]
Renamed(s, k) == IF s.at[k] = "final" THEN s ELSE
  [s EXCEPT !.file = [@ EXCEPT ![<<k, "final">>]   = s.file[<<k, "partial">>],
                               ![<<k, "partial">>] = Absent]]

Publish(l) ==
  LET k == lease[l].key IN
  /\ CanWrite(l) /\ Complete(k)
  /\ Admitted(Renamed(Stamp(store, k), k), k, "final")
  /\ UNCHANGED <<stamped, pins, privacy, limits, lease, env>>

\* The rename fails: complete and readable through the partial name.
PublishUnrenamed(l) ==
  LET k == lease[l].key IN
  /\ CanWrite(l) /\ Complete(k) /\ store.at[k] = "partial" /\ Spend(1)
  /\ store' = Evict(Reindexed(Stamp(store, k), k, "partial"), Spared({k}), budget, {})
  /\ UNCHANGED <<stamped, pins, privacy, limits, lease, env>>

\* The renamed bundle cannot be stat'ed: both names are purged.
PublishLost(l) ==
  LET k == lease[l].key IN
  /\ CanWrite(l) /\ Complete(k)
  /\ \E F \in SUBSET {<<k, "final">>} :
       /\ store' = Purge(Renamed(Stamp(store, k), k), k, F)
       /\ Spend(1 + Cardinality(F))
  /\ UNCHANGED <<stamped, pins, privacy, limits, lease, env>>

\* The manifest write raises.  A first manifest is appended in place and
\* can ruin the bundle; a replacement is written beside it.
PublishFailed(l) ==
  LET k == lease[l].key
      f == Path(store, k) IN
  /\ CanWrite(l) /\ Complete(k) /\ store.file[f].ready # Kind(k) /\ Spend(1)
  /\ \/ store' = store
     \/ store.file[f].ready = "none" /\ store' = [store EXCEPT !.file[f] = Garbled(@, FALSE)]
  /\ UNCHANGED <<stamped, pins, privacy, limits, lease, env>>

\* Pages are missing, or the bundle is: the latter is dropped.
PublishRefused(l) ==
  LET k == lease[l].key IN
  /\ CanWrite(l) /\ ~Complete(k)
  /\ \E F \in StuckSets :
       /\ store' = IF Intact(store, k) THEN store ELSE Forget(store, k, F)
       /\ Spend(Cardinality(F))
  /\ UNCHANGED <<stamped, pins, privacy, limits, lease, env>>

PurgeUnpublished(l) ==
  LET k == lease[l].key IN
  /\ Open(l) /\ building[k] = 0 /\ store.at[k] # "none"
  /\ ~Published(store.file[Path(store, k)], k)
  /\ \E F \in StuckSets : store' = Purge(store, k, F) /\ Spend(Cardinality(F))
  /\ UNCHANGED <<disk, pins, privacy, limits, lease, env>>

BeginBuild(l) ==
  /\ Open(l) /\ lease[l].key \notin uncacheable /\ lease[l].guards < MaxGuards
  /\ building' = [building EXCEPT ![lease[l].key] = @ + 1]
  /\ lease' = [lease EXCEPT ![l].guards = @ + 1]
  /\ UNCHANGED <<store, disk, active, privacy, limits, env, faults>>

\* Mutant: a guard can be left twice.
EndBuildTwice(l) ==
  /\ Open(l) /\ lease[l].guards >= 0
  /\ building' = [building EXCEPT ![lease[l].key] = @ - 1]
  /\ lease' = [lease EXCEPT ![l].guards = @ - 1]
  /\ UNCHANGED <<store, disk, active, privacy, limits, env, faults>>
EndBuild(l) ==
  /\ Open(l) /\ lease[l].guards > 0
  /\ building' = [building EXCEPT ![lease[l].key] = @ - 1]
  /\ lease' = [lease EXCEPT ![l].guards = @ - 1]
  /\ UNCHANGED <<store, disk, active, privacy, limits, env, faults>>

------------------------------------------------------------------------------
(* Promotion: an ephemeral bundle is adopted under its content hash.      *)

\* Mutant: the moved count replaces the target's own.
MovedOver(count, s, t) == [count EXCEPT ![s] = 0, ![t] = count[s]]
Moved(count, s, t) == [count EXCEPT ![s] = 0, ![t] = @ + count[s]]

CanPromote(l, t) ==
  /\ Open(l) /\ lease[l].scope = "EPHEMERAL"
  /\ t \in ExtKeys /\ lease[l].key \notin uncacheable

\* Mutant: the target's marker is left to the adoption.
TargetMarksLater(s, t) == markers
\* The target of a private document is marked before any byte moves.
TargetMarks(s, t) == markers \cup (IF s \in scoped THEN {t} ELSE {})
MarkTarget(s, t)  == markers' = TargetMarks(s, t)

\* Mutant: the promise is dropped with the session key.
AdoptLosingPromise(l, t) ==
  LET s == lease[l].key IN
  /\ active' = Moved(active, s, t) /\ building' = Moved(building, s, t)
  /\ scoped' = scoped \ {s} /\ markers' = markers \ {s}
  /\ lease' = [lease EXCEPT ![l].key = t, ![l].scope = "PERSISTENT"]
  /\ UNCHANGED <<stamped, uncacheable, limits, env>>
\* _move_active, _move_building, _move_session_scope and the lease's own key.
AdoptIdentity(l, t) ==
  LET s == lease[l].key IN
  /\ active' = Moved(active, s, t)
  /\ building' = Moved(building, s, t)
  /\ scoped' = IF s \in scoped THEN (scoped \ {s}) \cup {t} ELSE scoped
  /\ markers' = IF s \in scoped THEN (markers \ {s}) \cup {t} ELSE markers
  /\ lease' = [lease EXCEPT ![l].key = t, ![l].scope = "PERSISTENT"]
  /\ UNCHANGED <<stamped, uncacheable, limits, env>>

\* The source entry is dropped, the target indexed where it now lies.
Adopted(st, s, t, name) ==
  Reindexed([st EXCEPT !.at[s] = "none", !.size[s] = 0,
                       !.lru = Without(@, {s}), !.bytes = @ - st.size[s]], t, name)

PromoteVanished(l, t) ==
  LET s == lease[l].key IN
  /\ CanPromote(l, t) /\ ~InPlace(store, s)
  /\ store' = Forget(store, s, {})
  /\ AdoptIdentity(l, t)
  /\ UNCHANGED faults

SparedAfter(s, t) == {t} \cup {k \in Keys : Moved(active, s, t)[k] > 0
                                         \/ Moved(building, s, t)[k] > 0}

\* No target indexed: rename, then restate the manifest (which may fail).
PromoteMove(l, t) ==
  LET s  == lease[l].key
      g  == <<t, "partial">>
      b  == store.file[Path(store, s)]
      To(c) == [store EXCEPT !.file = [@ EXCEPT ![Path(store, s)] = Absent, ![g] = c]] IN
  /\ CanPromote(l, t) /\ InPlace(store, s) /\ store.at[t] = "none"
  /\ \E F \in StuckSets, keep \in {0, 1} :
       /\ keep = 1 => b.ready # "none"
       /\ store' = Evict(Adopted(To(IF keep = 1 THEN b ELSE Retargeted(b, t)), s, t, "partial"),
                         SparedAfter(s, t), budget, F)
       /\ Spend(keep + Cardinality(F))
  /\ AdoptIdentity(l, t)

\* A target is indexed: its pages and the source's are merged into one.
PromoteMerge(l, t) ==
  LET s     == lease[l].key
      ready == Intact(store, t) /\ Published(store.file[Path(store, t)], t)
      name  == IF ready THEN "final" ELSE "partial"
      out   == Merged(store.file[Path(store, t)], store.file[Path(store, s)], ready) IN
  /\ CanPromote(l, t) /\ Intact(store, s) /\ Intact(store, t)
  /\ \E F \in StuckSets :
       /\ store' = Evict(
            Adopted([store EXCEPT !.file =
                       [Unlinked(@, {Path(store, t), Path(store, s)}, F)
                          EXCEPT ![<<t, name>>] = out]], s, t, name),
            SparedAfter(s, t), budget, F)
       /\ Spend(Cardinality(F))
  /\ AdoptIdentity(l, t)

\* The promotion is given up after the target may have been marked: a side
\* of the merge is unreadable, the move fails, or fails after the rename.
PromoteFailed(l, t) ==
  LET s == lease[l].key
      g == <<t, "partial">> IN
  /\ CanPromote(l, t) /\ InPlace(store, s)
  /\ MarkTarget(s, t)
  /\ \/ /\ store.at[t] # "none" /\ ~(Intact(store, s) /\ Intact(store, t))
        /\ UNCHANGED <<store, faults>>
     \/ Spend(1) /\ UNCHANGED store
     \/ /\ store.at[t] = "none" /\ Spend(1)
        /\ store' = [store EXCEPT !.file =
             [@ EXCEPT ![Path(store, s)] = Absent,
                       ![g] = Retargeted(store.file[Path(store, s)], t)]]
  /\ UNCHANGED <<stamped, pins, privacy, limits, lease, env>>

------------------------------------------------------------------------------
(* Closing: an ephemeral lease first says its bytes must not outlive it;  *)
(* the last release of a session-scoped key purges it.                    *)

CloseMark(l) ==
  /\ Open(l) /\ lease[l].scope = "EPHEMERAL" /\ lease[l].guards = 0
  /\ lease' = [lease EXCEPT ![l].st = "closing"]
  /\ MarkSessionScoped(lease[l].key)
  /\ UNCHANGED <<stamped, pins, limits, env>>

\* Mutant: the last release purges but keeps the promise.
CloseKeepingPromise(l) ==
  LET k    == lease[l].key
      last == k \in scoped /\ active[k] = 1 IN
  /\ up /\ lease[l].guards = 0
  /\ \/ lease[l].st = "closing"
     \/ lease[l].st = "open" /\ lease[l].scope = "PERSISTENT"
  /\ lease' = [lease EXCEPT ![l] = NoLease]
  /\ active' = [active EXCEPT ![k] = @ - 1]
  /\ \E F \in StuckSets :
       LET purged == IF last THEN Purge(store, k, F) ELSE store
           spared == {j \in Keys : active'[j] > 0 \/ building[j] > 0}
           kept   == IF strict THEN Evict(purged, spared, budget, F) ELSE purged
       IN /\ store' = kept
          /\ strict' = (strict /\ kept.bytes > budget)
          /\ markers' = IF last /\ \A n \in Names : ~Exists(purged, <<k, n>>)
                        THEN markers \ {k} ELSE markers
          /\ Spend(Cardinality(F))
  /\ scoped' = scoped
  /\ uncacheable' = IF last THEN uncacheable \ {k} ELSE uncacheable
  /\ UNCHANGED <<stamped, building, budget, env>>
\* Mutant: a release does not finish a pending shrink.
CloseLax(l) ==
  LET k    == lease[l].key
      last == k \in scoped /\ active[k] = 1 IN
  /\ up /\ lease[l].guards = 0
  /\ \/ lease[l].st = "closing"
     \/ lease[l].st = "open" /\ lease[l].scope = "PERSISTENT"
  /\ lease' = [lease EXCEPT ![l] = NoLease]
  /\ active' = [active EXCEPT ![k] = @ - 1]
  /\ \E F \in StuckSets :
       LET purged == IF last THEN Purge(store, k, F) ELSE store
           kept   == purged
       IN /\ store' = kept
          /\ strict' = (strict /\ kept.bytes > budget)
          /\ markers' = IF last /\ \A n \in Names : ~Exists(purged, <<k, n>>)
                        THEN markers \ {k} ELSE markers
          /\ Spend(Cardinality(F))
  /\ scoped' = IF last THEN scoped \ {k} ELSE scoped
  /\ uncacheable' = IF last THEN uncacheable \ {k} ELSE uncacheable
  /\ UNCHANGED <<stamped, building, budget, env>>

Close(l) ==
  LET k    == lease[l].key
      last == k \in scoped /\ active[k] = 1 IN
  /\ up /\ lease[l].guards = 0
  /\ \/ lease[l].st = "closing"
     \/ lease[l].st = "open" /\ lease[l].scope = "PERSISTENT"
  /\ lease' = [lease EXCEPT ![l] = NoLease]
  /\ active' = [active EXCEPT ![k] = @ - 1]
  /\ \E F \in StuckSets :
       LET purged == IF last THEN Purge(store, k, F) ELSE store
           spared == {j \in Keys : active'[j] > 0 \/ building[j] > 0}
           kept   == IF strict THEN Evict(purged, spared, budget, F) ELSE purged
       IN /\ store' = kept
          /\ strict' = (strict /\ kept.bytes > budget)
          /\ markers' = IF last /\ \A n \in Names : ~Exists(purged, <<k, n>>)
                        THEN markers \ {k} ELSE markers
          /\ Spend(Cardinality(F))
  /\ scoped' = IF last THEN scoped \ {k} ELSE scoped
  /\ uncacheable' = IF last THEN uncacheable \ {k} ELSE uncacheable
  /\ UNCHANGED <<stamped, building, budget, env>>

------------------------------------------------------------------------------
(* The settings page, and the operating system                            *)

Resize(b) ==
  /\ up
  /\ budget' = b
  /\ \E F \in StuckSets : /\ store' = Evict(store, Spared({}), b, F)
                          /\ Spend(Cardinality(F))
  /\ strict' = (store'.bytes > b)
  /\ UNCHANGED <<disk, pins, privacy, lease, env>>

\* Every entry is forgotten, then what no surviving entry names is swept.
\* The sweep stops at the first file that resists.
Clear ==
  LET Strays(s) == {f \in Files : Exists(s, f) /\ s.at[f[1]] # f[2]} IN
  /\ up
  /\ \E F \in StuckSets :
       LET s == ForgetAll(store, F) IN
       /\ \/ /\ Strays(s) \cap F = {}
             /\ store' = [s EXCEPT !.file = Unlinked(@, Strays(s), {})]
             /\ markers' = markers \cap scoped
          \/ /\ Strays(s) \cap F # {}
             /\ \E swept \in SUBSET (Strays(s) \ F), m \in SUBSET (markers \ scoped) :
                  /\ store' = [s EXCEPT !.file = Unlinked(@, swept, {})]
                  /\ markers' = markers \ m
       /\ Spend(Cardinality(F))
       /\ strict' = (s.bytes > budget)
  /\ stamped' = TRUE
  /\ UNCHANGED <<pins, privacy, budget, lease, env>>

\* The OS may clear Cache while JoyRead is running.
OsPurge ==
  /\ up /\ \E f \in Files : Exists(store, f)
  /\ store' = [store EXCEPT !.file = [f \in Files |-> Absent]]
  /\ markers' = {} /\ stamped' = FALSE
  /\ UNCHANGED <<pins, privacy, limits, lease, env, faults>>

------------------------------------------------------------------------------
(* Process death, between calls and inside the calls that touch several   *)
(* files.  The memory of the pool is gone; files, markers, and the schema *)
(* stamp stay as the interrupted call left them.                          *)

Die(file, left, stamp) ==
  /\ up /\ restarts < MaxRestarts
  /\ up' = FALSE /\ UNCHANGED restarts
  /\ store' = [NewStore EXCEPT !.file = file]
  /\ markers' = left /\ stamped' = stamp
  /\ active' = [k \in Keys |-> 0] /\ building' = [k \in Keys |-> 0]
  /\ scoped' = {} /\ uncacheable' = {} /\ strict' = FALSE
  /\ lease' = [l \in Leases |-> NoLease]
  /\ UNCHANGED <<budget, faults>>

Crash == Die(store.file, markers, stamped)

\* Inside put_many or publish_complete: the append is cut short.
CrashInWrite(l) ==
  LET k == lease[l].key
      f == Path(store, k) IN
  /\ Open(l) /\ k \notin uncacheable
  /\ Die([store.file EXCEPT ![f] = Garbled(@, k \in scoped)],
         markers \cup (scoped \cap {k}), TRUE)

\* Inside publish_complete: the manifest is written, the rename is not.
CrashInPublish(l) ==
  LET k == lease[l].key IN
  /\ Open(l) /\ k \notin uncacheable /\ Complete(k) /\ store.at[k] = "partial"
  /\ Die(Stamp(store, k).file, markers \cup (scoped \cap {k}), stamped)

\* Inside promote: after the target's marker; after the rename but before
\* the manifest is restated; after the merge but before its inputs go.
CrashInPromote(l, t) ==
  LET s      == lease[l].key
      marked == TargetMarks(s, t)
      ready  == Intact(store, t) /\ Published(store.file[Path(store, t)], t)
      name   == IF ready THEN "final" ELSE "partial" IN
  /\ CanPromote(l, t) /\ InPlace(store, s)
  /\ \/ Die(store.file, marked, stamped)
     \/ /\ store.at[t] = "none"
        /\ Die([store.file EXCEPT ![<<t, "partial">>] = store.file[Path(store, s)],
                                  ![Path(store, s)] = Absent], marked, stamped)
     \/ /\ Intact(store, s) /\ Intact(store, t)
        /\ Die([store.file EXCEPT ![<<t, name>>] =
              Merged(store.file[Path(store, t)], store.file[Path(store, s)], ready)], marked, stamped)

\* Inside the last release: some of the files are gone, the marker is not.
CrashInRelease(l) ==
  LET k == lease[l].key IN
  /\ up /\ Live(l) /\ k \in scoped /\ active[k] = 1
  /\ \E gone \in (SUBSET ({k} \X Names)) \ {{}} :
       /\ \A f \in gone : Exists(store, f)
       /\ Die(Unlinked(store.file, gone, {}), markers, stamped)

------------------------------------------------------------------------------
(* The first use in the next process reconciles the directory.            *)

\* A directory of another schema is emptied, privacy markers included.
Swept(file, F) == IF stamped THEN file ELSE Unlinked(file, Files, F)

\* Ephemeral, privately marked and unreadable bundles are never indexed.
Doomed(file, sessions) == {f \in Files : \/ f[1] \in EphKeys \cup sessions
                                        \/ file[f].state = "corrupt"}

\* Complete bundles that missed their rename, of which those in K get it now.
Late(file) == {k \in Keys : /\ Published(file[<<k, "partial">>], k)
                            /\ file[<<k, "final">>].state = "absent"}
Recovered(file, K) ==
  [f \in Files |-> IF f[1] \notin K THEN file[f]
                   ELSE IF f[2] = "final" THEN file[<<f[1], "partial">>] ELSE Absent]

Sessions == IF stamped THEN markers ELSE {}

\* What Reconcile indexes; of two siblings the newer stays, and clocks decide
\* which one that is.  The last one indexed is spared by the first eviction.
IndexBuilt(file, F) ==
  LET Has(k, n) == file[<<k, n>>].state = "intact" /\ k \notin EphKeys \cup Sessions
      known     == {k \in Keys : \E n \in Names : Has(k, n)}
  IN \E at \in [known -> Names], rank \in [known -> 1 .. Cardinality(known)] :
       LET stale  == {f \in known \X Names : Has(f[1], f[2]) /\ at[f[1]] # f[2]}
           s      == [file  |-> Unlinked(file, stale, F),
                      at    |-> [k \in Keys |-> IF k \in known THEN at[k] ELSE "none"],
                      size  |-> [k \in Keys |-> IF k \in known
                                   THEN SizeOf(file[<<k, at[k]>>]) ELSE 0],
                      lru   |-> Ranked(Keys, rank), bytes |-> 0]
           newest == {k \in known : rank[k] = Cardinality(known)}
       IN /\ \A k \in known : /\ Has(k, at[k])
                              /\ \A j \in known : rank[j] = rank[k] => j = k
          /\ store' = Evict([s EXCEPT !.bytes = TotalOf(s, known)], newest, budget, F)

\* The directory is gone through in the order it is listed: a bundle whose
\* sibling is unreadable is renamed only if the sibling came first.
Reconcile ==
  /\ ~up
  /\ up' = TRUE /\ restarts' = restarts + 1
  /\ stamped' = TRUE
  /\ \E F \in StuckSets, K \in SUBSET Keys :
       LET swept  == Swept(store.file, F)
           left   == Unlinked(swept, Doomed(swept, Sessions), F)
           file   == Recovered(left, K)
           failed == {k \in Late(left) \ K : swept[<<k, "final">>].state = "absent"}
       IN /\ K \subseteq Late(left)
          /\ markers' = {k \in Sessions : \E n \in Names : file[<<k, n>>].state # "absent"}
          /\ IndexBuilt(file, F)
          /\ Spend(Cardinality(F) + Cardinality(failed))
  /\ UNCHANGED <<pins, privacy, limits, lease>>

------------------------------------------------------------------------------
LeaseStep(l) ==
  \/ \E k \in Keys, private \in BOOLEAN : OpenLease(l, k, private)
  \/ MarkPrivate(l)
  \/ DropUnreadable(l) \/ Touch(l)
  \/ WriteRefused(l) \/ PutFailed(l)
  \/ \E ps \in (SUBSET Pages) \ {{}} : PutMany(l, ps)
  \/ Publish(l) \/ PublishUnrenamed(l) \/ PublishLost(l)
  \/ PublishFailed(l) \/ PublishRefused(l)
  \/ PurgeUnpublished(l) \/ BeginBuild(l) \/ EndBuild(l)
  \/ \E t \in ExtKeys : \/ PromoteVanished(l, t) \/ PromoteMove(l, t)
                        \/ PromoteMerge(l, t) \/ PromoteFailed(l, t)
  \/ CloseMark(l) \/ Close(l)

CrashStep ==
  \/ Crash
  \/ \E l \in Leases : \/ CrashInWrite(l) \/ CrashInPublish(l) \/ CrashInRelease(l)
                      \/ \E t \in ExtKeys : CrashInPromote(l, t)

Next ==
  \/ \E l \in Leases : LeaseStep(l)
  \/ \E b \in Budgets : Resize(b)
  \/ Clear \/ OsPurge
  \/ CrashStep \/ Reconcile

Spec == Init /\ [][Next]_vars

------------------------------------------------------------------------------
(* Properties                                                              *)

LeaseRecord == [st : {"free", "opening", "open", "closing"},
                key : Keys \cup {"none"},
                scope : {"none", "EPHEMERAL", "PERSISTENT"},
                guards : 0 .. MaxGuards]

\* The bookkeeping: everything but the store and the bounds' counters.
BookTypeOK ==
  /\ markers \subseteq Keys /\ stamped \in BOOLEAN
  /\ active \in [Keys -> Nat] /\ building \in [Keys -> Int]
  /\ scoped \subseteq Keys /\ uncacheable \subseteq Keys
  /\ budget \in Budgets /\ strict \in BOOLEAN
  /\ lease \in [Leases -> LeaseRecord]
  /\ up \in BOOLEAN

\* Every variable holds a value of its type.
TypeOK == /\ BookTypeOK
          /\ store \in Store
          /\ faults \in 0 .. MaxFaults /\ restarts \in 0 .. MaxRestarts

\* The pool's pin counts are exactly what the live leases owe it,
\* through every promotion: no pin leaks, none is given back twice.
PinsMatchLeases == \A k \in Keys : active[k] = Cardinality(Holders(k))

\* A privacy mark never waits for a release that no lease will make: every
\* session-scoped key is pinned, and only those are refused the cache.
MarkAwaitsRelease == /\ \A k \in scoped : Pinned(k)
                     /\ uncacheable \subseteq scoped

\* After the last lease of a private document closes, none of its bytes are
\* on disk under any name, whatever merged, moved or published them.
PrivateDiesWithLastLease ==
  (up /\ faults = 0) => \A f \in Files :
    store.file[f].priv => f[1] \in scoped /\ Pinned(f[1])

\* Whatever plaintext of a private document a process left behind, the next
\* one never takes it into its index.  One I/O error at any point does not
\* change that; a second can: the marker cannot be written, and then the
\* bundle cannot be unlinked.
PrivateNotReindexed ==
  [][(~up /\ up' /\ faults <= 1) =>
       \A k \in Indexed(store') : ~store'.file[Path(store', k)].priv]_vars

\* A bundle whose manifest says it is ready has every page, whichever of
\* appends, merges, promotions, crashes and recoveries it went through.
PublishedIsComplete == \A f \in Files :
  Published(store.file[f], f[1]) => store.file[f].pages = Pages

\* The pool's books agree with what there is.  The running total is the sum
\* of the entries and the builds counted are those of live leases; and,
\* unless an I/O error intervened, an entry is charged what its file occupies
\* and no bundle is on disk that an eviction could not see.
AccountingExact ==
  /\ store.bytes = TotalOf(store, Keys)
  /\ \A k \in Keys :
       building[k] = Sum([l \in Leases |-> lease[l].guards], Holders(k))
  /\ (up /\ faults = 0) =>
       /\ \A k \in Keys :
            InPlace(store, k) => store.size[k] = SizeOf(store.file[Path(store, k)])
       /\ \A f \in Files : Exists(store, f) => store.at[f[1]] = f[2]

\* The bundle of a pinned or building document leaves the disk only by an
\* operation on that document, a clear, the system's own purge, or the end
\* of the process: never to make room for another.
PinnedSurvivesEviction ==
  [][\A k \in Keys :
       (InPlace(store, k) /\ (active[k] > 0 \/ building[k] > 0) /\ ~InPlace(store', k))
         => \/ ~up' \/ Clear \/ OsPurge
            \/ \E l \in Holders(k) : LeaseStep(l)]_vars

\* A lowered budget is met, at the latest, when the last lease closes.
ShrinkIsHonoured ==
  (up /\ strict /\ faults = 0) => \E k \in Keys : active[k] > 0
=============================================================================
