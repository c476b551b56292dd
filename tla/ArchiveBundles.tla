---------------------------- MODULE ArchiveBundles ----------------------------
(***************************************************************************)
(* The on-disk bundles of the archive extraction pool and its in-memory   *)
(* index: the helpers of ArchiveExtractionPool that every public method   *)
(* is built from.  A store is a record                                    *)
(*                                                                         *)
(*   file   what lies at <key>.partial.zip and at <key>.zip               *)
(*   at     the name the index entry of a key points at, or "none"        *)
(*   size   the size that entry was last given                            *)
(*   lru    the order of the index, least recently used first             *)
(*   bytes  the running total the budget is compared with                 *)
(*                                                                         *)
(* The operators are pure: each takes a store and returns the store the   *)
(* code leaves behind.  Their last argument is the set of files the       *)
(* operating system refuses to unlink during the call.                    *)
(***************************************************************************)
EXTENDS DictOrder

CONSTANTS
  EphKeys,   \* identities of one reader session: "session:<uuid>"
  ExtKeys,   \* content-addressed identities: "external:sha256:<digest>"
  ManKeys,   \* identities of managed books: "file:<root>:<id>"
  Pages      \* the page entries of a document

ASSUME KeysAssumption ==
  /\ EphKeys \cap ExtKeys = {}
  /\ EphKeys \cap ManKeys = {}
  /\ ExtKeys \cap ManKeys = {}
  /\ IsFiniteSet(Pages)

Keys  == EphKeys \cup ExtKeys \cup ManKeys
Kinds == {"ephemeral", "external", "managed"}
Names == {"partial", "final"}
Files == Keys \X Names

Kind(k) == IF k \in EphKeys THEN "ephemeral"
           ELSE IF k \in ExtKeys THEN "external" ELSE "managed"

(***************************************************************************)
(* A bundle: its pages, the identity kind its ready manifest names        *)
(* ("none" without a manifest), and whether it holds pages of a document  *)
(* that asked to leave nothing behind (a history variable of the model:   *)
(* no code reads priv).                                                   *)
(***************************************************************************)
Bundle == [state : {"absent", "intact", "corrupt"}, pages : SUBSET Pages,
           ready : Kinds \cup {"none"}, priv : BOOLEAN]

Absent == [state |-> "absent", pages |-> {}, ready |-> "none", priv |-> FALSE]

Garbled(b, priv) == [state |-> "corrupt", pages |-> {}, ready |-> "none",
                     priv |-> b.priv \/ priv]

SizeOf(b) == CASE b.state = "absent"  -> 0
               [] b.state = "corrupt" -> 1
               [] OTHER -> Cardinality(b.pages) + (IF b.ready = "none" THEN 0 ELSE 1)

Store == [file : [Files -> Bundle], at : [Keys -> Names \cup {"none"}],
          size : [Keys -> Nat], lru : Orders(Keys), bytes : Nat]

Indexed(s)    == {k \in Keys : s.at[k] # "none"}
Exists(s, f)  == s.file[f].state # "absent"
Path(s, k)    == <<k, IF s.at[k] = "none" THEN "partial" ELSE s.at[k]>>
InPlace(s, k) == s.at[k] # "none" /\ Exists(s, <<k, s.at[k]>>)
Intact(s, k)  == InPlace(s, k) /\ s.file[<<k, s.at[k]>>].state = "intact"
Published(b, k) == b.state = "intact" /\ b.ready = Kind(k)

\* The sum of f over S, as the number of the units that make it up.
Sum(f, S)     == Cardinality(UNION {{x} \X (1 .. f[x]) : x \in S})
TotalOf(s, K) == Sum(s.size, K)

Unlinked(file, gone, stuck) ==
  [f \in Files |-> IF f \in gone \ stuck THEN Absent ELSE file[f]]

(* An append that finds an unreadable bundle starts it from scratch.      *)
Appended(b, ps, priv) ==
  IF b.state = "intact"
  THEN [b EXCEPT !.pages = @ \cup ps, !.priv = @ \/ priv]
  ELSE [state |-> "intact", pages |-> ps, ready |-> "none", priv |-> priv]

\* Mutant: a manifest is written whether or not there was one.
RetargetedAlways(b, t) == IF b.state = "intact" THEN [b EXCEPT !.ready = Kind(t)] ELSE b

(* A retargeted manifest is restated under the kind of the key it moved   *)
(* to; a bundle without one is left alone.                                *)
Retargeted(b, t) == IF b.state = "intact" /\ b.ready # "none"
                    THEN [b EXCEPT !.ready = Kind(t)] ELSE b

(* Pages of both bundles; only a target that was ready keeps a manifest.  *)
Merged(target, source, targetReady) ==
  [state |-> "intact", pages |-> target.pages \cup source.pages,
   ready |-> IF targetReady THEN target.ready ELSE "none",
   priv |-> target.priv \/ source.priv]

\* The bundle is there, and the system refuses to unlink it.
Resists(s, k, stuck) == InPlace(s, k) /\ <<k, s.at[k]>> \in stuck

(* Drop one bundle from the index and from disk.  A file that will not go *)
(* keeps its entry, its bytes, and moves to the head of the queue.        *)
Forget(s, k, stuck) ==
  IF s.at[k] = "none" THEN s
  ELSE IF Resists(s, k, stuck)
       THEN [s EXCEPT !.lru = ToFront(@, {k})]
       ELSE [file  |-> Unlinked(s.file, {<<k, s.at[k]>>}, {}),
             at    |-> [s.at EXCEPT ![k] = "none"],
             size  |-> [s.size EXCEPT ![k] = 0],
             lru   |-> Without(s.lru, {k}),
             bytes |-> s.bytes - s.size[k]]

(* Drop every bundle, in the order of the queue.                          *)
ForgetAll(s, stuck) ==
  LET kept == {k \in Indexed(s) : Resists(s, k, stuck)} IN
  [file  |-> Unlinked(s.file, {<<k, s.at[k]>> : k \in Indexed(s)}, stuck),
   at    |-> [k \in Keys |-> IF k \in kept THEN s.at[k] ELSE "none"],
   size  |-> [k \in Keys |-> IF k \in kept THEN s.size[k] ELSE 0],
   lru   |-> Without(ToFront(s.lru, kept), Keys \ kept),
   bytes |-> s.bytes - TotalOf(s, Indexed(s) \ kept)]

(* Remove both files of a key, indexed or not, then its entry.            *)
Purge(s, k, stuck) ==
  Forget([s EXCEPT !.file = Unlinked(@, {k} \X Names, stuck)], k, stuck)

\* Mutant: the bytes of the entry replaced are not given back.
ReindexedTwice(s, k, name) ==
  LET new == SizeOf(s.file[<<k, name>>]) IN
  [s EXCEPT !.at[k] = name, !.size[k] = new,
            !.lru = WithLast(Without(@, {k}), k), !.bytes = @ + new]

(* (Re)index the bundle of k at the most recently used end.               *)
Reindexed(s, k, name) ==
  LET new == SizeOf(s.file[<<k, name>>]) IN
  [s EXCEPT !.at[k]   = name,
            !.size[k] = new,
            !.lru     = WithLast(Without(@, {k}), k),
            !.bytes   = @ - s.size[k] + new]

(***************************************************************************)
(* Evict oldest first while over budget, skipping the bundles in safe and *)
(* the ones that resist.  The loop tries a key when what could be removed *)
(* of the keys before it was not enough.                                  *)
(***************************************************************************)
Evict(s, safe, budget, stuck) ==
  LET Gone(K)   == {k \in K \ safe : ~Resists(s, k, stuck)}
      Enough(K) == s.bytes - TotalOf(s, Gone(K)) <= budget
      tried     == {k \in Listed(s.lru) : ~Enough(s.lru[k] \ {k})}
      gone      == Gone(tried)
  IN [file  |-> Unlinked(s.file, {<<k, s.at[k]>> : k \in gone}, {}),
      at    |-> [k \in Keys |-> IF k \in gone THEN "none" ELSE s.at[k]],
      size  |-> [k \in Keys |-> IF k \in gone THEN 0 ELSE s.size[k]],
      lru   |-> Without(ToFront(s.lru, tried \ (safe \cup gone)), gone),
      bytes |-> s.bytes - TotalOf(s, gone)]
=============================================================================
