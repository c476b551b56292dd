---------------------------- MODULE ReaderProofs ----------------------------
(***************************************************************************)
(* What ReaderPages keeps, for every number of pages, of documents and of  *)
(* streams.  The handlers of the GUI thread ask each other for pages; what *)
(* each of them does to the record it works on is said once, for values,   *)
(* and then for the handlers, from the one that calls nobody upwards.      *)
(***************************************************************************)
EXTENDS ReaderPages, TLAPS, SequenceTheorems, WellFoundedInduction

Gui == [view : View, pipe : Pipe, cache : [Pages -> Docs \cup {0}],
        stream : [Streams -> Stream \cup {NoStream}], bumps : Nat]

\* The current stream is one that reads the document that is open.
Served(s) ==
  s.pipe.stream # 0 => /\ s.stream[s.pipe.stream] # NoStream
                       /\ s.stream[s.pipe.stream].doc = s.pipe.source
AllBrought(s) == s.pipe.pending \subseteq Brought(s.stream, s.pipe.stream)
\* What a stream still has to do, by its step.
Steady(st) == /\ st.step \in Working => Todo(st) # {}
              /\ st.step = "done" => Todo(st) = {}
Sound(s) == /\ s \in Gui /\ Served(s) /\ AllBrought(s)
            /\ \A i \in Streams : Steady(s.stream[i])

\* There is a place for the stream that a request submits, or the request
\* takes away one that leaves its place at once.
Roomy(s) == Free(s) # {} \/ (s.pipe.stream # 0 /\ s.stream[s.pipe.stream].step \in Idle)

Unshown(s) == {p \in Spread(s.view) : s.view.shown[p] = 0}

\* What every handler keeps of the record s when it makes t of it.
KeptView(s, t) ==
  /\ t.view.stage = s.view.stage /\ t.view.primary = s.view.primary
  /\ t.view.ahead = s.view.ahead /\ t.view.changes = s.view.changes
  /\ t.view.companion \in {s.view.companion, 0}
  /\ \A p \in Pages : t.view.shown[p] \in {0, s.view.shown[p], s.cache[p]}
  /\ \A p \in Spread(t.view) : s.view.shown[p] # 0 => t.view.shown[p] # 0
KeptPipe(s, t) ==
  /\ t.cache = s.cache /\ t.pipe.source = s.pipe.source
  /\ t.pipe.opening \in {s.pipe.opening, 0}
  /\ t.bumps >= s.bumps /\ (t.bumps = s.bumps => t.pipe = s.pipe /\ t.stream = s.stream)
  /\ \A d \in Docs : Reading(t.stream, d) <=> Reading(s.stream, d)
Kept(s, t) == KeptView(s, t) /\ KeptPipe(s, t)

------------------------------------------------------------------------------
(* The parts of a handler                                                  *)

LEMMA DocFacts == 0 \notin Docs /\ 0 \notin Pages
  BY ReaderAssumption DEF Docs, Pages

LEMMA LeastIn ==
  ASSUME NEW S \in SUBSET Pages, S # {}
  PROVE  Least(S) \in S
<1>1. Pages \subseteq Nat
  BY ReaderAssumption DEF Pages
<1>2. PICK x \in S : \A y \in S : ~ (<<y, x>> \in OpToRel(<, Nat))
  BY <1>1, NatLessThanWellFounded, WFMin
<1>3. \A y \in S : x <= y
  <2>1. TAKE y \in S
  <2>2. ~(y < x)
    BY <1>1, <1>2 DEF OpToRel
  <2> QED
    BY <1>1, <2>2
<1> QED
  BY <1>3 DEF Least

LEMMA Cancelled ==
  ASSUME NEW s \in Gui
  PROVE  LET t == CancelSerial(s) IN
    /\ t \in Gui /\ t.view = s.view /\ t.cache = s.cache /\ t.bumps = s.bumps + 1
    /\ t.pipe.source = s.pipe.source /\ t.pipe.pending = {}
    /\ t.pipe.stream = 0 /\ t.pipe.opening = 0
    /\ \A i \in Streams : t.stream[i] =
         IF i # s.pipe.stream THEN s.stream[i]
         ELSE IF s.stream[i].step \in Idle THEN NoStream ELSE [s.stream[i] EXCEPT !.items = <<>>]
<1> DEFINE F == [i \in Streams |-> IF i # s.pipe.stream THEN s.stream[i]
                  ELSE IF s.stream[i].step \in Idle THEN NoStream
                  ELSE [s.stream[i] EXCEPT !.items = <<>>]]
<1> DEFINE P == [s.pipe EXCEPT !.pending = {}, !.stream = 0, !.opening = 0]
<1>1. \A st \in Stream : [st EXCEPT !.items = <<>>] \in Stream
  BY EmptySeq DEF Stream
<1>2. [NoStream EXCEPT !.items = <<>>] = NoStream
  BY DEF NoStream
<1>3. F \in [Streams -> Stream \cup {NoStream}]
  BY <1>1, <1>2 DEF Gui
<1>4. s.pipe \in Pipe /\ s.bumps \in Nat
  BY DEF Gui
<1>5. P \in Pipe /\ P.pending = {} /\ P.stream = 0 /\ P.opening = 0 /\ P.source = s.pipe.source
  BY <1>4 DEF Pipe
<1>6. CancelSerial(s) = [s EXCEPT !.bumps = s.bumps + 1, !.pipe = P, !.stream = F]
  BY <1>4 DEF CancelSerial, Gui, Pipe
<1> HIDE DEF P, F
<1>7. CancelSerial(s) = [view |-> s.view, pipe |-> P, cache |-> s.cache, stream |-> F,
                         bumps |-> s.bumps + 1]
  BY <1>6 DEF Gui
<1>8. CancelSerial(s) \in Gui
  BY <1>3, <1>4, <1>5, <1>7 DEF Gui
<1> QED
  BY <1>5, <1>7, <1>8 DEF F

LEMMA PartsOfGui ==
  ASSUME NEW s \in Gui
  PROVE  /\ s.view \in View /\ s.pipe \in Pipe /\ s.cache \in [Pages -> Docs \cup {0}]
         /\ s.stream \in [Streams -> Stream \cup {NoStream}] /\ s.bumps \in Nat
         /\ Spread(s.view) \subseteq Pages /\ s.view.primary \in Spread(s.view)
         /\ Nearby(s.view) \subseteq Pages /\ Spread(s.view) \subseteq Nearby(s.view)
  BY DocFacts DEF Gui, View, Spread, Nearby

\* What follows only from the streams and the pipe.
LEMMA SameStreams ==
  ASSUME NEW s, Sound(s), NEW t \in Gui, t.pipe = s.pipe, t.stream = s.stream
  PROVE  Sound(t) /\ (Roomy(s) => Roomy(t)) /\ Free(t) = Free(s)
  BY DEF Sound, Served, AllBrought, Roomy, Free

LEMMA KeptTrans ==
  ASSUME NEW s \in Gui, NEW t \in Gui, NEW u \in Gui, Kept(s, t), Kept(t, u)
  PROVE  Kept(s, u)
<1>1. KeptView(s, u)
  <2>1. Spread(u.view) \subseteq Spread(t.view)
    BY DEF Kept, KeptView, Spread
  <2> QED
    BY <2>1 DEF Kept, KeptView, KeptPipe
<1>2. KeptPipe(s, u)
  BY PartsOfGui DEF Kept, KeptPipe
<1> QED
  BY <1>1, <1>2 DEF Kept

LEMMA KeptUnshown ==
  ASSUME NEW s \in Gui, NEW t \in Gui, Kept(s, t)
  PROVE  Spread(t.view) \subseteq Spread(s.view) /\ Unshown(t) \subseteq Unshown(s)
  BY PartsOfGui DEF Kept, KeptView, Spread, Unshown

LEMMA CancelKept ==
  ASSUME NEW s, Sound(s)
  PROVE  LET t == CancelSerial(s) IN
    Sound(t) /\ Kept(s, t) /\ (Roomy(s) => Free(t) # {} /\ Roomy(t))
<1> DEFINE t == CancelSerial(s)
<1>1. s \in Gui
  BY DEF Sound
<1>2. /\ t \in Gui /\ t.view = s.view /\ t.cache = s.cache /\ t.bumps = s.bumps + 1
      /\ t.pipe.source = s.pipe.source /\ t.pipe.pending = {}
      /\ t.pipe.stream = 0 /\ t.pipe.opening = 0
      /\ \A i \in Streams : t.stream[i] =
           IF i # s.pipe.stream THEN s.stream[i]
           ELSE IF s.stream[i].step \in Idle THEN NoStream ELSE [s.stream[i] EXCEPT !.items = <<>>]
  BY <1>1, Cancelled
<1>3. s.stream \in [Streams -> Stream \cup {NoStream}] /\ s.bumps \in Nat /\ s.pipe \in Pipe
      /\ s.view \in View
  BY <1>1 DEF Gui
<1> HIDE DEF t
<1>4. \A i \in Streams : /\ t.stream[i].step = "reading" <=> s.stream[i].step = "reading"
                         /\ s.stream[i].step = "reading" => t.stream[i].doc = s.stream[i].doc
                         /\ Steady(s.stream[i]) => Steady(t.stream[i])
  <2> TAKE i \in Streams
  <2>1. CASE i # s.pipe.stream
    BY <1>2, <2>1
  <2>2. CASE i = s.pipe.stream /\ s.stream[i].step \in Idle
    <3>1. t.stream[i] = NoStream
      BY <1>2, <2>2
    <3>2. NoStream.step = "none"
      BY DEF NoStream
    <3> QED
      BY <3>1, <3>2, <2>2 DEF Idle, Steady, Working
  <2>3. CASE i = s.pipe.stream /\ s.stream[i].step \notin Idle
    <3>1. t.stream[i] = [s.stream[i] EXCEPT !.items = <<>>]
      BY <1>2, <2>3
    <3>2. t.stream[i].step = s.stream[i].step /\ t.stream[i].doc = s.stream[i].doc
          /\ t.stream[i].visible = s.stream[i].visible /\ t.stream[i].prefetch = s.stream[i].prefetch
      BY <3>1, <1>3 DEF Stream, NoStream
    <3> QED
      BY <3>2 DEF Steady, Todo
  <2> QED
    BY <2>1, <2>2, <2>3
<1>5. \A d \in Docs : Reading(t.stream, d) <=> Reading(s.stream, d)
  BY <1>4 DEF Reading
<1>6. Sound(t)
  BY <1>2, <1>4 DEF Sound, Served, AllBrought
<1>7. ASSUME Roomy(s)
      PROVE  Free(t) # {}
  <2>1. CASE Free(s) # {}
    <3>1. PICK i \in Streams : s.stream[i] = NoStream
      BY <2>1 DEF Free
    <3>2. i # s.pipe.stream
      BY <3>1, ReaderAssumption DEF Sound, Served
    <3> QED
      BY <3>1, <3>2, <1>2 DEF Free
  <2>2. CASE s.pipe.stream # 0 /\ s.stream[s.pipe.stream].step \in Idle
    <3>1. s.pipe.stream \in Streams
      BY <1>3, <2>2 DEF Pipe
    <3> QED
      BY <3>1, <2>2, <1>2 DEF Free
  <2> QED
    BY <1>7, <2>1, <2>2 DEF Roomy
<1>8. Kept(s, t)
  BY <1>2, <1>3, <1>5, DocFacts DEF Kept, KeptView, KeptPipe, View
<1> QED
  BY <1>6, <1>7, <1>8 DEF Roomy, t

------------------------------------------------------------------------------
(* What a handler makes of the record, said for values                     *)

\* The pages s needs first, and those of a set that are yet to come.
Needs(s) == IF s.view.shown[s.view.primary] = 0 THEN {s.view.primary} ELSE Nearby(s.view)
Absent(s, pages) == {p \in pages : s.view.shown[p] = 0 /\ s.cache[p] = 0}

\* A request, a layout and the publication of a cached page that has come to t.
Request(s, pages, t) ==
  /\ Sound(t) /\ Roomy(t) /\ Kept(s, t)
  /\ s.pipe.source # 0 => Absent(s, pages) \subseteq Brought(t.stream, t.pipe.stream)
  /\ Wanted(s, pages) = {} => t = s
Layout(s, t) ==
  /\ Sound(t) /\ Roomy(t) /\ Kept(s, t)
  /\ s.pipe.source # 0 => Absent(s, Needs(s)) \subseteq Brought(t.stream, t.pipe.stream)

\* Page p of document d arrives.
Known(s, p) == [s EXCEPT !.view.bad = @ \ {p}]
Show(s, p, d) == [Known(s, p) EXCEPT !.view.shown[p] = d]
Publication(s, p, t) ==
  /\ Sound(t) /\ Roomy(t) /\ Kept(s, t) /\ Unshown(t) \subseteq Unshown(s) \ {p}
  /\ s.pipe.source # 0 /\ p \in Spread(s.view) =>
       Absent(s, Needs(Show(s, p, s.cache[p]))) \subseteq Brought(t.stream, t.pipe.stream)

\* What is asked for: nothing beside the spread before its first page is shown.
Asks(s) == IF s.view.shown[s.view.primary] = 0 THEN Spread(s.view) ELSE Nearby(s.view)
Askable(s, pages) == pages \in SUBSET Pages /\ (pages \subseteq Asks(s) \/ \E x : pages = {x})

\* Pages that are no longer known as unreadable.
Cleared(s, X) == [s EXCEPT !.view.bad = @ \ X]

LEMMA ClearedFacts ==
  ASSUME NEW s \in Gui, NEW X
  PROVE  LET u == Cleared(s, X) IN
    /\ u \in Gui /\ u.pipe = s.pipe /\ u.stream = s.stream /\ u.cache = s.cache /\ u.bumps = s.bumps
    /\ u.view.shown = s.view.shown
    /\ u.view.stage = s.view.stage /\ u.view.primary = s.view.primary
    /\ u.view.companion = s.view.companion /\ u.view.ahead = s.view.ahead
    /\ u.view.changes = s.view.changes
<1> DEFINE V == [s.view EXCEPT !.bad = @ \ X]
<1>1. s.view \in View
  BY PartsOfGui
<1>2. V \in View
  BY <1>1 DEF View
<1>3. Cleared(s, X) = [s EXCEPT !.view = V]
  BY DEF Cleared
<1>4. Cleared(s, X) = [view |-> V, pipe |-> s.pipe, cache |-> s.cache, stream |-> s.stream,
                       bumps |-> s.bumps]
  BY <1>3 DEF Gui
<1>5. Cleared(s, X) \in Gui
  BY <1>2, <1>4 DEF Gui
<1> QED
  BY <1>1, <1>4, <1>5 DEF View

LEMMA KnownFacts ==
  ASSUME NEW s \in Gui, NEW p
  PROVE  LET u == Known(s, p) IN
    /\ u \in Gui /\ u.pipe = s.pipe /\ u.stream = s.stream /\ u.cache = s.cache /\ u.bumps = s.bumps
    /\ u.view.shown = s.view.shown
    /\ u.view.stage = s.view.stage /\ u.view.primary = s.view.primary
    /\ u.view.companion = s.view.companion /\ u.view.ahead = s.view.ahead
    /\ u.view.changes = s.view.changes
<1>1. Known(s, p) = Cleared(s, {p})
  BY DEF Known, Cleared
<1> QED
  BY <1>1, ClearedFacts

LEMMA ShowFacts ==
  ASSUME NEW s \in Gui, NEW p \in Pages, NEW d \in Docs
  PROVE  LET u == Show(s, p, d) IN
    /\ u \in Gui /\ u.pipe = s.pipe /\ u.stream = s.stream /\ u.cache = s.cache /\ u.bumps = s.bumps
    /\ \A q \in Pages : u.view.shown[q] = IF q = p THEN d ELSE s.view.shown[q]
    /\ u.view.stage = s.view.stage /\ u.view.primary = s.view.primary
    /\ u.view.companion = s.view.companion /\ u.view.ahead = s.view.ahead
    /\ u.view.changes = s.view.changes
<1> DEFINE k == Known(s, p)
<1> DEFINE V == [k.view EXCEPT !.shown[p] = d]
<1>1. /\ k \in Gui /\ k.pipe = s.pipe /\ k.stream = s.stream /\ k.cache = s.cache /\ k.bumps = s.bumps
      /\ k.view.shown = s.view.shown
      /\ k.view.stage = s.view.stage /\ k.view.primary = s.view.primary
      /\ k.view.companion = s.view.companion /\ k.view.ahead = s.view.ahead
      /\ k.view.changes = s.view.changes
  BY KnownFacts
<1>2. Show(s, p, d) = [k EXCEPT !.view = V]
  BY DEF Show
<1> HIDE DEF k
<1>3. k.view \in View
  BY <1>1, PartsOfGui
<1>4. /\ V \in View /\ V.stage = k.view.stage /\ V.primary = k.view.primary
      /\ V.companion = k.view.companion /\ V.ahead = k.view.ahead
      /\ V.changes = k.view.changes
      /\ \A q \in Pages : V.shown[q] = IF q = p THEN d ELSE k.view.shown[q]
  BY <1>3 DEF View
<1> HIDE DEF V
<1>5. Show(s, p, d) = [view |-> V, pipe |-> k.pipe, cache |-> k.cache, stream |-> k.stream,
                       bumps |-> k.bumps]
  BY <1>1, <1>2 DEF Gui
<1>6. Show(s, p, d) \in Gui
  BY <1>1, <1>4, <1>5 DEF Gui
<1> QED
  BY <1>1, <1>4, <1>5, <1>6

\* A page that is shown: what it leaves, and what is then still to be shown.
LEMMA ShowKept ==
  ASSUME NEW s, Sound(s), NEW p \in Pages, NEW d \in Docs
  PROVE  LET u == Show(s, p, d) IN
    /\ Sound(u) /\ (Roomy(s) => Roomy(u)) /\ KeptPipe(s, u)
    /\ d = s.cache[p] => KeptView(s, u)
    /\ Spread(u.view) = Spread(s.view) /\ Nearby(u.view) = Nearby(s.view)
    /\ \A q \in Pages : u.view.shown[q] = IF q = p THEN d ELSE s.view.shown[q]
    /\ u.view.stage = s.view.stage /\ u.view.primary = s.view.primary
    /\ u.view.companion = s.view.companion /\ u.view.ahead = s.view.ahead
    /\ u.view.changes = s.view.changes
    /\ Unshown(u) = Unshown(s) \ {p}
<1> DEFINE u == Show(s, p, d)
<1>1. s \in Gui
  BY DEF Sound
<1>2. /\ u \in Gui /\ u.pipe = s.pipe /\ u.stream = s.stream /\ u.cache = s.cache /\ u.bumps = s.bumps
      /\ \A q \in Pages : u.view.shown[q] = IF q = p THEN d ELSE s.view.shown[q]
      /\ u.view.stage = s.view.stage /\ u.view.primary = s.view.primary
      /\ u.view.companion = s.view.companion /\ u.view.ahead = s.view.ahead
      /\ u.view.changes = s.view.changes
  BY <1>1, ShowFacts
<1>3. s.view \in View /\ s.bumps \in Nat
  BY <1>1, PartsOfGui
<1> HIDE DEF u
<1>5. Sound(u) /\ (Roomy(s) => Roomy(u))
  BY <1>2, SameStreams
<1>6. KeptPipe(s, u)
  BY <1>2, <1>3 DEF KeptPipe
<1>7. d = s.cache[p] => KeptView(s, u)
  BY <1>2, <1>3, DocFacts DEF KeptView, View, Spread
<1>8. Spread(u.view) = Spread(s.view) /\ Nearby(u.view) = Nearby(s.view)
  BY <1>2 DEF Spread, Nearby
<1>9. Unshown(u) = Unshown(s) \ {p}
  BY <1>1, <1>2, <1>8, PartsOfGui, DocFacts DEF Unshown
<1> QED
  BY <1>2, <1>5, <1>6, <1>7, <1>8, <1>9 DEF u

LEMMA ClearedKept ==
  ASSUME NEW s, Sound(s), NEW X
  PROVE  LET u == Cleared(s, X) IN
    Sound(u) /\ (Roomy(s) => Roomy(u)) /\ Kept(s, u) /\ Unshown(u) = Unshown(s)
<1> DEFINE u == Cleared(s, X)
<1>1. s \in Gui
  BY DEF Sound
<1>2. /\ u \in Gui /\ u.pipe = s.pipe /\ u.stream = s.stream /\ u.cache = s.cache /\ u.bumps = s.bumps
      /\ u.view.shown = s.view.shown
      /\ u.view.stage = s.view.stage /\ u.view.primary = s.view.primary
      /\ u.view.companion = s.view.companion /\ u.view.ahead = s.view.ahead
      /\ u.view.changes = s.view.changes
  BY <1>1, ClearedFacts
<1>3. s.view \in View /\ s.bumps \in Nat
  BY <1>1, PartsOfGui
<1> HIDE DEF u
<1>4. Sound(u) /\ (Roomy(s) => Roomy(u))
  BY <1>2, SameStreams
<1>5. KeptPipe(s, u)
  BY <1>2, <1>3 DEF KeptPipe
<1>6. KeptView(s, u)
  BY <1>2, <1>3 DEF KeptView, View
<1>7. Unshown(u) = Unshown(s)
  BY <1>2 DEF Unshown, Spread
<1> QED
  BY <1>4, <1>5, <1>6, <1>7 DEF u, Kept

LEMMA PrunedKept ==
  ASSUME NEW s, Sound(s)
  PROVE  LET u == Pruned(s) IN
    /\ Sound(u) /\ (Roomy(s) => Roomy(u)) /\ Kept(s, u) /\ Unshown(u) = Unshown(s)
    /\ u.pipe = s.pipe /\ u.stream = s.stream /\ u.cache = s.cache
    /\ Spread(u.view) = Spread(s.view) /\ Nearby(u.view) = Nearby(s.view)
    /\ u.view.primary = s.view.primary
    /\ \A p \in Pages : u.view.shown[p] = IF p \in Spread(s.view) THEN s.view.shown[p] ELSE 0
<1> DEFINE u == Pruned(s)
<1> DEFINE F == [p \in Pages |-> IF p \in Spread(s.view) THEN s.view.shown[p] ELSE 0]
<1> DEFINE V == [s.view EXCEPT !.shown = F]
<1>1. s \in Gui
  BY DEF Sound
<1>2. s.view \in View /\ s.bumps \in Nat /\ F \in [Pages -> Docs \cup {0}]
  BY <1>1, PartsOfGui DEF View
<1>3. Pruned(s) = [s EXCEPT !.view = V]
  BY DEF Pruned
<1>4. \A p \in Pages : F[p] = IF p \in Spread(s.view) THEN s.view.shown[p] ELSE 0
  OBVIOUS
<1> HIDE DEF F
<1>5. /\ V \in View /\ V.shown = F /\ V.stage = s.view.stage /\ V.primary = s.view.primary
      /\ V.companion = s.view.companion /\ V.ahead = s.view.ahead /\ V.changes = s.view.changes
  BY <1>2 DEF View
<1> HIDE DEF V
<1>6. Pruned(s) = [view |-> V, pipe |-> s.pipe, cache |-> s.cache, stream |-> s.stream,
                   bumps |-> s.bumps]
  BY <1>1, <1>3 DEF Gui
<1>7. Pruned(s) \in Gui
  BY <1>1, <1>5, <1>6 DEF Gui
<1>8. /\ u \in Gui /\ u.pipe = s.pipe /\ u.stream = s.stream /\ u.cache = s.cache /\ u.bumps = s.bumps
      /\ u.view = V
  BY <1>6, <1>7
<1> HIDE DEF u
<1>9. Sound(u) /\ (Roomy(s) => Roomy(u))
  BY <1>8, SameStreams
<1>10. KeptPipe(s, u)
  BY <1>2, <1>8 DEF KeptPipe
<1>11. Spread(u.view) = Spread(s.view) /\ Nearby(u.view) = Nearby(s.view)
  BY <1>5, <1>8 DEF Spread, Nearby
<1>12. KeptView(s, u)
  BY <1>1, <1>4, <1>5, <1>8, <1>11, PartsOfGui DEF KeptView
<1>13. Unshown(u) = Unshown(s)
  BY <1>1, <1>4, <1>5, <1>8, <1>11, PartsOfGui DEF Unshown
<1> QED
  BY <1>4, <1>5, <1>8, <1>9, <1>10, <1>11, <1>12, <1>13 DEF u, Kept

\* A spread that goes on without its second page.
LEMMA AloneKept ==
  ASSUME NEW s, Sound(s)
  PROVE  LET u == [s EXCEPT !.view.companion = 0] IN
    /\ Sound(u) /\ (Roomy(s) => Roomy(u)) /\ Kept(s, u) /\ Unshown(u) \subseteq Unshown(s)
    /\ u.pipe = s.pipe /\ u.stream = s.stream /\ u.cache = s.cache
    /\ Spread(u.view) = {s.view.primary} /\ u.view.ahead = s.view.ahead
    /\ u.view.shown = s.view.shown /\ u.view.primary = s.view.primary
<1> DEFINE u == [s EXCEPT !.view.companion = 0]
<1> DEFINE V == [s.view EXCEPT !.companion = 0]
<1>1. s \in Gui
  BY DEF Sound
<1>2. s.view \in View /\ s.bumps \in Nat
  BY <1>1, PartsOfGui
<1>3. u = [s EXCEPT !.view = V]
  OBVIOUS
<1>4. /\ V \in View /\ V.shown = s.view.shown /\ V.stage = s.view.stage
      /\ V.primary = s.view.primary /\ V.companion = 0 /\ V.ahead = s.view.ahead
      /\ V.changes = s.view.changes
  BY <1>2 DEF View
<1> HIDE DEF V
<1>5. u = [view |-> V, pipe |-> s.pipe, cache |-> s.cache, stream |-> s.stream,
           bumps |-> s.bumps]
  BY <1>1, <1>3 DEF Gui
<1> HIDE DEF u
<1>6. /\ u \in Gui /\ u.pipe = s.pipe /\ u.stream = s.stream /\ u.cache = s.cache /\ u.bumps = s.bumps
      /\ u.view = V
  BY <1>1, <1>4, <1>5 DEF Gui
<1>7. Sound(u) /\ (Roomy(s) => Roomy(u))
  BY <1>6, SameStreams
<1>8. KeptPipe(s, u)
  BY <1>2, <1>6 DEF KeptPipe
<1>9. Spread(u.view) = {s.view.primary}
  BY <1>2, <1>4, <1>6, DocFacts DEF Spread, View
<1>10. KeptView(s, u)
  BY <1>2, <1>4, <1>6 DEF KeptView, View
<1>11. Unshown(u) \subseteq Unshown(s)
  BY <1>1, <1>4, <1>6, <1>9, PartsOfGui DEF Unshown
<1> QED
  BY <1>4, <1>6, <1>7, <1>8, <1>9, <1>10, <1>11 DEF u, Kept

LEMMA PendingFacts ==
  ASSUME NEW s \in Gui, NEW pages \in SUBSET Pages
  PROVE  LET u == Pending(s, pages) IN
    /\ u \in Gui /\ u.view = s.view /\ u.cache = s.cache
    /\ u.bumps = s.bumps /\ u.stream = s.stream /\ u.pipe.source = s.pipe.source
    /\ u.pipe.stream = s.pipe.stream /\ u.pipe.opening = s.pipe.opening
    /\ u.pipe.pending = pages
<1> DEFINE u == Pending(s, pages)
<1> DEFINE Q == [s.pipe EXCEPT !.pending = pages]
<1>1. s.pipe \in Pipe
  BY PartsOfGui
<1>2. u = [s EXCEPT !.pipe = Q]
  BY DEF Pending
<1>3. /\ Q \in Pipe /\ Q.pending = pages /\ Q.source = s.pipe.source
      /\ Q.stream = s.pipe.stream /\ Q.opening = s.pipe.opening
  BY <1>1 DEF Pipe
<1> HIDE DEF Q, u
<1>4. u = [view |-> s.view, pipe |-> Q, cache |-> s.cache, stream |-> s.stream,
           bumps |-> s.bumps]
  BY <1>2 DEF Gui
<1>5. u \in Gui
  BY <1>3, <1>4 DEF Gui
<1> QED
  BY <1>3, <1>4, <1>5 DEF u

LEMMA SubmittedKept ==
  ASSUME NEW s \in Gui, \A i \in Streams : Steady(s.stream[i]), NEW V, NEW P,
         V \cup P = s.pipe.pending, V \cup P # {}, s.pipe.source # 0, Free(s) # {}
  PROVE  LET u == Submitted(s, V, P) IN
    /\ Sound(u) /\ Roomy(u) /\ u.view = s.view /\ u.cache = s.cache /\ u.bumps = s.bumps
    /\ u.pipe.source = s.pipe.source /\ u.pipe.opening = s.pipe.opening
    /\ V \cup P \subseteq Brought(u.stream, u.pipe.stream)
    /\ \A d \in Docs : Reading(u.stream, d) <=> Reading(s.stream, d)
<1> DEFINE u == Submitted(s, V, P)
<1> DEFINE k == CHOOSE i \in Free(s) : TRUE
<1> DEFINE new == [doc |-> s.pipe.source, visible |-> V, prefetch |-> P, step |-> "queued",
                   items |-> <<>>]
<1> DEFINE Q == [s.pipe EXCEPT !.stream = k]
<1> DEFINE F == [s.stream EXCEPT ![k] = new]
<1>2. s.pipe \in Pipe /\ s.stream \in [Streams -> Stream \cup {NoStream}]
  BY PartsOfGui
<1>3. k \in Streams /\ s.stream[k] = NoStream
  BY DEF Free
<1>4. s.pipe.source \in Docs /\ V \cup P \subseteq Pages
  BY <1>2 DEF Pipe
<1>5. new \in Stream
  BY <1>4, EmptySeq DEF Stream, Idle
<1>6. u = [s EXCEPT !.pipe = Q, !.stream = F]
  BY DEF Submitted, Gui, Pipe
<1> HIDE DEF k, u
<1>7. /\ Q \in Pipe /\ Q.pending = V \cup P /\ Q.source = s.pipe.source
      /\ Q.stream = k /\ Q.opening = s.pipe.opening
  BY <1>2, <1>3 DEF Pipe
<1>8. new.step = "queued" /\ new.doc = s.pipe.source /\ Todo(new) = V \cup P /\ new # NoStream
  BY DEF Todo, NoStream
<1> HIDE DEF Q, new
<1>9. F \in [Streams -> Stream \cup {NoStream}]
      /\ \A i \in Streams : F[i] = IF i = k THEN new ELSE s.stream[i]
  BY <1>2, <1>3, <1>5
<1> HIDE DEF F
<1>10. u = [view |-> s.view, pipe |-> Q, cache |-> s.cache, stream |-> F, bumps |-> s.bumps]
  BY <1>6 DEF Gui
<1>11. u \in Gui
  BY <1>7, <1>9, <1>10 DEF Gui
<1>12. k # 0
  BY <1>3, ReaderAssumption
<1>13. \A i \in Streams : Steady(F[i])
  BY <1>8, <1>9 DEF Steady, Working
<1>14. V \cup P \subseteq Brought(u.stream, u.pipe.stream)
  BY <1>3, <1>7, <1>8, <1>9, <1>10, <1>12 DEF Brought
<1>15. Sound(u) /\ Roomy(u)
  BY <1>3, <1>7, <1>8, <1>9, <1>10, <1>11, <1>12, <1>13, <1>14
     DEF Sound, Served, AllBrought, Roomy, Idle
<1>16. \A d \in Docs : Reading(F, d) <=> Reading(s.stream, d)
  <2>1. NoStream.step # "reading"
    BY DEF NoStream
  <2> QED
    BY <1>3, <1>8, <1>9, <2>1 DEF Reading
<1> QED
  BY <1>7, <1>10, <1>14, <1>15, <1>16 DEF u

\* The end of a request: what is missing is brought by the stream it submits,
\* or by the one of the requests made for the pages it has published.
LEMMA ToldStep ==
  ASSUME NEW s, Sound(s), Roomy(s), s.pipe.source # 0,
         NEW wanted \in SUBSET Pages, NEW missing \in SUBSET wanted,
         NEW t, Sound(t), Roomy(t), Kept(CancelSerial(s), t),
         t.bumps # s.bumps + 1 => missing \subseteq Brought(t.stream, t.pipe.stream)
  PROVE  LET u == Told(s, wanted, missing, t) IN
    /\ Sound(u) /\ Roomy(u) /\ Kept(s, u) /\ Unshown(u) \subseteq Unshown(t)
    /\ missing \subseteq Brought(u.stream, u.pipe.stream)
<1> DEFINE fresh == CancelSerial(s)
<1> DEFINE current == t.bumps = s.bumps + 1
<1> DEFINE X == (wanted \ missing) \ Spread(s.view)
<1> DEFINE known == IF current THEN Cleared(t, X) ELSE t
<1> DEFINE u == Told(s, wanted, missing, t)
<1>1. Sound(fresh) /\ Free(fresh) # {} /\ Kept(s, fresh)
  BY CancelKept
<1>2. s \in Gui /\ t \in Gui /\ fresh \in Gui /\ s.bumps \in Nat
  BY <1>1, PartsOfGui DEF Sound
<1>3. fresh.pipe.stream = 0 /\ fresh.pipe.source = s.pipe.source /\ fresh.bumps = s.bumps + 1
  BY <1>2, Cancelled
<1>4. Sound(known) /\ Roomy(known) /\ Kept(t, known) /\ Unshown(known) = Unshown(t)
      /\ known.pipe = t.pipe /\ known.stream = t.stream
  <2>1. CASE current
    BY <1>2, <2>1, ClearedKept, ClearedFacts
  <2>2. CASE ~current
    <3>1. Kept(t, t)
      BY <1>2, PartsOfGui, DocFacts DEF Kept, KeptView, KeptPipe
    <3> QED
      BY <2>2, <3>1
  <2> QED
    BY <2>1, <2>2
<1>5. known \in Gui
  BY <1>4 DEF Sound
<1>6. Kept(s, known)
  BY <1>1, <1>2, <1>4, <1>5, KeptTrans
<1>7. known.bumps > s.bumps
  BY <1>2, <1>3, <1>4, <1>5, PartsOfGui DEF Kept, KeptPipe
<1>8. u = LET told == Pending(known, missing) IN
          CASE missing = {} -> known
            [] missing # {} /\ ~current -> told
            [] missing # {} /\ current -> Submitted(told, missing \cap Spread(s.view),
                                                    missing \ Spread(s.view))
  BY DEF Told, Cleared
<1> DEFINE told == Pending(known, missing)
<1>9. /\ told \in Gui /\ told.view = known.view /\ told.cache = known.cache
      /\ told.bumps = known.bumps /\ told.stream = known.stream
      /\ told.pipe.source = known.pipe.source /\ told.pipe.stream = known.pipe.stream
      /\ told.pipe.opening = known.pipe.opening /\ told.pipe.pending = missing
  BY <1>5, PendingFacts
<1> HIDE DEF fresh, known, u, X, told
<1>10. CASE missing = {}
  BY <1>4, <1>6, <1>8, <1>10 DEF u
<1>11. CASE missing # {} /\ ~current
  <2>1. u = told
    BY <1>8, <1>11 DEF told
  <2>2. missing \subseteq Brought(u.stream, u.pipe.stream)
    BY <1>4, <1>9, <1>11, <2>1
  <2>3. Sound(u) /\ Roomy(u)
    BY <1>4, <1>9, <2>1, <2>2 DEF Sound, Served, AllBrought, Roomy, Free
  <2>4. Kept(s, u)
    BY <1>2, <1>6, <1>7, <1>9, <2>1, PartsOfGui DEF Kept, KeptView, KeptPipe
  <2>5. Unshown(u) = Unshown(t)
    BY <1>4, <1>9, <2>1 DEF Unshown
  <2> QED
    BY <2>2, <2>3, <2>4, <2>5 DEF u
<1>12. CASE missing # {} /\ current
  <2> DEFINE V == missing \cap Spread(s.view)
  <2> DEFINE P == missing \ Spread(s.view)
  <2>1. u = Submitted(told, V, P)
    BY <1>8, <1>12 DEF told
  <2>2. t.pipe = fresh.pipe /\ t.stream = fresh.stream
    BY <1>3, <1>12 DEF Kept, KeptPipe, fresh
  <2>3. told.pipe.source # 0 /\ Free(told) # {}
    BY <1>1, <1>3, <1>4, <1>9, <2>2 DEF Free
  <2>4. V \cup P = told.pipe.pending /\ V \cup P = missing
    BY <1>9
  <2>5. \A i \in Streams : Steady(told.stream[i])
    BY <1>4, <1>9 DEF Sound
  <2> HIDE DEF V, P
  <2>6. /\ Sound(u) /\ Roomy(u) /\ u.view = told.view /\ u.cache = told.cache
        /\ u.bumps = told.bumps
        /\ u.pipe.source = told.pipe.source /\ u.pipe.opening = told.pipe.opening
        /\ V \cup P \subseteq Brought(u.stream, u.pipe.stream)
        /\ \A d \in Docs : Reading(u.stream, d) <=> Reading(told.stream, d)
    BY <1>9, <1>12, <2>1, <2>3, <2>4, <2>5, SubmittedKept
  <2>7. Kept(s, u)
    BY <1>2, <1>6, <1>7, <1>9, <2>6, PartsOfGui DEF Kept, KeptView, KeptPipe
  <2>8. Unshown(u) = Unshown(t)
    BY <1>4, <1>9, <2>6 DEF Unshown
  <2> QED
    BY <2>4, <2>6, <2>7, <2>8 DEF u
<1> QED
  BY <1>10, <1>11, <1>12

LEMMA KeptSelf ==
  ASSUME NEW s \in Gui
  PROVE  Kept(s, s)
  BY PartsOfGui, DocFacts DEF Kept, KeptView, KeptPipe

\* A cached page is published: the layout it leads to is the publication.
LEMMA PublicationStep ==
  ASSUME NEW s, Sound(s), Roomy(s), NEW p \in Pages, s.cache[p] # 0, NEW t,
         IF p \in Spread(s.view) THEN Layout(Show(s, p, s.cache[p]), t) ELSE t = Known(s, p)
  PROVE  Publication(s, p, t)
<1> DEFINE d == s.cache[p]
<1> DEFINE u == Show(s, p, d)
<1>1. s \in Gui /\ d \in Docs
  BY PartsOfGui DEF Sound
<1>2. CASE p \in Spread(s.view)
  <2>1. /\ Sound(u) /\ Roomy(u) /\ Kept(s, u) /\ Unshown(u) = Unshown(s) \ {p}
        /\ \A q \in Pages : u.view.shown[q] = IF q = p THEN d ELSE s.view.shown[q]
    BY <1>1, ShowKept DEF Kept
  <2>2. u \in Gui /\ u.cache = s.cache /\ u.pipe = s.pipe
    BY <1>1, ShowFacts
  <2> HIDE DEF u
  <2>3. Layout(u, t)
    BY <1>2 DEF u
  <2>4. t \in Gui
    BY <2>3 DEF Layout, Sound
  <2>5. Kept(s, t) /\ Unshown(t) \subseteq Unshown(s) \ {p}
    BY <1>1, <2>1, <2>2, <2>3, <2>4, KeptTrans, KeptUnshown DEF Layout
  <2>6. Needs(u) \subseteq Pages
    BY <2>2, PartsOfGui DEF Needs
  <2>7. Absent(s, Needs(u)) \subseteq Absent(u, Needs(u))
    BY <1>1, <2>1, <2>2, <2>6, DocFacts DEF Absent
  <2> QED
    BY <2>2, <2>3, <2>5, <2>7 DEF Publication, Layout, u
<1>3. CASE p \notin Spread(s.view)
  <2>1. t = Cleared(s, {p})
    BY <1>3 DEF Known, Cleared
  <2>2. Sound(t) /\ Roomy(t) /\ Kept(s, t) /\ Unshown(t) = Unshown(s)
    BY <2>1, ClearedKept
  <2> QED
    BY <1>3, <2>2 DEF Publication, Unshown
<1> QED
  BY <1>2, <1>3

\* What a request asks for that nothing answers at once.
Gone(s, pages) == {p \in Wanted(s, pages) : s.cache[p] = 0}
Cached(s, pages) == (Wanted(s, pages) \ Gone(s, pages)) \cap Spread(s.view)

LEMMA AskedStep ==
  ASSUME NEW s, Sound(s), Roomy(s), s.pipe.source # 0, NEW pages, Askable(s, pages),
         Wanted(s, pages) # {}, NEW one, NEW two,
         LET C == Cached(s, pages)
             fresh == CancelSerial(s)
             rest == {p \in C : p # Least(C)}
         IN /\ IF C = {} THEN one = fresh ELSE Publication(fresh, Least(C), one)
            /\ IF rest = {} \/ one.bumps # fresh.bumps THEN two = one
               ELSE Publication(one, Least(rest), two)
  PROVE  Request(s, pages, Told(s, Wanted(s, pages), Gone(s, pages), two))
<1> DEFINE C == Cached(s, pages)
<1> DEFINE fresh == CancelSerial(s)
<1> DEFINE rest == {p \in C : p # Least(C)}
<1> DEFINE a == Least(C)
<1> DEFINE u == Show(fresh, a, fresh.cache[a])
<1>1. Sound(fresh) /\ Roomy(fresh) /\ Kept(s, fresh)
  BY CancelKept
<1>2. s \in Gui /\ fresh \in Gui
  BY <1>1 DEF Sound
<1>3. /\ fresh.bumps = s.bumps + 1 /\ fresh.view = s.view /\ fresh.cache = s.cache
      /\ fresh.pipe.source = s.pipe.source
  BY <1>2, Cancelled
<1>4. /\ s.cache \in [Pages -> Docs \cup {0}] /\ s.view.shown \in [Pages -> Docs \cup {0}]
      /\ s.view.primary \in Pages
  BY <1>2, PartsOfGui DEF View
<1>5. C \subseteq Pages /\ pages \subseteq Pages /\ C \subseteq Spread(s.view) /\ C \subseteq pages
      /\ \A p \in C : s.view.shown[p] = 0 /\ s.cache[p] \in Docs
  BY <1>4 DEF Cached, Wanted, Gone, Askable
<1>6. \A p \in Gone(s, pages) : p \in pages /\ s.view.shown[p] = 0 /\ s.cache[p] = 0 /\ p \notin C
  BY DEF Gone, Wanted, Cached
<1>7. C # {} => a \in C
  BY <1>5, LeastIn
<1>8. Sound(one) /\ Roomy(one) /\ Kept(fresh, one)
  <2>1. CASE C = {}
    BY <1>1, <1>2, <2>1, KeptSelf
  <2>2. CASE C # {}
    BY <2>2 DEF Publication
  <2> QED
    BY <2>1, <2>2
<1>9. C # {} => Gone(s, pages) \subseteq Brought(one.stream, one.pipe.stream)
                \/ Gone(s, pages) = {} \/ rest # {}
  <2> SUFFICES ASSUME C # {}, Gone(s, pages) # {}, rest = {}
               PROVE  Gone(s, pages) \subseteq Brought(one.stream, one.pipe.stream)
    OBVIOUS
  <2>1. a \in C /\ Publication(fresh, a, one)
    BY <1>7
  <2>2. /\ \A q \in Pages : u.view.shown[q] = IF q = a THEN s.cache[a] ELSE s.view.shown[q]
        /\ u.view.primary = s.view.primary /\ Nearby(u.view) = Nearby(s.view)
    BY <1>1, <1>3, <1>5, <2>1, ShowKept
  <2> HIDE DEF u, fresh, C, a
  <2>3. pages \subseteq Asks(s)
    <3>1. SUFFICES ASSUME NEW x, pages = {x}
                   PROVE  FALSE
      BY DEF Askable
    <3>2. PICK p \in Gone(s, pages) : TRUE
      OBVIOUS
    <3> QED
      BY <1>5, <1>6, <2>1, <3>1, <3>2
  <2>4. Gone(s, pages) \subseteq Needs(u)
    <3>1. CASE s.view.shown[s.view.primary] # 0
      <4>1. u.view.shown[u.view.primary] # 0
        BY <1>4, <1>5, <2>1, <2>2, <3>1
      <4> QED
        BY <1>6, <2>2, <2>3, <3>1, <4>1 DEF Asks, Needs
    <3>2. CASE s.view.shown[s.view.primary] = 0 /\ a = s.view.primary
      <4>1. u.view.shown[u.view.primary] # 0
        BY <1>4, <1>5, <2>1, <2>2, <3>2, DocFacts
      <4> QED
        BY <1>2, <1>6, <2>2, <2>3, <3>2, <4>1, PartsOfGui DEF Asks, Needs
    <3>3. CASE s.view.shown[s.view.primary] = 0 /\ a # s.view.primary
      <4>1. Needs(u) = {s.view.primary}
        BY <1>4, <2>2, <3>3 DEF Needs
      <4>2. a = s.view.companion
        BY <1>5, <2>1, <3>3 DEF Spread
      <4> QED
        BY <1>6, <2>1, <2>3, <3>3, <4>1, <4>2 DEF Asks, Spread
    <3> QED
      BY <3>1, <3>2, <3>3
  <2>5. Gone(s, pages) \subseteq Absent(fresh, Needs(u))
    BY <1>3, <1>6, <2>4 DEF Absent
  <2>6. a \in Spread(fresh.view) /\ fresh.pipe.source # 0
    BY <1>3, <1>5, <2>1
  <2> QED
    BY <2>1, <2>5, <2>6 DEF Publication, u
<1>10. rest # {} => Gone(s, pages) = {}
  <2> SUFFICES ASSUME rest # {}
               PROVE  Gone(s, pages) = {}
    OBVIOUS
  <2>1. PICK b \in C : b # a
    OBVIOUS
  <2>2. a \in C
    BY <1>7
  <2> HIDE DEF C, a
  <2>3. s.view.primary \in C /\ Spread(s.view) \subseteq {a, b}
    BY <1>5, <2>1, <2>2 DEF Spread
  <2>4. pages \subseteq Spread(s.view)
    BY <1>5, <2>1, <2>2, <2>3 DEF Askable, Asks
  <2> QED
    BY <1>6, <2>1, <2>2, <2>3, <2>4
<1>11. Sound(two) /\ Roomy(two) /\ Kept(fresh, two)
  <2>1. CASE two = one
    BY <1>8, <2>1
  <2>2. CASE Publication(one, Least(rest), two)
    <3>1. one \in Gui /\ two \in Gui
      BY <1>8, <2>2 DEF Publication, Sound
    <3> QED
      BY <1>2, <1>8, <2>2, <3>1, KeptTrans DEF Publication
  <2> QED
    BY <2>1, <2>2
<1>12. two.bumps # s.bumps + 1 => Gone(s, pages) \subseteq Brought(two.stream, two.pipe.stream)
  <2>1. CASE C = {}
    BY <1>3, <2>1
  <2>2. CASE C # {} /\ rest = {}
    BY <1>9, <2>2
  <2>3. CASE rest # {}
    BY <1>10, <2>3
  <2> QED
    BY <2>1, <2>2, <2>3
<1>13. Wanted(s, pages) \subseteq Pages /\ Gone(s, pages) \subseteq Wanted(s, pages)
  BY <1>5 DEF Wanted, Gone
<1>14. Absent(s, pages) = Gone(s, pages)
  BY DEF Absent, Gone, Wanted
<1> HIDE DEF fresh
<1> QED
  BY <1>11, <1>12, <1>13, <1>14, ToldStep DEF Request, fresh

LEMMA LayoutStep ==
  ASSUME NEW s, Sound(s), Roomy(s), NEW first, NEW asked, NEW both, NEW t,
         IF s.view.shown[s.view.primary] = 0 THEN Request(s, {s.view.primary}, first) ELSE first = s,
         first.view.shown[s.view.primary] = 0 => t = Pruned(first),
         first.view.shown[s.view.primary] # 0 =>
           /\ IF s.view.companion # 0 /\ first.view.shown[s.view.companion] = 0
              THEN Request(first, {s.view.companion}, asked) ELSE asked = first
           /\ both = asked \/ both = [asked EXCEPT !.view.companion = 0]
           /\ Request(Pruned(both), Nearby(both.view), t)
  PROVE  Layout(s, t)
<1> DEFINE p == s.view.primary
<1> DEFINE q == s.view.companion
<1>1. s \in Gui /\ p \in Pages /\ q \in Pages \cup {0} /\ s.view.shown \in [Pages -> Docs \cup {0}]
  BY PartsOfGui DEF Sound, View
<1>2. Sound(first) /\ Roomy(first) /\ Kept(s, first) /\ first \in Gui
  BY <1>1, KeptSelf DEF Request, Sound
<1>3. CASE first.view.shown[p] = 0
  <2>1. t = Pruned(first)
    BY <1>3
  <2>2. /\ Sound(t) /\ Roomy(t) /\ Kept(first, t) /\ t.pipe = first.pipe /\ t.stream = first.stream
    BY <1>2, <2>1, PrunedKept
  <2>3. Kept(s, t)
    BY <1>1, <1>2, <2>2, KeptTrans DEF Sound
  <2>4. s.view.shown[p] = 0
    BY <1>1, <1>2, <1>3, PartsOfGui DEF Kept, KeptView, Spread
  <2>5. Needs(s) = {p} /\ Request(s, {p}, first)
    BY <2>4 DEF Needs
  <2> QED
    BY <2>2, <2>3, <2>5 DEF Layout, Request
<1>4. CASE first.view.shown[p] # 0
  <2>1. Sound(asked) /\ Roomy(asked) /\ Kept(first, asked) /\ asked \in Gui
    BY <1>2, <1>4, KeptSelf DEF Request, Sound
  <2>2. /\ Sound(both) /\ Roomy(both) /\ Kept(asked, both) /\ both \in Gui
        /\ both.pipe = asked.pipe /\ both.stream = asked.stream /\ both.cache = asked.cache
    <3>1. CASE both = asked
      BY <2>1, <3>1, KeptSelf
    <3>2. CASE both = [asked EXCEPT !.view.companion = 0]
      BY <2>1, <3>2, AloneKept DEF Sound
    <3> QED
      BY <1>4, <3>1, <3>2
  <2> DEFINE ready == Pruned(both)
  <2>3. /\ Sound(ready) /\ Roomy(ready) /\ Kept(both, ready) /\ ready \in Gui
        /\ ready.pipe = both.pipe /\ ready.stream = both.stream /\ ready.cache = both.cache
        /\ Spread(ready.view) = Spread(both.view)
    BY <2>2, PrunedKept DEF Sound
  <2>4. Request(ready, Nearby(both.view), t)
    BY <1>4
  <2> HIDE DEF ready
  <2>5. t \in Gui
    BY <2>4 DEF Request, Sound
  <2>6. Kept(s, both)
    BY <1>1, <1>2, <2>1, <2>2, KeptTrans
  <2>7. Kept(s, ready)
    BY <1>1, <2>2, <2>3, <2>6, KeptTrans
  <2>8. Sound(t) /\ Roomy(t) /\ Kept(s, t)
    BY <1>1, <2>3, <2>4, <2>5, <2>7, KeptTrans DEF Request
  <2>9. ASSUME s.pipe.source # 0
        PROVE  Absent(s, Needs(s)) \subseteq Brought(t.stream, t.pipe.stream)
    <3>1. SUFFICES ASSUME NEW r \in Absent(s, Needs(s))
                   PROVE  r \in Brought(t.stream, t.pipe.stream)
      OBVIOUS
    <3>2. r \in Needs(s) /\ s.view.shown[r] = 0 /\ s.cache[r] = 0 /\ r \in Pages
      BY <1>1, PartsOfGui DEF Absent, Needs
    <3>3. ready.pipe.source # 0 /\ first.pipe.source # 0
      BY <1>2, <2>7, <2>9 DEF Kept, KeptPipe
    <3>4. ready.view.shown[r] = 0 /\ ready.cache[r] = 0
      BY <2>7, <3>2 DEF Kept, KeptView, KeptPipe
    <3>5. first.view.shown[r] = 0 /\ first.cache[r] = 0
      BY <1>2, <3>2 DEF Kept, KeptView, KeptPipe
    <3>6. CASE r \in Nearby(both.view)
      BY <2>4, <3>3, <3>4, <3>6 DEF Request, Absent
    <3>7. CASE r \notin Nearby(both.view)
      <4>1. r # p
        BY <1>4, <3>5
      <4>2. r \in Nearby(s.view) /\ first = s
        BY <1>1, <1>4, <3>2, <4>1 DEF Needs
      <4>3. ~s.view.ahead /\ ~both.view.ahead
        BY <2>6, <3>2, <3>7 DEF Nearby, Kept, KeptView
      <4>4. r = q /\ q # 0
        BY <1>1, <3>2, <4>1, <4>2, <4>3, DocFacts DEF Nearby, Spread
      <4>5. q \in Brought(asked.stream, asked.pipe.stream)
        BY <1>4, <3>3, <3>5, <4>4 DEF Request, Absent
      <4>6. Spread(both.view) = {p} /\ Nearby(both.view) = {p}
        <5>1. both.view.primary = p /\ both.view.companion \in {q, 0}
          BY <2>6 DEF Kept, KeptView
        <5> QED
          BY <1>1, <3>7, <4>3, <4>4, <5>1, DocFacts DEF Nearby, Spread
      <4>7. ready.view.shown[p] # 0
        <5>1. asked.view.primary = p /\ asked.view.shown[p] # 0
          BY <1>1, <1>2, <1>4, <2>1, PartsOfGui DEF Kept, KeptView
        <5>2. both.view.shown[p] # 0
          BY <2>1, <2>2, <4>6, <5>1 DEF Kept, KeptView
        <5> QED
          BY <2>3, <4>6, <5>2 DEF Kept, KeptView
      <4>8. t = ready
        BY <2>4, <4>6, <4>7 DEF Request, Wanted
      <4> QED
        BY <2>2, <2>3, <4>4, <4>5, <4>8
    <3> QED
      BY <3>6, <3>7
  <2> QED
    BY <2>8, <2>9 DEF Layout
<1> QED
  BY <1>3, <1>4

------------------------------------------------------------------------------
(* The handlers, from the one that has nothing of the spread to publish    *)

LEMMA SatisfiedStep ==
  ASSUME NEW s, Sound(s), Roomy(s), NEW pages, Satisfied(s, Wanted(s, pages))
  PROVE  Request(s, pages, s)
  BY KeptSelf DEF Sound, Request, Satisfied, Wanted, Absent, AllBrought

\* What a layout asks for may be asked for.
LEMMA AskableFacts ==
  ASSUME NEW s \in Gui
  PROVE  /\ Askable(s, {s.view.primary})
         /\ s.view.companion # 0 => \A t : Askable(t, {s.view.companion})
         /\ Askable(s, Spread(s.view)) /\ Askable(s, Asks(s))
         /\ s.view.shown[s.view.primary] # 0 => Askable(s, Nearby(s.view))
  BY PartsOfGui DEF Askable, Asks, View

\* With every page of the spread shown a request publishes none of it.
LEMMA RequestedShownStep ==
  ASSUME NEW s, Sound(s), Roomy(s), NEW pages, Askable(s, pages), Unshown(s) = {}
  PROVE  Request(s, pages, RequestedShown(s, pages))
<1> DEFINE C == Cached(s, pages)
<1> DEFINE fresh == CancelSerial(s)
<1> DEFINE rest == {p \in C : p # Least(C)}
<1> DEFINE one == Published(fresh, C, fresh.bumps, Shown)
<1> DEFINE two == Published(one, rest, fresh.bumps, Shown)
<1>1. RequestedShown(s, pages) = IF Satisfied(s, Wanted(s, pages)) THEN s
                                 ELSE Told(s, Wanted(s, pages), Gone(s, pages), two)
  BY DEF RequestedShown, Asked, Cached, Gone
<1>2. CASE Satisfied(s, Wanted(s, pages))
  BY <1>1, <1>2, SatisfiedStep
<1>3. CASE ~Satisfied(s, Wanted(s, pages))
  <2>1. C = {}
    BY DEF Cached, Wanted, Unshown
  <2>2. s.pipe.source # 0 /\ Wanted(s, pages) # {}
    BY <1>3 DEF Satisfied
  <2> HIDE DEF C, fresh
  <2>3. rest = {} /\ one = fresh /\ two = one
    BY <2>1 DEF Published
  <2> HIDE DEF one, two
  <2> QED
    BY <1>1, <1>3, <2>1, <2>2, <2>3, AskedStep DEF C, fresh
<1> QED
  BY <1>2, <1>3

LEMMA LaidShownStep ==
  ASSUME NEW s, Sound(s), Roomy(s), Unshown(s) = {}
  PROVE  Layout(s, LaidShown(s))
<1> DEFINE p == s.view.primary
<1> DEFINE q == s.view.companion
<1> DEFINE first == IF s.view.shown[p] = 0 THEN RequestedShown(s, {p}) ELSE s
<1> DEFINE asked == IF q # 0 /\ first.view.shown[q] = 0 THEN RequestedShown(first, {q}) ELSE first
<1> DEFINE both == IF q # 0 /\ asked.view.shown[q] = 0 /\ q \in asked.view.bad
                   THEN [asked EXCEPT !.view.companion = 0] ELSE asked
<1> DEFINE ready == Pruned(both)
<1> DEFINE t == IF first.view.shown[p] = 0 THEN Pruned(first)
                ELSE RequestedShown(ready, Nearby(both.view))
<1>1. LaidShown(s) = t
  BY DEF LaidShown, LaidOut
<1>2. s \in Gui
  BY DEF Sound
<1>3. s.view.shown[p] = 0 => Request(s, {p}, first)
  BY <1>2, AskableFacts, RequestedShownStep
<1>4. Sound(first) /\ Roomy(first) /\ Kept(s, first) /\ first \in Gui
  BY <1>2, <1>3, KeptSelf DEF Request, Sound
<1>5. Unshown(first) \subseteq Unshown(s)
  BY <1>2, <1>4, KeptUnshown
<1> HIDE DEF first
<1>6. q # 0 /\ first.view.shown[q] = 0 => Request(first, {q}, asked)
  BY <1>2, <1>4, <1>5, AskableFacts, RequestedShownStep
<1>7. Sound(asked) /\ Roomy(asked) /\ Kept(first, asked) /\ asked \in Gui
  BY <1>4, <1>6, KeptSelf DEF Request, Sound
<1>8. asked = first \/ (q # 0 /\ first.view.shown[q] = 0)
  OBVIOUS
<1>9. Unshown(asked) \subseteq Unshown(s)
  BY <1>4, <1>5, <1>7, KeptUnshown
<1> HIDE DEF asked
<1>10. both = asked \/ both = [asked EXCEPT !.view.companion = 0]
  OBVIOUS
<1> HIDE DEF both
<1>11. /\ Sound(both) /\ Roomy(both) /\ Kept(asked, both) /\ both \in Gui
       /\ both.view.primary = p /\ Unshown(both) \subseteq Unshown(s)
  <2>1. asked.view.primary = p
    BY <1>4, <1>7 DEF Kept, KeptView
  <2>2. CASE both = asked
    BY <1>7, <1>9, <2>1, <2>2, KeptSelf
  <2>3. CASE both = [asked EXCEPT !.view.companion = 0]
    <3>1. /\ Sound(both) /\ Roomy(both) /\ Kept(asked, both)
          /\ both.view.primary = asked.view.primary /\ Unshown(both) \subseteq Unshown(asked)
      BY <1>7, <2>3, AloneKept
    <3> QED
      BY <1>9, <2>1, <3>1 DEF Sound
  <2> QED
    BY <1>10, <2>2, <2>3
<1>12. /\ Sound(ready) /\ Roomy(ready) /\ ready \in Gui /\ ready.view.primary = p
       /\ Nearby(ready.view) = Nearby(both.view) /\ Unshown(ready) \subseteq Unshown(s)
       /\ Kept(both, ready)
  BY <1>11, PrunedKept DEF Sound
<1> HIDE DEF ready
<1>13. ASSUME first.view.shown[p] # 0
       PROVE  Request(ready, Nearby(both.view), t)
  <2>1. asked.view.primary = p /\ first.view.primary = p
    BY <1>4, <1>7 DEF Kept, KeptView
  <2>2. asked.view.shown[p] # 0
    BY <1>7, <1>13, <2>1, PartsOfGui DEF Kept, KeptView
  <2>3. both.view.shown[p] # 0
    BY <1>11, <2>2, PartsOfGui DEF Kept, KeptView
  <2>4. ready.view.shown[p] # 0
    BY <1>12, <2>3, PartsOfGui DEF Kept, KeptView
  <2>5. Askable(ready, Nearby(both.view))
    BY <1>12, <2>4, AskableFacts
  <2>6. t = RequestedShown(ready, Nearby(both.view))
    BY <1>13
  <2> HIDE DEF t
  <2> QED
    BY <1>12, <2>5, <2>6, RequestedShownStep
<1>14. first.view.shown[p] = 0 => t = Pruned(first)
  OBVIOUS
<1>15. IF s.view.shown[p] = 0 THEN Request(s, {p}, first) ELSE first = s
  BY <1>3 DEF first
<1>16. IF q # 0 /\ first.view.shown[q] = 0 THEN Request(first, {q}, asked) ELSE asked = first
  BY <1>6, <1>8
<1> HIDE DEF t
<1>17. first.view.shown[p] # 0 =>
         /\ IF q # 0 /\ first.view.shown[q] = 0 THEN Request(first, {q}, asked) ELSE asked = first
         /\ both = asked \/ both = [asked EXCEPT !.view.companion = 0]
         /\ Request(Pruned(both), Nearby(both.view), t)
  BY <1>10, <1>13, <1>16 DEF ready
<1> QED
  BY <1>1, <1>14, <1>15, <1>17, LayoutStep

LEMMA RequestedOneStep ==
  ASSUME NEW s, Sound(s), Roomy(s), NEW pages, Askable(s, pages),
         NEW x, Unshown(s) \subseteq {x}
  PROVE  Request(s, pages, RequestedOne(s, pages))
<1> DEFINE C == Cached(s, pages)
<1> DEFINE fresh == CancelSerial(s)
<1> DEFINE rest == {p \in C : p # Least(C)}
<1> DEFINE one == Published(fresh, C, fresh.bumps, LaidShown)
<1> DEFINE two == Published(one, rest, fresh.bumps, LaidShown)
<1>1. RequestedOne(s, pages) = IF Satisfied(s, Wanted(s, pages)) THEN s
                          ELSE Told(s, Wanted(s, pages), Gone(s, pages), two)
  BY DEF RequestedOne, Asked, Cached, Gone
<1>2. CASE Satisfied(s, Wanted(s, pages))
  BY <1>1, <1>2, SatisfiedStep
<1>3. CASE ~Satisfied(s, Wanted(s, pages))
  <2>1. /\ Sound(fresh) /\ Roomy(fresh) /\ fresh \in Gui /\ s \in Gui
        /\ fresh.view = s.view /\ fresh.cache = s.cache
    BY CancelKept, Cancelled DEF Sound
  <2>2. C \subseteq Pages /\ (\A p \in C : s.cache[p] # 0) /\ C \subseteq Unshown(s)
    BY DEF Cached, Wanted, Gone, Askable, Unshown
  <2>3. Unshown(fresh) = Unshown(s)
    BY <2>1 DEF Unshown
  <2> HIDE DEF C, fresh
  <2>4. ASSUME C # {}
        PROVE  Publication(fresh, Least(C), one)
    <3> DEFINE a == Least(C)
    <3> DEFINE u == Show(fresh, a, fresh.cache[a])
    <3>1. a \in C /\ a \in Pages /\ fresh.cache[a] # 0
      BY <2>1, <2>2, <2>4, LeastIn
    <3>2. one = IF a \in Spread(fresh.view) THEN LaidShown(u) ELSE Known(fresh, a)
      BY <2>4 DEF Published, Ready, Show, Known
    <3> HIDE DEF a, one
    <3>3. fresh.cache[a] \in Docs
      BY <2>1, <3>1, PartsOfGui
    <3>4. Sound(u) /\ Roomy(u) /\ Unshown(u) = Unshown(s) \ {a}
      BY <2>1, <2>3, <3>1, <3>3, ShowKept
    <3> HIDE DEF u
    <3>5. Layout(u, LaidShown(u))
      BY <2>1, <2>2, <3>1, <3>4, LaidShownStep
    <3> QED
      BY <2>1, <3>1, <3>2, <3>5, PublicationStep DEF u, a
  <2>5. C = {} => one = fresh
    BY DEF Published
  <2>6. rest = {} \/ one.bumps # fresh.bumps => two = one
    BY DEF Published
  <2>7. ASSUME rest # {}, one.bumps = fresh.bumps
        PROVE  Publication(one, Least(rest), two)
    <3> DEFINE a == Least(rest)
    <3> DEFINE u == Show(one, a, one.cache[a])
    <3>1. Publication(fresh, Least(C), one)
      BY <2>4, <2>7
    <3>2. two = IF a \in Spread(one.view) THEN LaidShown(u) ELSE Known(one, a)
      BY <2>7 DEF Published, Ready, Show, Known
    <3> HIDE DEF one, two
    <3>3. /\ Sound(one) /\ Roomy(one) /\ one \in Gui /\ one.cache = fresh.cache
          /\ Unshown(one) \subseteq Unshown(s) \ {Least(C)}
      BY <2>3, <3>1 DEF Publication, Kept, KeptPipe, Sound
    <3>4. Least(C) \in C
      BY <2>2, <2>7, LeastIn
    <3>5. a \in rest /\ a \in Pages /\ one.cache[a] # 0
      BY <2>1, <2>2, <2>7, <3>3, LeastIn
    <3> HIDE DEF a, rest
    <3>6. one.cache[a] \in Docs
      BY <3>3, <3>5, PartsOfGui
    <3>7. Sound(u) /\ Roomy(u) /\ Unshown(u) = Unshown(one) \ {a}
      BY <3>3, <3>5, <3>6, ShowKept
    <3> HIDE DEF u
    <3>8. Layout(u, LaidShown(u))
      BY <2>1, <2>2, <3>3, <3>4, <3>5, <3>7, LaidShownStep DEF rest
    <3> QED
      BY <3>2, <3>3, <3>5, <3>8, PublicationStep DEF u, a
  <2>8. s.pipe.source # 0 /\ Wanted(s, pages) # {}
    BY <1>3 DEF Satisfied
  <2>9. IF C = {} THEN one = fresh ELSE Publication(fresh, Least(C), one)
    BY <2>4, <2>5
  <2>10. IF rest = {} \/ one.bumps # fresh.bumps THEN two = one
         ELSE Publication(one, Least(rest), two)
    BY <2>6, <2>7
  <2> HIDE DEF one, two
  <2> QED
    BY <1>1, <1>3, <2>8, <2>9, <2>10, AskedStep DEF C, fresh
<1> QED
  BY <1>2, <1>3

LEMMA LaidOneStep ==
  ASSUME NEW s, Sound(s), Roomy(s),
         NEW x, Unshown(s) \subseteq {x}
  PROVE  Layout(s, LaidOne(s))
<1> DEFINE p == s.view.primary
<1> DEFINE q == s.view.companion
<1> DEFINE first == IF s.view.shown[p] = 0 THEN RequestedOne(s, {p}) ELSE s
<1> DEFINE asked == IF q # 0 /\ first.view.shown[q] = 0 THEN RequestedOne(first, {q}) ELSE first
<1> DEFINE both == IF q # 0 /\ asked.view.shown[q] = 0 /\ q \in asked.view.bad
                   THEN [asked EXCEPT !.view.companion = 0] ELSE asked
<1> DEFINE ready == Pruned(both)
<1> DEFINE t == IF first.view.shown[p] = 0 THEN Pruned(first)
                ELSE RequestedOne(ready, Nearby(both.view))
<1>1. LaidOne(s) = t
  BY DEF LaidOne, LaidOut
<1>2. s \in Gui
  BY DEF Sound
<1>3. s.view.shown[p] = 0 => Request(s, {p}, first)
  BY <1>2, AskableFacts, RequestedOneStep
<1>4. Sound(first) /\ Roomy(first) /\ Kept(s, first) /\ first \in Gui
  BY <1>2, <1>3, KeptSelf DEF Request, Sound
<1>5. Unshown(first) \subseteq Unshown(s)
  BY <1>2, <1>4, KeptUnshown
<1> HIDE DEF first
<1>6. q # 0 /\ first.view.shown[q] = 0 => Request(first, {q}, asked)
  BY <1>2, <1>4, <1>5, AskableFacts, RequestedOneStep
<1>7. Sound(asked) /\ Roomy(asked) /\ Kept(first, asked) /\ asked \in Gui
  BY <1>4, <1>6, KeptSelf DEF Request, Sound
<1>8. asked = first \/ (q # 0 /\ first.view.shown[q] = 0)
  OBVIOUS
<1>9. Unshown(asked) \subseteq Unshown(s)
  BY <1>4, <1>5, <1>7, KeptUnshown
<1> HIDE DEF asked
<1>10. both = asked \/ both = [asked EXCEPT !.view.companion = 0]
  OBVIOUS
<1> HIDE DEF both
<1>11. /\ Sound(both) /\ Roomy(both) /\ Kept(asked, both) /\ both \in Gui
       /\ both.view.primary = p /\ Unshown(both) \subseteq Unshown(s)
  <2>1. asked.view.primary = p
    BY <1>4, <1>7 DEF Kept, KeptView
  <2>2. CASE both = asked
    BY <1>7, <1>9, <2>1, <2>2, KeptSelf
  <2>3. CASE both = [asked EXCEPT !.view.companion = 0]
    <3>1. /\ Sound(both) /\ Roomy(both) /\ Kept(asked, both)
          /\ both.view.primary = asked.view.primary /\ Unshown(both) \subseteq Unshown(asked)
      BY <1>7, <2>3, AloneKept
    <3> QED
      BY <1>9, <2>1, <3>1 DEF Sound
  <2> QED
    BY <1>10, <2>2, <2>3
<1>12. /\ Sound(ready) /\ Roomy(ready) /\ ready \in Gui /\ ready.view.primary = p
       /\ Nearby(ready.view) = Nearby(both.view) /\ Unshown(ready) \subseteq Unshown(s)
       /\ Kept(both, ready)
  BY <1>11, PrunedKept DEF Sound
<1> HIDE DEF ready
<1>13. ASSUME first.view.shown[p] # 0
       PROVE  Request(ready, Nearby(both.view), t)
  <2>1. asked.view.primary = p /\ first.view.primary = p
    BY <1>4, <1>7 DEF Kept, KeptView
  <2>2. asked.view.shown[p] # 0
    BY <1>7, <1>13, <2>1, PartsOfGui DEF Kept, KeptView
  <2>3. both.view.shown[p] # 0
    BY <1>11, <2>2, PartsOfGui DEF Kept, KeptView
  <2>4. ready.view.shown[p] # 0
    BY <1>12, <2>3, PartsOfGui DEF Kept, KeptView
  <2>5. Askable(ready, Nearby(both.view))
    BY <1>12, <2>4, AskableFacts
  <2>6. t = RequestedOne(ready, Nearby(both.view))
    BY <1>13
  <2> HIDE DEF t
  <2> QED
    BY <1>12, <2>5, <2>6, RequestedOneStep
<1>14. first.view.shown[p] = 0 => t = Pruned(first)
  OBVIOUS
<1>15. IF s.view.shown[p] = 0 THEN Request(s, {p}, first) ELSE first = s
  BY <1>3 DEF first
<1>16. IF q # 0 /\ first.view.shown[q] = 0 THEN Request(first, {q}, asked) ELSE asked = first
  BY <1>6, <1>8
<1> HIDE DEF t
<1>17. first.view.shown[p] # 0 =>
         /\ IF q # 0 /\ first.view.shown[q] = 0 THEN Request(first, {q}, asked) ELSE asked = first
         /\ both = asked \/ both = [asked EXCEPT !.view.companion = 0]
         /\ Request(Pruned(both), Nearby(both.view), t)
  BY <1>10, <1>13, <1>16 DEF ready
<1> QED
  BY <1>1, <1>14, <1>15, <1>17, LayoutStep

\* A spread has two pages: with one of them aside there is one at most.
LEMMA OtherOfSpread ==
  ASSUME NEW s, NEW p \in Unshown(s)
  PROVE  \E x : Unshown(s) \ {p} \subseteq {x}
  BY DEF Unshown, Spread

LEMMA RequestedStep ==
  ASSUME NEW s, Sound(s), Roomy(s), NEW pages, Askable(s, pages)
  PROVE  Request(s, pages, Requested(s, pages))
<1> DEFINE C == Cached(s, pages)
<1> DEFINE fresh == CancelSerial(s)
<1> DEFINE rest == {p \in C : p # Least(C)}
<1> DEFINE one == Published(fresh, C, fresh.bumps, LaidOne)
<1> DEFINE two == Published(one, rest, fresh.bumps, LaidOne)
<1>1. Requested(s, pages) = IF Satisfied(s, Wanted(s, pages)) THEN s
                          ELSE Told(s, Wanted(s, pages), Gone(s, pages), two)
  BY DEF Requested, Asked, Cached, Gone
<1>2. CASE Satisfied(s, Wanted(s, pages))
  BY <1>1, <1>2, SatisfiedStep
<1>3. CASE ~Satisfied(s, Wanted(s, pages))
  <2>1. /\ Sound(fresh) /\ Roomy(fresh) /\ fresh \in Gui /\ s \in Gui
        /\ fresh.view = s.view /\ fresh.cache = s.cache
    BY CancelKept, Cancelled DEF Sound
  <2>2. C \subseteq Pages /\ (\A p \in C : s.cache[p] # 0) /\ C \subseteq Unshown(s)
    BY DEF Cached, Wanted, Gone, Askable, Unshown
  <2>3. Unshown(fresh) = Unshown(s)
    BY <2>1 DEF Unshown
  <2> HIDE DEF C, fresh
  <2>4. ASSUME C # {}
        PROVE  Publication(fresh, Least(C), one)
    <3> DEFINE a == Least(C)
    <3> DEFINE u == Show(fresh, a, fresh.cache[a])
    <3>1. a \in C /\ a \in Pages /\ fresh.cache[a] # 0
      BY <2>1, <2>2, <2>4, LeastIn
    <3>2. one = IF a \in Spread(fresh.view) THEN LaidOne(u) ELSE Known(fresh, a)
      BY <2>4 DEF Published, Ready, Show, Known
    <3> HIDE DEF a, one
    <3>3. fresh.cache[a] \in Docs
      BY <2>1, <3>1, PartsOfGui
    <3>4. Sound(u) /\ Roomy(u) /\ Unshown(u) = Unshown(s) \ {a}
      BY <2>1, <2>3, <3>1, <3>3, ShowKept
    <3> HIDE DEF u
    <3>5. Layout(u, LaidOne(u))
      BY OtherOfSpread, <2>1, <2>2, <3>1, <3>4, LaidOneStep
    <3> QED
      BY <2>1, <3>1, <3>2, <3>5, PublicationStep DEF u, a
  <2>5. C = {} => one = fresh
    BY DEF Published
  <2>6. rest = {} \/ one.bumps # fresh.bumps => two = one
    BY DEF Published
  <2>7. ASSUME rest # {}, one.bumps = fresh.bumps
        PROVE  Publication(one, Least(rest), two)
    <3> DEFINE a == Least(rest)
    <3> DEFINE u == Show(one, a, one.cache[a])
    <3>1. Publication(fresh, Least(C), one)
      BY <2>4, <2>7
    <3>2. two = IF a \in Spread(one.view) THEN LaidOne(u) ELSE Known(one, a)
      BY <2>7 DEF Published, Ready, Show, Known
    <3> HIDE DEF one, two
    <3>3. /\ Sound(one) /\ Roomy(one) /\ one \in Gui /\ one.cache = fresh.cache
          /\ Unshown(one) \subseteq Unshown(s) \ {Least(C)}
      BY <2>3, <3>1 DEF Publication, Kept, KeptPipe, Sound
    <3>4. Least(C) \in C
      BY <2>2, <2>7, LeastIn
    <3>5. a \in rest /\ a \in Pages /\ one.cache[a] # 0
      BY <2>1, <2>2, <2>7, <3>3, LeastIn
    <3> HIDE DEF a, rest
    <3>6. one.cache[a] \in Docs
      BY <3>3, <3>5, PartsOfGui
    <3>7. Sound(u) /\ Roomy(u) /\ Unshown(u) = Unshown(one) \ {a}
      BY <3>3, <3>5, <3>6, ShowKept
    <3> HIDE DEF u
    <3>8. Layout(u, LaidOne(u))
      BY OtherOfSpread, <2>1, <2>2, <3>3, <3>4, <3>5, <3>7, LaidOneStep DEF rest
    <3> QED
      BY <3>2, <3>3, <3>5, <3>8, PublicationStep DEF u, a
  <2>8. s.pipe.source # 0 /\ Wanted(s, pages) # {}
    BY <1>3 DEF Satisfied
  <2>9. IF C = {} THEN one = fresh ELSE Publication(fresh, Least(C), one)
    BY <2>4, <2>5
  <2>10. IF rest = {} \/ one.bumps # fresh.bumps THEN two = one
         ELSE Publication(one, Least(rest), two)
    BY <2>6, <2>7
  <2> HIDE DEF one, two
  <2> QED
    BY <1>1, <1>3, <2>8, <2>9, <2>10, AskedStep DEF C, fresh
<1> QED
  BY <1>2, <1>3

LEMMA LaidStep ==
  ASSUME NEW s, Sound(s), Roomy(s)
  PROVE  Layout(s, Laid(s))
<1> DEFINE p == s.view.primary
<1> DEFINE q == s.view.companion
<1> DEFINE first == IF s.view.shown[p] = 0 THEN Requested(s, {p}) ELSE s
<1> DEFINE asked == IF q # 0 /\ first.view.shown[q] = 0 THEN Requested(first, {q}) ELSE first
<1> DEFINE both == IF q # 0 /\ asked.view.shown[q] = 0 /\ q \in asked.view.bad
                   THEN [asked EXCEPT !.view.companion = 0] ELSE asked
<1> DEFINE ready == Pruned(both)
<1> DEFINE t == IF first.view.shown[p] = 0 THEN Pruned(first)
                ELSE Requested(ready, Nearby(both.view))
<1>1. Laid(s) = t
  BY DEF Laid, LaidOut
<1>2. s \in Gui
  BY DEF Sound
<1>3. s.view.shown[p] = 0 => Request(s, {p}, first)
  BY <1>2, AskableFacts, RequestedStep
<1>4. Sound(first) /\ Roomy(first) /\ Kept(s, first) /\ first \in Gui
  BY <1>2, <1>3, KeptSelf DEF Request, Sound
<1>5. Unshown(first) \subseteq Unshown(s)
  BY <1>2, <1>4, KeptUnshown
<1> HIDE DEF first
<1>6. q # 0 /\ first.view.shown[q] = 0 => Request(first, {q}, asked)
  BY <1>2, <1>4, <1>5, AskableFacts, RequestedStep
<1>7. Sound(asked) /\ Roomy(asked) /\ Kept(first, asked) /\ asked \in Gui
  BY <1>4, <1>6, KeptSelf DEF Request, Sound
<1>8. asked = first \/ (q # 0 /\ first.view.shown[q] = 0)
  OBVIOUS
<1>9. Unshown(asked) \subseteq Unshown(s)
  BY <1>4, <1>5, <1>7, KeptUnshown
<1> HIDE DEF asked
<1>10. both = asked \/ both = [asked EXCEPT !.view.companion = 0]
  OBVIOUS
<1> HIDE DEF both
<1>11. /\ Sound(both) /\ Roomy(both) /\ Kept(asked, both) /\ both \in Gui
       /\ both.view.primary = p /\ Unshown(both) \subseteq Unshown(s)
  <2>1. asked.view.primary = p
    BY <1>4, <1>7 DEF Kept, KeptView
  <2>2. CASE both = asked
    BY <1>7, <1>9, <2>1, <2>2, KeptSelf
  <2>3. CASE both = [asked EXCEPT !.view.companion = 0]
    <3>1. /\ Sound(both) /\ Roomy(both) /\ Kept(asked, both)
          /\ both.view.primary = asked.view.primary /\ Unshown(both) \subseteq Unshown(asked)
      BY <1>7, <2>3, AloneKept
    <3> QED
      BY <1>9, <2>1, <3>1 DEF Sound
  <2> QED
    BY <1>10, <2>2, <2>3
<1>12. /\ Sound(ready) /\ Roomy(ready) /\ ready \in Gui /\ ready.view.primary = p
       /\ Nearby(ready.view) = Nearby(both.view) /\ Unshown(ready) \subseteq Unshown(s)
       /\ Kept(both, ready)
  BY <1>11, PrunedKept DEF Sound
<1> HIDE DEF ready
<1>13. ASSUME first.view.shown[p] # 0
       PROVE  Request(ready, Nearby(both.view), t)
  <2>1. asked.view.primary = p /\ first.view.primary = p
    BY <1>4, <1>7 DEF Kept, KeptView
  <2>2. asked.view.shown[p] # 0
    BY <1>7, <1>13, <2>1, PartsOfGui DEF Kept, KeptView
  <2>3. both.view.shown[p] # 0
    BY <1>11, <2>2, PartsOfGui DEF Kept, KeptView
  <2>4. ready.view.shown[p] # 0
    BY <1>12, <2>3, PartsOfGui DEF Kept, KeptView
  <2>5. Askable(ready, Nearby(both.view))
    BY <1>12, <2>4, AskableFacts
  <2>6. t = Requested(ready, Nearby(both.view))
    BY <1>13
  <2> HIDE DEF t
  <2> QED
    BY <1>12, <2>5, <2>6, RequestedStep
<1>14. first.view.shown[p] = 0 => t = Pruned(first)
  OBVIOUS
<1>15. IF s.view.shown[p] = 0 THEN Request(s, {p}, first) ELSE first = s
  BY <1>3 DEF first
<1>16. IF q # 0 /\ first.view.shown[q] = 0 THEN Request(first, {q}, asked) ELSE asked = first
  BY <1>6, <1>8
<1> HIDE DEF t
<1>17. first.view.shown[p] # 0 =>
         /\ IF q # 0 /\ first.view.shown[q] = 0 THEN Request(first, {q}, asked) ELSE asked = first
         /\ both = asked \/ both = [asked EXCEPT !.view.companion = 0]
         /\ Request(Pruned(both), Nearby(both.view), t)
  BY <1>10, <1>13, <1>16 DEF ready
<1> QED
  BY <1>1, <1>14, <1>15, <1>17, LayoutStep

------------------------------------------------------------------------------
(* The invariant                                                           *)

\* A document is being opened only when none is open.
OpensAlone == pipe.opening # 0 => pipe.source = 0
\* Until a stream that nobody listens to has put one, every frame is of the
\* document that is open, in the cache as on the screen.
Frames == ~late => \A p \in Pages : /\ view.shown[p] \in {0, pipe.source}
                                    /\ cache[p] \in {0, pipe.source}
ReaderInv == TypeOK /\ Sound(Now) /\ OpensAlone /\ NoneForgotten /\ Frames

LEMMA BecomesSound ==
  ASSUME NEW t, Sound(t), Becomes(t)
  PROVE  /\ Sound(Now)'
         /\ view' \in View /\ pipe' \in Pipe /\ cache' \in [Pages -> Docs \cup {0}]
         /\ stream' \in [Streams -> Stream \cup {NoStream}]
         /\ \A i \in Streams : stream'[i].step \in Working => Todo(stream'[i]) # {}
<1> DEFINE n == [view |-> view', pipe |-> pipe', cache |-> cache', stream |-> stream', bumps |-> 0]
<1>1. t \in Gui
  BY DEF Sound
<1>2. view' = t.view /\ pipe' = t.pipe /\ cache' = t.cache /\ stream' = t.stream
  BY DEF Becomes
<1>3. n \in Gui /\ n.pipe = t.pipe /\ n.stream = t.stream
  BY <1>1, <1>2, PartsOfGui DEF Gui
<1>4. Sound(n)
  BY <1>3, SameStreams
<1>5. n = Now'
  BY DEF Now
<1> HIDE DEF n
<1>6. Sound(Now')
  BY <1>4, <1>5
<1> QED
  BY <1>1, <1>2, <1>6, PartsOfGui DEF Sound, Steady

\* What a handler does leaves the invariant: it works on the record s, in which
\* the state is right but for what the handler has changed before, and comes to t.
LEMMA GuiStep ==
  ASSUME ReaderInv, sealed' \in BOOLEAN, late' = late, NEW s \in Gui, NEW t, Sound(t), Kept(s, t), Becomes(t),
         \A d \in Docs : Reading(s.stream, d) <=> Reading(stream, d),
         s.pipe.opening # 0 => s.pipe.source = 0,
         ~late => \A p \in Pages : s.view.shown[p] \in {0, s.pipe.source}
                                   /\ s.cache[p] \in {0, s.pipe.source},
         doc' \in [Docs -> {"none", "open", "closing", "closed"}],
         opening' \in [Docs -> Opening],
         closing' \in [Docs -> {"none", "queued", "ended", "dropped"}],
         \A d \in Docs :
           /\ doc'[d] = "open" => \/ s.pipe.source = d \/ opening'[d].step = "result"
                                  \/ closing'[d] \in {"queued", "dropped"}
           /\ doc'[d] = "closing" => Reading(stream, d)
  PROVE  ReaderInv'
<1>1. /\ Sound(Now)'
      /\ view' \in View /\ pipe' \in Pipe /\ cache' \in [Pages -> Docs \cup {0}]
      /\ stream' \in [Streams -> Stream \cup {NoStream}]
      /\ \A i \in Streams : stream'[i].step \in Working => Todo(stream'[i]) # {}
  BY BecomesSound
<1>2. view' = t.view /\ pipe' = t.pipe /\ cache' = t.cache /\ stream' = t.stream
  BY DEF Becomes
<1>3. TypeOK'
  <2>1. sealed' \in BOOLEAN /\ late' \in BOOLEAN
    BY Zenon DEF ReaderInv, TypeOK
  <2> QED
    BY <1>1, <2>1 DEF TypeOK
<1>4. OpensAlone'
  BY <1>2 DEF OpensAlone, Kept, KeptPipe
<1>5. \A d \in Docs : Reading(stream', d) <=> Reading(stream, d)
  BY <1>2 DEF Kept, KeptPipe
<1>6. NoneForgotten'
  BY <1>2, <1>5 DEF NoneForgotten, Kept, KeptPipe
<1>7. Frames'
  <2> SUFFICES ASSUME ~late', NEW p \in Pages
               PROVE  view'.shown[p] \in {0, pipe'.source} /\ cache'[p] \in {0, pipe'.source}
    BY DEF Frames
  <2>1. ~late
    OBVIOUS
  <2>2. s.view.shown[p] \in {0, s.pipe.source} /\ s.cache[p] \in {0, s.pipe.source}
    BY <2>1
  <2> QED
    BY <1>2, <2>2 DEF Kept, KeptView, KeptPipe
<1> QED
  BY <1>1, <1>3, <1>4, <1>6, <1>7 DEF ReaderInv

LEMMA DetachedFacts ==
  ASSUME NEW s, Sound(s)
  PROVE  LET t == Detached(s) IN
    /\ Sound(t) /\ t.pipe.source = 0 /\ t.pipe.opening = 0 /\ t.pipe.stream = 0
    /\ t.pipe.pending = {}
    /\ \A p \in Pages : t.view.shown[p] = 0 /\ t.cache[p] = 0
    /\ \A d \in Docs : Reading(t.stream, d) <=> Reading(s.stream, d)
<1> DEFINE c == CancelSerial(s)
<1> DEFINE P == [c.pipe EXCEPT !.source = 0]
<1> DEFINE V == [c.view EXCEPT !.shown = Nothing, !.bad = {}, !.companion = 0]
<1> DEFINE t == Detached(s)
<1>1. Sound(c) /\ Kept(s, c)
  BY CancelKept
<1>2. c \in Gui /\ s \in Gui
  BY <1>1 DEF Sound
<1>3. c.pipe.stream = 0 /\ c.pipe.pending = {} /\ c.pipe.opening = 0
  BY <1>2, Cancelled
<1>4. t = [c EXCEPT !.pipe = P, !.cache = Nothing, !.view = V]
  BY <1>2 DEF Detached, Gui, View
<1> HIDE DEF c
<1>5. c.view \in View /\ c.pipe \in Pipe
  BY <1>2, PartsOfGui
<1>6. Nothing \in [Pages -> Docs \cup {0}] /\ \A p \in Pages : Nothing[p] = 0
  BY DEF Nothing
<1>7. V \in View /\ V.shown = Nothing
  BY <1>5, <1>6 DEF View
<1>8. P \in Pipe /\ P.source = 0 /\ P.stream = 0 /\ P.pending = {} /\ P.opening = 0
  BY <1>3, <1>5 DEF Pipe
<1> HIDE DEF P, V, t
<1>9. t = [view |-> V, pipe |-> P, cache |-> Nothing, stream |-> c.stream, bumps |-> c.bumps]
  BY <1>2, <1>4 DEF Gui
<1>10. t \in Gui
  BY <1>2, <1>6, <1>7, <1>8, <1>9 DEF Gui
<1>11. Sound(t)
  BY <1>1, <1>8, <1>9, <1>10 DEF Sound, Served, AllBrought
<1>12. \A d \in Docs : Reading(t.stream, d) <=> Reading(s.stream, d)
  BY <1>1, <1>9 DEF Kept, KeptPipe
<1> QED
  BY <1>6, <1>7, <1>8, <1>9, <1>11, <1>12 DEF t

\* Leaving the document for a stage, and for one that is being opened.
LeftFor(s, stage) == [Detached(s) EXCEPT !.view.stage = stage]
LeftTo(s, stage, d) == [Detached(s) EXCEPT !.view.stage = stage, !.pipe.opening = d]

LEMMA LeftFacts ==
  ASSUME NEW s, Sound(s), NEW stage \in {"new", "loading", "reading", "prompt", "idle", "gone"},
         NEW d \in Docs \cup {0}, NEW t,
         \/ t = LeftFor(s, stage) /\ d = 0
         \/ t = LeftTo(s, stage, d)
  PROVE  /\ Sound(t) /\ Kept(t, t) /\ t \in Gui /\ t.pipe.source = 0 /\ t.pipe.opening = d
         /\ \A p \in Pages : t.view.shown[p] = 0 /\ t.cache[p] = 0
         /\ \A e \in Docs : Reading(t.stream, e) <=> Reading(s.stream, e)
<1> DEFINE c == Detached(s)
<1> DEFINE P == [c.pipe EXCEPT !.opening = d]
<1> DEFINE V == [c.view EXCEPT !.stage = stage]
<1>1. /\ Sound(c) /\ c.pipe.source = 0 /\ c.pipe.opening = 0 /\ c.pipe.stream = 0
      /\ c.pipe.pending = {}
      /\ \A p \in Pages : c.view.shown[p] = 0 /\ c.cache[p] = 0
      /\ \A e \in Docs : Reading(c.stream, e) <=> Reading(s.stream, e)
  BY DetachedFacts
<1>2. c \in Gui
  BY <1>1 DEF Sound
<1>3. (t = [c EXCEPT !.view = V] /\ d = 0) \/ t = [c EXCEPT !.view = V, !.pipe = P]
  BY <1>2 DEF Gui, LeftFor, LeftTo
<1> HIDE DEF c
<1>4. c.view \in View /\ c.pipe \in Pipe
  BY <1>2, PartsOfGui
<1>5. V \in View /\ V.shown = c.view.shown
  BY <1>4 DEF View
<1>6. P \in Pipe /\ P.source = 0 /\ P.stream = 0 /\ P.pending = {} /\ P.opening = d
  BY <1>1, <1>4 DEF Pipe
<1>7. d = 0 => P = c.pipe
  BY <1>1, <1>4 DEF Pipe
<1> HIDE DEF P, V
<1>8. t = [view |-> V, pipe |-> P, cache |-> c.cache, stream |-> c.stream, bumps |-> c.bumps]
  BY <1>2, <1>3, <1>7 DEF Gui
<1>9. t \in Gui
  BY <1>2, <1>5, <1>6, <1>8 DEF Gui
<1>10. Sound(t)
  BY <1>1, <1>6, <1>8, <1>9 DEF Sound, Served, AllBrought
<1> QED
  BY <1>1, <1>5, <1>6, <1>8, <1>9, <1>10, KeptSelf DEF c

\* What the invariant says of the record a handler starts with.
LEMMA NowFacts ==
  ASSUME ReaderInv
  PROVE  /\ Now \in Gui /\ Sound(Now) /\ Now.view = view /\ Now.pipe = pipe /\ Now.cache = cache
         /\ Now.stream = stream /\ Now.bumps = 0
         /\ view \in View /\ pipe \in Pipe /\ cache \in [Pages -> Docs \cup {0}]
         /\ stream \in [Streams -> Stream \cup {NoStream}]
         /\ (Room => Roomy(Now))
  BY DEF ReaderInv, TypeOK, Sound, Now, Room, Roomy

LEMMA DocTypes ==
  ASSUME ReaderInv
  PROVE  /\ doc \in [Docs -> {"none", "open", "closing", "closed"}]
         /\ opening \in [Docs -> Opening]
         /\ closing \in [Docs -> {"none", "queued", "ended", "dropped"}]
  BY DEF ReaderInv, TypeOK

\* Closing the document that is left: it is open no longer than until then.
LEMMA Leave ==
  ASSUME ReaderInv, sealed' \in BOOLEAN, late' = late, NEW s, Sound(s),
         \A e \in Docs : Reading(s.stream, e) <=> Reading(stream, e),
         NEW stage \in {"new", "loading", "reading", "prompt", "idle", "gone"},
         NEW d \in Docs \cup {0}, NEW t, Becomes(t),
         \/ t = LeftFor(s, stage) /\ d = 0
         \/ t = LeftTo(s, stage, d),
         opening' \in [Docs -> Opening], CloseSource(pipe.source),
         \A e \in Docs : opening[e].step = "result" => opening'[e].step = "result"
  PROVE  ReaderInv'
<1>1. /\ Sound(t) /\ Kept(t, t) /\ t \in Gui /\ t.pipe.source = 0 /\ t.pipe.opening = d
      /\ \A p \in Pages : t.view.shown[p] = 0 /\ t.cache[p] = 0
      /\ \A e \in Docs : Reading(t.stream, e) <=> Reading(s.stream, e)
  <2>1. CASE t = LeftFor(s, stage) /\ d = 0
    <3>1. /\ Sound(t) /\ Kept(t, t) /\ t \in Gui /\ t.pipe.source = 0 /\ t.pipe.opening = 0
          /\ \A p \in Pages : t.view.shown[p] = 0 /\ t.cache[p] = 0
          /\ \A e \in Docs : Reading(t.stream, e) <=> Reading(s.stream, e)
      <4>1. 0 \in Docs \cup {0}
        OBVIOUS
      <4> QED
        BY ONLY <2>1, <4>1, Sound(s),
                stage \in {"new", "loading", "reading", "prompt", "idle", "gone"}, LeftFacts
    <3> QED
      BY <2>1, <3>1
  <2>2. CASE t = LeftTo(s, stage, d)
    BY <2>2, LeftFacts
  <2> QED
    BY <2>1, <2>2
<1>2. pipe \in Pipe
  BY NowFacts
<1>3. doc' = doc /\ doc \in [Docs -> {"none", "open", "closing", "closed"}]
  BY DocTypes DEF CloseSource
<1>4. /\ closing' \in [Docs -> {"none", "queued", "ended", "dropped"}]
      /\ \A e \in Docs : closing'[e] = IF e = pipe.source THEN "queued" ELSE closing[e]
  BY <1>2, DocTypes, DocFacts DEF CloseSource, Pipe
<1>5. \A e \in Docs :
        /\ doc'[e] = "open" => \/ t.pipe.source = e \/ opening'[e].step = "result"
                               \/ closing'[e] \in {"queued", "dropped"}
        /\ doc'[e] = "closing" => Reading(stream, e)
  BY <1>3, <1>4 DEF ReaderInv, NoneForgotten
<1> HIDE DEF CloseSource
<1> QED
  BY <1>1, <1>3, <1>4, <1>5, GuiStep

LEMMA OpenKeeps ==
  ASSUME ReaderInv, NEW d \in Docs, Open(d)
  PROVE  ReaderInv'
<1> DEFINE t == LeftTo(Now, "loading", d)
<1>1. Becomes(t) /\ CloseSource(pipe.source) /\ UNCHANGED <<sealed, late>>
      /\ opening' = [Withdrawn(opening) EXCEPT ![d].step = IF sealed THEN "refused" ELSE "queued"]
      /\ opening[d].step = "none"
  BY DEF Open, LeftTo
<1>2. opening \in [Docs -> Opening] /\ pipe \in Pipe
  BY DocTypes, NowFacts
<1>3. /\ Withdrawn(opening) \in [Docs -> Opening]
      /\ \A e \in Docs : Withdrawn(opening)[e].step = opening[e].step
  BY <1>2 DEF Withdrawn, Opening, Pipe
<1> DEFINE w == Withdrawn(opening)
           asked == IF sealed THEN "refused" ELSE "queued"
<1>4. opening' = [w EXCEPT ![d].step = asked] /\ w \in [Docs -> Opening]
      /\ \A e \in Docs : w[e].step = opening[e].step
  BY <1>1, <1>3
<1>9. asked \in {"refused", "queued"}
  OBVIOUS
<1> HIDE DEF t, w, asked
<1>5. opening' \in [Docs -> Opening]
  BY <1>4, <1>9 DEF Opening
<1>8. \A e \in Docs : opening[e].step = "result" => opening'[e].step = "result"
  BY <1>1, <1>4
<1>6. sealed' \in BOOLEAN /\ late' = late
  BY <1>1, Zenon DEF ReaderInv, TypeOK
<1>7. Sound(Now) /\ \A e \in Docs : Reading(Now.stream, e) <=> Reading(stream, e)
  BY NowFacts
<1> QED
  BY <1>1, <1>5, <1>6, <1>7, <1>8, Leave DEF t

LEMMA CloseWindowKeeps ==
  ASSUME ReaderInv, CloseWindow
  PROVE  ReaderInv'
<1> DEFINE t == LeftFor(Now, "gone")
<1>1. Becomes(t) /\ CloseSource(pipe.source) /\ UNCHANGED <<sealed, late>>
      /\ opening' = Withdrawn(opening)
  BY DEF CloseWindow, LeftFor
<1>2. opening \in [Docs -> Opening] /\ pipe \in Pipe
  BY DocTypes, NowFacts
<1>3. /\ opening' \in [Docs -> Opening]
      /\ \A e \in Docs : opening[e].step = "result" => opening'[e].step = "result"
  BY <1>1, <1>2 DEF Withdrawn, Opening, Pipe
<1> HIDE DEF t
<1>4. sealed' \in BOOLEAN /\ late' = late
  BY <1>1, Zenon DEF ReaderInv, TypeOK
<1>5. Sound(Now) /\ \A e \in Docs : Reading(Now.stream, e) <=> Reading(stream, e)
  BY NowFacts
<1> QED
  BY <1>1, <1>3, <1>4, <1>5, Leave DEF t

LEMMA SealKeeps ==
  ASSUME ReaderInv, Seal
  PROVE  ReaderInv'
<1>0. PICK stage \in {"gone"} \cup ({"new"} \cap {view.stage}) : Becomes(LeftFor(Now, stage))
  BY DEF Seal, LeftFor
<1> DEFINE t == LeftFor(Now, stage)
<1>1. /\ Becomes(t) /\ sealed' = TRUE /\ late' = late
      /\ opening' = [d \in Docs |-> [opening[d] EXCEPT !.cancelled = @ \/ opening[d].step # "none"]]
      /\ closing' = [d \in Docs |-> IF closing[d] = "queued" THEN "dropped" ELSE closing[d]]
      /\ doc' = IF pipe.source = 0 THEN doc
                ELSE [doc EXCEPT ![pipe.source] = ClosedDoc(pipe.source, stream)]
  BY <1>0 DEF Seal
<1>2. Sound(Now) /\ pipe \in Pipe
  BY NowFacts
<1>3. /\ doc \in [Docs -> {"none", "open", "closing", "closed"}]
      /\ opening \in [Docs -> Opening]
      /\ closing \in [Docs -> {"none", "queued", "ended", "dropped"}]
  BY DocTypes
<1>4. /\ Sound(t) /\ Kept(t, t) /\ t \in Gui /\ t.pipe.source = 0 /\ t.pipe.opening = 0
      /\ \A p \in Pages : t.view.shown[p] = 0 /\ t.cache[p] = 0
      /\ \A e \in Docs : Reading(t.stream, e) <=> Reading(Now.stream, e)
  <2>1. stage \in {"new", "loading", "reading", "prompt", "idle", "gone"} /\ 0 \in Docs \cup {0}
    BY <1>0
  <2> QED
    BY ONLY <2>1, <1>2, LeftFacts
<1> HIDE DEF t
<1>5. \A e \in Docs : Reading(t.stream, e) <=> Reading(stream, e)
  BY <1>4, NowFacts
<1>6. \A d \in Docs : [opening[d] EXCEPT !.cancelled = @ \/ opening[d].step # "none"]
                        = [step |-> opening[d].step,
                           cancelled |-> opening[d].cancelled \/ opening[d].step # "none"]
  BY <1>3 DEF Opening
<1>7. \A d \in Docs : (opening[d].cancelled \/ opening[d].step # "none") \in BOOLEAN
  BY Zenon
<1>8. opening' = [d \in Docs |-> [step |-> opening[d].step,
                    cancelled |-> opening[d].cancelled \/ opening[d].step # "none"]]
  BY <1>1, <1>6
<1>9. opening' \in [Docs -> Opening] /\ \A d \in Docs : opening'[d].step = opening[d].step
  BY <1>3, <1>7, <1>8 DEF Opening
<1>10. /\ closing' \in [Docs -> {"none", "queued", "ended", "dropped"}]
       /\ \A d \in Docs : closing'[d] = IF closing[d] = "queued" THEN "dropped" ELSE closing[d]
  BY <1>1, <1>3
<1>11. /\ doc' \in [Docs -> {"none", "open", "closing", "closed"}]
       /\ \A d \in Docs : doc'[d] = IF d = pipe.source THEN ClosedDoc(d, stream) ELSE doc[d]
  BY <1>1, <1>2, <1>3, DocFacts DEF Pipe, ClosedDoc
<1>12. \A d \in Docs :
        /\ doc'[d] = "open" => \/ t.pipe.source = d \/ opening'[d].step = "result"
                               \/ closing'[d] \in {"queued", "dropped"}
        /\ doc'[d] = "closing" => Reading(stream, d)
  BY <1>9, <1>10, <1>11 DEF ReaderInv, NoneForgotten, ClosedDoc
<1>13. sealed' \in BOOLEAN
  BY <1>1
<1>14. t.pipe.opening # 0 => t.pipe.source = 0
  BY <1>4
<1>15. ~late => \A p \in Pages : t.view.shown[p] \in {0, t.pipe.source}
                                 /\ t.cache[p] \in {0, t.pipe.source}
  BY <1>4
<1>16. Becomes(t) /\ late' = late
  BY <1>1
<1> QED
  BY ONLY ReaderInv, <1>4, <1>5, <1>9, <1>10, <1>11, <1>12, <1>13, <1>14, <1>15, <1>16, GuiStep

------------------------------------------------------------------------------
(* The documents' tasks                                                    *)

\* A step that leaves what the GUI thread owns.
LEMMA DocStep ==
  ASSUME ReaderInv, UNCHANGED <<view, pipe, cache, stream, sealed, late>>,
         doc' \in [Docs -> {"none", "open", "closing", "closed"}],
         opening' \in [Docs -> Opening],
         closing' \in [Docs -> {"none", "queued", "ended", "dropped"}],
         \A d \in Docs :
           /\ doc'[d] = "open" => \/ pipe.source = d \/ opening'[d].step = "result"
                                  \/ closing'[d] \in {"queued", "dropped"}
           /\ doc'[d] = "closing" => Reading(stream, d)
  PROVE  ReaderInv'
<1>1. Now' = Now
  BY DEF Now
<1>2. Sound(Now)'
  BY <1>1 DEF ReaderInv
<1>3. TypeOK'
  <2>1. sealed' \in BOOLEAN /\ late' \in BOOLEAN
    BY Zenon DEF ReaderInv, TypeOK
  <2> QED
    BY <2>1 DEF ReaderInv, TypeOK
<1>4. NoneForgotten'
  BY DEF NoneForgotten
<1>5. OpensAlone'
  BY DEF ReaderInv, OpensAlone
<1>6. Frames'
  BY DEF ReaderInv, Frames
<1> QED
  BY <1>2, <1>3, <1>4, <1>5, <1>6 DEF ReaderInv

LEMMA OpenWorkKeeps ==
  ASSUME ReaderInv, NEW d \in Docs, OpenWork(d)
  PROVE  ReaderInv'
<1>1. UNCHANGED <<view, pipe, cache, stream, closing, sealed, late>>
  BY DEF OpenWork
<1>2. /\ doc \in [Docs -> {"none", "open", "closing", "closed"}]
      /\ opening \in [Docs -> Opening]
      /\ closing \in [Docs -> {"none", "queued", "ended", "dropped"}]
  BY DocTypes
<1>3. /\ opening' \in [Docs -> Opening] /\ doc' \in [Docs -> {"none", "open", "closing", "closed"}]
      /\ \A e \in Docs : e # d => opening'[e] = opening[e] /\ doc'[e] = doc[e]
      /\ doc'[d] = "open" => opening'[d].step = "result" \/ (doc[d] = "open" /\ opening[d].step # "result")
      /\ doc'[d] = "closing" => doc[d] = "closing"
  <2>1. CASE /\ opening[d].step = "queued" /\ UNCHANGED doc
             /\ opening' = [opening EXCEPT ![d].step = IF opening[d].cancelled THEN "ended" ELSE "running"]
    BY <1>2, <2>1 DEF Opening
  <2>2. ASSUME opening[d].step = "running", NEW answer \in {"result", "failure", "password"},
               opening' = [opening EXCEPT ![d].step = IF opening[d].cancelled THEN "ended" ELSE answer],
               doc' = IF answer # "result" THEN doc
                      ELSE [doc EXCEPT ![d] = IF opening[d].cancelled THEN "closed" ELSE "open"]
        PROVE  /\ opening' \in [Docs -> Opening]
               /\ doc' \in [Docs -> {"none", "open", "closing", "closed"}]
               /\ \A e \in Docs : e # d => opening'[e] = opening[e] /\ doc'[e] = doc[e]
               /\ doc'[d] = "open" =>
                    opening'[d].step = "result" \/ (doc[d] = "open" /\ opening[d].step # "result")
               /\ doc'[d] = "closing" => doc[d] = "closing"
    BY <1>2, <2>2 DEF Opening
  <2> QED
    BY <2>1, <2>2 DEF OpenWork
<1>4. \A e \in Docs :
        /\ doc'[e] = "open" => \/ pipe.source = e \/ opening'[e].step = "result"
                               \/ closing'[e] \in {"queued", "dropped"}
        /\ doc'[e] = "closing" => Reading(stream, e)
  BY <1>1, <1>3 DEF ReaderInv, NoneForgotten
<1> QED
  BY <1>1, <1>2, <1>3, <1>4, DocStep

LEMMA CloseWorkKeeps ==
  ASSUME ReaderInv, NEW d \in Docs, CloseWork(d)
  PROVE  ReaderInv'
<1>1. /\ UNCHANGED <<view, pipe, cache, stream, opening, sealed, late>>
      /\ closing' = [closing EXCEPT ![d] = "ended"] /\ doc' = [doc EXCEPT ![d] = ClosedDoc(d, stream)]
  BY DEF CloseWork
<1>2. /\ doc \in [Docs -> {"none", "open", "closing", "closed"}]
      /\ opening \in [Docs -> Opening]
      /\ closing \in [Docs -> {"none", "queued", "ended", "dropped"}]
  BY DocTypes
<1>3. /\ doc' \in [Docs -> {"none", "open", "closing", "closed"}]
      /\ closing' \in [Docs -> {"none", "queued", "ended", "dropped"}]
  BY <1>1, <1>2 DEF ClosedDoc
<1>4. \A e \in Docs :
        /\ doc'[e] = "open" => \/ pipe.source = e \/ opening'[e].step = "result"
                               \/ closing'[e] \in {"queued", "dropped"}
        /\ doc'[e] = "closing" => Reading(stream, e)
  BY <1>1, <1>2 DEF ReaderInv, NoneForgotten, ClosedDoc
<1> QED
  BY <1>1, <1>2, <1>3, <1>4, DocStep

------------------------------------------------------------------------------
(* The user turns the pages, and the document that comes                   *)

Faced(s, p) == [s EXCEPT !.view.primary = p, !.view.companion = Following(p)]

LEMMA TurnedStep ==
  ASSUME ReaderInv, NEW s, Sound(s), Roomy(s), NEW p \in Pages
  PROVE  LET v == Faced(s, p)  t == Turned(s, p) IN
    /\ v \in Gui /\ Sound(t) /\ Kept(v, t)
    /\ v.pipe = s.pipe /\ v.stream = s.stream /\ v.cache = s.cache
    /\ v.view.shown = s.view.shown
<1> DEFINE v == Faced(s, p)
<1> DEFINE V == [s.view EXCEPT !.primary = p, !.companion = Following(p)]
<1> DEFINE r == Requested(v, Spread(v.view))
<1>1. s \in Gui
  BY DEF Sound
<1>2. s.view \in View
  BY <1>1, PartsOfGui
<1>3. Following(p) \in Pages \cup {0}
  BY DEF Following
<1>4. V \in View /\ V.shown = s.view.shown
  BY <1>2, <1>3 DEF View
<1>5. v = [s EXCEPT !.view = V]
  BY <1>1 DEF Faced, Gui, View
<1>6. Turned(s, p) = Laid(r)
  BY DEF Turned, Faced
<1> HIDE DEF V, v
<1>7. v = [view |-> V, pipe |-> s.pipe, cache |-> s.cache, stream |-> s.stream, bumps |-> s.bumps]
  BY <1>1, <1>5 DEF Gui
<1>8. v \in Gui
  BY <1>1, <1>4, <1>7 DEF Gui
<1>9. Sound(v) /\ Roomy(v)
  BY <1>7, <1>8, SameStreams
<1>10. Request(v, Spread(v.view), r)
  BY <1>8, <1>9, AskableFacts, RequestedStep
<1> HIDE DEF r
<1>11. Sound(r) /\ Roomy(r) /\ Kept(v, r) /\ r \in Gui
  BY <1>10 DEF Request, Sound
<1>12. Sound(Laid(r)) /\ Kept(r, Laid(r)) /\ Laid(r) \in Gui
  BY <1>11, LaidStep DEF Layout, Sound
<1>13. Kept(v, Laid(r))
  BY <1>8, <1>11, <1>12, KeptTrans
<1> QED
  BY <1>4, <1>6, <1>7, <1>8, <1>12, <1>13 DEF v

LEMMA TurnKeeps ==
  ASSUME ReaderInv, NEW p \in Pages, Turn(p)
  PROVE  ReaderInv'
<1> DEFINE v == Faced(Now, p)
<1> DEFINE t == Turned(Now, p)
<1>1. Room /\ Becomes(t) /\ UNCHANGED <<doc, opening, closing, sealed, late>>
  BY DEF Turn
<1>2. Sound(Now) /\ Roomy(Now)
  BY <1>1, NowFacts
<1>3. /\ v \in Gui /\ Sound(t) /\ Kept(v, t)
      /\ v.pipe = pipe /\ v.stream = stream /\ v.cache = cache
      /\ v.view.shown = view.shown
  BY <1>2, TurnedStep, NowFacts
<1> HIDE DEF v, t
<1>4. sealed' \in BOOLEAN
  BY <1>1, Zenon DEF ReaderInv, TypeOK
<1>5. /\ doc' \in [Docs -> {"none", "open", "closing", "closed"}]
      /\ opening' \in [Docs -> Opening]
      /\ closing' \in [Docs -> {"none", "queued", "ended", "dropped"}]
  BY <1>1, DocTypes
<1>6. \A d \in Docs :
        /\ doc'[d] = "open" => \/ v.pipe.source = d \/ opening'[d].step = "result"
                               \/ closing'[d] \in {"queued", "dropped"}
        /\ doc'[d] = "closing" => Reading(stream, d)
  BY <1>1, <1>3 DEF ReaderInv, NoneForgotten
<1>7. /\ v.pipe.opening # 0 => v.pipe.source = 0
      /\ ~late => \A q \in Pages : v.view.shown[q] \in {0, v.pipe.source}
                                   /\ v.cache[q] \in {0, v.pipe.source}
  BY <1>3 DEF ReaderInv, OpensAlone, Frames
<1>8. \A d \in Docs : Reading(v.stream, d) <=> Reading(stream, d)
  BY <1>3
<1>9. late' = late
  BY <1>1
<1> QED
  BY ONLY ReaderInv, <1>1, <1>3, <1>4, <1>5, <1>6, <1>7, <1>8, <1>9, GuiStep

\* The pipeline takes the document it has waited for.
Taken(d) == [Now EXCEPT !.pipe.source = d, !.pipe.opening = 0, !.view.stage = "reading"]

LEMMA TakenFacts ==
  ASSUME ReaderInv, NEW d \in Docs, pipe.opening = d
  PROVE  LET s == Taken(d) IN
    /\ Sound(s) /\ (Room => Roomy(s)) /\ s.pipe.source = d /\ s.pipe.opening = 0
    /\ s.stream = stream /\ s.cache = cache /\ s.view.shown = view.shown
    /\ pipe.source = 0
<1> DEFINE P == [pipe EXCEPT !.source = d, !.opening = 0]
<1> DEFINE V == [view EXCEPT !.stage = "reading"]
<1> DEFINE s == Taken(d)
<1>1. /\ Now \in Gui /\ Sound(Now) /\ view \in View /\ pipe \in Pipe
      /\ cache \in [Pages -> Docs \cup {0}] /\ stream \in [Streams -> Stream \cup {NoStream}]
      /\ Now.stream = stream /\ Now.pipe = pipe
  BY NowFacts
<1>2. pipe.source = 0
  BY DocFacts DEF ReaderInv, OpensAlone
<1>3. pipe.stream = 0
  <2> SUFFICES ASSUME pipe.stream # 0
               PROVE  FALSE
    OBVIOUS
  <2>1. stream[pipe.stream] # NoStream /\ stream[pipe.stream].doc = 0
    BY <1>1, <1>2 DEF Sound, Served
  <2>2. pipe.stream \in Streams
    BY <1>1 DEF Pipe
  <2> QED
    BY <1>1, <2>1, <2>2, DocFacts DEF Stream
<1>4. s = [Now EXCEPT !.pipe = P, !.view = V]
  BY DEF Taken, Now
<1>5. V \in View /\ V.shown = view.shown
  BY <1>1 DEF View
<1>6. P \in Pipe /\ P.source = d /\ P.stream = 0 /\ P.pending = pipe.pending /\ P.opening = 0
  BY <1>1, <1>3 DEF Pipe
<1> HIDE DEF P, V, s
<1>7. s = [view |-> V, pipe |-> P, cache |-> cache, stream |-> stream, bumps |-> 0]
  BY <1>4 DEF Now
<1>8. s \in Gui
  BY <1>1, <1>5, <1>6, <1>7 DEF Gui
<1>9. Sound(s)
  BY <1>1, <1>3, <1>6, <1>7, <1>8 DEF Sound, Served, AllBrought
<1>10. Room => Roomy(s)
  BY <1>1, <1>7 DEF Room, Roomy, Free
<1> QED
  BY <1>2, <1>5, <1>6, <1>7, <1>9, <1>10 DEF s

LEMMA OpenTakenKeeps ==
  ASSUME ReaderInv, NEW d \in Docs, pipe.opening = d, Room, UNCHANGED <<doc, closing, sealed, late>>,
         opening' = [opening EXCEPT ![d].step = "ended"],
         Becomes(Turned(Taken(d), view.primary))
  PROVE  ReaderInv'
<1> DEFINE s == Taken(d)
<1> DEFINE v == Faced(s, view.primary)
<1> DEFINE t == Turned(s, view.primary)
<1>1. /\ Sound(s) /\ Roomy(s) /\ s.pipe.source = d /\ s.pipe.opening = 0
      /\ s.stream = stream /\ s.cache = cache /\ s.view.shown = view.shown
      /\ pipe.source = 0
  BY TakenFacts
<1> HIDE DEF s
<1>2. view.primary \in Pages
  BY NowFacts DEF View
<1>3. /\ v \in Gui /\ Sound(t) /\ Kept(v, t)
      /\ v.pipe = s.pipe /\ v.stream = s.stream /\ v.cache = s.cache
      /\ v.view.shown = s.view.shown
  BY <1>1, <1>2, TurnedStep
<1>4. Becomes(t)
  BY DEF s
<1> HIDE DEF v, t
<1>5. sealed' \in BOOLEAN /\ late' = late
  BY Zenon DEF ReaderInv, TypeOK
<1>6. /\ doc' \in [Docs -> {"none", "open", "closing", "closed"}]
      /\ opening' \in [Docs -> Opening]
      /\ closing' \in [Docs -> {"none", "queued", "ended", "dropped"}]
      /\ \A e \in Docs : e # d => opening'[e] = opening[e]
  BY DocTypes DEF Opening
<1>7. \A e \in Docs :
        /\ doc'[e] = "open" => \/ v.pipe.source = e \/ opening'[e].step = "result"
                               \/ closing'[e] \in {"queued", "dropped"}
        /\ doc'[e] = "closing" => Reading(stream, e)
  BY <1>1, <1>3, <1>6, DocFacts DEF ReaderInv, NoneForgotten
<1>8. /\ v.pipe.opening # 0 => v.pipe.source = 0
      /\ ~late => \A q \in Pages : v.view.shown[q] \in {0, v.pipe.source}
                                   /\ v.cache[q] \in {0, v.pipe.source}
  BY <1>1, <1>3 DEF ReaderInv, Frames
<1>9. \A e \in Docs : Reading(v.stream, e) <=> Reading(stream, e)
  BY <1>1, <1>3
<1> QED
  BY ONLY ReaderInv, <1>3, <1>4, <1>5, <1>6, <1>7, <1>8, <1>9, GuiStep

\* A step of the GUI thread that only changes the view's stage and ends an
\* opening that has failed.
LEMMA OpenFailedKeeps ==
  ASSUME ReaderInv, NEW stage \in {"prompt", "idle"}, NEW open \in {pipe.opening, 0},
         view' = [view EXCEPT !.stage = stage], pipe' = [pipe EXCEPT !.opening = open],
         UNCHANGED <<cache, stream, doc, closing, sealed, late>>,
         opening' \in [Docs -> Opening],
         \A e \in Docs : opening[e].step = "result" => opening'[e].step = "result"
  PROVE  ReaderInv'
<1>1. /\ Now \in Gui /\ Sound(Now) /\ view \in View /\ pipe \in Pipe
      /\ cache \in [Pages -> Docs \cup {0}] /\ stream \in [Streams -> Stream \cup {NoStream}]
      /\ Now.stream = stream /\ Now.pipe = pipe
  BY NowFacts
<1>2. view' \in View /\ view'.shown = view.shown
  BY <1>1 DEF View
<1>3. /\ pipe' \in Pipe /\ pipe'.source = pipe.source /\ pipe'.stream = pipe.stream
      /\ pipe'.pending = pipe.pending /\ pipe'.opening = open
  BY <1>1 DEF Pipe
<1> DEFINE n == [view |-> view', pipe |-> pipe', cache |-> cache, stream |-> stream, bumps |-> 0]
<1>4. n \in Gui
  BY <1>1, <1>2, <1>3 DEF Gui
<1>5. Sound(n)
  BY <1>1, <1>3, <1>4 DEF Sound, Served, AllBrought
<1>6. n.pipe = pipe' /\ n.stream = stream /\ n.cache = cache /\ n.view = view'
  OBVIOUS
<1>7. Becomes(n)
  BY DEF Becomes
<1> HIDE DEF n
<1>8. Kept(n, n)
  BY <1>4, KeptSelf
<1>9. sealed' \in BOOLEAN /\ late' = late
  BY Zenon DEF ReaderInv, TypeOK
<1>10. /\ doc' \in [Docs -> {"none", "open", "closing", "closed"}]
       /\ closing' \in [Docs -> {"none", "queued", "ended", "dropped"}]
  BY DocTypes
<1>11. \A e \in Docs :
        /\ doc'[e] = "open" => \/ n.pipe.source = e \/ opening'[e].step = "result"
                               \/ closing'[e] \in {"queued", "dropped"}
        /\ doc'[e] = "closing" => Reading(stream, e)
  BY <1>3, <1>6 DEF ReaderInv, NoneForgotten
<1>12. /\ n.pipe.opening # 0 => n.pipe.source = 0
       /\ ~late => \A q \in Pages : n.view.shown[q] \in {0, n.pipe.source}
                                    /\ n.cache[q] \in {0, n.pipe.source}
  BY <1>2, <1>3, <1>6 DEF ReaderInv, Frames, OpensAlone
<1>13. \A e \in Docs : Reading(n.stream, e) <=> Reading(stream, e)
  BY <1>6
<1> QED
  BY ONLY ReaderInv, opening' \in [Docs -> Opening], <1>4, <1>5, <1>7, <1>8, <1>9, <1>10, <1>11,
          <1>12, <1>13, GuiStep

LEMMA DismissKeeps ==
  ASSUME ReaderInv, Dismiss
  PROVE  ReaderInv'
<1>1. /\ view' = [view EXCEPT !.stage = "idle"] /\ pipe' = pipe
      /\ UNCHANGED <<cache, stream, doc, opening, closing, sealed, late>>
  BY DEF Dismiss
<1>2. pipe' = [pipe EXCEPT !.opening = pipe.opening]
  BY <1>1, NowFacts DEF Pipe
<1>3. opening' \in [Docs -> Opening]
  BY <1>1, DocTypes
<1> QED
  BY <1>1, <1>2, <1>3, OpenFailedKeeps

LEMMA OpenAnswerKeeps ==
  ASSUME ReaderInv, NEW d \in Docs, OpenAnswer(d)
  PROVE  ReaderInv'
<1>1. /\ opening[d].step \in {"result", "failure", "password"} /\ Room
      /\ opening' = [opening EXCEPT ![d].step = "ended"] /\ UNCHANGED <<sealed, late>>
  BY DEF OpenAnswer
<1>2. /\ doc \in [Docs -> {"none", "open", "closing", "closed"}]
      /\ opening \in [Docs -> Opening]
      /\ closing \in [Docs -> {"none", "queued", "ended", "dropped"}]
  BY DocTypes
<1>3. /\ opening' \in [Docs -> Opening]
      /\ \A e \in Docs : e # d => opening'[e] = opening[e]
  BY <1>1, <1>2 DEF Opening
<1>4. CASE opening[d].step = "result" /\ opening[d].cancelled
  <2>1. doc' = [doc EXCEPT ![d] = "closed"] /\ UNCHANGED <<view, pipe, cache, stream, closing>>
    BY <1>4 DEF OpenAnswer
  <2>2. doc' \in [Docs -> {"none", "open", "closing", "closed"}]
    BY <1>2, <2>1
  <2>3. \A e \in Docs :
          /\ doc'[e] = "open" => \/ pipe.source = e \/ opening'[e].step = "result"
                                 \/ closing'[e] \in {"queued", "dropped"}
          /\ doc'[e] = "closing" => Reading(stream, e)
    BY <1>2, <1>3, <2>1 DEF ReaderInv, NoneForgotten
  <2> QED
    BY <1>1, <1>2, <1>3, <2>1, <2>2, <2>3, DocStep
<1>5. CASE opening[d].step = "result" /\ ~opening[d].cancelled /\ pipe.opening # d
  <2>1. CloseSource(d) /\ UNCHANGED <<view, pipe, cache, stream>>
    BY <1>5 DEF OpenAnswer
  <2>2. closing' = [closing EXCEPT ![d] = "queued"] /\ doc' = doc
    BY <2>1, DocFacts DEF CloseSource
  <2>3. closing' \in [Docs -> {"none", "queued", "ended", "dropped"}]
    BY <1>2, <2>2
  <2>4. \A e \in Docs :
          /\ doc'[e] = "open" => \/ pipe.source = e \/ opening'[e].step = "result"
                                 \/ closing'[e] \in {"queued", "dropped"}
          /\ doc'[e] = "closing" => Reading(stream, e)
    BY <1>2, <1>3, <2>2 DEF ReaderInv, NoneForgotten
  <2> QED
    BY <1>1, <1>2, <1>3, <2>1, <2>2, <2>3, <2>4, DocStep
<1>6. CASE opening[d].step = "result" /\ ~opening[d].cancelled /\ pipe.opening = d
  <2>1. Becomes(Turned(Taken(d), view.primary)) /\ UNCHANGED <<doc, closing>>
    BY <1>6 DEF OpenAnswer, Taken
  <2> QED
    BY <1>1, <1>6, <2>1, OpenTakenKeeps
<1>7. CASE opening[d].step # "result"
  <2>1. /\ UNCHANGED <<cache, stream, doc, closing>>
        /\ IF opening[d].cancelled \/ pipe.opening # d THEN UNCHANGED <<view, pipe>>
           ELSE /\ view' = [view EXCEPT !.stage = IF opening[d].step = "password"
                                                  THEN "prompt" ELSE "idle"]
                /\ pipe' = [pipe EXCEPT !.opening = 0]
    BY <1>7 DEF OpenAnswer
  <2>2. \A e \in Docs : opening[e].step = "result" => opening'[e].step = "result"
    BY <1>3, <1>7
  <2>3. CASE UNCHANGED <<view, pipe>>
    <3>1. \A e \in Docs :
            /\ doc'[e] = "open" => \/ pipe.source = e \/ opening'[e].step = "result"
                                   \/ closing'[e] \in {"queued", "dropped"}
            /\ doc'[e] = "closing" => Reading(stream, e)
      BY <2>1, <2>2 DEF ReaderInv, NoneForgotten
    <3> QED
      BY <1>1, <1>2, <1>3, <2>1, <2>3, <3>1, DocStep
  <2>4. CASE /\ view' = [view EXCEPT !.stage = IF opening[d].step = "password"
                                               THEN "prompt" ELSE "idle"]
             /\ pipe' = [pipe EXCEPT !.opening = 0]
    <3>1. \E stage \in {"prompt", "idle"} : view' = [view EXCEPT !.stage = stage]
      BY <2>4
    <3> QED
      BY <1>1, <1>3, <2>1, <2>2, <2>4, <3>1, OpenFailedKeeps
  <2> QED
    BY <2>1, <2>3, <2>4
<1> QED
  BY <1>1, <1>4, <1>5, <1>6, <1>7

\* The prefetch window is changed.
Reset == [Now EXCEPT !.view.ahead = ~@, !.view.changes = @ + 1]

LEMMA ResetFacts ==
  ASSUME ReaderInv, view.changes < Changes
  PROVE  /\ Sound(Reset) /\ (Room => Roomy(Reset))
         /\ Reset.pipe = pipe /\ Reset.stream = stream /\ Reset.cache = cache
         /\ Reset.view.shown = view.shown /\ Reset.view.primary = view.primary
         /\ Reset.view.companion = view.companion
<1> DEFINE V == [view EXCEPT !.ahead = ~@, !.changes = @ + 1]
<1> DEFINE s == Reset
<1>1. /\ Now \in Gui /\ Sound(Now) /\ view \in View /\ pipe \in Pipe
      /\ cache \in [Pages -> Docs \cup {0}] /\ stream \in [Streams -> Stream \cup {NoStream}]
      /\ Now.stream = stream /\ Now.pipe = pipe
  BY NowFacts
<1>2. s = [Now EXCEPT !.view = V]
  BY DEF Reset, Now
<1>3. V = [view EXCEPT !.ahead = ~view.ahead, !.changes = view.changes + 1]
  BY <1>1 DEF View
<1>4. (~view.ahead) \in BOOLEAN
  BY Zenon
<1>5. view.changes + 1 \in 0 .. Changes
  BY <1>1, ReaderAssumption DEF View
<1> DEFINE b == ~view.ahead
<1>6. V = [view EXCEPT !.ahead = b, !.changes = view.changes + 1] /\ b \in BOOLEAN
  BY <1>3, <1>4
<1> HIDE DEF b, V
<1>7. /\ V \in View /\ V.shown = view.shown /\ V.primary = view.primary
      /\ V.companion = view.companion
  BY <1>1, <1>5, <1>6 DEF View
<1> HIDE DEF s
<1>8. s = [view |-> V, pipe |-> pipe, cache |-> cache, stream |-> stream, bumps |-> 0]
  BY <1>2 DEF Now
<1>9. s \in Gui
  BY <1>1, <1>7, <1>8 DEF Gui
<1>10. Sound(s)
  BY <1>1, <1>8, <1>9, SameStreams
<1>11. Room => Roomy(s)
  BY <1>1, <1>8 DEF Room, Roomy, Free
<1> QED
  BY <1>7, <1>8, <1>10, <1>11 DEF s

LEMMA SetPrefetchKeeps ==
  ASSUME ReaderInv, SetPrefetch
  PROVE  ReaderInv'
<1> DEFINE s == Reset
<1> DEFINE quiet == CancelSerial(Reset)
<1> DEFINE pages == IF view.shown[view.primary] = 0 THEN Spread(view) ELSE Nearby(quiet.view)
<1> DEFINE t == IF pipe.source = 0 THEN s ELSE Requested(quiet, pages)
<1>1. /\ view.changes < Changes /\ Room /\ Becomes(t)
      /\ UNCHANGED <<doc, opening, closing, sealed, late>>
  BY DEF SetPrefetch, Reset
<1>2. /\ Sound(s) /\ Roomy(s) /\ s \in Gui
      /\ s.pipe = pipe /\ s.stream = stream /\ s.cache = cache
      /\ s.view.shown = view.shown /\ s.view.primary = view.primary
      /\ s.view.companion = view.companion
  BY <1>1, ResetFacts DEF Sound
<1> HIDE DEF s
<1>3. /\ Sound(quiet) /\ Roomy(quiet) /\ Kept(s, quiet) /\ quiet \in Gui
      /\ quiet.view = s.view
  BY <1>2, CancelKept, Cancelled DEF Sound, s
<1> HIDE DEF quiet
<1>4. pages = Asks(quiet)
  BY <1>2, <1>3 DEF Asks, Spread
<1>5. Request(quiet, pages, Requested(quiet, pages))
  BY <1>3, <1>4, AskableFacts, RequestedStep
<1> DEFINE r == Requested(quiet, pages)
<1>6. Sound(r) /\ Kept(quiet, r) /\ r \in Gui
  BY <1>5 DEF Request, Sound
<1>7. t = s \/ t = r
  BY DEF s, quiet
<1> HIDE DEF pages, r, t
<1>8. Kept(s, r)
  BY <1>2, <1>3, <1>6, KeptTrans
<1>9. Sound(t) /\ Kept(s, t)
  BY <1>2, <1>6, <1>7, <1>8, KeptSelf
<1>10. Becomes(t) /\ sealed' \in BOOLEAN /\ late' = late
  BY <1>1, Zenon DEF ReaderInv, TypeOK
<1>11. /\ doc' \in [Docs -> {"none", "open", "closing", "closed"}]
       /\ opening' \in [Docs -> Opening]
       /\ closing' \in [Docs -> {"none", "queued", "ended", "dropped"}]
  BY <1>1, DocTypes
<1>12. \A d \in Docs :
         /\ doc'[d] = "open" => \/ s.pipe.source = d \/ opening'[d].step = "result"
                                \/ closing'[d] \in {"queued", "dropped"}
         /\ doc'[d] = "closing" => Reading(stream, d)
  BY <1>1, <1>2 DEF ReaderInv, NoneForgotten
<1>13. /\ s.pipe.opening # 0 => s.pipe.source = 0
       /\ ~late => \A q \in Pages : s.view.shown[q] \in {0, s.pipe.source}
                                    /\ s.cache[q] \in {0, s.pipe.source}
  BY <1>2 DEF ReaderInv, OpensAlone, Frames
<1>14. \A d \in Docs : Reading(s.stream, d) <=> Reading(stream, d)
  BY <1>2
<1> QED
  BY ONLY ReaderInv, <1>2, <1>9, <1>10, <1>11, <1>12, <1>13, <1>14, GuiStep

------------------------------------------------------------------------------
(* The streams' workers                                                    *)

\* A step of the worker of stream i, or of the budget, that leaves it as st.
LEMMA WorkerStep ==
  ASSUME ReaderInv, NEW i \in Streams, NEW st \in Stream \cup {NoStream},
         stream' = [stream EXCEPT ![i] = st], Steady(st),
         Current(i) => /\ st # NoStream /\ st.doc = stream[i].doc
                       /\ Todo(stream[i]) \cup {item[1] : item \in Given(stream[i])}
                            \subseteq Todo(st) \cup {item[1] : item \in Given(st)},
         UNCHANGED <<view, pipe, opening, closing, sealed>>,
         doc' \in [Docs -> {"none", "open", "closing", "closed"}],
         \A d \in Docs : /\ doc'[d] = "open" => doc[d] = "open"
                         /\ doc'[d] = "closing" => Reading(stream', d),
         cache' \in [Pages -> Docs \cup {0}], late' \in BOOLEAN, late => late',
         ~late' => \A p \in Pages : cache'[p] \in {0, pipe.source}
  PROVE  ReaderInv'
<1>1. /\ Now \in Gui /\ Sound(Now) /\ view \in View /\ pipe \in Pipe
      /\ cache \in [Pages -> Docs \cup {0}] /\ stream \in [Streams -> Stream \cup {NoStream}]
      /\ Now.stream = stream /\ Now.pipe = pipe
  BY NowFacts
<1>2. /\ stream' \in [Streams -> Stream \cup {NoStream}]
      /\ \A j \in Streams : stream'[j] = IF j = i THEN st ELSE stream[j]
  BY <1>1
<1> DEFINE n == [view |-> view, pipe |-> pipe, cache |-> cache', stream |-> stream', bumps |-> 0]
<1>3. n \in Gui
  BY <1>1, <1>2 DEF Gui
<1>4. \A j \in Streams : Steady(stream'[j])
  BY <1>1, <1>2 DEF Sound
<1>5. Served(n)
  BY <1>1, <1>2 DEF Sound, Served, Current, Pipe
<1>6. AllBrought(n)
  <2>1. pipe.pending \subseteq Brought(stream, pipe.stream)
    BY <1>1 DEF Sound, AllBrought
  <2>2. CASE pipe.stream = i
    BY <1>2, <2>1, <2>2, ReaderAssumption DEF AllBrought, Brought, Current
  <2>3. CASE pipe.stream # i
    BY <1>1, <1>2, <2>1, <2>3 DEF AllBrought, Brought, Pipe
  <2> QED
    BY <2>2, <2>3
<1>7. Sound(n)
  BY <1>3, <1>4, <1>5, <1>6 DEF Sound
<1>8. n = Now'
  BY DEF Now
<1> HIDE DEF n
<1>9. Sound(Now)'
  BY <1>7, <1>8
<1>10. TypeOK'
  <2>1. sealed' \in BOOLEAN
    BY Zenon DEF ReaderInv, TypeOK
  <2>2. \A j \in Streams : stream'[j].step \in Working => Todo(stream'[j]) # {}
    BY <1>4 DEF Steady
  <2>3. /\ opening \in [Docs -> Opening]
        /\ closing \in [Docs -> {"none", "queued", "ended", "dropped"}]
    BY DocTypes
  <2> QED
    BY <1>1, <1>2, <2>1, <2>2, <2>3 DEF TypeOK
<1>11. OpensAlone'
  BY DEF ReaderInv, OpensAlone
<1>12. NoneForgotten'
  BY DEF ReaderInv, NoneForgotten
<1>13. Frames'
  BY Zenon DEF ReaderInv, Frames
<1> QED
  BY <1>9, <1>10, <1>11, <1>12, <1>13 DEF ReaderInv

LEMMA EvictKeeps ==
  ASSUME ReaderInv, NEW p \in Pages, Evict(p)
  PROVE  ReaderInv'
<1>1. /\ Sound(Now) /\ view \in View /\ pipe \in Pipe
      /\ cache \in [Pages -> Docs \cup {0}] /\ stream \in [Streams -> Stream \cup {NoStream}]
      /\ Now.stream = stream /\ Now.pipe = pipe
  BY NowFacts
<1>2. /\ cache' = [cache EXCEPT ![p] = 0]
      /\ UNCHANGED <<view, pipe, stream, doc, opening, closing, sealed, late>>
  BY DEF Evict
<1>3. cache' \in [Pages -> Docs \cup {0}] /\ \A q \in Pages : cache'[q] \in {0, cache[q]}
  BY <1>1, <1>2
<1> DEFINE n == [view |-> view, pipe |-> pipe, cache |-> cache', stream |-> stream, bumps |-> 0]
<1>4. n \in Gui
  BY <1>1, <1>3 DEF Gui
<1>5. Sound(n)
  BY <1>1, <1>4, SameStreams
<1>6. n = Now'
  BY <1>2 DEF Now
<1> HIDE DEF n
<1>7. Sound(Now)'
  BY <1>5, <1>6
<1>8. TypeOK'
  <2>1. sealed' \in BOOLEAN /\ late' \in BOOLEAN
    BY <1>2, Zenon DEF ReaderInv, TypeOK
  <2> QED
    BY <1>2, <1>3, <2>1 DEF ReaderInv, TypeOK
<1>9. OpensAlone' /\ NoneForgotten'
  BY <1>2 DEF ReaderInv, OpensAlone, NoneForgotten
<1>10. Frames'
  BY <1>2, <1>3 DEF ReaderInv, Frames
<1> QED
  BY <1>7, <1>8, <1>9, <1>10 DEF ReaderInv

\* The page a stream works on is one of its pages.
LEMMA PageIn ==
  ASSUME ReaderInv, NEW i \in Streams, stream[i].step \in Working
  PROVE  /\ Page(i) \in Todo(stream[i]) /\ Page(i) \in Pages
         /\ stream[i] \in Stream
<1>1. stream \in [Streams -> Stream \cup {NoStream}] /\ Todo(stream[i]) # {}
  BY DEF ReaderInv, TypeOK
<1>2. stream[i] \in Stream
  BY <1>1 DEF NoStream, Working
<1>3. stream[i].visible \in SUBSET Pages /\ stream[i].prefetch \in SUBSET Pages
  BY <1>2 DEF Stream
<1>4. CASE stream[i].visible # {}
  BY <1>2, <1>3, <1>4, LeastIn DEF Page, Todo
<1>5. CASE stream[i].visible = {}
  <2>1. stream[i].prefetch # {}
    BY <1>1, <1>5 DEF Todo
  <2>2. Page(i) = Least(stream[i].prefetch)
    BY <1>5 DEF Page
  <2> QED
    BY <1>2, <1>3, <2>1, <2>2, LeastIn DEF Todo
<1> QED
  BY <1>4, <1>5

\* What a stream that has dealt with its page is.
LEMMA AnsweredFacts ==
  ASSUME ReaderInv, NEW i \in Streams, stream[i].step \in Working,
         NEW what \in {"frame", "error", "password"}
  PROVE  \E st \in Stream :
           /\ Answered(i, what) = [stream EXCEPT ![i] = st]
           /\ st.step = "look" /\ st # NoStream /\ st.doc = stream[i].doc
           /\ Current(i) => Todo(stream[i]) \cup {item[1] : item \in Given(stream[i])}
                              \subseteq Todo(st) \cup {item[1] : item \in Given(st)}
<1> DEFINE pg == Page(i)
<1> DEFINE old == stream[i].items
<1> DEFINE new == IF Current(i) THEN Append(old, <<pg, what>>) ELSE old
<1> DEFINE x == stream[i]  V == x.visible \ {pg}  P == x.prefetch \ {pg}
<1> DEFINE st == [x EXCEPT !.step = "look", !.visible = V, !.prefetch = P, !.items = new]
<1>1. pg \in Pages /\ stream[i] \in Stream
  BY PageIn
<1>2. stream \in [Streams -> Stream \cup {NoStream}]
  BY DEF ReaderInv, TypeOK
<1>3. old \in Seq(Pages \X {"frame", "error", "password"})
  BY <1>1 DEF Stream
<1>4. <<pg, what>> \in Pages \X {"frame", "error", "password"}
  BY <1>1
<1>7. Answered(i, what) = [stream EXCEPT ![i] = st]
  BY <1>1, <1>2 DEF Answered, Stream
<1> HIDE DEF pg
<1>5. new \in Seq(Pages \X {"frame", "error", "password"})
  BY <1>3, <1>4, AppendProperties
<1>8. /\ st \in Stream /\ st.step = "look" /\ st # NoStream /\ st.doc = stream[i].doc
      /\ st.items = new /\ Todo(st) = Todo(stream[i]) \ {pg}
  <2> HIDE DEF new
  <2>1. /\ x \in Stream /\ V \in SUBSET Pages /\ P \in SUBSET Pages
        /\ V \cup P = Todo(x) \ {pg}
    BY <1>1 DEF Stream, Todo
  <2> HIDE DEF x, V, P
  <2>2. st \in Stream /\ st.step = "look" /\ st.doc = x.doc
        /\ st.items = new /\ st.visible = V /\ st.prefetch = P
    BY <1>5, <2>1 DEF Stream, Idle
  <2> HIDE DEF st
  <2> QED
    BY <2>1, <2>2 DEF x, Todo, NoStream
<1>9. ASSUME Current(i)
      PROVE  Given(stream[i]) \cup {<<pg, what>>} \subseteq Given(st)
  <2>1. st.items = Append(old, <<pg, what>>)
    BY <1>8, <1>9
  <2> HIDE DEF st, new
  <2>2. /\ DOMAIN Append(old, <<pg, what>>) = 1 .. Len(old) + 1
        /\ DOMAIN old = 1 .. Len(old) /\ Len(old) \in Nat
        /\ \A j \in 1 .. Len(old) : Append(old, <<pg, what>>)[j] = old[j]
        /\ Append(old, <<pg, what>>)[Len(old) + 1] = <<pg, what>>
    BY <1>3, <1>4
  <2>3. \A j \in DOMAIN old : j \in DOMAIN st.items /\ st.items[j] = old[j]
    BY <2>1, <2>2
  <2> DEFINE last == Len(old) + 1
  <2>4. last \in DOMAIN st.items /\ st.items[last] = <<pg, what>>
    BY <2>1, <2>2
  <2> QED
    BY <2>3, <2>4 DEF Given
<1> HIDE DEF st
<1>10. Current(i) => Todo(stream[i]) \cup {item[1] : item \in Given(stream[i])}
                       \subseteq Todo(st) \cup {item[1] : item \in Given(st)}
  <2> SUFFICES ASSUME Current(i)
               PROVE  Todo(stream[i]) \cup {item[1] : item \in Given(stream[i])}
                        \subseteq Todo(st) \cup {item[1] : item \in Given(st)}
    OBVIOUS
  <2>1. Given(stream[i]) \subseteq Given(st) /\ <<pg, what>> \in Given(st)
    BY <1>9
  <2>2. pg \in {item[1] : item \in Given(st)}
    BY <2>1
  <2> QED
    BY <1>8, <2>1, <2>2
<1> QED
  BY <1>7, <1>8, <1>10

\* A worker's step that begins no read's end and leaves the documents.
LEMMA QuietStep ==
  ASSUME ReaderInv, NEW i \in Streams, stream[i].step # "reading",
         NEW st \in Stream \cup {NoStream}, stream' = [stream EXCEPT ![i] = st], Steady(st),
         Current(i) => /\ st # NoStream /\ st.doc = stream[i].doc
                       /\ Todo(stream[i]) \cup {item[1] : item \in Given(stream[i])}
                            \subseteq Todo(st) \cup {item[1] : item \in Given(st)},
         UNCHANGED <<view, pipe, opening, closing, sealed, doc>>,
         cache' \in [Pages -> Docs \cup {0}], late' \in BOOLEAN, late => late',
         ~late' => \A p \in Pages : cache'[p] \in {0, pipe.source}
  PROVE  ReaderInv'
<1>1. stream \in [Streams -> Stream \cup {NoStream}]
  BY NowFacts
<1>2. \A d \in Docs : Reading(stream, d) => Reading(stream', d)
  BY <1>1 DEF Reading
<1>3. doc' \in [Docs -> {"none", "open", "closing", "closed"}]
  BY DocTypes
<1>4. \A d \in Docs : /\ doc'[d] = "open" => doc[d] = "open"
                      /\ doc'[d] = "closing" => Reading(stream', d)
  BY <1>2 DEF ReaderInv, NoneForgotten
<1> QED
  BY <1>3, <1>4, WorkerStep

\* What the cache and the history keep when a step leaves them.
LEMMA SameFrames ==
  ASSUME ReaderInv, UNCHANGED <<cache, late>>
  PROVE  /\ cache' \in [Pages -> Docs \cup {0}] /\ late' \in BOOLEAN /\ (late => late')
         /\ ~late' => \A p \in Pages : cache'[p] \in {0, pipe.source}
<1>1. cache' \in [Pages -> Docs \cup {0}]
  BY NowFacts
<1>2. late' \in BOOLEAN /\ (late => late')
  BY Zenon DEF ReaderInv, TypeOK
<1>3. ~late' => \A p \in Pages : cache'[p] \in {0, pipe.source}
  BY Zenon DEF ReaderInv, Frames
<1> QED
  BY <1>1, <1>2, <1>3

\* A record of a stream of which only the step changes.
LEMMA StepFacts ==
  ASSUME NEW st \in Stream, NEW step \in Idle \cup Working
  PROVE  LET t == [st EXCEPT !.step = step] IN
    /\ t \in Stream /\ t # NoStream /\ t.step = step /\ t.doc = st.doc
    /\ Todo(t) = Todo(st) /\ Given(t) = Given(st)
<1> DEFINE t == [st EXCEPT !.step = step]
<1>1. /\ t \in Stream /\ t.step = step /\ t.doc = st.doc
      /\ t.visible = st.visible /\ t.prefetch = st.prefetch /\ t.items = st.items
  BY DEF Stream
<1> HIDE DEF t
<1>2. t # NoStream
  BY <1>1 DEF NoStream, Idle, Working
<1> QED
  BY <1>1, <1>2 DEF Todo, Given, t

LEMMA NoStreamFacts == /\ NoStream.step = "none" /\ Steady(NoStream) /\ NoStream \in Stream \cup {NoStream}
  BY DEF NoStream, Steady, Working

LEMMA LookKeeps ==
  ASSUME ReaderInv, NEW i \in Streams, Look(i), UNCHANGED <<view, pipe, opening, closing, sealed>>
  PROVE  ReaderInv'
<1>1. /\ stream[i].step \in {"queued", "look"} /\ UNCHANGED <<doc, cache, late>>
      /\ stream' = [stream EXCEPT ![i] =
           IF ~Current(i) THEN NoStream
           ELSE [@ EXCEPT !.step = IF Todo(stream[i]) = {} THEN "done" ELSE "read"]]
  BY DEF Look
<1>2. stream[i] \in Stream /\ stream \in [Streams -> Stream \cup {NoStream}]
  BY <1>1, NowFacts DEF NoStream
<1>3. /\ cache' \in [Pages -> Docs \cup {0}] /\ late' \in BOOLEAN /\ (late => late')
      /\ ~late' => \A p \in Pages : cache'[p] \in {0, pipe.source}
  BY <1>1, SameFrames
<1>4. CASE ~Current(i)
  <2>1. stream' = [stream EXCEPT ![i] = NoStream]
    BY <1>1, <1>4
  <2> QED
    BY <1>1, <1>3, <1>4, <2>1, NoStreamFacts, QuietStep
<1>5. CASE Current(i)
  <2> DEFINE step == IF Todo(stream[i]) = {} THEN "done" ELSE "read"
  <2> DEFINE st == [stream[i] EXCEPT !.step = step]
  <2>1. stream' = [stream EXCEPT ![i] = st]
    BY <1>1, <1>2, <1>5
  <2>2. step \in Idle \cup Working
    BY DEF Idle, Working
  <2>3. /\ st \in Stream /\ st # NoStream /\ st.step = step /\ st.doc = stream[i].doc
        /\ Todo(st) = Todo(stream[i]) /\ Given(st) = Given(stream[i])
    BY <1>2, <2>2, StepFacts
  <2>4. Steady(st)
    BY <2>3 DEF Steady, Working
  <2> HIDE DEF st
  <2> QED
    BY <1>1, <1>3, <2>1, <2>3, <2>4, QuietStep
<1> QED
  BY <1>4, <1>5

LEMMA CheckKeeps ==
  ASSUME ReaderInv, NEW i \in Streams, Check(i), UNCHANGED <<view, pipe, opening, closing, sealed>>
  PROVE  ReaderInv'
<1>1. /\ stream[i].step = "check" /\ UNCHANGED <<doc, cache, late>>
      /\ stream' = IF Current(i) THEN [stream EXCEPT ![i].step = "put"]
                   ELSE [stream EXCEPT ![i] = NoStream]
  BY DEF Check
<1>2. stream[i] \in Stream /\ stream \in [Streams -> Stream \cup {NoStream}]
      /\ Todo(stream[i]) # {}
  BY <1>1, NowFacts DEF NoStream, ReaderInv, TypeOK, Working
<1>3. /\ cache' \in [Pages -> Docs \cup {0}] /\ late' \in BOOLEAN /\ (late => late')
      /\ ~late' => \A p \in Pages : cache'[p] \in {0, pipe.source}
  BY <1>1, SameFrames
<1>4. CASE ~Current(i)
  <2>1. stream' = [stream EXCEPT ![i] = NoStream]
    BY <1>1, <1>4
  <2> QED
    BY <1>1, <1>3, <1>4, <2>1, NoStreamFacts, QuietStep
<1>5. CASE Current(i)
  <2> DEFINE st == [stream[i] EXCEPT !.step = "put"]
  <2>1. stream' = [stream EXCEPT ![i] = st]
    BY <1>1, <1>2, <1>5
  <2>2. "put" \in Idle \cup Working
    BY DEF Working
  <2>3. /\ st \in Stream /\ st # NoStream /\ st.step = "put" /\ st.doc = stream[i].doc
        /\ Todo(st) = Todo(stream[i]) /\ Given(st) = Given(stream[i])
    BY <1>2, <2>2, StepFacts
  <2>4. Steady(st)
    BY <1>2, <2>3 DEF Steady
  <2> HIDE DEF st
  <2> QED
    BY <1>1, <1>3, <2>1, <2>3, <2>4, QuietStep
<1> QED
  BY <1>4, <1>5

LEMMA ReadKeeps ==
  ASSUME ReaderInv, NEW i \in Streams, Read(i), UNCHANGED <<view, pipe, opening, closing, sealed>>
  PROVE  ReaderInv'
<1>1. /\ stream[i].step = "read" /\ UNCHANGED <<doc, cache, late>>
      /\ stream' = IF doc[stream[i].doc] = "open" THEN [stream EXCEPT ![i].step = "reading"]
                   ELSE Answered(i, "error")
  BY DEF Read
<1>2. stream[i] \in Stream /\ stream \in [Streams -> Stream \cup {NoStream}]
      /\ Todo(stream[i]) # {} /\ stream[i].step \in Working
  BY <1>1, NowFacts DEF NoStream, ReaderInv, TypeOK, Working
<1>3. /\ cache' \in [Pages -> Docs \cup {0}] /\ late' \in BOOLEAN /\ (late => late')
      /\ ~late' => \A p \in Pages : cache'[p] \in {0, pipe.source}
  BY <1>1, SameFrames
<1>4. CASE stream' = Answered(i, "error")
  <2>1. PICK st \in Stream :
           /\ Answered(i, "error") = [stream EXCEPT ![i] = st]
           /\ st.step = "look" /\ st # NoStream /\ st.doc = stream[i].doc
           /\ Current(i) => Todo(stream[i]) \cup {item[1] : item \in Given(stream[i])}
                              \subseteq Todo(st) \cup {item[1] : item \in Given(st)}
    BY <1>2, AnsweredFacts
  <2>2. Steady(st)
    BY <2>1 DEF Steady, Working
  <2> QED
    BY <1>1, <1>3, <1>4, <2>1, <2>2, QuietStep
<1>5. CASE stream' = [stream EXCEPT ![i].step = "reading"]
  <2> DEFINE st == [stream[i] EXCEPT !.step = "reading"]
  <2>1. stream' = [stream EXCEPT ![i] = st]
    BY <1>2, <1>5
  <2>2. "reading" \in Idle \cup Working
    BY DEF Working
  <2>3. /\ st \in Stream /\ st # NoStream /\ st.step = "reading" /\ st.doc = stream[i].doc
        /\ Todo(st) = Todo(stream[i]) /\ Given(st) = Given(stream[i])
    BY <1>2, <2>2, StepFacts
  <2>4. Steady(st)
    BY <1>2, <2>3 DEF Steady
  <2> HIDE DEF st
  <2> QED
    BY <1>1, <1>3, <2>1, <2>3, <2>4, QuietStep
<1> QED
  BY <1>1, <1>4, <1>5

LEMMA PutKeeps ==
  ASSUME ReaderInv, NEW i \in Streams, Put(i), UNCHANGED <<view, pipe, opening, closing, sealed>>
  PROVE  ReaderInv'
<1>1. /\ stream[i].step = "put" /\ UNCHANGED doc
      /\ cache' = [cache EXCEPT ![Page(i)] = stream[i].doc]
      /\ stream' = Answered(i, "frame") /\ late' = (late \/ ~Current(i))
  BY DEF Put
<1>2. stream[i].step \in Working
  BY <1>1 DEF Working
<1>3. Page(i) \in Pages /\ stream[i] \in Stream
  BY <1>2, PageIn
<1>4. PICK st \in Stream :
         /\ Answered(i, "frame") = [stream EXCEPT ![i] = st]
         /\ st.step = "look" /\ st # NoStream /\ st.doc = stream[i].doc
         /\ Current(i) => Todo(stream[i]) \cup {item[1] : item \in Given(stream[i])}
                            \subseteq Todo(st) \cup {item[1] : item \in Given(st)}
  BY <1>2, AnsweredFacts
<1>5. Steady(st)
  BY <1>4 DEF Steady, Working
<1>6. cache \in [Pages -> Docs \cup {0}] /\ Sound(Now) /\ Now.pipe = pipe /\ Now.stream = stream
  BY NowFacts
<1>7. stream[i].doc \in Docs
  BY <1>3 DEF Stream
<1>8. cache' \in [Pages -> Docs \cup {0}]
      /\ \A p \in Pages : cache'[p] = IF p = Page(i) THEN stream[i].doc ELSE cache[p]
  BY <1>1, <1>3, <1>6, <1>7
<1>9. late' \in BOOLEAN /\ (late => late') /\ (~late' => ~late /\ Current(i))
  BY <1>1, Zenon
<1>10. Current(i) => stream[i].doc = pipe.source
  BY <1>6, ReaderAssumption DEF Sound, Served, Current
<1>11. ~late' => \A p \in Pages : cache'[p] \in {0, pipe.source}
  BY <1>8, <1>9, <1>10 DEF ReaderInv, Frames
<1> QED
  BY <1>1, <1>4, <1>5, <1>8, <1>9, <1>11, QuietStep

LEMMA ReadEndsKeeps ==
  ASSUME ReaderInv, NEW i \in Streams, ReadEnds(i), UNCHANGED <<view, pipe, opening, closing, sealed>>
  PROVE  ReaderInv'
<1>1. /\ stream[i].step = "reading" /\ UNCHANGED <<cache, late>>
      /\ stream' \in {[stream EXCEPT ![i].step = "check"]} \cup
                     {Answered(i, what) : what \in {"error", "password"}}
      /\ doc' = Released(stream[i].doc, stream')
  BY DEF ReadEnds
<1>2. stream[i] \in Stream /\ stream \in [Streams -> Stream \cup {NoStream}]
      /\ Todo(stream[i]) # {} /\ stream[i].step \in Working
  BY <1>1, NowFacts DEF NoStream, ReaderInv, TypeOK, Working
<1>3. /\ cache' \in [Pages -> Docs \cup {0}] /\ late' \in BOOLEAN /\ (late => late')
      /\ ~late' => \A p \in Pages : cache'[p] \in {0, pipe.source}
  BY <1>1, SameFrames
<1>4. \E st \in Stream :
        /\ stream' = [stream EXCEPT ![i] = st] /\ Steady(st)
        /\ st # NoStream /\ st.doc = stream[i].doc
        /\ Current(i) => Todo(stream[i]) \cup {item[1] : item \in Given(stream[i])}
                           \subseteq Todo(st) \cup {item[1] : item \in Given(st)}
  <2>1. CASE stream' = [stream EXCEPT ![i].step = "check"]
    <3> DEFINE st == [stream[i] EXCEPT !.step = "check"]
    <3>1. stream' = [stream EXCEPT ![i] = st]
      BY <1>2, <2>1
    <3>2. "check" \in Idle \cup Working
      BY DEF Working
    <3>3. /\ st \in Stream /\ st # NoStream /\ st.step = "check" /\ st.doc = stream[i].doc
          /\ Todo(st) = Todo(stream[i]) /\ Given(st) = Given(stream[i])
      BY <1>2, <3>2, StepFacts
    <3>4. Steady(st)
      BY <1>2, <3>3 DEF Steady
    <3> HIDE DEF st
    <3> QED
      BY <3>1, <3>3, <3>4
  <2>2. ASSUME NEW what \in {"error", "password"}, stream' = Answered(i, what)
        PROVE  \E st \in Stream :
                 /\ stream' = [stream EXCEPT ![i] = st] /\ Steady(st)
                 /\ st # NoStream /\ st.doc = stream[i].doc
                 /\ Current(i) => Todo(stream[i]) \cup {item[1] : item \in Given(stream[i])}
                                    \subseteq Todo(st) \cup {item[1] : item \in Given(st)}
    <3>1. PICK st \in Stream :
             /\ Answered(i, what) = [stream EXCEPT ![i] = st]
             /\ st.step = "look" /\ st # NoStream /\ st.doc = stream[i].doc
             /\ Current(i) => Todo(stream[i]) \cup {item[1] : item \in Given(stream[i])}
                                \subseteq Todo(st) \cup {item[1] : item \in Given(st)}
      BY <1>2, AnsweredFacts
    <3>2. Steady(st)
      BY <3>1 DEF Steady, Working
    <3> QED
      BY <2>2, <3>1, <3>2
  <2> QED
    BY <1>1, <2>1, <2>2
<1>5. PICK st \in Stream :
        /\ stream' = [stream EXCEPT ![i] = st] /\ Steady(st)
        /\ st # NoStream /\ st.doc = stream[i].doc
        /\ Current(i) => Todo(stream[i]) \cup {item[1] : item \in Given(stream[i])}
                           \subseteq Todo(st) \cup {item[1] : item \in Given(st)}
  BY <1>4
<1>6. doc \in [Docs -> {"none", "open", "closing", "closed"}]
  BY DocTypes
<1>7. \A d \in Docs : d # stream[i].doc => (Reading(stream, d) => Reading(stream', d))
  BY <1>2, <1>5 DEF Reading
<1> DEFINE next == stream'
<1>8. doc' = Released(stream[i].doc, next) /\ stream[i].doc \in Docs
  BY <1>1, <1>2 DEF Stream
<1>9. \A d \in Docs : d # stream[i].doc => (Reading(stream, d) => Reading(next, d))
  BY <1>7
<1> HIDE DEF next
<1>10. doc' \in [Docs -> {"none", "open", "closing", "closed"}]
       /\ \A d \in Docs : /\ doc'[d] = "open" => doc[d] = "open"
                          /\ doc'[d] = "closing" => Reading(next, d)
  BY <1>6, <1>8, <1>9 DEF Released, ReaderInv, NoneForgotten
<1>11. \A d \in Docs : /\ doc'[d] = "open" => doc[d] = "open"
                       /\ doc'[d] = "closing" => Reading(stream', d)
  BY <1>10 DEF next
<1> QED
  BY <1>3, <1>5, <1>10, <1>11, WorkerStep

LEMMA StreamEndsKeeps ==
  ASSUME ReaderInv, NEW i \in Streams, StreamEnds(i)
  PROVE  ReaderInv'
<1>1. /\ stream[i].step = "done" /\ stream[i].items = <<>>
      /\ stream' = [stream EXCEPT ![i] = NoStream]
      /\ pipe' = [pipe EXCEPT !.stream = IF @ = i THEN 0 ELSE @]
      /\ UNCHANGED <<view, cache, doc, opening, closing, sealed, late>>
  BY DEF StreamEnds
<1>2. /\ Now \in Gui /\ Sound(Now) /\ view \in View /\ pipe \in Pipe
      /\ cache \in [Pages -> Docs \cup {0}] /\ stream \in [Streams -> Stream \cup {NoStream}]
      /\ Now.stream = stream /\ Now.pipe = pipe
  BY NowFacts
<1>3. /\ pipe' \in Pipe /\ pipe'.source = pipe.source /\ pipe'.pending = pipe.pending
      /\ pipe'.opening = pipe.opening /\ pipe'.stream = IF pipe.stream = i THEN 0 ELSE pipe.stream
  BY <1>1, <1>2 DEF Pipe
<1>4. /\ stream' \in [Streams -> Stream \cup {NoStream}]
      /\ \A j \in Streams : stream'[j] = IF j = i THEN NoStream ELSE stream[j]
  BY <1>1, <1>2
<1>5. Brought(stream, i) = {}
  <2>1. Todo(stream[i]) = {}
    BY <1>1, <1>2 DEF Sound, Steady
  <2>2. Given(stream[i]) = {}
    BY <1>1 DEF Given
  <2> QED
    BY <2>1, <2>2 DEF Brought
<1> DEFINE n == [view |-> view, pipe |-> pipe', cache |-> cache, stream |-> stream', bumps |-> 0]
<1>6. n \in Gui
  BY <1>2, <1>3, <1>4 DEF Gui
<1>7. \A j \in Streams : Steady(n.stream[j])
  BY <1>2, <1>4, NoStreamFacts DEF Sound
<1>8. Served(n)
  BY <1>2, <1>3, <1>4 DEF Sound, Served, Pipe
<1>9. AllBrought(n)
  <2>1. pipe.pending \subseteq Brought(stream, pipe.stream)
    BY <1>2 DEF Sound, AllBrought
  <2>2. CASE pipe.stream = i
    BY <1>3, <1>5, <2>1, <2>2 DEF AllBrought
  <2>3. CASE pipe.stream # i
    BY <1>2, <1>3, <1>4, <2>1, <2>3 DEF AllBrought, Brought, Pipe
  <2> QED
    BY <2>2, <2>3
<1>10. Sound(n)
  BY <1>6, <1>7, <1>8, <1>9 DEF Sound
<1>11. n = Now'
  BY <1>1 DEF Now
<1> HIDE DEF n
<1>12. Sound(Now)'
  BY <1>10, <1>11
<1>13. TypeOK'
  <2>1. sealed' \in BOOLEAN /\ late' \in BOOLEAN
    BY <1>1, Zenon DEF ReaderInv, TypeOK
  <2>2. \A j \in Streams : stream'[j].step \in Working => Todo(stream'[j]) # {}
    BY <1>4, NoStreamFacts DEF ReaderInv, TypeOK, Working
  <2>3. /\ doc' \in [Docs -> {"none", "open", "closing", "closed"}]
        /\ opening' \in [Docs -> Opening]
        /\ closing' \in [Docs -> {"none", "queued", "ended", "dropped"}]
    BY <1>1, DocTypes
  <2> QED
    BY <1>1, <1>2, <1>3, <1>4, <2>1, <2>2, <2>3 DEF TypeOK
<1>14. OpensAlone'
  BY <1>3 DEF ReaderInv, OpensAlone
<1>15. NoneForgotten'
  <2>1. \A d \in Docs : Reading(stream, d) => Reading(stream', d)
    BY <1>1, <1>4 DEF Reading
  <2> QED
    BY <1>1, <1>3, <2>1 DEF ReaderInv, NoneForgotten
<1>16. Frames'
  BY <1>1, <1>3 DEF ReaderInv, Frames
<1> QED
  BY <1>12, <1>13, <1>14, <1>15, <1>16 DEF ReaderInv

------------------------------------------------------------------------------
(* An item on the GUI thread                                               *)

\* The item at the head of stream i is taken.
Got(i, p) == [Now EXCEPT !.stream[i].items = Tail(@), !.pipe.pending = @ \ {p}]

LEMMA GotFacts ==
  ASSUME ReaderInv, NEW i \in Streams, Current(i), stream[i].items # <<>>, Room
  PROVE  LET p == Head(stream[i].items)[1]  s == Got(i, p) IN
    /\ Sound(s) /\ Roomy(s) /\ p \in Pages /\ stream[i].doc = pipe.source /\ pipe.source \in Docs
    /\ s.pipe.source = pipe.source /\ s.pipe.opening = pipe.opening
    /\ s.view = view /\ s.cache = cache
    /\ \A d \in Docs : Reading(s.stream, d) <=> Reading(stream, d)
<1> DEFINE items == stream[i].items
<1> DEFINE head == Head(items)
<1> DEFINE p == head[1]
<1> DEFINE s == Got(i, p)
<1> DEFINE st == [stream[i] EXCEPT !.items = Tail(items)]
<1> DEFINE F == [stream EXCEPT ![i] = st]
<1> DEFINE P == [pipe EXCEPT !.pending = @ \ {p}]
<1>1. /\ Now \in Gui /\ Sound(Now) /\ view \in View /\ pipe \in Pipe
      /\ cache \in [Pages -> Docs \cup {0}] /\ stream \in [Streams -> Stream \cup {NoStream}]
      /\ Now.stream = stream /\ Now.pipe = pipe
  BY NowFacts
<1>2. pipe.stream = i /\ i # 0
  BY ReaderAssumption DEF Current
<1>3. stream[i] \in Stream /\ stream[i] # NoStream /\ stream[i].doc = pipe.source
  BY <1>1, <1>2 DEF Sound, Served
<1>4. items \in Seq(Pages \X {"frame", "error", "password"}) /\ items # <<>>
  BY <1>3 DEF Stream
<1>5. s = [Now EXCEPT !.stream = F, !.pipe = P]
  BY <1>1 DEF Got, Now
<1>6. /\ head \in Pages \X {"frame", "error", "password"}
      /\ Tail(items) \in Seq(Pages \X {"frame", "error", "password"})
  BY <1>4, HeadTailProperties
<1>7. p \in Pages
  BY <1>6
<1>8. \A item \in Given(stream[i]) : item = head \/ item \in {Tail(items)[j] : j \in DOMAIN Tail(items)}
  <2> SUFFICES ASSUME NEW j \in DOMAIN items, j # 1
               PROVE  items[j] \in {Tail(items)[k] : k \in DOMAIN Tail(items)}
    BY <1>4 DEF Given
  <2> DEFINE len == Len(items)
  <2>1. len \in Nat /\ DOMAIN items = 1 .. len /\ DOMAIN Tail(items) = 1 .. len - 1
        /\ \A k \in 1 .. len - 1 : Tail(items)[k] = items[k + 1]
    BY <1>4
  <2> HIDE DEF items, len
  <2>2. j - 1 \in DOMAIN Tail(items) /\ Tail(items)[j - 1] = items[j]
    BY <2>1
  <2> QED
    BY <2>2
<1> HIDE DEF head
<1>9. /\ st \in Stream /\ st.step = stream[i].step /\ st.doc = stream[i].doc
      /\ Todo(st) = Todo(stream[i]) /\ st.items = Tail(items)
  BY <1>3, <1>6 DEF Stream, Todo
<1>10. Given(st) = {Tail(items)[j] : j \in DOMAIN Tail(items)}
  BY <1>9 DEF Given
<1> HIDE DEF st, items
<1>11. /\ F \in [Streams -> Stream \cup {NoStream}]
       /\ \A j \in Streams : F[j] = IF j = i THEN st ELSE stream[j]
  BY <1>1, <1>9
<1>12. /\ P \in Pipe /\ P.pending = pipe.pending \ {p} /\ P.source = pipe.source
       /\ P.stream = i /\ P.opening = pipe.opening
  BY <1>1, <1>2 DEF Pipe
<1> HIDE DEF F, P, s
<1>13. s = [view |-> view, pipe |-> P, cache |-> cache, stream |-> F, bumps |-> 0]
  BY <1>5 DEF Now
<1>14. s \in Gui
  BY <1>1, <1>11, <1>12, <1>13 DEF Gui
<1>15. st # NoStream
  BY <1>3, <1>9 DEF Stream, NoStream, Idle, Working
<1>16. \A j \in Streams : Steady(F[j])
  BY <1>1, <1>9, <1>11 DEF Sound, Steady
<1>17. AllBrought(s)
  <2>1. pipe.pending \subseteq Todo(stream[i]) \cup {item[1] : item \in Given(stream[i])}
    BY <1>1, <1>2 DEF Sound, AllBrought, Brought
  <2>2. {item[1] : item \in Given(stream[i])} \subseteq {p} \cup {item[1] : item \in Given(st)}
    BY <1>8, <1>10
  <2>3. Brought(F, i) = Todo(st) \cup {item[1] : item \in Given(st)}
    BY <1>2, <1>11 DEF Brought
  <2> QED
    BY <1>9, <1>12, <1>13, <2>1, <2>2, <2>3 DEF AllBrought
<1>18. Sound(s)
  BY <1>2, <1>9, <1>11, <1>12, <1>13, <1>14, <1>15, <1>16, <1>17, <1>3 DEF Sound, Served
<1>19. Roomy(s)
  BY <1>1, <1>3, <1>11, <1>13 DEF Room, Roomy, Free
<1>20. \A d \in Docs : Reading(s.stream, d) <=> Reading(stream, d)
  BY <1>9, <1>11, <1>13 DEF Reading
<1>21. pipe.source \in Docs
  BY <1>3 DEF Stream
<1> QED
  BY <1>3, <1>7, <1>12, <1>13, <1>18, <1>19, <1>20, <1>21 DEF s, head, items

\* A handler of an item that has come to t, from the record s.
LEMMA ItemKeeps ==
  ASSUME ReaderInv, UNCHANGED <<doc, closing, opening, sealed, late>>,
         NEW s \in Gui, NEW t, Sound(t), Kept(s, t), Becomes(t),
         \A d \in Docs : Reading(s.stream, d) <=> Reading(stream, d),
         s.pipe.opening = pipe.opening, s.pipe.source = pipe.source, s.cache = cache,
         \A p \in Pages : s.view.shown[p] \in {view.shown[p], 0, pipe.source}
  PROVE  ReaderInv'
<1>1. /\ doc' \in [Docs -> {"none", "open", "closing", "closed"}]
      /\ opening' \in [Docs -> Opening]
      /\ closing' \in [Docs -> {"none", "queued", "ended", "dropped"}]
  BY DocTypes
<1>2. sealed' \in BOOLEAN /\ late' = late
  BY Zenon DEF ReaderInv, TypeOK
<1>3. \A d \in Docs :
        /\ doc'[d] = "open" => \/ s.pipe.source = d \/ opening'[d].step = "result"
                               \/ closing'[d] \in {"queued", "dropped"}
        /\ doc'[d] = "closing" => Reading(stream, d)
  BY DEF ReaderInv, NoneForgotten
<1>4. /\ s.pipe.opening # 0 => s.pipe.source = 0
      /\ ~late => \A q \in Pages : s.view.shown[q] \in {0, s.pipe.source}
                                   /\ s.cache[q] \in {0, s.pipe.source}
  BY DEF ReaderInv, OpensAlone, Frames
<1> QED
  BY <1>1, <1>2, <1>3, <1>4, GuiStep

LEMMA ReadyKeeps ==
  ASSUME ReaderInv, UNCHANGED <<doc, closing, opening, sealed, late>>,
         NEW s, Sound(s), Roomy(s), NEW p \in Pages, NEW d \in Docs, d = pipe.source,
         Becomes(Ready(s, p, d, Laid)),
         \A e \in Docs : Reading(s.stream, e) <=> Reading(stream, e),
         s.pipe.opening = pipe.opening, s.pipe.source = pipe.source,
         s.view = view, s.cache = cache
  PROVE  ReaderInv'
<1> DEFINE u == Show(s, p, d)
<1> DEFINE k == Known(s, p)
<1> DEFINE t == Ready(s, p, d, Laid)
<1>1. s \in Gui
  BY DEF Sound
<1>2. t = IF p \in Spread(s.view) THEN Laid(u) ELSE k
  BY DEF Ready, Show, Known
<1>3. Becomes(t)
  OBVIOUS
<1> HIDE DEF t
<1>4. CASE p \in Spread(s.view)
  <2>1. /\ Sound(u) /\ Roomy(u)
        /\ \A q \in Pages : u.view.shown[q] = IF q = p THEN d ELSE s.view.shown[q]
    BY ShowKept
  <2>2. u \in Gui /\ u.pipe = s.pipe /\ u.stream = s.stream /\ u.cache = s.cache
    BY <1>1, ShowFacts
  <2> HIDE DEF u
  <2>3. Sound(t) /\ Kept(u, t)
    BY <1>2, <1>4, <2>1, LaidStep DEF Layout
  <2> QED
    BY <1>3, <2>1, <2>2, <2>3, ItemKeeps
<1>5. CASE p \notin Spread(s.view)
  <2>1. /\ k \in Gui /\ k.pipe = s.pipe /\ k.stream = s.stream /\ k.cache = s.cache
        /\ k.view.shown = s.view.shown
    BY <1>1, KnownFacts
  <2> HIDE DEF k
  <2>2. Sound(k) /\ Kept(k, k)
    BY <2>1, SameStreams, KeptSelf
  <2>3. t = k
    BY <1>2, <1>5
  <2> QED
    BY <1>3, <2>1, <2>2, <2>3, ItemKeeps
<1> QED
  BY <1>4, <1>5

\* A page is known to be unreadable.
LEMMA BadFacts ==
  ASSUME NEW s, Sound(s), Roomy(s), NEW p \in Pages
  PROVE  LET v == [s EXCEPT !.view.bad = @ \cup {p}] IN
    /\ Sound(v) /\ Roomy(v) /\ v.pipe = s.pipe /\ v.stream = s.stream /\ v.cache = s.cache
    /\ v.view.shown = s.view.shown
<1> DEFINE V == [s.view EXCEPT !.bad = @ \cup {p}]
<1> DEFINE v == [s EXCEPT !.view.bad = @ \cup {p}]
<1>1. s \in Gui
  BY DEF Sound
<1>2. s.view \in View
  BY <1>1, PartsOfGui
<1>3. v = [s EXCEPT !.view = V]
  OBVIOUS
<1>4. V \in View /\ V.shown = s.view.shown
  BY <1>2 DEF View
<1> HIDE DEF V, v
<1>5. v = [view |-> V, pipe |-> s.pipe, cache |-> s.cache, stream |-> s.stream, bumps |-> s.bumps]
  BY <1>1, <1>3 DEF Gui
<1>6. v \in Gui
  BY <1>1, <1>4, <1>5 DEF Gui
<1>7. Sound(v) /\ Roomy(v)
  BY <1>5, <1>6, SameStreams
<1> QED
  BY <1>4, <1>5, <1>7 DEF v

LEMMA FailedKeeps ==
  ASSUME ReaderInv, UNCHANGED <<doc, closing, opening, sealed, late>>,
         NEW s, Sound(s), Roomy(s), NEW p \in Pages, Becomes(Failed(s, p)),
         \A e \in Docs : Reading(s.stream, e) <=> Reading(stream, e),
         s.pipe.opening = pipe.opening, s.pipe.source = pipe.source,
         s.view = view, s.cache = cache
  PROVE  ReaderInv'
<1> DEFINE v == [s EXCEPT !.view.bad = @ \cup {p}]
<1> DEFINE u == [v EXCEPT !.view.companion = 0]
<1> DEFINE t == Failed(s, p)
<1>1. /\ Sound(v) /\ Roomy(v) /\ v.pipe = s.pipe /\ v.stream = s.stream /\ v.cache = s.cache
      /\ v.view.shown = s.view.shown /\ v \in Gui
  BY BadFacts DEF Sound
<1>2. Becomes(t) /\ (t = v \/ t = Laid(u))
  BY DEF Failed
<1> HIDE DEF v, t
<1>3. /\ Sound(u) /\ Roomy(u) /\ u.pipe = v.pipe /\ u.stream = v.stream /\ u.cache = v.cache
      /\ u.view.shown = v.view.shown /\ u \in Gui
  BY <1>1, AloneKept DEF Sound
<1> HIDE DEF u
<1>4. CASE t = v
  BY <1>1, <1>2, <1>4, KeptSelf, ItemKeeps
<1>5. CASE t = Laid(u)
  <2>1. Sound(t) /\ Kept(u, t)
    BY <1>3, <1>5, LaidStep DEF Layout
  <2> QED
    BY <1>1, <1>2, <1>3, <2>1, ItemKeeps
<1> QED
  BY <1>2, <1>4, <1>5

LEMMA DeliverKeeps ==
  ASSUME ReaderInv, NEW i \in Streams, Deliver(i)
  PROVE  ReaderInv'
<1> DEFINE item == Head(stream[i].items)
<1> DEFINE p == item[1]
<1> DEFINE s == Got(i, p)
<1>1. Current(i) /\ stream[i].items # <<>> /\ Room /\ UNCHANGED <<opening, sealed, late>>
  BY DEF Deliver
<1>2. /\ Sound(s) /\ Roomy(s) /\ p \in Pages /\ stream[i].doc = pipe.source /\ pipe.source \in Docs
      /\ s.pipe.source = pipe.source /\ s.pipe.opening = pipe.opening
      /\ s.view = view /\ s.cache = cache
      /\ \A d \in Docs : Reading(s.stream, d) <=> Reading(stream, d)
  BY <1>1, GotFacts
<1>3. CASE item[2] = "password"
  <2> DEFINE t == LeftFor(s, "prompt")
  <2>1. Becomes(t) /\ CloseSource(pipe.source)
    BY <1>3 DEF Deliver, Got, LeftFor
  <2> HIDE DEF s, t, item
  <2>2. opening' \in [Docs -> Opening]
        /\ \A e \in Docs : opening[e].step = "result" => opening'[e].step = "result"
    BY <1>1, DocTypes
  <2>3. sealed' \in BOOLEAN /\ late' = late
    BY <1>1, Zenon DEF ReaderInv, TypeOK
  <2> QED
    BY <1>2, <2>1, <2>2, <2>3, Leave DEF t
<1>4. CASE item[2] = "frame"
  <2>1. Becomes(Ready(s, p, stream[i].doc, Laid)) /\ UNCHANGED <<doc, closing>>
    BY <1>4 DEF Deliver, Got
  <2> HIDE DEF s, item
  <2> QED
    BY <1>1, <1>2, <2>1, ReadyKeeps
<1>5. CASE item[2] \notin {"password", "frame"}
  <2>1. Becomes(Failed(s, p)) /\ UNCHANGED <<doc, closing>>
    BY <1>5 DEF Deliver, Got
  <2> HIDE DEF s, item
  <2> QED
    BY <1>1, <1>2, <2>1, FailedKeeps
<1> QED
  BY <1>3, <1>4, <1>5

------------------------------------------------------------------------------
(* The theorems                                                            *)

LEMMA ReaderInit == Init => ReaderInv
<1> SUFFICES ASSUME Init
             PROVE  ReaderInv
  OBVIOUS
<1>1. PICK ahead \in BOOLEAN :
        view = [stage |-> "new", primary |-> 1, companion |-> 0, ahead |-> ahead, changes |-> 0,
                shown |-> Nothing, bad |-> {}]
  BY DEF Init
<1>2. 1 \in Pages /\ 0 \in 0 .. Changes
  BY ReaderAssumption DEF Pages
<1>3. Nothing \in [Pages -> Docs \cup {0}] /\ \A p \in Pages : Nothing[p] = 0
  BY DEF Nothing
<1>4. view \in View /\ view.shown = Nothing
  BY <1>1, <1>2, <1>3 DEF View
<1>5. /\ pipe \in Pipe /\ pipe.source = 0 /\ pipe.pending = {} /\ pipe.stream = 0
      /\ pipe.opening = 0
  BY DEF Init, Pipe
<1>6. /\ stream \in [Streams -> Stream \cup {NoStream}]
      /\ \A i \in Streams : stream[i] = NoStream
  BY DEF Init
<1>7. /\ cache = Nothing /\ doc = [d \in Docs |-> "none"]
      /\ opening = [d \in Docs |-> [step |-> "none", cancelled |-> FALSE]]
      /\ closing = [d \in Docs |-> "none"]
  BY DEF Init
<1>8. opening \in [Docs -> Opening]
  BY <1>7 DEF Opening
<1>9. sealed \in BOOLEAN /\ late \in BOOLEAN
  BY Zenon DEF Init
<1>10. \A i \in Streams : stream[i].step \notin Working /\ Steady(stream[i])
  BY <1>6, NoStreamFacts DEF Working
<1>11. TypeOK
  BY <1>3, <1>4, <1>5, <1>6, <1>7, <1>8, <1>9, <1>10 DEF TypeOK
<1>12. Now \in Gui /\ Now.pipe = pipe /\ Now.stream = stream
  BY <1>3, <1>4, <1>5, <1>6, <1>7 DEF Now, Gui
<1>13. Sound(Now)
  BY <1>5, <1>10, <1>12 DEF Sound, Served, AllBrought
<1>14. OpensAlone /\ Frames
  BY <1>3, <1>4, <1>5, <1>7 DEF OpensAlone, Frames
<1>15. NoneForgotten
  BY <1>7 DEF NoneForgotten
<1> QED
  BY <1>11, <1>13, <1>14, <1>15 DEF ReaderInv

LEMMA StutterKeeps ==
  ASSUME ReaderInv, UNCHANGED vars
  PROVE  ReaderInv'
<1>1. /\ doc' \in [Docs -> {"none", "open", "closing", "closed"}]
      /\ opening' \in [Docs -> Opening]
      /\ closing' \in [Docs -> {"none", "queued", "ended", "dropped"}]
  BY DocTypes DEF vars
<1>2. \A d \in Docs :
        /\ doc'[d] = "open" => \/ pipe.source = d \/ opening'[d].step = "result"
                               \/ closing'[d] \in {"queued", "dropped"}
        /\ doc'[d] = "closing" => Reading(stream, d)
  BY DEF ReaderInv, NoneForgotten, vars
<1>3. UNCHANGED <<view, pipe, cache, stream, sealed, late>>
  BY DEF vars
<1> QED
  BY <1>1, <1>2, <1>3, DocStep

LEMMA UnsealKeeps ==
  ASSUME ReaderInv, Unseal
  PROVE  ReaderInv'
<1>1. UNCHANGED <<view, pipe, cache, stream, doc, opening, closing, late>>
  BY DEF Unseal
<1>2. sealed' \in BOOLEAN
  BY DEF Unseal
<1>3. Now' = Now
  BY <1>1 DEF Now
<1>4. Sound(Now)'
  BY <1>3 DEF ReaderInv
<1>5. late \in BOOLEAN
  BY Zenon DEF ReaderInv, TypeOK
<1>6. TypeOK'
  BY <1>1, <1>2, <1>5 DEF ReaderInv, TypeOK
<1>7. NoneForgotten'
  BY <1>1 DEF ReaderInv, NoneForgotten
<1>8. OpensAlone' /\ Frames'
  BY <1>1 DEF ReaderInv, OpensAlone, Frames
<1> QED
  BY <1>4, <1>6, <1>7, <1>8 DEF ReaderInv

LEMMA ReaderStep ==
  ASSUME ReaderInv, [Next]_vars
  PROVE  ReaderInv'
<1>1. ASSUME NEW d \in Docs, Open(d)
      PROVE  ReaderInv'
  BY <1>1, OpenKeeps
<1>2. ASSUME NEW p \in Pages, Turn(p)
      PROVE  ReaderInv'
  BY <1>2, TurnKeeps
<1>3. CASE SetPrefetch
  BY <1>3, SetPrefetchKeeps
<1>4. CASE Dismiss
  BY <1>4, DismissKeeps
<1>5. CASE CloseWindow
  BY <1>5, CloseWindowKeeps
<1>6. ASSUME NEW d \in Docs, OpenWork(d)
      PROVE  ReaderInv'
  BY <1>6, OpenWorkKeeps
<1>7. ASSUME NEW d \in Docs, OpenAnswer(d)
      PROVE  ReaderInv'
  BY <1>7, OpenAnswerKeeps
<1>8. ASSUME NEW d \in Docs, CloseWork(d)
      PROVE  ReaderInv'
  BY <1>8, CloseWorkKeeps
<1>9. ASSUME NEW i \in Streams, Work(i)
      PROVE  ReaderInv'
  BY <1>9, LookKeeps, ReadKeeps, ReadEndsKeeps, CheckKeeps, PutKeeps DEF Work
<1>10. ASSUME NEW i \in Streams, Deliver(i)
       PROVE  ReaderInv'
  BY <1>10, DeliverKeeps
<1>11. ASSUME NEW i \in Streams, StreamEnds(i)
       PROVE  ReaderInv'
  BY <1>11, StreamEndsKeeps
<1>12. CASE Seal
  BY <1>12, SealKeeps
<1>13. ASSUME NEW p \in Pages, Evict(p)
       PROVE  ReaderInv'
  BY <1>13, EvictKeeps
<1>14. CASE UNCHANGED vars
  BY <1>14, StutterKeeps
<1>15. CASE Unseal
  BY <1>15, UnsealKeeps
<1> QED
  BY <1>1, <1>2, <1>3, <1>4, <1>5, <1>6, <1>7, <1>8, <1>9, <1>10, <1>11, <1>12, <1>13, <1>14,
     <1>15 DEF Next, User, Documents, Preparation

\* The invariant that the theorems below rest on: the types, that the current
\* stream reads the open document and brings what is pending, that a document
\* is opened only when none is open, and whose frames are cached.
THEOREM ReaderInvariant == Spec => []ReaderInv
<1>1. Init => ReaderInv
  BY ReaderInit
<1>2. ReaderInv /\ [Next]_vars => ReaderInv'
  BY ReaderStep
<1> QED
  BY <1>1, <1>2, PTL DEF Spec

\* Every variable keeps its type, and a stream that works on a page has one.
THEOREM ReaderTypes == Spec => []TypeOK
<1>1. ReaderInv => TypeOK
  BY DEF ReaderInv
<1> QED
  BY <1>1, ReaderInvariant, PTL

\* However opening, turning, closing and sealing interleave, an open document
\* is the one shown, on its way to be, or going to be closed, and one that
\* closes has a read to wait for.
THEOREM NoDocumentForgotten == Spec => []NoneForgotten
<1>1. ReaderInv => NoneForgotten
  BY DEF ReaderInv
<1> QED
  BY <1>1, ReaderInvariant, PTL

\* Every frame on the screen is of the document that is open, until a stream
\* that was overtaken has put one into the cache.
THEOREM FramesOfTheOpenDocument == Spec => []ShownIsOpen
<1>1. ReaderInv => ShownIsOpen
  BY DEF ReaderInv, Frames, ShownIsOpen
<1> QED
  BY <1>1, ReaderInvariant, PTL

\* What is pending is always still to come from the current stream, so that a
\* request taken for a repetition of it loses nothing.
THEOREM PendingPagesCome == Spec => []AwaitedComes
<1>1. ReaderInv => AwaitedComes
  BY DEF ReaderInv, Sound, AllBrought, Now, AwaitedComes
<1> QED
  BY <1>1, ReaderInvariant, PTL
=============================================================================
