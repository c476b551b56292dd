----------------------------- MODULE ReaderPages -----------------------------
(***************************************************************************)
(* One reader window: its ReaderViewModel, its ReaderPagePipeline with the *)
(* stream of pages it prepares one after the other, its slice of the       *)
(* shared page cache, and the documents it opens and closes.  What the     *)
(* view model does runs on the GUI thread; opening, preparing and closing  *)
(* run in the library's task scope, which a storage transition seals.      *)
(*                                                                         *)
(* Pages that the shared scheduler prepares are modelled by PageScheduler. *)
(* The request token and the generations are only ever compared with their *)
(* current value, so the model keeps what still holds the current one:     *)
(* pipe.stream and pipe.opening.                                           *)
(***************************************************************************)
EXTENDS Integers, FiniteSets, Sequences

CONSTANTS
  PageCount, \* pages 1 .. PageCount
  Opens,     \* bound: documents 1 .. Opens that the window opens
  Changes,   \* bound: changes of the prefetch window
  Streams    \* bound: streams of pages in the executor at one time

ASSUME ReaderAssumption == 
  /\ {PageCount, Opens} \subseteq Nat \ {0} /\ Changes \in Nat
  /\ IsFiniteSet(Streams) /\ 0 \notin Streams

Pages == 1 .. PageCount
Docs  == 1 .. Opens

VARIABLES
  view,      \* what the view model shows: stage, spread, frames, pages that failed
  pipe,      \* _source, _pending_indices, and what holds the current token
  cache,     \* cache[p]: the document of the frame cached for page p, or 0
  stream,    \* the reader-pages-stream tasks
  doc,       \* the sessions
  opening,   \* the reader-open tasks
  closing,   \* the reader-source-close tasks
  sealed,    \* the scope is quiesced
  late       \* a stream has put a frame although it was stale (history)

vars == <<view, pipe, cache, stream, doc, opening, closing, sealed, late>>

NoStream == [doc |-> 0, visible |-> {}, prefetch |-> {}, step |-> "none", items |-> <<>>]
Nothing  == [p \in Pages |-> 0]

Init ==
  /\ \E ahead \in BOOLEAN :
       view = [stage |-> "new", primary |-> 1, companion |-> 0, ahead |-> ahead, changes |-> 0,
               shown |-> Nothing, bad |-> {}]
  /\ pipe = [source |-> 0, pending |-> {}, stream |-> 0, opening |-> 0]
  /\ cache = Nothing /\ stream = [i \in Streams |-> NoStream]
  /\ doc = [d \in Docs |-> "none"]
  /\ opening = [d \in Docs |-> [step |-> "none", cancelled |-> FALSE]]
  /\ closing = [d \in Docs |-> "none"]
  /\ sealed = FALSE /\ late = FALSE

------------------------------------------------------------------------------
(* Asking for pages.  A handler works on the record s of what the GUI      *)
(* thread owns; s.bumps counts the token's increments within the handler,  *)
(* because a page that is in the cache is published inside the request     *)
(* and may ask for others.                                                 *)

Now == [view |-> view, pipe |-> pipe, cache |-> cache, stream |-> stream, bumps |-> 0]
Becomes(s) ==
  view' = s.view /\ pipe' = s.pipe /\ cache' = s.cache /\ stream' = s.stream

Spread(v) == {v.primary, v.companion} \ {0}
Free(s) == {i \in Streams : s.stream[i] = NoStream}
Idle == {"queued", "look", "done"}

\* Mutant: what is pending stays so when its stream is cancelled.
CancelSerialPending(s) ==
  [s EXCEPT
    !.bumps = @ + 1, !.pipe.stream = 0, !.pipe.opening = 0,
    !.stream = [i \in Streams |->
      IF i # s.pipe.stream THEN @[i]
      ELSE IF @[i].step \in Idle THEN NoStream ELSE [@[i] EXCEPT !.items = <<>>]]]
(* _cancel_serial_locked.  A stream that is not preparing a page ends at   *)
(* its next look at the token; the others go on to the end of their page.  *)
CancelSerial(s) ==
  [s EXCEPT
    !.bumps = @ + 1, !.pipe.pending = {}, !.pipe.stream = 0, !.pipe.opening = 0,
    !.stream = [i \in Streams |->
      IF i # s.pipe.stream THEN @[i]
      ELSE IF @[i].step \in Idle THEN NoStream ELSE [@[i] EXCEPT !.items = <<>>]]]

Least(S) == CHOOSE p \in S : \A q \in S : p <= q

Pending(s, pages) == [s EXCEPT !.pipe.pending = pages]
Submitted(s, visible, prefetch) ==
  LET i == CHOOSE i \in Free(s) : TRUE IN
  [s EXCEPT !.pipe.stream = i,
            !.stream[i] = [doc |-> s.pipe.source, visible |-> visible, prefetch |-> prefetch,
                           step |-> "queued", items |-> <<>>]]

\* The pages beside the spread that are prepared in advance.
Nearby(v) == IF v.ahead THEN Pages ELSE Spread(v)
Pruned(s) == [s EXCEPT !.view.shown = [p \in Pages |-> IF p \in Spread(s.view) THEN @[p] ELSE 0]]

(* A request publishes what is cached, publishing lays out the spread, and *)
(* a layout requests again: each of these handlers takes the one it calls  *)
(* as a parameter.  Only a page of the spread that was not shown leads one *)
(* deeper, so what is requested when both are shown publishes none.        *)

\* _publish_ready and _handle_page_prepared
Ready(s, p, d, Lay(_)) ==
  LET known == [s EXCEPT !.view.bad = @ \ {p}] IN
  IF p \in Spread(s.view) THEN Lay([known EXCEPT !.view.shown[p] = d]) ELSE known
Published(s, S, bumps, Lay(_)) ==
  IF S = {} \/ s.bumps # bumps THEN s ELSE Ready(s, Least(S), s.cache[Least(S)], Lay)

Wanted(s, pages) == {p \in pages : s.view.shown[p] = 0}
Satisfied(s, wanted) == s.pipe.source = 0 \/ wanted \subseteq s.pipe.pending

\* The rest of a request, made in s, that has come to t by publishing pages of
\* the spread: the other cached ones, and the task for the missing ones.  One
\* that a later request supersedes still says what is pending; its task ends at
\* the first look.
Told(s, wanted, missing, t) ==
  LET current == t.bumps = s.bumps + 1
      known == IF current THEN [t EXCEPT !.view.bad = @ \ ((wanted \ missing) \ Spread(s.view))] ELSE t
      told == Pending(known, missing)
  IN CASE missing = {} -> known
       [] missing # {} /\ ~current -> told
       [] missing # {} /\ current -> Submitted(told, missing \cap Spread(s.view),
                                               missing \ Spread(s.view))

\* _request_pages and _request_serial: the spread before the others.
Asked(s, pages, Lay(_)) ==
  LET wanted == Wanted(s, pages)
      missing == {p \in wanted : s.cache[p] = 0}
      fresh == CancelSerial(s)
      cached == (wanted \ missing) \cap Spread(s.view)
      one == Published(fresh, cached, fresh.bumps, Lay)
      two == Published(one, {p \in cached : p # Least(cached)}, fresh.bumps, Lay)
  IN IF Satisfied(s, wanted) THEN s
     ELSE Told(s, wanted, missing, two)

\* recalculate_layout: the second page may come later than the first.
LaidOut(s, Ask(_, _)) ==
  LET first == IF s.view.shown[s.view.primary] = 0 THEN Ask(s, {s.view.primary}) ELSE s
      q == s.view.companion
      asked == IF q # 0 /\ first.view.shown[q] = 0 THEN Ask(first, {q}) ELSE first
      both == IF q # 0 /\ asked.view.shown[q] = 0 /\ q \in asked.view.bad
              THEN [asked EXCEPT !.view.companion = 0] ELSE asked
  IN IF first.view.shown[s.view.primary] = 0 THEN Pruned(first)
     ELSE Ask(Pruned(both), Nearby(both.view))

Shown(s) == s
RequestedShown(s, pages) == Asked(s, pages, Shown)  \* with no page of the spread to show
LaidShown(s)             == LaidOut(s, RequestedShown)
RequestedOne(s, pages)   == Asked(s, pages, LaidShown)  \* with at most one
LaidOne(s)               == LaidOut(s, RequestedOne)
Requested(s, pages)      == Asked(s, pages, LaidOne)
Laid(s)                  == LaidOut(s, Requested)

------------------------------------------------------------------------------
(* Documents                                                               *)

Reading(streams, d) == \E i \in Streams : streams[i].doc = d /\ streams[i].step = "reading"

\* ArchiveImageSession.close: it waits for the read that has begun.
ClosedDoc(d, streams) == IF Reading(streams, d) THEN "closing" ELSE "closed"

\* _close_source submits a task; Seal is where the scope refuses it.
CloseSource(d) ==
  /\ closing' = IF d = 0 THEN closing ELSE [closing EXCEPT ![d] = "queued"]
  /\ UNCHANGED doc

\* Mutant: the page cache keeps the frames of the document that is left.
DetachedUncleared(s) ==
  LET quiet == CancelSerial(s) IN
  [quiet EXCEPT !.pipe.source = 0,
                !.view.shown = Nothing, !.view.bad = {}, !.view.companion = 0]
\* _detach_source_locked, with the frames and the page cache cleared.
Detached(s) ==
  LET quiet == CancelSerial(s) IN
  [quiet EXCEPT !.pipe.source = 0, !.cache = Nothing,
                !.view.shown = Nothing, !.view.bad = {}, !.view.companion = 0]

Withdrawn(open) == IF pipe.opening = 0 THEN open ELSE [open EXCEPT ![pipe.opening].cancelled = TRUE]

(* open_path: from the window's timer, with a password or without an       *)
(* archive.  Nothing keeps a window from opening while the scope is        *)
(* sealed: its task is then refused, and neither callback will ever run.   *)
Open(d) ==
  /\ view.stage \in {"new", "prompt"} /\ opening[d].step = "none"
  /\ \A e \in Docs : e < d => opening[e].step # "none"
  /\ LET s == Detached(Now) IN
     Becomes([s EXCEPT !.view.stage = "loading", !.pipe.opening = d])
  /\ opening' = [Withdrawn(opening) EXCEPT ![d].step = IF sealed THEN "refused" ELSE "queued"]
  /\ UNCHANGED <<sealed, late>> /\ CloseSource(pipe.source)

\* The window closes: ReaderViewModel.cancel.
CloseWindow ==
  /\ view.stage # "gone"
  /\ LET s == Detached(Now) IN Becomes([s EXCEPT !.view.stage = "gone"])
  /\ opening' = Withdrawn(opening) /\ UNCHANGED <<sealed, late>>
  /\ CloseSource(pipe.source)

\* cancel_password_request
Dismiss ==
  /\ view.stage = "prompt" /\ view' = [view EXCEPT !.stage = "idle"]
  /\ UNCHANGED <<pipe, cache, stream, doc, opening, closing, sealed, late>>

(* quiesce_for_storage_transition, then the window closes, if it has been  *)
(* built by then: a close that has not begun is cancelled with the other   *)
(* tasks of the scope.                                                     *)
Seal ==
  /\ ~sealed /\ sealed' = TRUE
  /\ \E stage \in {"gone"} \cup ({"new"} \cap {view.stage}) :
       LET s == Detached(Now) IN Becomes([s EXCEPT !.view.stage = stage])
  /\ opening' = [d \in Docs |-> [opening[d] EXCEPT !.cancelled = @ \/ opening[d].step # "none"]]
  /\ closing' = [d \in Docs |-> IF closing[d] = "queued" THEN "dropped" ELSE closing[d]]
  /\ doc' = IF pipe.source = 0 THEN doc
            ELSE [doc EXCEPT ![pipe.source] = ClosedDoc(pipe.source, stream)]
  /\ UNCHANGED late

\* The transition is over or abandoned.
Unseal ==
  /\ sealed /\ sealed' = FALSE
  /\ UNCHANGED <<view, pipe, cache, stream, doc, opening, closing, late>>

\* Mutant: a session opened for a cancelled task is not discarded.
OpenWorkKept(d) ==
  /\ \/ /\ opening[d].step = "queued"
        /\ opening' = [opening EXCEPT ![d].step = IF opening[d].cancelled THEN "ended" ELSE "running"]
        /\ UNCHANGED doc
     \/ /\ opening[d].step = "running"
        /\ \E answer \in {"result", "failure", "password"} :
             /\ opening' = [opening EXCEPT ![d].step = IF opening[d].cancelled THEN "ended" ELSE answer]
             /\ doc' = IF answer # "result" THEN doc ELSE [doc EXCEPT ![d] = "open"]
  /\ UNCHANGED <<view, pipe, cache, stream, closing, sealed, late>>
\* A worker of reader-open.
OpenWork(d) ==
  /\ \/ /\ opening[d].step = "queued"
        /\ opening' = [opening EXCEPT ![d].step = IF opening[d].cancelled THEN "ended" ELSE "running"]
        /\ UNCHANGED doc
     \/ /\ opening[d].step = "running"
        /\ \E answer \in {"result", "failure", "password"} :
             /\ opening' = [opening EXCEPT ![d].step = IF opening[d].cancelled THEN "ended" ELSE answer]
             /\ doc' = IF answer # "result" THEN doc
                       ELSE [doc EXCEPT ![d] = IF opening[d].cancelled THEN "closed" ELSE "open"]
  /\ UNCHANGED <<view, pipe, cache, stream, closing, sealed, late>>

Room == Free(Now) # {}  \* the bound on Streams
Following(p) == IF p + 1 \in Pages \ view.bad THEN p + 1 ELSE 0
Turned(s, p) ==
  LET v == [s EXCEPT !.view.primary = p, !.view.companion = Following(p)] IN
  Laid(Requested(v, Spread(v.view)))

\* Its answer; only the one that the pipeline still waits for counts.
OpenAnswer(d) ==
  /\ opening[d].step \in {"result", "failure", "password"} /\ Room
  /\ opening' = [opening EXCEPT ![d].step = "ended"] /\ UNCHANGED <<sealed, late>>
  /\ CASE opening[d].step = "result" /\ opening[d].cancelled ->
            doc' = [doc EXCEPT ![d] = "closed"] /\ UNCHANGED <<view, pipe, cache, stream, closing>>
       [] opening[d].step = "result" /\ ~opening[d].cancelled /\ pipe.opening # d ->
            CloseSource(d) /\ UNCHANGED <<view, pipe, cache, stream>>
       [] opening[d].step = "result" /\ ~opening[d].cancelled /\ pipe.opening = d ->
            /\ Becomes(Turned([Now EXCEPT !.pipe.source = d, !.pipe.opening = 0,
                                          !.view.stage = "reading"], view.primary))
            /\ UNCHANGED <<doc, closing>>
       [] opening[d].step # "result" ->
            /\ UNCHANGED <<cache, stream, doc, closing>>
            /\ IF opening[d].cancelled \/ pipe.opening # d THEN UNCHANGED <<view, pipe>>
               ELSE /\ view' = [view EXCEPT !.stage = IF opening[d].step = "password"
                                                      THEN "prompt" ELSE "idle"]
                    /\ pipe' = [pipe EXCEPT !.opening = 0]

\* A worker of reader-source-close.
CloseWork(d) ==
  /\ closing[d] = "queued" /\ closing' = [closing EXCEPT ![d] = "ended"]
  /\ doc' = [doc EXCEPT ![d] = ClosedDoc(d, stream)]
  /\ UNCHANGED <<view, pipe, cache, stream, opening, sealed, late>>

------------------------------------------------------------------------------
(* Reading                                                                 *)

Turn(p) ==
  /\ view.stage = "reading" /\ p # view.primary /\ Room
  /\ Becomes(Turned(Now, p))
  /\ UNCHANGED <<doc, opening, closing, sealed, late>>

\* Mutant: the requests are replaced also while the document is being opened.
SetPrefetchOpening ==
  /\ view.stage # "gone" /\ view.changes < Changes /\ Room
  /\ LET quiet == CancelSerial([Now EXCEPT !.view.ahead = ~@, !.view.changes = @ + 1]) IN
     Becomes(Requested(quiet, IF view.shown[view.primary] = 0 THEN Spread(view)
                              ELSE Nearby(quiet.view)))
  /\ UNCHANGED <<doc, opening, closing, sealed, late>>
\* set_prefetch_window
SetPrefetch ==
  /\ view.stage # "gone" /\ view.changes < Changes /\ Room
  /\ LET s == [Now EXCEPT !.view.ahead = ~@, !.view.changes = @ + 1]
         quiet == CancelSerial(s) IN
     Becomes(IF pipe.source = 0 THEN s
             ELSE Requested(quiet, IF view.shown[view.primary] = 0 THEN Spread(view)
                                   ELSE Nearby(quiet.view)))
  /\ UNCHANGED <<doc, opening, closing, sealed, late>>

\* The budget that all windows share takes a frame away.
Evict(p) ==
  /\ cache[p] # 0 /\ cache' = [cache EXCEPT ![p] = 0]
  /\ UNCHANGED <<view, pipe, stream, doc, opening, closing, sealed, late>>

------------------------------------------------------------------------------
(* The stream's worker, and its items on the GUI thread                    *)

Current(i) == pipe.stream = i
Given(s) == {s.items[j] : j \in DOMAIN s.items}
Todo(s) == s.visible \cup s.prefetch
Page(i) == Least(IF stream[i].visible # {} THEN stream[i].visible ELSE stream[i].prefetch)

\* On to the next page, with what came of this one if somebody still listens.
Answered(i, what) ==
  [stream EXCEPT ![i].step = "look", ![i].visible = @ \ {Page(i)},
                 ![i].prefetch = @ \ {Page(i)}, ![i].items = IF Current(i) THEN Append(@, <<Page(i), what>>) ELSE @]

\* A session that closes is finished by its last read.
Released(d, streams) ==
  IF doc[d] = "closing" /\ ~Reading(streams, d) THEN [doc EXCEPT ![d] = "closed"] ELSE doc

\* Mutant: the stream does not end with its last page.
LookOn(i) ==
  /\ stream[i].step \in {"queued", "look"}
  /\ stream' = [stream EXCEPT ![i] = IF ~Current(i) THEN NoStream ELSE [@ EXCEPT !.step = "read"]]
  /\ UNCHANGED <<doc, cache, late>>
Look(i) ==
  /\ stream[i].step \in {"queued", "look"}
  /\ stream' = [stream EXCEPT ![i] =
       IF ~Current(i) THEN NoStream
       ELSE [@ EXCEPT !.step = IF Todo(stream[i]) = {} THEN "done" ELSE "read"]]
  /\ UNCHANGED <<doc, cache, late>>
\* _read_pages: a session that closes gives nothing.
Read(i) ==
  /\ stream[i].step = "read"
  /\ stream' = IF doc[stream[i].doc] = "open" THEN [stream EXCEPT ![i].step = "reading"]
               ELSE Answered(i, "error")
  /\ UNCHANGED <<doc, cache, late>>
ReadEnds(i) ==
  /\ stream[i].step = "reading"
  /\ stream' \in {[stream EXCEPT ![i].step = "check"]} \cup
                 {Answered(i, what) : what \in {"error", "password"}}
  /\ doc' = Released(stream[i].doc, stream')
  /\ UNCHANGED <<cache, late>>
Check(i) ==
  /\ stream[i].step = "check"
  /\ stream' = IF Current(i) THEN [stream EXCEPT ![i].step = "put"]
               ELSE [stream EXCEPT ![i] = NoStream]
  /\ UNCHANGED <<doc, cache, late>>
Put(i) ==
  /\ stream[i].step = "put"
  /\ cache' = [cache EXCEPT ![Page(i)] = stream[i].doc]
  /\ stream' = Answered(i, "frame") /\ late' = (late \/ ~Current(i))
  /\ UNCHANGED doc

Work(i) ==
  /\ Look(i) \/ Read(i) \/ ReadEnds(i) \/ Check(i) \/ Put(i)
  /\ UNCHANGED <<view, pipe, opening, closing, sealed>>

\* _mark_page_unavailable
Failed(s, p) ==
  LET v == [s EXCEPT !.view.bad = @ \cup {p}] IN
  IF p = view.primary \/ p # view.companion THEN v
  ELSE Laid([v EXCEPT !.view.companion = 0])

\* _publish_item, _handle_page_prepared, _handle_page_prepare_failed
Deliver(i) ==
  /\ Current(i) /\ stream[i].items # <<>> /\ Room
  /\ LET item == Head(stream[i].items)
         p == item[1]
         s == [Now EXCEPT !.stream[i].items = Tail(@), !.pipe.pending = @ \ {p}] IN
     IF item[2] = "password"
     THEN /\ Becomes([Detached(s) EXCEPT !.view.stage = "prompt"])
          /\ CloseSource(pipe.source)
     ELSE /\ Becomes(IF item[2] = "frame" THEN Ready(s, p, stream[i].doc, Laid) ELSE Failed(s, p))
          /\ UNCHANGED <<doc, closing>>
  /\ UNCHANGED <<opening, sealed, late>>

StreamEnds(i) ==
  /\ stream[i].step = "done" /\ stream[i].items = <<>>
  /\ stream' = [stream EXCEPT ![i] = NoStream]
  /\ pipe' = [pipe EXCEPT !.stream = IF @ = i THEN 0 ELSE @]
  /\ UNCHANGED <<view, cache, doc, opening, closing, sealed, late>>

------------------------------------------------------------------------------
User == \/ \E d \in Docs : Open(d)
        \/ \E p \in Pages : Turn(p)
        \/ SetPrefetch \/ Dismiss \/ CloseWindow
Documents == \E d \in Docs : OpenWork(d) \/ OpenAnswer(d) \/ CloseWork(d)
Preparation == \E i \in Streams : Work(i) \/ Deliver(i) \/ StreamEnds(i)

Next == User \/ Documents \/ Preparation \/ Seal \/ Unseal \/ \E p \in Pages : Evict(p)
Spec == Init /\ [][Next]_vars

(* Workers finish what they run and queued signals are delivered.  What    *)
(* they do between two actions of the user comes to an end, so one         *)
(* condition for all of them says as much as one for each.  It is weak     *)
(* fairness written out, with Busy for the ENABLED of their steps, because *)
(* TLC expands a whole handler again wherever ENABLED meets its parts.     *)
Busy ==
  \/ \E d \in Docs : \/ opening[d].step \in {"queued", "running"}
                     \/ opening[d].step \in {"result", "failure", "password"} /\ Room
                     \/ closing[d] = "queued"
  \/ \E i \in Streams : \/ stream[i].step \notin {"none", "done"}
                        \/ Current(i) /\ stream[i].items # <<>> /\ Room
                        \/ stream[i].step = "done" /\ stream[i].items = <<>>
Fairness == []<>~Busy \/ []<><<Documents \/ Preparation>>_vars
FairSpec == Spec /\ Fairness

------------------------------------------------------------------------------
(* Properties                                                              *)

View == [stage : {"new", "loading", "reading", "prompt", "idle", "gone"}, primary : Pages,
         companion : Pages \cup {0}, ahead : BOOLEAN, changes : 0 .. Changes,
         shown : [Pages -> Docs \cup {0}], bad : SUBSET Pages]
Pipe == [source : Docs \cup {0}, pending : SUBSET Pages,
         stream : Streams \cup {0}, opening : Docs \cup {0}]
Working == {"read", "reading", "check", "put"}
Stream == [doc : Docs, visible : SUBSET Pages, prefetch : SUBSET Pages, step : Idle \cup Working,
           items : Seq(Pages \X {"frame", "error", "password"})]
Opening == [step : {"none", "queued", "refused", "running", "result", "failure", "password", "ended"},
            cancelled : BOOLEAN]

\* Every variable holds a value of its type, and a stream that works on a page
\* has one to work on.
TypeOK ==
  /\ view \in View /\ pipe \in Pipe /\ cache \in [Pages -> Docs \cup {0}]
  /\ stream \in [Streams -> Stream \cup {NoStream}]
  /\ \A i \in Streams : stream[i].step \in Working => Todo(stream[i]) # {}
  /\ doc \in [Docs -> {"none", "open", "closing", "closed"}]
  /\ opening \in [Docs -> Opening]
  /\ closing \in [Docs -> {"none", "queued", "ended", "dropped"}]
  /\ sealed \in BOOLEAN /\ late \in BOOLEAN

\* No open document is forgotten: it is the one shown, on its way to be, or
\* somebody is going to close it; a close that the seal dropped is the exception.
NoneForgotten == \A d \in Docs :
  /\ doc[d] = "open" => pipe.source = d \/ opening[d].step = "result" \/ closing[d] \in {"queued", "dropped"}
  /\ doc[d] = "closing" => Reading(stream, d)

\* The frames on the screen are of the document that is open, unless the cache
\* got one late.
ShownIsOpen == ~late => \A p \in Pages : view.shown[p] \in {0, pipe.source}

\* A page that is waited for is one that the current stream still brings: a
\* request that is taken for a repetition is never lost.
Brought(streams, i) ==
  IF i = 0 THEN {} ELSE Todo(streams[i]) \cup {item[1] : item \in Given(streams[i])}
AwaitedComes == pipe.pending \subseteq Brought(stream, pipe.stream)

Waits(p) == view.stage = "reading" /\ view.primary = p /\ view.shown[p] = 0 /\ p \notin view.bad
\* What the reader waits for comes: opening that was not refused by a sealed
\* scope ends in the pages, a prompt, an error or a closed window, and the page
\* turned to is shown or known to be unreadable, whatever happens to the
\* requests around it.
Refused == pipe.opening # 0 /\ opening[pipe.opening].step = "refused"
WaitsEnd ==
  /\ view.stage = "loading" /\ ~Refused ~> view.stage # "loading"
  /\ \A p \in Pages : Waits(p) ~> ~Waits(p)
=============================================================================
