--------------------------- MODULE WindowOwnership ---------------------------
(***************************************************************************)
(* The top-level windows of one process and who owns them.  A reader the   *)
(* library opened is owned by it and closes with it; a reader the system   *)
(* asked for is a root.  There is one reader for a document, so a reader   *)
(* is named by its document.                                               *)
(***************************************************************************)
CONSTANTS
  Docs,         \* documents
  Unopenable    \* documents open_reader() refuses

Windows ==
  {w \in [main : BOOLEAN, readers : SUBSET Docs, owned : SUBSET Docs] :
     w.owned \subseteq w.readers /\ (w.owned # {} => w.main)}
NoWindows == [main |-> FALSE, readers |-> {}, owned |-> {}]

HasWindows(w) == w.main \/ w.readers # {}

ShowLibrary(w) == [w EXCEPT !.main = TRUE]

(* Mutant: a reader the library owns is raised but not promoted. *)
OpenFilesUnpromoted(w, docs) == [w EXCEPT !.readers = @ \cup (docs \ Unopenable)]
(* open_files: every document that can be opened becomes a root, promoted  *)
(* if the library owned its reader.                                        *)
OpenFiles(w, docs) ==
  [w EXCEPT !.readers = @ \cup (docs \ Unopenable), !.owned = @ \ docs]

(* open_reader_from_library: a new reader is owned, a root stays one. *)
OpenFromLibrary(w, d) ==
  [w EXCEPT !.readers = @ \cup {d},
            !.owned = IF d \in w.readers THEN @ ELSE @ \cup {d}]

CloseReader(w, d) == [w EXCEPT !.readers = @ \ {d}, !.owned = @ \ {d}]

(* _handle_window_closed: the readers the library owns close before it. *)
CloseMain(w) == [main |-> FALSE, readers |-> w.readers \ w.owned, owned |-> {}]

(* would_close_all_windows of the main window, and of a reader. *)
MainIsLast(w)      == w.readers \subseteq w.owned
ReaderIsLast(w, d) == ~w.main /\ w.readers = {d}
=============================================================================
