------------------------------ MODULE FileTabs ------------------------------
(* The tabs of the explorer (client/src/utils/explorer/explorer.ts) as pure  *)
(* functions of ui = [tabs, currentIndex], an index of 0 where the code      *)
(* has -1.                                                                   *)
EXTENDS SequencesExt

CONSTANT None

NoTabs == [tabs |-> << >>, currentIndex |-> 0]

IndexOf(tabs, p) == SelectInSeq(tabs, LAMBDA t : t = p)

\* An index past the end reads as undefined.
CurrentFilePath(ui) ==
    IF ui.currentIndex \in DOMAIN ui.tabs THEN ui.tabs[ui.currentIndex] ELSE None

OpenFile(ui, p) ==
    LET tabs == IF Contains(ui.tabs, p) THEN ui.tabs ELSE Append(ui.tabs, p)
    IN  IF CurrentFilePath(ui) = p THEN ui
        ELSE [tabs |-> tabs, currentIndex |-> IndexOf(tabs, p)]

\* tabs.splice(tabs.indexOf(p), 1): without p the last tab goes.
Spliced(tabs, p) ==
    IF Contains(tabs, p) THEN RemoveFirst(tabs, p)
    ELSE IF tabs = << >> THEN tabs ELSE Front(tabs)

\* Mutant of CloseFile: the index is left as it is.
CloseFileStale(ui, p) == [ui EXCEPT !.tabs = Spliced(@, p)]

\* The next tab, or the last but one, is opened in place of the current; the
\* current path is then read again with the old index in the new tabs.
CloseFile(ui, p) ==
    LET n    == Len(ui.tabs)
        next == IF ui.currentIndex < n THEN ui.tabs[ui.currentIndex + 1]
                ELSE IF n > 1 THEN ui.tabs[n - 1] ELSE None
        open == IF CurrentFilePath(ui) = p /\ next # None
                THEN OpenFile(ui, next) ELSE ui
        rest == [open EXCEPT !.tabs = Spliced(@, p)]
    IN  IF CurrentFilePath(open) = None THEN open
        ELSE [rest EXCEPT !.currentIndex =
                  IndexOf(rest.tabs, CurrentFilePath(rest))]

\* One path after the other.
CloseAll(ui, paths) ==
    LET closed[k \in 0 .. Len(paths)] ==
            IF k = 0 THEN ui ELSE CloseFile(closed[k - 1], paths[k])
    IN  closed[Len(paths)]

\* The tabs that are in S, each where it is found first.
Distinct(tabs, S) ==
    LET first[k \in 0 .. Len(tabs)] ==
            IF k = 0 THEN << >>
            ELSE IF tabs[k] \notin S \/ Contains(first[k - 1], tabs[k])
                 THEN first[k - 1] ELSE Append(first[k - 1], tabs[k])
    IN  first[Len(tabs)]

WithoutDuplicates(tabs) == Distinct(tabs, ToSet(tabs))

SetTabs(ui, tabs) ==
    LET set == [ui EXCEPT !.tabs = WithoutDuplicates(tabs)]
    IN  IF CurrentFilePath(ui) = None THEN set
        ELSE [set EXCEPT !.currentIndex = IndexOf(set.tabs, CurrentFilePath(ui))]

\* deleteItem: the files of what is deleted are closed one by one, in the order
\* of the code's object; then the last tab is opened if the current was below.
CloseDeleted(ui, below, order) ==
    LET closed == CloseAll(ui, order)
    IN  IF CurrentFilePath(ui) \in below /\ closed.tabs # << >>
        THEN OpenFile(closed, Last(closed.tabs)) ELSE closed

\* renameItem: the tabs of files whose path is old get their new one, in their
\* place.
Renamed(ui, old, new, override) ==
    LET tabs  == [k \in DOMAIN ui.tabs |->
                    IF ui.tabs[k] \in old /\ IndexOf(ui.tabs, ui.tabs[k]) = k
                    THEN new[ui.tabs[k]] ELSE ui.tabs[k]]
        moved == [ui EXCEPT !.tabs = tabs]
    IN  IF override THEN SetTabs(moved, tabs) ELSE moved
=============================================================================
