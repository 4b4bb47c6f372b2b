------------------------------ MODULE Explorer ------------------------------
(* The explorer (client/src/utils/explorer): files and tabs of the open      *)
(* workspace in memory, all workspaces in IndexedDB, and the operations that *)
(* change both, await by await.  Contents and folders are left out.          *)
(*                                                                           *)
(* One operation is under way at a time; between its awaits the learner uses *)
(* the tabs, the editor saves metadata, and the page may be closed.          *)
EXTENDS FileTabs, FiniteSets

CONSTANTS
    Workspaces, Names,  \* names of workspaces, of the files of a workspace
    NewFiles,           \* what a new workspace is created with
    Extends,            \* the names that begin with a name
    MaxTabs             \* bound: tabs with which another is opened

ASSUME ExplorerAssumption ==
    /\ IsFiniteSet(Names)
    /\ NewFiles \in (SUBSET Names) \ {{}}
    /\ Extends \in [Names -> SUBSET Names]
    /\ MaxTabs \in Nat
    /\ None \notin Workspaces \cup Names \cup (Workspaces \X Names)

Paths == Workspaces \X Names
\* What path.startsWith takes for p or a part of it.
Under(p) == { <<p[1], n>> : n \in {p[2]} \cup Extends[p[2]] }

VARIABLES
    disk,       \* IndexedDB: the files in the directory of each workspace,
    dirs,       \*   the directories there are,
    metadata,   \*   what each .workspace/metadata.json says, or None,
    config,     \*   and /.config/workspaces.json
    workspace,  \* PgWorkspace: all names, and the current one
    files, ui,  \* PgExplorer: the files in memory; the tabs and the current
    op          \* the operation under way, or None

disks  == <<disk, dirs, metadata, config>>
memory == <<workspace, files, ui>>
vars   == <<disks, memory, op>>

Configs    == [names : SUBSET Workspaces, current : Workspaces \cup {None}]
NoConfig   == [names |-> {}, current |-> None]
Metadata   == [tabs : BoundedSeq(Names, Cardinality(Names)),
               current : Names \cup {None}]
NoMetadata == [tabs |-> << >>, current |-> None]

\* An operation: the await it is at; the workspace it is about and the one it
\* switches to; the file to open there; the files yet to be written, removed or
\* read; and whether it loads the page.
Steps == {"init", "save", "write", "remove", "rmdir", "names", "switch",
          "config", "lost", "read"}
Ops   == [at : Steps, ws : Workspaces \cup {None},
          to : Workspaces \cup {None}, name : Names \cup {None},
          todo : SUBSET Names, loading : BOOLEAN]
Loading == [at |-> "init", ws |-> None, to |-> None, name |-> None,
            todo |-> {}, loading |-> TRUE]
Do(at)  == [Loading EXCEPT !.at = at, !.loading = FALSE]

ASSUME NoneIsNoOperation == None \notin Ops

ExplorerTypeOK ==
    /\ disk \in [Workspaces -> SUBSET Names] /\ dirs \in SUBSET Workspaces
    /\ metadata \in [Workspaces -> Metadata \cup {None}]
    /\ config \in Configs /\ workspace \in Configs
    /\ files \in SUBSET Paths
    /\ ui \in [tabs : Seq(Paths), currentIndex : Nat]
    /\ ui.currentIndex <= Len(ui.tabs)
    /\ op \in Ops \cup {None}

Init ==
    /\ disk = [w \in Workspaces |-> {}] /\ dirs = {}
    /\ metadata = [w \in Workspaces |-> None]
    /\ config = NoConfig /\ workspace = NoConfig
    /\ files = {} /\ ui = NoTabs
    /\ op = Loading

Here(n) == <<workspace.current, n>>
At(step) == op # None /\ op.at = step
Go(step) == op' = [op EXCEPT !.at = step]
SwitchTo(w, default) == op' = [Loading EXCEPT !.at = "switch", !.to = w,
                                   !.name = default, !.loading = op.loading]
Done     == op' = None

-----------------------------------------------------------------------------
(* saveMeta: nothing is saved when a file of another workspace is in memory, *)
(* or none.  (A folder stays when its last file is deleted.)                 *)

CanSaveMeta ==
    /\ workspace.current # None
    /\ files # {} \/ At("save")
    /\ \A p \in files : p[1] = workspace.current

Meta ==
    LET tabs == Distinct(ui.tabs, files)
    IN  [tabs |-> [k \in DOMAIN tabs |-> tabs[k][2]],
         current |-> IF CurrentFilePath(ui) \in files
                     THEN CurrentFilePath(ui)[2] ELSE None]

\* Written with its parent directories.
SaveMeta ==
    /\ metadata' = IF CanSaveMeta
                   THEN [metadata EXCEPT ![workspace.current] = Meta]
                   ELSE metadata
    /\ dirs' = IF CanSaveMeta THEN dirs \cup {workspace.current} ELSE dirs

\* The last await of createItem, renameItem, deleteItem and switchWorkspace.
FinishWithMeta ==
    /\ At("save") /\ SaveMeta /\ Done
    /\ UNCHANGED <<disk, config, memory>>

-----------------------------------------------------------------------------
(* Items of the open workspace.  Until the disk has answered, nothing else   *)
(* changes: a call is the step that follows its first await.                 *)

Ready == op = None /\ workspace.current # None

\* open is what the options say of the tabs; all who pass some also override.
CreateItem(n, override, open) ==
    LET p       == Here(n)
        current == CurrentFilePath(ui) = p
        closed  == IF override /\ current /\ open # "dont"
                   THEN CloseFile(ui, p) ELSE ui
    IN  /\ Ready /\ Len(ui.tabs) < MaxTabs
        /\ p \in files \/ open # "open" => override
        /\ disk' = [disk EXCEPT ![workspace.current] = @ \cup {n}]
        /\ dirs' = dirs \cup {workspace.current}
        /\ files' = files \cup {p}
        /\ ui' = IF open = "open" \/ (open = "refresh" /\ current)
                 THEN OpenFile(closed, p) ELSE closed
        /\ op' = Do("save")
        /\ UNCHANGED <<metadata, config, workspace>>

\* A name that is taken is replaced only after the learner agreed.
RenameItem(n, m) ==
    /\ Ready /\ Here(n) \in files /\ n # m
    /\ disk' = [disk EXCEPT ![workspace.current] = (@ \ {n}) \cup {m}]
    /\ files' = (files \ {Here(n)}) \cup {Here(m)}
    /\ ui' = Renamed(ui, {Here(n)}, [p \in Paths |-> Here(m)], Here(m) \in files)
    /\ op' = Do("save")
    /\ UNCHANGED <<dirs, metadata, config, workspace>>

DeleteItem(n) ==
    LET below == Under(Here(n))
        gone  == files \cap below
    IN  /\ Ready /\ Here(n) \in files
        /\ disk' = [disk EXCEPT ![workspace.current] = @ \ {n}]
        /\ files' = files \ gone
        /\ \E order \in SetToSeqs(gone) : ui' = CloseDeleted(ui, below, order)
        /\ op' = Do("save")
        /\ UNCHANGED <<dirs, metadata, config, workspace>>

-----------------------------------------------------------------------------
(* switchWorkspace, the end of every operation on workspaces and of init.    *)

SwitchWorkspace(w, default) ==
    /\ op = None /\ w \in workspace.names
    /\ SaveMeta
    /\ op' = [Do("config") EXCEPT !.to = w, !.name = default]
    /\ UNCHANGED <<disk, config, memory>>

\* The same, as the end of another operation.
Switched ==
    /\ At("switch") /\ SaveMeta /\ Go("config")
    /\ UNCHANGED <<disk, config, memory>>

\* setWorkspaceName.
Switching ==
    IF op.to \in workspace.names THEN [workspace EXCEPT !.current = op.to]
    ELSE workspace

\* The files of w, its directory read first, or what to do without one.
Read(w) ==
    op' = [Loading EXCEPT !.at = IF w \in dirs THEN "read" ELSE "lost",
                          !.name = op.name, !.loading = op.loading,
                          !.todo = IF w \in dirs THEN disk[w] ELSE {}]

\* Mutant of SaveConfig: the files of the last workspace stay in memory.
SaveConfigOnly ==
    /\ At("config")
    /\ workspace' = Switching /\ config' = Switching
    /\ Read(Switching.current)
    /\ UNCHANGED <<disk, dirs, metadata, files, ui>>

\* Then _initCurrentWorkspace begins to read the directory, if there is one.
SaveConfig ==
    /\ At("config")
    /\ workspace' = Switching /\ config' = Switching
    /\ files' = {} /\ Read(Switching.current)
    /\ UNCHANGED <<disk, dirs, metadata, ui>>

ReadFile(n) ==
    /\ At("read") /\ n \in op.todo
    /\ files' = files \cup {Here(n)}
    /\ op' = [op EXCEPT !.todo = @ \ {n}]
    /\ UNCHANGED <<disks, workspace, ui>>

\* init's sanity check: with tabs but no current file the first is opened.
Sane(tabs) ==
    IF op.loading /\ tabs.tabs # << >> /\ CurrentFilePath(tabs) = None
    THEN OpenFile(tabs, Head(tabs.tabs)) ELSE tabs

ReadMetadata ==
    LET meta == IF metadata[workspace.current] = None THEN NoMetadata
                ELSE metadata[workspace.current]
        tabs == [k \in DOMAIN meta.tabs |-> Here(meta.tabs[k])]
        set  == SetTabs(ui, tabs)
        read == [set EXCEPT !.currentIndex =
                    IF meta.current = None THEN 0
                    ELSE IndexOf(set.tabs, Here(meta.current))]
    IN  /\ At("read") /\ op.todo = {}
        /\ ui' = IF op.name = None THEN Sane(read) ELSE OpenFile(read, Here(op.name))
        /\ IF op.name = None THEN Done ELSE op' = Do("save")
        /\ UNCHANGED <<disks, workspace, files>>

\* The current workspace has no directory: it is dropped for one that has, if
\* that is listed.  Without any directory `new PgWorkspace()` should forget all
\* names, but its default state is the object the names were read into.
Recover ==
    /\ At("lost")
    /\ IF workspace.names = {} \/ dirs = {} THEN UNCHANGED workspace
       ELSE \E w \in dirs :
              LET names == workspace.names \ {workspace.current}
              IN  workspace' = [names |-> names,
                                current |-> IF w \in names THEN w
                                            ELSE workspace.current]
    /\ IF workspace.names = {} THEN Done ELSE Go("config")
    /\ UNCHANGED <<disks, files, ui>>

-----------------------------------------------------------------------------
(* Workspaces.                                                               *)

\* The name is taken at once; the config is saved only by the switch.
CreateWorkspace(w, default) ==
    /\ op = None /\ w \notin workspace.names /\ default \in NewFiles
    /\ workspace' = [names |-> workspace.names \cup {w}, current |-> w]
    /\ op' = [Do("write") EXCEPT !.ws = w, !.name = default, !.todo = NewFiles]
    /\ UNCHANGED <<disks, files, ui>>

WriteFile(n) ==
    /\ At("write") /\ n \in op.todo
    /\ disk' = [disk EXCEPT ![op.ws] = @ \cup {n}]
    /\ dirs' = dirs \cup {op.ws}
    /\ IF op.todo = {n} THEN SwitchTo(op.ws, op.name)
       ELSE op' = [op EXCEPT !.todo = @ \ {n}]
    /\ UNCHANGED <<metadata, config, memory>>

\* renameItem of the directory, in place of one of that name; memory follows,
\* and the name where it is listed.
MoveWorkspace(v) ==
    LET w == workspace.current
        moved == [p \in Paths |-> <<v, p[2]>>]
    IN  /\ Ready /\ w \in dirs
        /\ disk' = [disk EXCEPT ![v] = disk[w], ![w] = {}]
        /\ dirs' = (dirs \ {w}) \cup {v}
        /\ metadata' = [metadata EXCEPT ![v] = metadata[w], ![w] = None]
        /\ files' = { moved[p] : p \in files }
        /\ ui' = Renamed(ui, files, moved, FALSE)
        /\ workspace' = [names |-> { IF x = w THEN v ELSE x : x \in workspace.names },
                         current |-> v]
        /\ op' = [Do("switch") EXCEPT !.to = v]
        /\ UNCHANGED config

\* Mutant of RenameWorkspace: a name that is taken is accepted.
RenameWorkspaceTaken(v) == v # workspace.current /\ MoveWorkspace(v)

RenameWorkspace(v) == v \notin workspace.names /\ MoveWorkspace(v)

DeleteWorkspace ==
    /\ Ready /\ workspace.current \in dirs
    /\ op' = [Do("remove") EXCEPT !.ws = workspace.current, !.todo = disk[workspace.current]]
    /\ UNCHANGED <<disks, memory>>

RemoveFile(n) ==
    /\ At("remove") /\ n \in op.todo
    /\ disk' = [disk EXCEPT ![op.ws] = @ \ {n}]
    /\ op' = [op EXCEPT !.todo = @ \ {n}]
    /\ UNCHANGED <<dirs, metadata, config, memory>>

RemoveMetadata ==
    /\ At("remove") /\ op.todo = {}
    /\ metadata' = [metadata EXCEPT ![op.ws] = None]
    /\ Go("rmdir")
    /\ UNCHANGED <<disk, dirs, config, memory>>

\* Mutant of RemoveDir: the name of the workspace stays.
RemoveDirOnly ==
    LET below == {op.ws} \X Names
        gone  == files \cap below
    IN  /\ At("rmdir")
        /\ dirs' = IF metadata[op.ws] = None THEN dirs \ {op.ws} ELSE dirs
        /\ files' = files \ gone
        /\ \E order \in SetToSeqs(gone) : ui' = CloseDeleted(ui, below, order)
        /\ IF workspace.names = {op.ws}
           THEN Go("names") /\ workspace' = NoConfig
           ELSE \E w \in workspace.names \ {op.ws} :
                   SwitchTo(w, None) /\ UNCHANGED workspace
        /\ UNCHANGED <<disk, metadata, config>>

\* The directory stays if something was written to it meanwhile.
RemoveDir ==
    LET below == {op.ws} \X Names
        gone  == files \cap below
        names == workspace.names \ {op.ws}
    IN  /\ At("rmdir")
        /\ dirs' = IF metadata[op.ws] = None THEN dirs \ {op.ws} ELSE dirs
        /\ files' = files \ gone
        /\ \E order \in SetToSeqs(gone) : ui' = CloseDeleted(ui, below, order)
        /\ IF names = {} THEN Go("names") /\ workspace' = NoConfig
           ELSE \E w \in names :
                   /\ SwitchTo(w, None)
                   /\ workspace' = [workspace EXCEPT !.names = names]
        /\ UNCHANGED <<disk, metadata, config>>

SaveNames ==
    /\ At("names") /\ config' = workspace /\ Done
    /\ UNCHANGED <<disk, dirs, metadata, memory>>

-----------------------------------------------------------------------------
(* The page.                                                                 *)

\* The tab bar and the file tree, at any time once the page is loaded.
Loaded == op # None => ~op.loading
ClickFile(p) ==
    /\ Loaded /\ p \in files \cup ToSet(ui.tabs)
    /\ Len(ui.tabs) < MaxTabs \/ Contains(ui.tabs, p)
    /\ ui' = OpenFile(ui, p)
    /\ UNCHANGED <<disks, workspace, files, op>>
\* A tab, the others, those to its right, or all: one by one.
CloseTabs ==
    /\ Loaded
    /\ \E k \in DOMAIN ui.tabs :
          \E closed \in {<<ui.tabs[k]>>, RemoveAt(ui.tabs, k),
                         SubSeq(ui.tabs, k + 1, Len(ui.tabs)), ui.tabs} :
             ui' = CloseAll(ui, closed)
    /\ UNCHANGED <<disks, workspace, files, op>>
DragTab ==
    /\ Loaded
    /\ \E i, j \in DOMAIN ui.tabs :
          /\ i # j
          /\ ui' = SetTabs(ui, InsertAt(RemoveAt(ui.tabs, i), j, ui.tabs[i]))
    /\ UNCHANGED <<disks, workspace, files, op>>

\* The editor's timer, every five seconds.
SaveMetadata ==
    /\ CanSaveMeta /\ SaveMeta
    /\ UNCHANGED <<disk, config, memory, op>>

\* At any time: memory is lost, what was written stays.
ClosePage ==
    /\ op' = Loading
    /\ workspace' = NoConfig /\ files' = {} /\ ui' = NoTabs
    /\ UNCHANGED disks

\* init.
InitWorkspaces ==
    /\ At("init")
    /\ workspace' = config
    /\ IF config.current \in config.names THEN SwitchTo(config.current, None)
       ELSE Done
    /\ UNCHANGED <<disks, files, ui>>

-----------------------------------------------------------------------------
Call ==
    \/ \E n \in Names, override \in BOOLEAN, open \in {"open", "refresh", "dont"} :
          CreateItem(n, override, open)
    \/ \E n, m \in Names : RenameItem(n, m)
    \/ \E n \in Names : DeleteItem(n)
    \/ \E w \in Workspaces, default \in NewFiles :
          SwitchWorkspace(w, default) \/ CreateWorkspace(w, default)
    \/ \E w \in Workspaces : SwitchWorkspace(w, None) \/ RenameWorkspace(w)
    \/ DeleteWorkspace

\* What follows each await of an operation.
Advance ==
    \/ InitWorkspaces \/ FinishWithMeta
    \/ Switched \/ SaveConfig \/ ReadMetadata \/ Recover
    \/ RemoveMetadata \/ RemoveDir \/ SaveNames
    \/ \E n \in Names : ReadFile(n) \/ WriteFile(n) \/ RemoveFile(n)

Page ==
    \/ \E p \in Paths : ClickFile(p)
    \/ CloseTabs \/ DragTab \/ SaveMetadata \/ ClosePage

Next == Call \/ Advance \/ Page

Spec == Init /\ [][Next]_vars

-----------------------------------------------------------------------------
\* Between operations memory is the workspace on disk: the config is saved, and
\* no file or tab is another workspace's or missing on disk.  If the workspace is
\* listed it has its directory, and every file in it is in memory, but for those
\* whose name begins with another's (deleteItem takes them from memory with it).
\* A switch, a deletion or a page that was closed anywhere could leave files of
\* another workspace, or half of one.
OpenIsWhole ==
    op = None =>
    /\ config = workspace
    /\ \A p \in files : p[1] = workspace.current /\ p[2] \in disk[p[1]]
    /\ workspace.current # None =>
         \A p \in ToSet(ui.tabs) : p[1] = workspace.current
    /\ workspace.current \in workspace.names =>
         /\ workspace.current \in dirs
         /\ \A n \in disk[workspace.current] :
               Here(n) \in files \/ \E m \in Names \ {n} : n \in Extends[m]

\* A workspace the saved config lists has its directory, but for the current
\* one while it is renamed or deleted: names and directories are saved by
\* different writes, in this order, and a page may be closed between them.
ListedOnDisk == \A w \in config.names : w = config.current \/ w \in dirs

\* A file of a listed workspace leaves the disk only while that workspace is
\* current, and then because it is deleted, also from memory, or has moved with
\* its workspace: no operation on one workspace writes over another.
FilesAreKept ==
    [][\A w \in config.names, n \in Names :
         n \in disk[w] /\ n \notin disk'[w] =>
            /\ w = workspace.current
            /\ \/ At("remove") \/ Here(n) \notin files'
               \/ n \in disk'[workspace'.current]]_vars

\* explorer.ts:1155-1159: if the current workspace is not on disk, "set the
\* current workspace name to either the last workspace, or reset all workspaces in
\* the case of no valid workspace directory".  The page then loads that one, or
\* none; else the recursion of _initCurrentWorkspace comes back to where it was.
RecoveryFindsOne ==
    [][At("lost") /\ op' = [op EXCEPT !.at = "config"] =>
         \/ workspace' = NoConfig
         \/ workspace'.current \in workspace'.names \cap dirs]_vars
=============================================================================
