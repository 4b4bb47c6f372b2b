--------------------------- MODULE ExplorerProofs ---------------------------
(* Theorems about Explorer, for every set of workspaces and of names, and    *)
(* however often the page is closed.                                         *)
EXTENDS Explorer, TLAPS, SequenceTheorems, FiniteSetTheorems

\* What the arguments need of the types.
Typed ==
    /\ disk \in [Workspaces -> SUBSET Names] /\ dirs \in SUBSET Workspaces
    /\ config \in Configs /\ workspace \in Configs
    /\ op \in Ops \cup {None}

\* The steps of an operation at which the saved config is the one in memory.
AtRest == op = None \/ op.at \in {"save", "read", "lost", "remove", "rmdir"}

ConfigIsSaved == AtRest => config = workspace
RemovesHere   == op # None /\ op.at \in {"remove", "rmdir"} => op.ws = workspace.current

\* Which workspaces in memory have their directories.
NamesHaveDirs ==
    /\ config.names \ {config.current} \subseteq dirs
    /\ AtRest /\ ~ At("lost") => workspace.names \subseteq dirs
    /\ At("lost") => workspace.names \ {workspace.current} \subseteq dirs
    /\ At("write") => /\ workspace.names \ {op.ws} \subseteq dirs
                      /\ op.ws \in Workspaces /\ op.todo # {}
    /\ At("switch") \/ At("config") =>
          workspace.names \ {Switching.current} \subseteq dirs
    /\ At("names") => workspace.names = {}

IInv == Typed /\ ConfigIsSaved /\ RemovesHere /\ NamesHaveDirs

\* The page is first loaded from an empty disk.
LEMMA InitIInv == Init => IInv
  <1> SUFFICES ASSUME Init PROVE IInv
    OBVIOUS
  <1> USE DEF Init
  <1>1. Loading \in Ops /\ Loading.at = "init"
    BY DEF Ops, Loading, Steps
  <1>2. op # None
    BY <1>1, NoneIsNoOperation
  <1>3. NoConfig \in Configs
    BY DEF Configs, NoConfig
  <1>4. Typed
    BY <1>1, <1>3 DEF Typed
  <1> QED BY <1>1, <1>2, <1>4 DEF IInv, ConfigIsSaved, RemovesHere, NamesHaveDirs,
        AtRest, At, NoConfig

\* Saving metadata disturbs nothing: it can only add a directory.
LEMMA SaveMetaAdds ==
    ASSUME Typed, SaveMeta PROVE dirs' \in SUBSET Workspaces /\ dirs \subseteq dirs'
  BY DEF SaveMeta, CanSaveMeta, Typed, Configs

\* An operation on items has a workspace to work in.
LEMMA OpenWorkspace ==
    ASSUME Typed, Ready PROVE workspace.current \in Workspaces
  BY DEF Typed, Ready, Configs

\* Operations as the steps make them.
LEMMA NewOperation ==
    ASSUME NEW at \in Steps
    PROVE  /\ Do(at) \in Ops /\ Do(at).at = at /\ Do(at).todo = {}
           /\ Do(at).to = None /\ Do(at).ws = None
  BY DEF Do, Loading, Ops, Steps

\* An operation that goes on to its next await.
LEMMA NextStep ==
    ASSUME NEW at \in Steps, NEW o \in Ops, NEW p, p = [o EXCEPT !.at = at]
    PROVE  p \in Ops /\ p.at = at /\ p.ws = o.ws /\ p.to = o.to
  BY DEF Ops

\* An operation that ends with a switch.
LEMMA NewSwitch ==
    ASSUME NEW w \in Workspaces, NEW n \in Names \cup {None}, op \in Ops, SwitchTo(w, n)
    PROVE  op' \in Ops /\ op'.at = "switch" /\ op'.to = w
  BY DEF SwitchTo, Ops, Loading, Steps

-----------------------------------------------------------------------------
(* Every step preserves the invariant.                                       *)

\* Operations on items leave the names and directories as they are.
LEMMA ItemsIInv ==
    ASSUME IInv, NEW n \in Names, NEW m \in Names, NEW override, NEW open,
           \/ CreateItem(n, override, open) \/ RenameItem(n, m) \/ DeleteItem(n)
    PROVE  IInv'
  <1>1. /\ op = None /\ op' = Do("save") /\ workspace.current \in Workspaces
        /\ UNCHANGED <<metadata, config, workspace>>
        /\ dirs' \in SUBSET Workspaces /\ dirs \subseteq dirs'
        /\ disk' \in [Workspaces -> SUBSET Names]
    BY OpenWorkspace DEF CreateItem, RenameItem, DeleteItem, Ready, IInv, Typed
  <1>2. op' \in Ops /\ op'.at = "save" /\ op' # None
    BY <1>1, NewOperation, NoneIsNoOperation DEF Steps
  <1>3. Typed'
    BY <1>1, <1>2 DEF IInv, Typed
  <1> QED BY <1>1, <1>2, <1>3 DEF IInv, ConfigIsSaved, RemovesHere, NamesHaveDirs,
        AtRest, At

\* A switch is to a workspace that is listed.
LEMMA SwitchIInv ==
    ASSUME IInv, NEW w \in Workspaces, NEW n \in Names \cup {None},
           SwitchWorkspace(w, n)
    PROVE  IInv'
  <1>1. /\ op = None /\ w \in workspace.names
        /\ op' = [Do("config") EXCEPT !.to = w, !.name = n]
        /\ UNCHANGED <<disk, config, workspace>>
        /\ dirs' \in SUBSET Workspaces /\ dirs \subseteq dirs'
    BY SaveMetaAdds DEF SwitchWorkspace, IInv, memory
  <1>2. op' \in Ops /\ op'.at = "config" /\ op'.to = w /\ op' # None
    <2>1. op' \in Ops /\ op'.at = "config" /\ op'.to = w
      BY <1>1 DEF Do, Loading, Ops, Steps
    <2> QED BY <2>1, NoneIsNoOperation
  <1>3. Typed'
    BY <1>1, <1>2 DEF IInv, Typed
  <1>4. Switching' = [workspace EXCEPT !.current = w]
    BY <1>1, <1>2 DEF Switching
  <1> QED BY <1>1, <1>2, <1>3, <1>4 DEF IInv, ConfigIsSaved, RemovesHere,
        NamesHaveDirs, AtRest, At

\* The same at the end of another operation.
LEMMA SwitchedIInv == ASSUME IInv, Switched PROVE IInv'
  <1>1. /\ op # None /\ op.at = "switch" /\ op' = [op EXCEPT !.at = "config"]
        /\ UNCHANGED <<disk, config, workspace>>
        /\ dirs' \in SUBSET Workspaces /\ dirs \subseteq dirs'
    BY SaveMetaAdds DEF Switched, Go, At, IInv, memory
  <1>2. op' \in Ops /\ op'.at = "config" /\ op'.to = op.to /\ op' # None
    BY <1>1, NextStep, NoneIsNoOperation DEF IInv, Typed, Steps
  <1>3. Typed'
    BY <1>1, <1>2 DEF IInv, Typed
  <1>4. Switching' = Switching
    BY <1>1, <1>2 DEF Switching
  <1> QED BY <1>1, <1>2, <1>3, <1>4 DEF IInv, ConfigIsSaved, RemovesHere,
        NamesHaveDirs, AtRest, At

\* The workspace that is switched to has its directory or is lost.
LEMMA SaveConfigIInv == ASSUME IInv, SaveConfig PROVE IInv'
  <1>1. /\ op \in Ops /\ op # None /\ op.at = "config"
        /\ workspace' = Switching /\ config' = Switching
        /\ UNCHANGED <<disk, dirs>> /\ Read(Switching.current)
    BY DEF SaveConfig, At, IInv, Typed
  <1>2. Switching \in Configs /\ Switching.names = workspace.names
    BY <1>1 DEF Switching, IInv, Typed, Configs
  <1>3. /\ op' \in Ops
        /\ op'.at = IF Switching.current \in dirs THEN "read" ELSE "lost"
    BY <1>1 DEF Read, Loading, Ops, Steps, IInv, Typed
  <1>4. op' # None
    BY <1>3, NoneIsNoOperation
  <1>5. Typed'
    BY <1>1, <1>2, <1>3 DEF IInv, Typed
  <1>6. workspace.names \ {Switching.current} \subseteq dirs
    BY <1>1 DEF IInv, NamesHaveDirs, At
  <1> QED BY <1>1, <1>2, <1>3, <1>4, <1>5, <1>6 DEF IInv, ConfigIsSaved, RemovesHere,
        NamesHaveDirs, AtRest, At

\* Reading a directory changes memory only.
LEMMA ReadIInv ==
    ASSUME IInv, NEW n \in Names, ReadFile(n) \/ ReadMetadata
    PROVE  IInv'
  <1>1. /\ op \in Ops /\ op # None /\ op.at = "read"
        /\ UNCHANGED <<disk, dirs, config, workspace>>
    BY DEF ReadFile, ReadMetadata, At, IInv, Typed, disks
  <1>2. \/ op' = None
        \/ op' \in Ops /\ op' # None /\ op'.at \in {"read", "save"}
    <2>1. CASE ReadFile(n)
      <3>1. op' \in Ops /\ op'.at = "read"
        BY <1>1, <2>1 DEF ReadFile, Ops
      <3> QED BY <3>1, NoneIsNoOperation
    <2>2. CASE ReadMetadata
      BY <2>2, NewOperation, NoneIsNoOperation DEF ReadMetadata, Done, Steps
    <2> QED BY <2>1, <2>2
  <1>3. Typed'
    BY <1>1, <1>2 DEF IInv, Typed
  <1> QED BY <1>1, <1>2, <1>3 DEF IInv, ConfigIsSaved, RemovesHere, NamesHaveDirs,
        AtRest, At

\* What stays of the names when the current one is dropped has directories.
LEMMA RecoverIInv == ASSUME IInv, Recover PROVE IInv'
  <1>1. /\ op \in Ops /\ op # None /\ op.at = "lost"
        /\ UNCHANGED <<disk, dirs, config>>
    BY DEF Recover, At, IInv, Typed, disks
  <1>2. /\ workspace' \in Configs
        /\ \/ workspace' = workspace /\ (workspace.names = {} \/ dirs = {})
           \/ workspace'.names = workspace.names \ {workspace.current}
    BY DEF Recover, IInv, Typed, Configs
  <1>3. workspace.names \ {workspace.current} \subseteq dirs
    BY <1>1 DEF IInv, NamesHaveDirs, At
  <1>4. CASE workspace.names = {}
    <2>1. op' = None /\ workspace' = workspace
      BY <1>4 DEF Recover, Done
    <2> QED BY <1>1, <1>4, <2>1 DEF IInv, Typed, ConfigIsSaved, RemovesHere,
          NamesHaveDirs, AtRest, At
  <1>5. CASE workspace.names # {}
    <2>1. op' = [op EXCEPT !.at = "config"]
      BY <1>5 DEF Recover, Go
    <2>2. op' \in Ops /\ op'.at = "config" /\ op' # None
      BY <1>1, <2>1, NextStep, NoneIsNoOperation DEF Steps
    <2>3. Typed'
      BY <1>1, <1>2, <2>2 DEF IInv, Typed
    <2>4. /\ Switching' \in Configs /\ Switching'.names = workspace'.names
          /\ \/ Switching'.current = workspace'.current
             \/ Switching'.current \in workspace'.names
      BY <1>2 DEF Switching, Configs
    <2>5. workspace'.names \ {Switching'.current} \subseteq dirs
      <3>1. CASE workspace'.names = workspace.names \ {workspace.current}
        BY <1>3, <3>1
      <3>2. CASE workspace' = workspace /\ dirs = {}
        BY <1>3, <2>4, <3>2 DEF IInv, Typed, Configs
      <3> QED BY <1>2, <1>5, <3>1, <3>2
    <2> QED BY <1>1, <2>2, <2>3, <2>5 DEF IInv, ConfigIsSaved, RemovesHere,
          NamesHaveDirs, AtRest, At
  <1> QED BY <1>4, <1>5

\* A name is taken before its directory is there.
LEMMA CreateIInv ==
    ASSUME IInv, NEW w \in Workspaces, NEW n \in NewFiles, CreateWorkspace(w, n)
    PROVE  IInv'
  <1>1. /\ op = None /\ UNCHANGED <<disk, dirs, config>>
        /\ workspace' = [names |-> workspace.names \cup {w}, current |-> w]
        /\ op' = [Do("write") EXCEPT !.ws = w, !.name = n, !.todo = NewFiles]
    BY DEF CreateWorkspace, disks
  <1>2. /\ op' \in Ops /\ op'.at = "write" /\ op'.ws = w /\ op'.todo = NewFiles
    BY <1>1, ExplorerAssumption DEF Do, Loading, Ops, Steps
  <1>3. op' # None /\ NewFiles # {}
    BY <1>2, NoneIsNoOperation, ExplorerAssumption
  <1>4. Typed'
    BY <1>1, <1>2 DEF IInv, Typed, Configs
  <1> QED BY <1>1, <1>2, <1>3, <1>4 DEF IInv, ConfigIsSaved, RemovesHere,
        NamesHaveDirs, AtRest, At

\* With its first file a new workspace has its directory.
LEMMA WriteIInv ==
    ASSUME IInv, NEW n \in Names, WriteFile(n) PROVE IInv'
  <1>1. /\ op \in Ops /\ op # None /\ op.at = "write" /\ n \in op.todo
        /\ UNCHANGED <<config, workspace>>
        /\ disk' = [disk EXCEPT ![op.ws] = @ \cup {n}]
        /\ dirs' = dirs \cup {op.ws}
    BY DEF WriteFile, At, IInv, Typed, memory
  <1> USE <1>1
  <1>2. workspace.names \subseteq dirs'
    BY DEF IInv, NamesHaveDirs, At
  <1>3. disk' \in [Workspaces -> SUBSET Names]
    BY DEF IInv, Typed
  <1>4. CASE op.todo = {n} /\ op.ws \in Workspaces
    <2>1. SwitchTo(op.ws, op.name) /\ op.name \in Names \cup {None}
      BY <1>4 DEF WriteFile, Ops
    <2>2. op' \in Ops /\ op'.at = "switch" /\ op'.to = op.ws
      BY <1>4, <2>1, NewSwitch
    <2>3. op' # None
      BY <2>2, NoneIsNoOperation
    <2>4. Typed'
      BY <1>3, <1>4, <2>2 DEF IInv, Typed
    <2> QED BY <1>2, <2>2, <2>3, <2>4 DEF IInv, ConfigIsSaved, RemovesHere,
          NamesHaveDirs, AtRest, At
  <1>5. CASE op.todo # {n} /\ op.ws \in Workspaces
    <2>1. op' = [op EXCEPT !.todo = @ \ {n}]
      BY <1>5 DEF WriteFile
    <2>2. /\ op' \in Ops /\ op'.at = "write" /\ op'.ws = op.ws
          /\ op'.todo # {}
      BY <1>5, <2>1 DEF Ops
    <2>3. op' # None
      BY <2>2, NoneIsNoOperation
    <2>4. Typed'
      BY <1>3, <1>5, <2>2 DEF IInv, Typed
    <2> QED BY <1>2, <2>2, <2>3, <2>4 DEF IInv, ConfigIsSaved, RemovesHere,
          NamesHaveDirs, AtRest, At
  <1>6. op.ws \in Workspaces
    BY DEF IInv, NamesHaveDirs, At
  <1> QED BY <1>4, <1>5, <1>6

\* The directory of a renamed workspace is there before its name is saved.
LEMMA RenameIInv ==
    ASSUME IInv, NEW v \in Workspaces, RenameWorkspace(v) PROVE IInv'
  <1> DEFINE w == workspace.current
             renamed == { IF x = w THEN v ELSE x : x \in workspace.names }
  <1>1. /\ op = None /\ w \in Workspaces /\ v \notin workspace.names
        /\ disk' = [disk EXCEPT ![v] = disk[w], ![w] = {}]
        /\ dirs' = (dirs \ {w}) \cup {v}
        /\ workspace' = [names |-> renamed, current |-> v]
        /\ op' = [Do("switch") EXCEPT !.to = v] /\ config' = config
    BY OpenWorkspace DEF RenameWorkspace, MoveWorkspace, Ready, IInv
  <1>2. renamed \subseteq (workspace.names \ {w}) \cup {v}
    OBVIOUS
  <1> HIDE DEF renamed
  <1>3. op' \in Ops /\ op'.at = "switch" /\ op'.to = v
    BY <1>1 DEF Do, Loading, Ops, Steps
  <1>4. op' # None
    BY <1>3, NoneIsNoOperation
  <1>5. Typed'
    BY <1>1, <1>2, <1>3 DEF IInv, Typed, Configs
  <1>6. Switching' = workspace'
    BY <1>1, <1>3 DEF Switching
  <1>7. config = workspace /\ workspace.names \subseteq dirs
    BY <1>1 DEF IInv, ConfigIsSaved, NamesHaveDirs, AtRest, At
  <1> QED BY <1>1, <1>2, <1>3, <1>4, <1>5, <1>6, <1>7 DEF IInv, ConfigIsSaved,
        RemovesHere, NamesHaveDirs, AtRest, At

\* A removal is of the current workspace.
LEMMA RemoveIInv ==
    ASSUME IInv, NEW n \in Names, DeleteWorkspace \/ RemoveFile(n) \/ RemoveMetadata
    PROVE  IInv'
  <1>1. /\ UNCHANGED <<dirs, config, workspace>>
        /\ disk' \in [Workspaces -> SUBSET Names]
        /\ AtRest /\ ~ At("lost")
    BY DEF DeleteWorkspace, RemoveFile, RemoveMetadata, Ready, At, AtRest, IInv, Typed,
           disks, memory
  <1>2. /\ op' \in Ops /\ op'.at \in {"remove", "rmdir"}
        /\ op'.ws = workspace.current
    <2>1. CASE DeleteWorkspace
      <3>1. /\ op' = [Do("remove") EXCEPT !.ws = workspace.current,
                                          !.todo = disk[workspace.current]]
            /\ workspace.current \in Workspaces
        BY <2>1, OpenWorkspace DEF DeleteWorkspace, IInv
      <3> QED BY <3>1 DEF Do, Loading, Ops, Steps, IInv, Typed
    <2>2. CASE RemoveFile(n)
      BY <2>2 DEF RemoveFile, At, Ops, Steps, IInv, Typed, RemovesHere
    <2>3. CASE RemoveMetadata
      BY <2>3, NextStep DEF RemoveMetadata, Go, At, Steps, IInv, Typed, RemovesHere
    <2> QED BY <2>1, <2>2, <2>3
  <1>3. op' # None
    BY <1>2, NoneIsNoOperation
  <1>4. Typed'
    BY <1>1, <1>2 DEF IInv, Typed
  <1> QED BY <1>1, <1>2, <1>3, <1>4 DEF IInv, ConfigIsSaved, RemovesHere,
        NamesHaveDirs, AtRest, At

\* A directory that is removed takes its name along.
LEMMA RemoveDirIInv == ASSUME IInv, RemoveDir PROVE IInv'
  <1> DEFINE names == workspace.names \ {op.ws}
  <1>1. /\ op \in Ops /\ op # None /\ op.at = "rmdir"
        /\ UNCHANGED <<disk, config>>
        /\ dirs' \in SUBSET Workspaces /\ dirs \ {op.ws} \subseteq dirs'
    BY DEF RemoveDir, At, IInv, Typed
  <1>2. /\ config = workspace /\ op.ws = workspace.current
        /\ workspace.names \subseteq dirs
    BY <1>1 DEF IInv, ConfigIsSaved, RemovesHere, NamesHaveDirs, AtRest, At
  <1>3. config'.names \ {config'.current} \subseteq dirs' /\ names \subseteq dirs'
    BY <1>1, <1>2
  <1>4. CASE names = {}
    <2>1. op' = [op EXCEPT !.at = "names"] /\ workspace' = NoConfig
      BY <1>4 DEF RemoveDir, Go
    <2>2. op' \in Ops /\ op'.at = "names" /\ op' # None
      BY <1>1, <2>1, NextStep, NoneIsNoOperation DEF Steps
    <2>3. Typed'
      BY <1>1, <2>1, <2>2 DEF IInv, Typed, NoConfig, Configs
    <2> QED BY <1>3, <2>1, <2>2, <2>3 DEF IInv, ConfigIsSaved, RemovesHere,
          NamesHaveDirs, AtRest, At, NoConfig
  <1>5. CASE names # {}
    <2>1. PICK w \in names : /\ SwitchTo(w, None)
                             /\ workspace' = [workspace EXCEPT !.names = names]
      BY <1>5 DEF RemoveDir
    <2>2. w \in Workspaces
      BY <1>2 DEF IInv, Typed, Configs
    <2>3. op' \in Ops /\ op'.at = "switch" /\ op'.to = w
      BY <1>1, <2>1, <2>2, NewSwitch
    <2>4. op' # None
      BY <2>3, NoneIsNoOperation
    <2>5. workspace' \in Configs /\ workspace'.names = names
      BY <2>1 DEF IInv, Typed, Configs
    <2>6. Typed'
      BY <1>1, <2>3, <2>5 DEF IInv, Typed
    <2>7. Switching'.names = names
      BY <2>5 DEF Switching, Configs
    <2> QED BY <1>3, <2>3, <2>4, <2>5, <2>6, <2>7 DEF IInv, ConfigIsSaved,
          RemovesHere, NamesHaveDirs, AtRest, At
  <1> QED BY <1>4, <1>5

\* The last await of an operation.
LEMMA EndIInv == ASSUME IInv, FinishWithMeta \/ SaveNames PROVE IInv'
  <1>1. /\ UNCHANGED <<disk, workspace>> /\ op' = None
        /\ dirs' \in SUBSET Workspaces /\ dirs \subseteq dirs'
        /\ op # None
        /\ \/ op.at = "save" /\ config' = config
           \/ op.at = "names" /\ config' = workspace
    BY SaveMetaAdds DEF FinishWithMeta, SaveNames, Done, At, IInv, Typed, memory
  <1>2. Typed'
    BY <1>1 DEF IInv, Typed
  <1> QED BY <1>1, <1>2 DEF IInv, ConfigIsSaved, RemovesHere, NamesHaveDirs, AtRest,
        At

\* The tabs, the timer and a page that is closed.
LEMMA PageIInv == ASSUME IInv, Page \/ UNCHANGED vars PROVE IInv'
  <1>1. CASE ClosePage
    <2>1. /\ op' = Loading /\ workspace' = NoConfig /\ UNCHANGED <<disk, dirs, config>>
      BY <1>1 DEF ClosePage, disks
    <2>2. op' \in Ops /\ op'.at = "init"
      BY <2>1 DEF Loading, Ops, Steps
    <2>3. op' # None
      BY <2>2, NoneIsNoOperation
    <2>4. Typed'
      BY <2>1, <2>2 DEF IInv, Typed, NoConfig, Configs
    <2> QED BY <2>1, <2>2, <2>3, <2>4 DEF IInv, ConfigIsSaved, RemovesHere,
          NamesHaveDirs, AtRest, At
  <1>2. ASSUME ~ ClosePage PROVE IInv'
    <2>1. /\ UNCHANGED <<disk, config, workspace, op>>
          /\ dirs' \in SUBSET Workspaces /\ dirs \subseteq dirs'
      BY <1>2, SaveMetaAdds DEF Page, ClickFile, CloseTabs, DragTab, SaveMetadata,
         IInv, Typed, vars, disks, memory
    <2>2. Typed' /\ Switching' = Switching
      BY <2>1 DEF IInv, Typed, Switching
    <2> QED BY <2>1, <2>2 DEF IInv, ConfigIsSaved, RemovesHere, NamesHaveDirs,
          AtRest, At
  <1> QED BY <1>1, <1>2

\* The names that are loaded are those saved.
LEMMA LoadIInv == ASSUME IInv, InitWorkspaces PROVE IInv'
  <1>1. /\ op \in Ops /\ op # None /\ UNCHANGED <<disk, dirs, config>>
        /\ workspace' = config
    BY DEF InitWorkspaces, At, IInv, Typed, disks
  <1>2. CASE config.current \in config.names
    <2>1. config.current \in Workspaces /\ SwitchTo(config.current, None)
      BY <1>2 DEF InitWorkspaces, IInv, Typed, Configs
    <2>2. op' \in Ops /\ op'.at = "switch" /\ op'.to = config.current
      BY <1>1, <2>1, NewSwitch
    <2>3. op' # None
      BY <2>2, NoneIsNoOperation
    <2>4. Switching'.current = config.current
      BY <1>1, <1>2, <2>2 DEF Switching, IInv, Typed, Configs
    <2>5. Typed'
      BY <1>1, <2>2 DEF IInv, Typed
    <2> QED BY <1>1, <2>2, <2>3, <2>4, <2>5 DEF IInv, ConfigIsSaved, RemovesHere,
          NamesHaveDirs, AtRest, At
  <1>3. CASE config.current \notin config.names
    <2>1. op' = None
      BY <1>3 DEF InitWorkspaces, Done
    <2> QED BY <1>1, <1>3, <2>1 DEF IInv, Typed, ConfigIsSaved, RemovesHere,
          NamesHaveDirs, AtRest, At
  <1> QED BY <1>2, <1>3

\* Every step preserves the invariant.
LEMMA NextIInv == ASSUME IInv, [Next]_vars PROVE IInv'
  <1>1. CASE Call
    <2>1. ASSUME NEW n \in Names, NEW override \in BOOLEAN,
                 NEW open \in {"open", "refresh", "dont"},
                 CreateItem(n, override, open)
          PROVE  IInv'
      BY <2>1, ItemsIInv
    <2>2. ASSUME NEW n \in Names, NEW m \in Names, RenameItem(n, m) PROVE IInv'
      BY <2>2, ItemsIInv
    <2>3. ASSUME NEW n \in Names, DeleteItem(n) PROVE IInv'
      BY <2>3, ItemsIInv
    <2>4. ASSUME NEW w \in Workspaces, NEW n \in NewFiles,
                 SwitchWorkspace(w, n) \/ CreateWorkspace(w, n)
          PROVE  IInv'
      BY <2>4, SwitchIInv, CreateIInv, ExplorerAssumption
    <2>5. ASSUME NEW w \in Workspaces, SwitchWorkspace(w, None) \/ RenameWorkspace(w)
          PROVE  IInv'
      BY <2>5, SwitchIInv, RenameIInv
    <2>6. ASSUME DeleteWorkspace PROVE IInv'
      BY <2>6, RemoveIInv, ExplorerAssumption
    <2> QED BY <1>1, <2>1, <2>2, <2>3, <2>4, <2>5, <2>6 DEF Call
  <1>2. CASE Advance
    <2>1. PICK n \in Names : TRUE
      BY ExplorerAssumption
    <2> QED BY <1>2, <2>1, LoadIInv, EndIInv, SwitchedIInv, SaveConfigIInv, ReadIInv,
          RecoverIInv, RemoveIInv, RemoveDirIInv, WriteIInv DEF Advance
  <1> QED BY <1>1, <1>2, PageIInv DEF Next

\* Wherever the page is closed, saved config and directories stay in step.
THEOREM ExplorerInv == Spec => []IInv
  BY InitIInv, NextIInv, PTL DEF Spec

-----------------------------------------------------------------------------
\* ListedOnDisk: however operations and closings of the page follow each other,
\* a saved name has its directory, but for the current one.
THEOREM AlwaysListedOnDisk == Spec => []ListedOnDisk
  <1>1. IInv => ListedOnDisk
    BY DEF IInv, NamesHaveDirs, ListedOnDisk
  <1> QED BY <1>1, ExplorerInv, PTL

\* FilesAreKept: no operation on one workspace (a creation, a rename, a deletion
\* that goes on while others are clicked) removes a file of another that is
\* listed.
THEOREM AlwaysFilesAreKept == Spec => FilesAreKept
  <1> DEFINE Kept ==
        \A w \in config.names, n \in Names :
          n \in disk[w] /\ n \notin disk'[w] =>
             /\ w = workspace.current
             /\ \/ At("remove") \/ Here(n) \notin files'
                \/ n \in disk'[workspace'.current]
  <1>1. ASSUME IInv, [Next]_vars PROVE [Kept]_vars
    <2> SUFFICES ASSUME NEW w \in config.names, NEW n \in Names,
                        n \in disk[w], n \notin disk'[w]
                 PROVE  /\ w = workspace.current
                        /\ \/ At("remove") \/ Here(n) \notin files'
                           \/ n \in disk'[workspace'.current]
      OBVIOUS
    <2>1. w \in Workspaces /\ disk \in [Workspaces -> SUBSET Names] /\ disk' # disk
      BY <1>1 DEF IInv, Typed, Configs
    <2>2. ASSUME NEW m \in Names, NEW k \in Names, RenameItem(m, k)
          PROVE  w = workspace.current /\ Here(n) \notin files'
      BY <2>1, <2>2 DEF RenameItem, Here
    <2>3. ASSUME NEW m \in Names, DeleteItem(m)
          PROVE  w = workspace.current /\ Here(n) \notin files'
      BY <2>1, <2>3 DEF DeleteItem, Here, Under
    <2>4. ASSUME NEW v \in Workspaces, RenameWorkspace(v)
          PROVE  w = workspace.current /\ n \in disk'[workspace'.current]
      <3>1. config = workspace /\ workspace.current \in Workspaces
        BY <1>1, <2>4, OpenWorkspace DEF RenameWorkspace, MoveWorkspace, Ready, IInv,
           ConfigIsSaved, AtRest
      <3>2. w # v /\ workspace'.current = v
        BY <2>4, <3>1 DEF RenameWorkspace, MoveWorkspace
      <3>3. disk' = [disk EXCEPT ![v] = disk[workspace.current],
                                 ![workspace.current] = {}]
        BY <2>4 DEF RenameWorkspace, MoveWorkspace
      <3>4. w = workspace.current
        BY <2>1, <3>1, <3>2, <3>3
      <3> QED BY <2>1, <3>1, <3>2, <3>3, <3>4
    <2>5. ASSUME NEW m \in Names, RemoveFile(m)
          PROVE  w = workspace.current /\ At("remove")
      BY <1>1, <2>1, <2>5 DEF RemoveFile, IInv, RemovesHere, At
    <2>6. ASSUME NEW m \in Names, NEW override, NEW open, CreateItem(m, override, open)
          PROVE  FALSE
      BY <2>1, <2>6 DEF CreateItem
    <2>7. ASSUME NEW m \in Names, WriteFile(m) PROVE FALSE
      BY <2>1, <2>7 DEF WriteFile
    <2> QED BY <1>1, <2>1, <2>2, <2>3, <2>4, <2>5, <2>6, <2>7 DEF Next, Call, Advance,
          Page, SwitchWorkspace, CreateWorkspace, DeleteWorkspace, InitWorkspaces,
          FinishWithMeta, Switched, SaveConfig, ReadMetadata, Recover, RemoveMetadata,
          RemoveDir, SaveNames, ReadFile, ClickFile, CloseTabs, DragTab, SaveMetadata,
          ClosePage, vars, disks
  <1> QED BY <1>1, ExplorerInv, PTL DEF Spec, FilesAreKept

-----------------------------------------------------------------------------
(* What the functions of FileTabs make of tabs and an index that are proper. *)

\* Tabs of paths in P, and an index that is one of theirs or 0.
Uis(P) == { u \in [tabs : Seq(P), currentIndex : Nat] :
               u.currentIndex <= Len(u.tabs) }

\* Among numbers there is a least: how a fact about every step of a recursive
\* function is proved, by looking at the first step without it.
LEMMA Least ==
    ASSUME NEW T, T \subseteq Nat, T # {}
    PROVE  \E n \in T : \A m \in T : n <= m
  <1>1. PICK n \in T : \A m \in T : <<m, n>> \notin OpToRel(<, Nat)
    BY NatLessThanWellFounded, WFMin
  <1>2. \A m \in T : ~ (m < n)
    BY <1>1 DEF OpToRel
  <1>3. \A m \in T : n <= m
    BY <1>2
  <1> QED BY <1>3

\* indexOf is a place where the tab is, if it is there.
LEMMA IndexOfFinds ==
    ASSUME NEW P, NEW s \in Seq(P), NEW p
    PROVE  /\ IndexOf(s, p) \in 0 .. Len(s)
           /\ Contains(s, p) => IndexOf(s, p) \in DOMAIN s /\ s[IndexOf(s, p)] = p
  <1> DEFINE I == {i \in 1 .. Len(s) : s[i] = p}
  <1>1. IndexOf(s, p) = IF I # {} THEN Min(I) ELSE 0
    BY DEF IndexOf, SelectInSeq
  <1>2. Contains(s, p) <=> I # {}
    BY DEF Contains
  <1>3. ASSUME I # {} PROVE Min(I) \in I
    <2>1. I \subseteq Nat
      OBVIOUS
    <2> HIDE DEF I
    <2>2. \E n \in I : \A m \in I : n <= m
      BY <1>3, <2>1, Least
    <2> QED BY <2>2 DEF Min
  <1>4. Len(s) \in Nat /\ DOMAIN s = 1 .. Len(s)
    OBVIOUS
  <1>5. I \subseteq 1 .. Len(s) /\ \A i \in I : s[i] = p
    OBVIOUS
  <1> HIDE DEF I
  <1>6. CASE I = {}
    BY <1>1, <1>2, <1>4, <1>6
  <1>7. CASE I # {}
    <2>1. IndexOf(s, p) \in I
      BY <1>1, <1>3, <1>7
    <2>2. IndexOf(s, p) \in 1 .. Len(s) /\ s[IndexOf(s, p)] = p
      BY <2>1, <1>5
    <2>3. IndexOf(s, p) \in 0 .. Len(s)
      BY <2>2, <1>4
    <2> QED BY <2>2, <2>3, <1>4, Zenon
  <1> QED BY <1>6, <1>7

\* A sequence without one of its elements.
LEMMA RemoveAtIn ==
    ASSUME NEW P, NEW s \in Seq(P), NEW i \in 1 .. Len(s)
    PROVE  RemoveAt(s, i) \in Seq(P) /\ Len(RemoveAt(s, i)) = Len(s) - 1
  <1> DEFINE a == SubSeq(s, 1, i - 1)
             b == SubSeq(s, i + 1, Len(s))
  <1>1. \A j \in 1 .. Len(s) : s[j] \in P
    OBVIOUS
  <1>2. Len(s) \in Nat /\ i \in Nat /\ i - 1 \in Int /\ i + 1 \in Int
    OBVIOUS
  <1>3. a \in Seq(P) /\ Len(a) = i - 1 /\ b \in Seq(P) /\ Len(b) = Len(s) - i
    BY <1>1, <1>2, SubSeqProperties
  <1>4. RemoveAt(s, i) = a \o b
    BY DEF RemoveAt
  <1> HIDE DEF a, b
  <1>5. Len(a) + Len(b) = Len(s) - 1
    BY <1>2, <1>3
  <1>6. a \o b \in Seq(P) /\ Len(a \o b) = Len(a) + Len(b)
    BY <1>3, ConcatProperties
  <1> QED BY <1>4, <1>5, <1>6

\* Splicing any tab, one that is not there included, leaves tabs.
LEMMA SplicedIn ==
    ASSUME NEW P, NEW s \in Seq(P), NEW p
    PROVE  Spliced(s, p) \in Seq(P)
  <1>1. CASE Contains(s, p)
    <2>1. IndexOf(s, p) \in 1 .. Len(s)
      BY <1>1, IndexOfFinds
    <2>2. Spliced(s, p) = RemoveAt(s, IndexOf(s, p))
      BY <1>1 DEF Spliced, RemoveFirst, IndexOf, Contains
    <2> QED BY <2>1, <2>2, RemoveAtIn
  <1>2. CASE ~ Contains(s, p) /\ s # << >>
    <2>1. SubSeq(s, 1, Len(s) - 1) \in Seq(P)
      BY SubSeqProperties
    <2> QED BY <1>2, <2>1 DEF Spliced, Front
  <1>3. CASE ~ Contains(s, p) /\ s = << >>
    BY <1>3 DEF Spliced
  <1> QED BY <1>1, <1>2, <1>3

\* There is no current file exactly where the index is 0.
LEMMA CurrentIn ==
    ASSUME NEW P, NEW u \in Uis(P)
    PROVE  /\ CurrentFilePath(u) \in P \cup {None}
           /\ None \notin P => (CurrentFilePath(u) = None <=> u.currentIndex = 0)
  BY DEF Uis, CurrentFilePath

\* Opening a file leaves an index that is one of the tabs.
LEMMA OpenIn ==
    ASSUME NEW P, NEW u \in Uis(P), NEW p \in P
    PROVE  OpenFile(u, p) \in Uis(P)
  <1> DEFINE t == IF Contains(u.tabs, p) THEN u.tabs ELSE Append(u.tabs, p)
  <1>1. t \in Seq(P)
    BY DEF Uis
  <1>2. IndexOf(t, p) \in 0 .. Len(t)
    <2> HIDE DEF t
    <2> QED BY <1>1, IndexOfFinds
  <1>3. [tabs |-> t, currentIndex |-> IndexOf(t, p)] \in Uis(P)
    <2> HIDE DEF t
    <2>1. Len(t) \in Nat
      BY <1>1
    <2> QED BY <1>1, <1>2, <2>1 DEF Uis
  <1> QED BY <1>3 DEF OpenFile

\* So does closing one, though its path is read again with the old index.
LEMMA CloseIn ==
    ASSUME NEW P, NEW u \in Uis(P), NEW p
    PROVE  CloseFile(u, p) \in Uis(P)
  <1> DEFINE n    == Len(u.tabs)
             next == IF u.currentIndex < n THEN u.tabs[u.currentIndex + 1]
                     ELSE IF n > 1 THEN u.tabs[n - 1] ELSE None
             open == IF CurrentFilePath(u) = p /\ next # None
                     THEN OpenFile(u, next) ELSE u
             rest == [open EXCEPT !.tabs = Spliced(@, p)]
             close == [rest EXCEPT !.currentIndex =
                          IndexOf(rest.tabs, CurrentFilePath(rest))]
  <1>1. u.tabs \in Seq(P) /\ u.currentIndex \in Nat /\ u.currentIndex <= n /\ n \in Nat
    BY DEF Uis
  <1>2. next \in P \cup {None}
    BY <1>1
  <1>3. open \in Uis(P)
    <2> HIDE DEF next
    <2> QED BY <1>2, OpenIn
  <1> HIDE DEF next, open
  <1>4. open.tabs \in Seq(P) /\ open \in [tabs : Seq(P), currentIndex : Nat]
    BY <1>3 DEF Uis
  <1>5. Spliced(open.tabs, p) \in Seq(P)
    BY <1>4, SplicedIn
  <1>6. rest \in [tabs : Seq(P), currentIndex : Nat]
    BY <1>4, <1>5
  <1> HIDE DEF rest
  <1>7. close \in Uis(P)
    <2>1. IndexOf(rest.tabs, CurrentFilePath(rest)) \in 0 .. Len(rest.tabs)
      BY <1>6, IndexOfFinds
    <2>2. Len(rest.tabs) \in Nat
      BY <1>6
    <2> QED BY <1>6, <2>1, <2>2 DEF Uis
  <1>8. CloseFile(u, p) = IF CurrentFilePath(open) = None THEN open ELSE close
    BY DEF CloseFile, rest, open, next
  <1> QED BY <1>3, <1>7, <1>8

\* A tab that is dropped between others.
LEMMA InsertAtIn ==
    ASSUME NEW P, NEW s \in Seq(P), NEW j \in 1 .. Len(s) + 1, NEW p \in P
    PROVE  InsertAt(s, j, p) \in Seq(P)
  <1> DEFINE a == SubSeq(s, 1, j - 1)
             b == SubSeq(s, j, Len(s))
  <1>1. \A k \in 1 .. Len(s) : s[k] \in P
    OBVIOUS
  <1>2. Len(s) \in Nat /\ j \in Nat /\ j - 1 \in Int /\ j \in Int
    OBVIOUS
  <1>3. a \in Seq(P) /\ b \in Seq(P)
    BY <1>1, <1>2, SubSeqProperties
  <1>4. InsertAt(s, j, p) = a \o <<p>> \o b /\ <<p>> \in Seq(P)
    BY DEF InsertAt
  <1> HIDE DEF a, b
  <1> QED BY <1>3, <1>4, ConcatProperties

-----------------------------------------------------------------------------
(* Functions that go through a sequence.                                     *)

\* h goes through s from v with g, a function of what was found so far and the
\* next element; there is such an h.
Folds(h, V, g, v, s) ==
    /\ h \in [0 .. Len(s) -> V] /\ h[0] = v
    /\ \A k \in 1 .. Len(s) : h[k] = g[<<h[k - 1], s[k]>>]

\* By the shortest beginning of s for which there is none.
LEMMA FoldExists ==
    ASSUME NEW V, NEW P, NEW g \in [V \X P -> V], NEW v \in V, NEW s \in Seq(P)
    PROVE  \E h : Folds(h, V, g, v, s)
  <1> DEFINE Fold(h, n) == h \in [0 .. n -> V] /\ h[0] = v
                           /\ \A k \in 1 .. n : h[k] = g[<<h[k - 1], s[k]>>]
             T == {n \in 0 .. Len(s) : ~ \E h : Fold(h, n)}
  <1>1. Len(s) \in Nat
    OBVIOUS
  <1>2. T = {}
    <2> SUFFICES ASSUME T # {} PROVE FALSE
      OBVIOUS
    <2>1. T \subseteq Nat
      BY <1>1
    <2>2. PICK n \in T : \A m \in T : n <= m
      <3> HIDE DEF T
      <3> QED BY <2>1, Least
    <2>3. n \in 0 .. Len(s) /\ ~ \E h : Fold(h, n)
      OBVIOUS
    <2>4. n # 0
      <3>1. Fold([k \in 0 .. 0 |-> v], 0)
        OBVIOUS
      <3> QED BY <2>3, <3>1
    <2>5. n - 1 \in 0 .. Len(s) /\ n - 1 \notin T
      <3>1. n - 1 \in 0 .. Len(s) /\ ~ (n <= n - 1)
        BY <1>1, <2>3, <2>4
      <3> HIDE DEF T
      <3> QED BY <2>2, <3>1
    <2>6. PICK h : Fold(h, n - 1)
      BY <2>5
    <2> DEFINE e == [k \in 0 .. n |-> IF k = n THEN g[<<h[n - 1], s[n]>>] ELSE h[k]]
    <2>7. s[n] \in P /\ h[n - 1] \in V /\ n \in Nat \ {0}
      BY <1>1, <2>3, <2>4, <2>6
    <2>8. e \in [0 .. n -> V] /\ e[0] = v
      BY <2>6, <2>7
    <2>9. ASSUME NEW k \in 1 .. n PROVE e[k] = g[<<e[k - 1], s[k]>>]
      <3>1. k \in 0 .. n /\ k - 1 \in 0 .. n /\ k - 1 # n
        BY <2>7
      <3>2. e[k - 1] = h[k - 1]
        BY <3>1
      <3>3. CASE k = n
        BY <3>1, <3>2, <3>3
      <3>4. CASE k # n
        <4>1. k \in 1 .. n - 1
          BY <2>7, <3>4
        <4> QED BY <2>6, <3>1, <3>2, <3>4, <4>1
      <3> QED BY <3>3, <3>4
    <2>10. Fold(e, n)
      BY <2>8, <2>9
    <2> QED BY <2>3, <2>10
  <1> QED BY <1>1, <1>2 DEF Folds

\* Closing many files, whether they have tabs or not.
LEMMA CloseAllIn ==
    ASSUME NEW P, NEW u \in Uis(P), NEW Q, NEW paths \in Seq(Q)
    PROVE  CloseAll(u, paths) \in Uis(P)
  <1> DEFINE g == [x \in Uis(P) \X Q |-> CloseFile(x[1], x[2])]
             N == 0 .. Len(paths)
             Closes(h) == h = [k \in N |-> IF k = 0 THEN u
                                           ELSE CloseFile(h[k - 1], paths[k])]
             h == CHOOSE f : Closes(f)
  <1>1. g \in [Uis(P) \X Q -> Uis(P)]
    BY CloseIn
  <1>2. PICK f : Folds(f, Uis(P), g, u, paths)
    <2> HIDE DEF g
    <2> QED BY <1>1, FoldExists
  <1>3. ASSUME NEW k \in N, k # 0
        PROVE  k \in 1 .. Len(paths) /\ k - 1 \in N /\ paths[k] \in Q
    BY <1>3
  <1>4. Closes(f)
    <2>1. ASSUME NEW k \in N, k # 0 PROVE f[k] = CloseFile(f[k - 1], paths[k])
      BY <1>2, <1>3, <2>1 DEF Folds
    <2> HIDE DEF g
    <2> QED BY <1>2, <2>1 DEF Folds
  <1>5. Closes(h)
    BY <1>4
  <1>6. CloseAll(u, paths) = h[Len(paths)]
    BY DEF CloseAll
  <1> DEFINE T == {k \in N : h[k] \notin Uis(P)}
  <1>7. T = {}
    <2> SUFFICES ASSUME T # {} PROVE FALSE
      OBVIOUS
    <2>1. PICK n \in T : \A m \in T : n <= m
      <3>1. T \subseteq Nat
        OBVIOUS
      <3> HIDE DEF T
      <3> QED BY <3>1, Least
    <2>2. n \in N /\ h[n] \notin Uis(P)
      OBVIOUS
    <2> HIDE DEF h
    <2>3. n # 0
      BY <1>5, <2>2
    <2>4. h[n - 1] \in Uis(P)
      BY <1>3, <2>1, <2>2, <2>3
    <2>5. h[n] = CloseFile(h[n - 1], paths[n])
      BY <1>5, <2>2, <2>3
    <2> QED BY <2>2, <2>4, <2>5, CloseIn
  <1>8. Len(paths) \in N
    OBVIOUS
  <1> HIDE DEF h, N
  <1> QED BY <1>6, <1>7, <1>8

\* Distinct goes through the tabs as its recursive function says.
LEMMA DistinctSteps ==
    ASSUME NEW P, NEW s \in Seq(P), NEW S
    PROVE  \E h \in [0 .. Len(s) -> Seq(P)] :
              /\ h[0] = << >> /\ Distinct(s, S) = h[Len(s)]
              /\ \A k \in 1 .. Len(s) :
                    h[k] = IF s[k] \notin S \/ Contains(h[k - 1], s[k])
                           THEN h[k - 1] ELSE Append(h[k - 1], s[k])
  <1> DEFINE g == [x \in Seq(P) \X P |->
                     IF x[2] \notin S \/ Contains(x[1], x[2])
                     THEN x[1] ELSE Append(x[1], x[2])]
             N == 0 .. Len(s)
             Firsts(h) == h = [k \in N |->
                                 IF k = 0 THEN << >>
                                 ELSE IF s[k] \notin S \/ Contains(h[k - 1], s[k])
                                      THEN h[k - 1] ELSE Append(h[k - 1], s[k])]
             h == CHOOSE f : Firsts(f)
  <1>1. g \in [Seq(P) \X P -> Seq(P)] /\ << >> \in Seq(P)
    OBVIOUS
  <1>2. PICK f : Folds(f, Seq(P), g, << >>, s)
    <2> HIDE DEF g
    <2> QED BY <1>1, FoldExists
  <1>3. ASSUME NEW k \in N, k # 0
        PROVE  k \in 1 .. Len(s) /\ k - 1 \in N /\ s[k] \in P
    BY <1>3
  <1>4. ASSUME NEW k \in 1 .. Len(s), NEW v \in [N -> Seq(P)]
        PROVE  g[<<v[k - 1], s[k]>>]
                  = IF s[k] \notin S \/ Contains(v[k - 1], s[k])
                    THEN v[k - 1] ELSE Append(v[k - 1], s[k])
    <2>1. ASSUME NEW x \in Seq(P), NEW y \in P
          PROVE  g[<<x, y>>] = IF y \notin S \/ Contains(x, y) THEN x ELSE Append(x, y)
      OBVIOUS
    <2>2. k - 1 \in N
      OBVIOUS
    <2>3. s[k] \in P
      OBVIOUS
    <2> HIDE DEF g, N
    <2>4. v[k - 1] \in Seq(P)
      BY <2>2
    <2> QED BY <2>1, <2>3, <2>4
  <1>5. Firsts(f)
    <2>1. f \in [N -> Seq(P)] /\ f[0] = << >>
      BY <1>2 DEF Folds
    <2>2. ASSUME NEW k \in N, k # 0
          PROVE  f[k] = IF s[k] \notin S \/ Contains(f[k - 1], s[k])
                        THEN f[k - 1] ELSE Append(f[k - 1], s[k])
      <3>1. k \in 1 .. Len(s)
        BY <1>3, <2>2
      <3>2. f[k] = g[<<f[k - 1], s[k]>>]
        BY <1>2, <3>1 DEF Folds
      <3> HIDE DEF g
      <3> QED BY <1>4, <2>1, <3>1, <3>2
    <2> HIDE DEF g
    <2> QED BY <2>1, <2>2
  <1>6. Firsts(h)
    BY <1>5
  <1>7. Distinct(s, S) = h[Len(s)]
    BY DEF Distinct
  <1> DEFINE T == {k \in N : h[k] \notin Seq(P)}
  <1>8. T = {}
    <2> SUFFICES ASSUME T # {} PROVE FALSE
      OBVIOUS
    <2>1. PICK n \in T : \A m \in T : n <= m
      <3>1. T \subseteq Nat
        OBVIOUS
      <3> HIDE DEF T
      <3> QED BY <3>1, Least
    <2>2. n \in N /\ h[n] \notin Seq(P)
      OBVIOUS
    <2> HIDE DEF h, g
    <2>3. n # 0
      BY <1>6, <2>2
    <2>4. h[n - 1] \in Seq(P)
      BY <1>3, <2>1, <2>2, <2>3
    <2>5. h[n] = IF s[n] \notin S \/ Contains(h[n - 1], s[n])
                 THEN h[n - 1] ELSE Append(h[n - 1], s[n])
      BY <1>6, <2>2, <2>3
    <2>6. s[n] \in P
      BY <1>3, <2>2, <2>3
    <2> QED BY <2>2, <2>4, <2>5, <2>6
  <1>9. h \in [N -> Seq(P)]
    <2> HIDE DEF h, g
    <2> QED BY <1>6, <1>8
  <1>10. h[0] = << >>
    <2> HIDE DEF h, g
    <2> QED BY <1>6
  <1>11. ASSUME NEW k \in 1 .. Len(s)
         PROVE  h[k] = IF s[k] \notin S \/ Contains(h[k - 1], s[k])
                       THEN h[k - 1] ELSE Append(h[k - 1], s[k])
    <2>1. k \in N /\ k # 0
      OBVIOUS
    <2> HIDE DEF h, g
    <2> QED BY <1>6, <2>1
  <1> HIDE DEF h, g
  <1> QED BY <1>7, <1>9, <1>10, <1>11

\* A tab that is not there yet makes no duplicate.
LEMMA AppendNew ==
    ASSUME NEW P, NEW s \in Seq(P), IsInjective(s), NEW p \in P, ~ Contains(s, p)
    PROVE  IsInjective(Append(s, p))
  BY DEF IsInjective, Contains

\* Distinct keeps some of the tabs that are in S, and none twice.
LEMMA DistinctIn ==
    ASSUME NEW P, NEW s \in Seq(P), NEW S
    PROVE  /\ Distinct(s, S) \in Seq(P) /\ IsInjective(Distinct(s, S))
           /\ \A i \in DOMAIN Distinct(s, S) : Distinct(s, S)[i] \in S
  <1>1. PICK h \in [0 .. Len(s) -> Seq(P)] :
              /\ h[0] = << >> /\ Distinct(s, S) = h[Len(s)]
              /\ \A k \in 1 .. Len(s) :
                    h[k] = IF s[k] \notin S \/ Contains(h[k - 1], s[k])
                           THEN h[k - 1] ELSE Append(h[k - 1], s[k])
    BY DistinctSteps
  <1> DEFINE Fine(t) == IsInjective(t) /\ \A i \in DOMAIN t : t[i] \in S
             T == {k \in 0 .. Len(s) : ~ Fine(h[k])}
  <1>2. SUFFICES ASSUME T # {} PROVE FALSE
    <2>1. Len(s) \in 0 .. Len(s)
      OBVIOUS
    <2> QED BY <1>1, <2>1
  <1>3. PICK n \in T : \A m \in T : n <= m
    <2>1. T \subseteq Nat
      OBVIOUS
    <2> HIDE DEF T
    <2> QED BY <1>2, <2>1, Least
  <1>4. n \in 0 .. Len(s) /\ ~ Fine(h[n])
    OBVIOUS
  <1>5. n # 0
    <2>1. Fine(<< >>)
      BY DEF IsInjective
    <2> HIDE DEF Fine
    <2> QED BY <1>1, <1>4, <2>1
  <1>6. n \in 1 .. Len(s) /\ n - 1 \in 0 .. Len(s) /\ s[n] \in P /\ h[n - 1] \in Seq(P)
    BY <1>4, <1>5
  <1>7. Fine(h[n - 1])
    BY <1>3, <1>6
  <1>8. h[n] = IF s[n] \notin S \/ Contains(h[n - 1], s[n])
               THEN h[n - 1] ELSE Append(h[n - 1], s[n])
    BY <1>1, <1>6
  <1>9. s[n] \in S /\ ~ Contains(h[n - 1], s[n])
    <2> HIDE DEF Fine
    <2> QED BY <1>4, <1>7, <1>8
  <1>10. Fine(Append(h[n - 1], s[n]))
    <2>1. IsInjective(Append(h[n - 1], s[n]))
      BY <1>6, <1>7, <1>9, AppendNew
    <2>2. \A i \in DOMAIN Append(h[n - 1], s[n]) : Append(h[n - 1], s[n])[i] \in S
      BY <1>6, <1>7, <1>9
    <2> QED BY <2>1, <2>2
  <1> HIDE DEF Fine
  <1> QED BY <1>4, <1>8, <1>9, <1>10

-----------------------------------------------------------------------------
(* The rest of FileTabs.                                                      *)

\* Tabs that are set from elsewhere, with the current file of the old ones.
LEMMA SetTabsIn ==
    ASSUME NEW Q, NEW u \in Uis(Q), None \notin Q, NEW P, NEW tabs \in Seq(P)
    PROVE  SetTabs(u, tabs) \in Uis(P)
  <1> DEFINE t == WithoutDuplicates(tabs)
             c == CurrentFilePath(u)
  <1>1. t \in Seq(P)
    BY DistinctIn DEF WithoutDuplicates
  <1>2. c = None => u.currentIndex = 0
    BY CurrentIn
  <1>3. IndexOf(t, c) \in 0 .. Len(t)
    <2> HIDE DEF t, c
    <2> QED BY <1>1, IndexOfFinds
  <1>4. SetTabs(u, tabs) = IF c = None THEN [u EXCEPT !.tabs = t]
                           ELSE [[u EXCEPT !.tabs = t] EXCEPT !.currentIndex = IndexOf(t, c)]
    BY DEF SetTabs, Uis
  <1>5. u \in [tabs : Seq(Q), currentIndex : Nat]
    BY DEF Uis
  <1> HIDE DEF t, c
  <1>6. Len(t) \in Nat /\ Len(t) >= 0
    BY <1>1
  <1>7. SetTabs(u, tabs) = [tabs |-> t, currentIndex |-> IF c = None THEN 0
                                                         ELSE IndexOf(t, c)]
    BY <1>2, <1>4, <1>5
  <1> QED BY <1>1, <1>3, <1>6, <1>7 DEF Uis

\* Files that are renamed among paths of P.
LEMMA RenamedIn ==
    ASSUME NEW P, NEW u \in Uis(P), None \notin P, NEW old, NEW new,
           NEW override, \A p \in P : p \in old => new[p] \in P
    PROVE  Renamed(u, old, new, override) \in Uis(P)
  <1> DEFINE t == [k \in DOMAIN u.tabs |->
                     IF u.tabs[k] \in old /\ IndexOf(u.tabs, u.tabs[k]) = k
                     THEN new[u.tabs[k]] ELSE u.tabs[k]]
             m == [u EXCEPT !.tabs = t]
  <1>1. u.tabs \in Seq(P) /\ u \in [tabs : Seq(P), currentIndex : Nat]
        /\ u.currentIndex <= Len(u.tabs)
    BY DEF Uis
  <1>2. Len(u.tabs) \in Nat /\ DOMAIN u.tabs = 1 .. Len(u.tabs)
        /\ \A k \in DOMAIN u.tabs : u.tabs[k] \in P
    BY <1>1
  <1>3. t \in [1 .. Len(u.tabs) -> P]
    BY <1>2
  <1>4. t \in Seq(P) /\ Len(t) = Len(u.tabs)
    <2> HIDE DEF t
    <2> QED BY <1>2, <1>3
  <1>5. Renamed(u, old, new, override) = IF override THEN SetTabs(m, t) ELSE m
    BY DEF Renamed
  <1> HIDE DEF t
  <1>6. m \in Uis(P)
    BY <1>1, <1>4 DEF Uis
  <1> QED BY <1>4, <1>5, <1>6, SetTabsIn

\* Files that are deleted, in any order.
LEMMA CloseDeletedIn ==
    ASSUME NEW P, NEW u \in Uis(P), NEW below, NEW Q, NEW order \in Seq(Q)
    PROVE  CloseDeleted(u, below, order) \in Uis(P)
  <1> DEFINE c == CloseAll(u, order)
  <1>1. c \in Uis(P)
    BY CloseAllIn
  <1> HIDE DEF c
  <1>2. ASSUME c.tabs # << >> PROVE OpenFile(c, Last(c.tabs)) \in Uis(P)
    <2>1. c.tabs \in Seq(P)
      BY <1>1 DEF Uis
    <2>2. Len(c.tabs) \in 1 .. Len(c.tabs)
      BY <1>2, <2>1
    <2>3. Last(c.tabs) \in P
      BY <2>1, <2>2 DEF Last
    <2> QED BY <1>1, <2>3, OpenIn
  <1>3. \/ CloseDeleted(u, below, order) = c
        \/ c.tabs # << >> /\ CloseDeleted(u, below, order) = OpenFile(c, Last(c.tabs))
    BY DEF CloseDeleted, c
  <1> QED BY <1>1, <1>2, <1>3

-----------------------------------------------------------------------------
(* Types of the tabs, the files and the metadata.                            *)

\* The deleted files of a workspace are finitely many: their order is a sequence.
LEMMA OrderIn ==
    ASSUME NEW w, NEW gone \in SUBSET ({w} \X Names), NEW order \in SetToSeqs(gone)
    PROVE  order \in Seq(gone)
  <1>1. IsFiniteSet({w} \X Names)
    BY ExplorerAssumption, FS_Product, FS_Singleton
  <1>2. Cardinality(gone) \in Nat
    BY <1>1, FS_Subset, FS_CardinalityType
  <1>3. order \in [1 .. Cardinality(gone) -> gone]
    BY DEF SetToSeqs
  <1> QED BY <1>2, <1>3

\* Without duplicates there are no more tabs than there are names.
LEMMA InjectiveIsBounded ==
    ASSUME NEW P, IsFiniteSet(P), NEW s \in Seq(P), IsInjective(s)
    PROVE  s \in BoundedSeq(P, Cardinality(P))
  <1>1. Len(s) \in Nat /\ s \in [1 .. Len(s) -> P] /\ Cardinality(P) \in Nat
    BY FS_CardinalityType
  <1>2. IsFiniteSet(1 .. Len(s)) /\ Cardinality(1 .. Len(s)) = Len(s)
    <2>1. 1 \in Int /\ Len(s) \in Int
      BY <1>1
    <2>2. /\ IsFiniteSet(1 .. Len(s))
          /\ Cardinality(1 .. Len(s)) = IF 1 > Len(s) THEN 0 ELSE Len(s) - 1 + 1
      BY <2>1, FS_Interval
    <2> QED BY <1>1, <2>2
  <1>3. ~ \E x, y \in 1 .. Len(s) : x # y /\ s[x] = s[y]
    BY <1>1 DEF IsInjective
  <1>4. ~ (Cardinality(P) < Len(s))
    BY <1>1, <1>2, <1>3, FS_PigeonHole
  <1>5. Len(s) \in 0 .. Cardinality(P)
    BY <1>1, <1>4
  <1> QED BY <1>1, <1>5 DEF BoundedSeq, SeqOf

\* null is neither a name nor a path.
LEMMA NoneIsNoPath == None \notin Workspaces \cup Names \cup Paths
  BY ExplorerAssumption DEF Paths

\* What saveMeta writes are names of the open workspace, none of them twice.
LEMMA MetaIn ==
    ASSUME ui \in Uis(Paths), files \in SUBSET Paths, CanSaveMeta
    PROVE  Meta \in Metadata
  <1> DEFINE d == Distinct(ui.tabs, files)
             t == [k \in DOMAIN d |-> d[k][2]]
             c == CurrentFilePath(ui)
  <1>1. /\ d \in Seq(Paths) /\ IsInjective(d)
        /\ \A k \in DOMAIN d : d[k] \in files
    <2>1. ui.tabs \in Seq(Paths)
      BY DEF Uis
    <2> QED BY <2>1, DistinctIn
  <1>2. Meta = [tabs |-> t, current |-> IF c \in files THEN c[2] ELSE None]
    BY DEF Meta
  <1> HIDE DEF d
  <1>3. Len(d) \in Nat /\ DOMAIN d = 1 .. Len(d)
    BY <1>1
  <1>4. \A p \in files : p[2] \in Names /\ p[1] = workspace.current /\ p = <<p[1], p[2]>>
    BY DEF Paths, CanSaveMeta
  <1>5. t \in [1 .. Len(d) -> Names]
    BY <1>1, <1>3, <1>4
  <1>6. IsInjective(t)
    BY <1>1, <1>4 DEF IsInjective
  <1>7. t \in Seq(Names)
    <2> HIDE DEF t
    <2> QED BY <1>3, <1>5
  <1> HIDE DEF t
  <1>8. t \in BoundedSeq(Names, Cardinality(Names))
    BY <1>6, <1>7, InjectiveIsBounded, ExplorerAssumption
  <1>9. (IF c \in files THEN c[2] ELSE None) \in Names \cup {None}
    BY <1>4
  <1> QED BY <1>2, <1>8, <1>9 DEF Metadata

\* Tabs and files are of paths, and so is what is saved of them.
UiTyped ==
    /\ ui \in Uis(Paths) /\ files \in SUBSET Paths
    /\ metadata \in [Workspaces -> Metadata \cup {None}]

\* A page starts without tabs and files.
LEMMA InitUiTyped == Init => UiTyped
  <1>1. NoTabs \in Uis(Paths)
    BY DEF NoTabs, Uis
  <1> QED BY <1>1 DEF Init, UiTyped

\* Saving metadata keeps every saved one proper.
LEMMA SaveMetaTyped ==
    ASSUME Typed, UiTyped, SaveMeta
    PROVE  metadata' \in [Workspaces -> Metadata \cup {None}]
  <1>1. CASE CanSaveMeta
    <2>1. Meta \in Metadata
      BY <1>1, MetaIn DEF UiTyped
    <2>2. metadata' = [metadata EXCEPT ![workspace.current] = Meta]
      BY <1>1 DEF SaveMeta
    <2> QED BY <2>1, <2>2 DEF UiTyped
  <1>2. CASE ~ CanSaveMeta
    BY <1>2 DEF SaveMeta, UiTyped
  <1> QED BY <1>1, <1>2

\* A path of the open workspace.
LEMMA HereIn ==
    ASSUME NEW n \in Names, workspace.current \in Workspaces PROVE Here(n) \in Paths
  BY DEF Here, Paths

\* Deleting p and what begins with it, in any order.
LEMMA BelowIn ==
    ASSUME NEW w \in Workspaces, NEW n \in Names
    PROVE  Under(<<w, n>>) \subseteq {w} \X Names
  BY ExplorerAssumption DEF Under

\* Each operation on the tabs, for tabs of any set P of paths: all of them, or
\* those of the open workspace.
LEMMA CreateItemTyped ==
    ASSUME Typed, NEW P, NEW n \in Names, NEW override, NEW open,
           ui \in Uis(P), Here(n) \in P, CreateItem(n, override, open)
    PROVE  ui' \in Uis(P)
  <1> DEFINE p == Here(n)
             closed == IF override /\ CurrentFilePath(ui) = p /\ open # "dont"
                       THEN CloseFile(ui, p) ELSE ui
  <1>1. closed \in Uis(P)
    BY CloseIn
  <1>2. ui' = OpenFile(closed, p) \/ ui' = closed
    BY DEF CreateItem
  <1> HIDE DEF closed
  <1> QED BY <1>1, <1>2, OpenIn

\* The file that is renamed stays one of P.
LEMMA RenameItemTyped ==
    ASSUME Typed, NEW P, P \subseteq Paths, NEW n \in Names, NEW m \in Names,
           ui \in Uis(P), Here(m) \in P, RenameItem(n, m)
    PROVE  ui' \in Uis(P)
  <1>1. ui' = Renamed(ui, {Here(n)}, [p \in Paths |-> Here(m)], Here(m) \in files)
    BY DEF RenameItem
  <1>2. \A p \in P : p \in {Here(n)} => [q \in Paths |-> Here(m)][p] \in P
    OBVIOUS
  <1>3. None \notin P
    BY NoneIsNoPath
  <1> QED BY <1>1, <1>2, <1>3, RenamedIn

\* The tabs of what is deleted are closed.
LEMMA DeleteItemTyped ==
    ASSUME Typed, NEW P, NEW n \in Names, ui \in Uis(P), DeleteItem(n)
    PROVE  ui' \in Uis(P)
  <1> DEFINE below == Under(Here(n))
             gone  == files \cap below
  <1>1. PICK order \in SetToSeqs(gone) : ui' = CloseDeleted(ui, below, order)
    BY DEF DeleteItem
  <1>2. workspace.current \in Workspaces
    BY OpenWorkspace DEF DeleteItem
  <1>3. gone \in SUBSET ({workspace.current} \X Names)
    BY <1>2, BelowIn DEF Here
  <1> HIDE DEF gone, below
  <1>4. order \in Seq(gone)
    BY <1>3, OrderIn
  <1> QED BY <1>1, <1>4, CloseDeletedIn

\* The same for all files of a workspace.
LEMMA RemoveDirTyped ==
    ASSUME NEW P, ui \in Uis(P), RemoveDir
    PROVE  ui' \in Uis(P)
  <1> DEFINE below == {op.ws} \X Names
             gone  == files \cap below
  <1>1. PICK order \in SetToSeqs(gone) : ui' = CloseDeleted(ui, below, order)
    BY DEF RemoveDir
  <1>2. gone \in SUBSET ({op.ws} \X Names)
    OBVIOUS
  <1> HIDE DEF gone, below
  <1>3. order \in Seq(gone)
    BY <1>2, OrderIn
  <1> QED BY <1>1, <1>3, CloseDeletedIn

\* The tabs that are read, and the current one among them.
LEMMA ReadMetadataTyped ==
    ASSUME Typed, UiTyped, ReadMetadata, workspace.current \in Workspaces
    PROVE  ui' \in Uis({workspace.current} \X Names)
  <1> DEFINE P    == {workspace.current} \X Names
             meta == IF metadata[workspace.current] = None THEN NoMetadata
                     ELSE metadata[workspace.current]
             tabs == [k \in DOMAIN meta.tabs |-> Here(meta.tabs[k])]
             set  == SetTabs(ui, tabs)
             read == [set EXCEPT !.currentIndex =
                         IF meta.current = None THEN 0
                         ELSE IndexOf(set.tabs, Here(meta.current))]
  <1>1. /\ At("read")
        /\ ui' = IF op.name = None THEN Sane(read) ELSE OpenFile(read, Here(op.name))
    BY DEF ReadMetadata
  <1>2. meta.tabs \in Seq(Names)
    <2>1. CASE metadata[workspace.current] = None
      BY <2>1 DEF NoMetadata
    <2>2. CASE metadata[workspace.current] # None
      <3>1. meta \in Metadata
        BY <2>2 DEF UiTyped
      <3> HIDE DEF meta
      <3>2. meta.tabs \in BoundedSeq(Names, Cardinality(Names))
        BY <3>1 DEF Metadata
      <3>3. Cardinality(Names) \in Nat
        BY ExplorerAssumption, FS_CardinalityType
      <3>4. PICK m \in 0 .. Cardinality(Names) : meta.tabs \in [1 .. m -> Names]
        BY <3>2 DEF BoundedSeq, SeqOf
      <3>5. m \in Nat
        BY <3>3
      <3> QED BY <3>4, <3>5
    <2> QED BY <2>1, <2>2
  <1> HIDE DEF meta
  <1>3. tabs \in Seq(P)
    <2>1. Len(meta.tabs) \in Nat /\ DOMAIN meta.tabs = 1 .. Len(meta.tabs)
      BY <1>2
    <2>2. tabs \in [1 .. Len(meta.tabs) -> P]
      BY <1>2, <2>1 DEF Here
    <2> HIDE DEF tabs
    <2> QED BY <2>1, <2>2
  <1> HIDE DEF tabs
  <1>4. set \in Uis(P)
    BY <1>3, SetTabsIn, NoneIsNoPath DEF UiTyped
  <1> HIDE DEF set
  <1>5. read \in Uis(P)
    <2>1. set.tabs \in Seq(P) /\ Len(set.tabs) \in Nat
      BY <1>4 DEF Uis
    <2>2. IndexOf(set.tabs, Here(meta.current)) \in 0 .. Len(set.tabs)
      BY <2>1, IndexOfFinds
    <2> QED BY <1>4, <2>1, <2>2 DEF Uis
  <1> HIDE DEF read
  <1>6. Sane(read) \in Uis(P)
    <2>1. ASSUME read.tabs # << >> PROVE OpenFile(read, Head(read.tabs)) \in Uis(P)
      <3>1. Head(read.tabs) \in P
        BY <1>5, <2>1 DEF Uis
      <3> QED BY <1>5, <3>1, OpenIn
    <2> QED BY <1>5, <2>1 DEF Sane
  <1>7. ASSUME op.name # None PROVE OpenFile(read, Here(op.name)) \in Uis(P)
    <2>1. op.name \in Names
      BY <1>1, <1>7 DEF Typed, At, Ops
    <2> QED BY <1>5, <2>1, OpenIn DEF Here
  <1> QED BY <1>1, <1>6, <1>7

\* The menu of a tab closes some of the tabs.
LEMMA CloseTabsTyped ==
    ASSUME NEW P, ui \in Uis(P), CloseTabs
    PROVE  ui' \in Uis(P)
  <1>1. ui.tabs \in Seq(P) /\ Len(ui.tabs) \in Nat /\ DOMAIN ui.tabs = 1 .. Len(ui.tabs)
    BY DEF Uis
  <1>2. PICK k \in DOMAIN ui.tabs :
          \E closed \in {<<ui.tabs[k]>>, RemoveAt(ui.tabs, k),
                         SubSeq(ui.tabs, k + 1, Len(ui.tabs)), ui.tabs} :
             ui' = CloseAll(ui, closed)
    BY DEF CloseTabs
  <1>3. <<ui.tabs[k]>> \in Seq(P) /\ RemoveAt(ui.tabs, k) \in Seq(P)
    BY <1>1, RemoveAtIn
  <1>4. SubSeq(ui.tabs, k + 1, Len(ui.tabs)) \in Seq(P)
    BY <1>1, SubSeqProperties
  <1> QED BY <1>1, <1>2, <1>3, <1>4, CloseAllIn

\* A tab is taken out and put in elsewhere.
LEMMA DragTabTyped ==
    ASSUME NEW P, ui \in Uis(P), None \notin P, DragTab
    PROVE  ui' \in Uis(P)
  <1>1. ui.tabs \in Seq(P) /\ Len(ui.tabs) \in Nat /\ DOMAIN ui.tabs = 1 .. Len(ui.tabs)
    BY DEF Uis
  <1>2. PICK i \in DOMAIN ui.tabs, j \in DOMAIN ui.tabs :
          ui' = SetTabs(ui, InsertAt(RemoveAt(ui.tabs, i), j, ui.tabs[i]))
    BY DEF DragTab
  <1> DEFINE r == RemoveAt(ui.tabs, i)
  <1>3. r \in Seq(P) /\ Len(r) = Len(ui.tabs) - 1
    BY <1>1, RemoveAtIn
  <1> HIDE DEF r
  <1>4. j \in 1 .. Len(r) + 1 /\ ui.tabs[i] \in P
    BY <1>1, <1>3
  <1>5. InsertAt(r, j, ui.tabs[i]) \in Seq(P)
    BY <1>3, <1>4, InsertAtIn
  <1> QED BY <1>2, <1>5, SetTabsIn DEF r

\* Memory and metadata follow a workspace that is renamed.
LEMMA MoveWorkspaceTyped ==
    ASSUME Typed, UiTyped, NEW v \in Workspaces, MoveWorkspace(v)
    PROVE  UiTyped'
  <1> DEFINE w == workspace.current
             moved == [p \in Paths |-> <<v, p[2]>>]
  <1>1. /\ metadata' = [metadata EXCEPT ![v] = metadata[w], ![w] = None]
        /\ files' = { moved[p] : p \in files }
        /\ ui' = Renamed(ui, files, moved, FALSE)
        /\ w \in Workspaces
    BY OpenWorkspace DEF MoveWorkspace
  <1>2. moved \in [Paths -> Paths]
    BY DEF Paths
  <1>3. ui' \in Uis(Paths)
    <2>1. \A p \in Paths : p \in files => moved[p] \in Paths
      BY <1>2
    <2> HIDE DEF moved
    <2> QED BY <1>1, <2>1, RenamedIn, NoneIsNoPath DEF UiTyped
  <1>4. files' \in SUBSET Paths
    <2> HIDE DEF moved
    <2> QED BY <1>1, <1>2 DEF UiTyped
  <1>5. metadata' \in [Workspaces -> Metadata \cup {None}]
    BY <1>1 DEF UiTyped
  <1> QED BY <1>3, <1>4, <1>5 DEF UiTyped

\* Where the tabs are those of files in P, a click opens one of these.
LEMMA ClickTyped ==
    ASSUME NEW P, ui \in Uis(P), files \subseteq P, NEW p, ClickFile(p)
    PROVE  ui' \in Uis(P)
  <1>1. ui.tabs \in Seq(P)
    BY DEF Uis
  <1>2. p \in P
    BY <1>1 DEF ClickFile, ToSet
  <1> QED BY <1>2, OpenIn DEF ClickFile

\* What is read is a directory, and stays there until it is read.
ReadsDir == At("read") => workspace.current \in dirs

\* A directory that is being read is not removed, nor another one opened.
LEMMA ReadsDirNext == ASSUME IInv, ReadsDir, [Next]_vars PROVE ReadsDir'
  <1> SUFFICES ASSUME op' # None, op'.at = "read"
               PROVE  workspace'.current \in dirs'
    BY DEF ReadsDir, At
  <1>1. Typed
    BY DEF IInv
  <1>2. CASE SaveConfig
    BY <1>2 DEF SaveConfig, Read, Loading
  <1>3. ASSUME UNCHANGED workspace, dirs \subseteq dirs', At("read")
        PROVE  workspace'.current \in dirs'
    BY <1>3 DEF ReadsDir
  <1>4. CASE \E n \in Names : ReadFile(n)
    BY <1>3, <1>4 DEF ReadFile, disks
  <1>5. CASE (Page /\ ~ ClosePage) \/ UNCHANGED vars
    <2>1. UNCHANGED <<workspace, op>> /\ dirs \subseteq dirs'
      BY <1>1, <1>5, SaveMetaAdds DEF Page, ClickFile, CloseTabs, DragTab,
         SaveMetadata, vars, disks, memory
    <2> QED BY <1>3, <2>1 DEF At
  <1>6. CASE ClosePage
    BY <1>6 DEF ClosePage, Loading
  <1>7. CASE Call
    <2>1. Do("save").at # "read" /\ Do("config").at # "read"
      BY NewOperation DEF Steps
    <2>2. ASSUME NEW n, NEW m, NEW override, NEW open,
                 CreateItem(n, override, open) \/ RenameItem(n, m) \/ DeleteItem(n)
          PROVE  FALSE
      BY <2>1, <2>2 DEF CreateItem, RenameItem, DeleteItem
    <2>3. ASSUME NEW w, NEW n,
                 \/ SwitchWorkspace(w, n) \/ CreateWorkspace(w, n)
                 \/ RenameWorkspace(w) \/ DeleteWorkspace
          PROVE  FALSE
      BY <2>3 DEF SwitchWorkspace, CreateWorkspace, RenameWorkspace, MoveWorkspace,
         DeleteWorkspace, Do, Loading
    <2> QED BY <1>7, <2>2, <2>3 DEF Call
  <1>8. ASSUME NEW x, NEW y, SwitchTo(x, y) PROVE FALSE
    BY <1>8 DEF SwitchTo, Loading
  <1>10. ASSUME NEW x \in Steps \ {"read"}, op # None, Go(x) PROVE FALSE
    BY <1>1, <1>10, NextStep DEF Go, Typed
  <1>11. CASE Advance
    <2>1. CASE \E n \in Names : WriteFile(n) \/ RemoveFile(n)
      <3>1. PICK n \in Names : WriteFile(n) \/ RemoveFile(n)
        BY <2>1
      <3>2. op \in Ops /\ op.at \in {"write", "remove"}
        BY <1>1, <3>1 DEF WriteFile, RemoveFile, At, Typed
      <3>3. op' = [op EXCEPT !.todo = @ \ {n}]
        BY <1>8, <3>1 DEF WriteFile, RemoveFile
      <3> QED BY <3>2, <3>3 DEF Ops
    <2>2. CASE InitWorkspaces \/ FinishWithMeta \/ SaveNames
      BY <1>8, <2>2 DEF InitWorkspaces, FinishWithMeta, SaveNames, Done
    <2>3. CASE Switched \/ Recover \/ RemoveMetadata \/ RemoveDir
      <3>1. {"config", "rmdir", "names"} \subseteq Steps \ {"read"}
        BY DEF Steps
      <3> QED BY <1>8, <1>10, <2>3, <3>1 DEF Switched, Recover, RemoveMetadata,
            RemoveDir, At, Done
    <2>4. CASE ReadMetadata
      <3>1. Do("save").at # "read"
        BY NewOperation DEF Steps
      <3> QED BY <2>4, <3>1 DEF ReadMetadata, Done
    <2> QED BY <1>2, <1>4, <1>11, <2>1, <2>2, <2>3, <2>4 DEF Advance
  <1> QED BY <1>5, <1>6, <1>7, <1>11 DEF Next

\* Every step keeps the types of tabs, files and metadata.
LEMMA UiTypedNext == ASSUME IInv, ReadsDir, UiTyped, [Next]_vars PROVE UiTyped'
  <1>1. Typed /\ ui \in Uis(Paths) /\ files \subseteq Paths /\ None \notin Paths
    BY NoneIsNoPath DEF IInv, UiTyped
  <1>2. ASSUME NEW n \in Names, NEW override, NEW open, CreateItem(n, override, open)
        PROVE  UiTyped'
    <2>1. Here(n) \in Paths
      BY <1>1, <1>2, HereIn, OpenWorkspace DEF CreateItem
    <2>2. files' \in SUBSET Paths /\ UNCHANGED metadata
      BY <1>1, <1>2, <2>1 DEF CreateItem
    <2> QED BY <1>1, <1>2, <2>1, <2>2, CreateItemTyped DEF UiTyped
  <1>3. ASSUME NEW n \in Names, NEW m \in Names, RenameItem(n, m)
        PROVE  UiTyped'
    <2>1. Here(m) \in Paths
      BY <1>1, <1>3, HereIn, OpenWorkspace DEF RenameItem
    <2>2. files' \in SUBSET Paths /\ UNCHANGED metadata
      BY <1>1, <1>3, <2>1 DEF RenameItem
    <2> QED BY <1>1, <1>3, <2>1, <2>2, RenameItemTyped DEF UiTyped
  <1>4. ASSUME NEW n \in Names, DeleteItem(n) PROVE UiTyped'
    <2>1. files' \in SUBSET Paths /\ UNCHANGED metadata
      BY <1>1, <1>4 DEF DeleteItem
    <2> QED BY <1>1, <1>4, <2>1, DeleteItemTyped DEF UiTyped
  <1>5. ASSUME NEW v \in Workspaces, RenameWorkspace(v) PROVE UiTyped'
    BY <1>1, <1>5, MoveWorkspaceTyped DEF RenameWorkspace
  <1>6. ASSUME SaveMeta, UNCHANGED <<files, ui>> PROVE UiTyped'
    BY <1>1, <1>6, SaveMetaTyped DEF UiTyped
  <1>7. CASE RemoveDir
    <2>1. files' \in SUBSET Paths /\ UNCHANGED metadata
      BY <1>1, <1>7 DEF RemoveDir
    <2> QED BY <1>1, <1>7, <2>1, RemoveDirTyped DEF UiTyped
  <1>8. CASE RemoveMetadata
    <2>1. metadata' = [metadata EXCEPT ![op.ws] = None] /\ UNCHANGED <<files, ui>>
      BY <1>8 DEF RemoveMetadata, memory
    <2> QED BY <2>1 DEF UiTyped
  <1>9. CASE SaveConfig
    BY <1>9 DEF SaveConfig, UiTyped
  <1>10. CASE ReadMetadata
    <2>1. UNCHANGED <<metadata, files>> /\ workspace.current \in Workspaces
      BY <1>1, <1>10 DEF ReadMetadata, disks, ReadsDir, Typed
    <2>2. ui' \in Uis({workspace.current} \X Names)
      BY <1>1, <1>10, <2>1, ReadMetadataTyped
    <2>3. ui' \in Uis(Paths)
      <3>1. {workspace.current} \X Names \subseteq Paths
        BY <2>1 DEF Paths
      <3> HIDE DEF Paths
      <3> QED BY <2>2, <3>1 DEF Uis
    <2> QED BY <2>1, <2>3 DEF UiTyped
  <1>11. ASSUME NEW n \in Names, ReadFile(n) PROVE UiTyped'
    <2>1. UNCHANGED <<metadata, ui>> /\ files' = files \cup {Here(n)}
      BY <1>11 DEF ReadFile, disks
    <2>2. Here(n) \in Paths
      BY <1>1, <1>11, HereIn DEF ReadFile, ReadsDir, Typed
    <2> QED BY <2>1, <2>2 DEF UiTyped
  <1>12. ASSUME NEW p \in Paths, ClickFile(p) PROVE UiTyped'
    <2>1. UNCHANGED <<metadata, files>>
      BY <1>12 DEF ClickFile, disks
    <2> QED BY <1>1, <1>12, <2>1, ClickTyped DEF UiTyped
  <1>13. CASE CloseTabs \/ DragTab
    <2>1. UNCHANGED <<metadata, files>>
      BY <1>13 DEF CloseTabs, DragTab, disks
    <2> QED BY <1>1, <1>13, <2>1, CloseTabsTyped, DragTabTyped DEF UiTyped
  <1>14. CASE ClosePage
    <2>1. NoTabs \in Uis(Paths)
      BY DEF NoTabs, Uis
    <2> QED BY <1>14, <2>1 DEF ClosePage, disks, UiTyped
  <1>15. ASSUME UNCHANGED <<metadata, files, ui>> PROVE UiTyped'
    BY <1>15 DEF UiTyped
  <1>16. CASE Call
    <2>1. ASSUME NEW w \in Workspaces, NEW n, SwitchWorkspace(w, n) PROVE UiTyped'
      BY <1>6, <2>1 DEF SwitchWorkspace, memory
    <2>2. ASSUME NEW w \in Workspaces, NEW n, CreateWorkspace(w, n) PROVE UiTyped'
      BY <1>15, <2>2 DEF CreateWorkspace, disks
    <2>3. CASE DeleteWorkspace
      BY <1>15, <2>3 DEF DeleteWorkspace, disks, memory
    <2> QED BY <1>2, <1>3, <1>4, <1>5, <1>16, <2>1, <2>2, <2>3 DEF Call
  <1>17. CASE Advance
    <2>1. CASE FinishWithMeta \/ Switched
      BY <1>6, <2>1 DEF FinishWithMeta, Switched, memory
    <2>2. CASE InitWorkspaces \/ Recover \/ SaveNames
      BY <1>15, <2>2 DEF InitWorkspaces, Recover, SaveNames, disks, memory
    <2>3. ASSUME NEW n \in Names, WriteFile(n) \/ RemoveFile(n) PROVE UiTyped'
      BY <1>15, <2>3 DEF WriteFile, RemoveFile, memory
    <2> QED BY <1>7, <1>8, <1>9, <1>10, <1>11, <1>17, <2>1, <2>2, <2>3 DEF Advance
  <1>18. CASE SaveMetadata
    BY <1>6, <1>18 DEF SaveMetadata, memory
  <1>19. CASE UNCHANGED vars
    BY <1>15, <1>19 DEF vars, disks, memory
  <1> QED BY <1>12, <1>13, <1>14, <1>16, <1>17, <1>18, <1>19 DEF Next, Page

\* ExplorerTypeOK: the index of the current tab never passes the end of the tabs,
\* and metadata, however often it is saved and read, has at most one tab a name.
THEOREM ExplorerTyped == Spec => []ExplorerTypeOK
  <1>1. Init => ReadsDir
    BY DEF Init, ReadsDir, At, Loading
  <1>2. IInv /\ UiTyped => ExplorerTypeOK
    BY DEF IInv, Typed, UiTyped, Uis, ExplorerTypeOK
  <1>3. IInv /\ ReadsDir /\ [Next]_vars => ReadsDir'
    BY ReadsDirNext
  <1>4. IInv /\ ReadsDir /\ UiTyped /\ [Next]_vars => UiTyped'
    BY UiTypedNext
  <1> QED BY <1>1, <1>2, <1>3, <1>4, InitUiTyped, ExplorerInv, PTL DEF Spec

-----------------------------------------------------------------------------
(* Memory and disk, while no operation is under way and at the awaits that    *)
(* lead there.                                                               *)

OpenPaths == {workspace.current} \X Names

\* What deleteItem may have taken from memory only.
Shadowed(n) == \E m \in Names \ {n} : n \in Extends[m]

\* What OpenIsWhole says of the open workspace.
Whole ==
    /\ \A p \in files : p[1] = workspace.current /\ p[2] \in disk[p[1]]
    /\ workspace.current # None => ui \in Uis(OpenPaths)
    /\ workspace.current \in workspace.names =>
         /\ workspace.current \in dirs
         /\ \A n \in disk[workspace.current] : Here(n) \in files \/ Shadowed(n)

\* A page that loads has no files and no tabs before it reads a directory.  A
\* switch later on goes to a workspace that has its directory.
WholeInv ==
    /\ op = None \/ At("save") => Whole
    /\ At("read") => files \cup ({workspace.current} \X op.todo)
                        = {workspace.current} \X disk[workspace.current]
    /\ At("remove") \/ At("rmdir") => files \subseteq {op.ws} \X Names
    /\ At("names") => workspace = NoConfig /\ files = {}
    /\ At("write") => op.ws \in workspace.names
    /\ At("init") \/ At("lost") => op.loading
    /\ At("write") \/ At("remove") \/ At("rmdir") => ~ op.loading
    /\ At("switch") \/ At("config") => op.loading \/ Switching.current \in dirs
    /\ op # None /\ op.loading /\ op.at \in {"init", "switch", "config", "lost"}
         => files = {} /\ ui = NoTabs

\* All that the steps below rely on.
OpenInv == IInv /\ ReadsDir /\ UiTyped /\ WholeInv

\* What the steps need of the types.
LEMMA WholeTypes ==
    ASSUME OpenInv
    PROVE  /\ Typed /\ None \notin workspace.names /\ None \notin config.names
           /\ None \notin dirs /\ files \subseteq Paths
  BY NoneIsNoPath DEF OpenInv, IInv, Typed, Configs, UiTyped

\* The files in memory are paths of the open workspace.
LEMMA FilesHere ==
    ASSUME OpenInv, Whole, NEW p \in files
    PROVE  /\ p = <<workspace.current, p[2]>> /\ p[2] \in Names
           /\ workspace.current \in Workspaces
           /\ p[2] \in disk[workspace.current]
  BY WholeTypes DEF Whole, Paths

\* An item is created, renamed or deleted in memory and on disk alike, but for
\* the files that a deletion takes from memory because of their names.
LEMMA ItemsWhole ==
    ASSUME OpenInv,
           NEW n \in Names, NEW m \in Names, NEW override, NEW open,
           \/ CreateItem(n, override, open) \/ RenameItem(n, m) \/ DeleteItem(n)
    PROVE  WholeInv'
  <1> DEFINE w == workspace.current
  <1>1. /\ op = None /\ op' = Do("save") /\ UNCHANGED workspace
        /\ w # None /\ w \in Workspaces
    BY OpenWorkspace DEF CreateItem, RenameItem, DeleteItem, Ready, OpenInv, IInv
  <1>2. /\ Whole /\ ui \in Uis(OpenPaths) /\ disk \in [Workspaces -> SUBSET Names]
    BY <1>1 DEF OpenInv, WholeInv, Whole, IInv, Typed
  <1>3. /\ op'.at = "save" /\ OpenPaths' = OpenPaths /\ OpenPaths \subseteq Paths
        /\ Here(n) \in OpenPaths /\ Here(m) \in OpenPaths /\ Typed
    BY <1>1, NewOperation DEF Steps, OpenPaths, Here, Paths, OpenInv, IInv
  <1>4. ui' \in Uis(OpenPaths)
    BY <1>2, <1>3, CreateItemTyped, RenameItemTyped, DeleteItemTyped
  <1>5. \A p \in files : p = <<w, p[2]>> /\ p[2] \in disk[w]
    BY <1>2, FilesHere
  <1>6. /\ dirs \subseteq dirs'
        /\ \A p \in files' : p[1] = w /\ p[2] \in disk'[w]
        /\ \A k \in disk'[w] : k \in disk[w] /\ <<w, k>> \in files =>
              <<w, k>> \in files' \/ Shadowed(k)
        /\ \A k \in disk'[w] \ disk[w] : <<w, k>> \in files'
    <2>1. CASE CreateItem(n, override, open)
      <3>1. /\ disk'[w] = disk[w] \cup {n} /\ files' = files \cup {<<w, n>>}
            /\ dirs \subseteq dirs'
        BY <1>1, <1>2, <2>1 DEF CreateItem, Here
      <3> QED BY <1>5, <3>1
    <2>2. CASE RenameItem(n, m)
      <3>1. /\ disk'[w] = (disk[w] \ {n}) \cup {m}
            /\ files' = (files \ {<<w, n>>}) \cup {<<w, m>>} /\ UNCHANGED dirs
        BY <1>1, <1>2, <2>2 DEF RenameItem, Here
      <3> QED BY <1>5, <3>1
    <2>3. CASE DeleteItem(n)
      <3>1. /\ disk'[w] = disk[w] \ {n} /\ UNCHANGED dirs
            /\ files' = files \ { <<w, k>> : k \in {n} \cup Extends[n] }
        <4>1. Under(Here(n)) = { <<w, k>> : k \in {n} \cup Extends[n] }
          BY DEF Under, Here
        <4> QED BY <1>1, <1>2, <2>3, <4>1 DEF DeleteItem
      <3>2. ASSUME NEW k \in disk'[w], <<w, k>> \in files, <<w, k>> \notin files'
            PROVE  Shadowed(k)
        BY <3>1, <3>2 DEF Shadowed
      <3>3. \A p \in files' : p[1] = w /\ p[2] \in disk'[w]
        BY <1>5, <3>1
      <3> QED BY <3>1, <3>2, <3>3
    <2> QED BY <2>1, <2>2, <2>3
  <1>7. ASSUME w \in workspace.names, NEW k \in disk'[w]
        PROVE  <<w, k>> \in files' \/ Shadowed(k)
    <2>1. k \in disk[w] => <<w, k>> \in files \/ Shadowed(k)
      BY <1>2, <1>7 DEF Whole, Here
    <2> QED BY <1>6, <2>1
  <1>8. Whole'
    BY <1>1, <1>2, <1>3, <1>4, <1>6, <1>7 DEF Whole, Here, Shadowed
  <1> QED BY <1>1, <1>3, <1>8 DEF WholeInv, At

\* A switch of a page that loads, or to a workspace that has its directory.
LEMMA SwitchesWhole ==
    ASSUME op' # None, op'.at \in {"switch", "config"},
           op'.loading \/ Switching'.current \in dirs',
           op'.loading => files' = {} /\ ui' = NoTabs
    PROVE  WholeInv'
  BY DEF WholeInv, At

\* The operations that end with a switch.
LEMMA SwitchToWhole ==
    ASSUME OpenInv, IInv', NEW w \in dirs', NEW n \in Names \cup {None},
           w \in workspace'.names \/ w = workspace'.current,
           \/ op # None /\ ~ op.loading /\ SwitchTo(w, n)
           \/ op' = [Do("switch") EXCEPT !.to = w]
           \/ op' = [Do("config") EXCEPT !.to = w, !.name = n]
    PROVE  WholeInv'
  <1>1. op'.at \in {"switch", "config"} /\ op'.to = w /\ ~ op'.loading
    BY DEF SwitchTo, Do, Loading
  <1>2. w \in Workspaces /\ op \in Ops \cup {None} /\ workspace' \in Configs
    BY DEF IInv, Typed, Configs, OpenInv
  <1>3. op' \in Ops
    <2>1. CASE op # None /\ SwitchTo(w, n)
      BY <1>2, <2>1, NewSwitch
    <2>2. CASE \/ op' = [Do("switch") EXCEPT !.to = w]
               \/ op' = [Do("config") EXCEPT !.to = w, !.name = n]
      BY <1>2, <2>2 DEF Do, Loading, Ops, Steps
    <2> QED BY <2>1, <2>2
  <1>4. op' # None
    BY <1>3, NoneIsNoOperation
  <1>5. Switching'.current = w
    BY <1>1, <1>2 DEF Switching, Configs
  <1> QED BY <1>1, <1>4, <1>5, SwitchesWhole

\* A switch empties memory; then the directory is read, or is lost if the page
\* loads.
LEMMA SaveConfigWhole == ASSUME OpenInv, SaveConfig PROVE WholeInv'
  <1> DEFINE w == Switching.current
  <1>1. /\ At("config") /\ op \in Ops /\ workspace' = Switching
        /\ files' = {} /\ Read(w) /\ UNCHANGED <<disk, dirs, ui>>
    BY WholeTypes DEF SaveConfig, At, Typed
  <1>2. /\ op'.at = IF w \in dirs THEN "read" ELSE "lost"
        /\ op'.loading = op.loading
        /\ w \in dirs => op'.todo = disk[w]
    BY <1>1 DEF Read, Loading
  <1>3. op' # None
    <2>1. /\ op \in Ops /\ disk \in [Workspaces -> SUBSET Names] /\ dirs \subseteq Workspaces
      BY <1>1, WholeTypes DEF Typed
    <2>2. op' \in Ops
      BY <1>1, <2>1 DEF Read, Loading, Ops, Steps
    <2> QED BY <2>2, NoneIsNoOperation
  <1>4. /\ w \notin dirs => op.loading
        /\ op.loading => ui = NoTabs
    BY <1>1 DEF OpenInv, WholeInv, At
  <1> HIDE DEF w
  <1>5. workspace'.current = w
    BY <1>1 DEF w
  <1> QED BY <1>1, <1>2, <1>3, <1>4, <1>5 DEF WholeInv, At

\* Each file that is read is one file less to be read.
LEMMA ReadFileWhole ==
    ASSUME OpenInv, NEW n \in Names, ReadFile(n) PROVE WholeInv'
  <1>1. /\ op \in Ops /\ op # None /\ op.at = "read" /\ n \in op.todo
        /\ files' = files \cup {<<workspace.current, n>>}
        /\ op' = [op EXCEPT !.todo = @ \ {n}]
        /\ UNCHANGED <<disk, workspace>>
    BY WholeTypes DEF ReadFile, At, Here, disks, Typed
  <1>2. op' \in Ops /\ op'.at = "read" /\ op'.todo = op.todo \ {n}
    BY <1>1 DEF Ops
  <1>3. op' # None
    BY <1>2, NoneIsNoOperation
  <1>4. files \cup ({workspace.current} \X op.todo)
           = {workspace.current} \X disk[workspace.current]
    BY <1>1 DEF OpenInv, WholeInv, At
  <1>5. files' \cup ({workspace.current} \X op'.todo)
           = files \cup ({workspace.current} \X op.todo)
    BY <1>1, <1>2
  <1> QED BY <1>1, <1>2, <1>3, <1>4, <1>5 DEF WholeInv, At

\* When the last file is read memory is the directory.
LEMMA ReadMetadataWhole == ASSUME OpenInv, ReadMetadata PROVE WholeInv'
  <1>1. /\ At("read") /\ op.todo = {}
        /\ UNCHANGED <<disk, dirs, workspace, files>>
        /\ op' = None \/ op' = Do("save")
    BY DEF ReadMetadata, disks, Done
  <1>2. /\ workspace.current \in dirs /\ workspace.current \in Workspaces
        /\ files \cup ({workspace.current} \X op.todo)
               = {workspace.current} \X disk[workspace.current]
    BY <1>1, WholeTypes DEF OpenInv, WholeInv, ReadsDir, Typed
  <1>3. files = {workspace.current} \X disk[workspace.current]
    BY <1>1, <1>2
  <1>4. ui' \in Uis(OpenPaths)
    BY <1>2, WholeTypes, ReadMetadataTyped DEF OpenPaths, OpenInv
  <1>5. Whole'
    BY <1>1, <1>2, <1>3, <1>4 DEF Whole, OpenPaths, Here
  <1>6. op' = None \/ op'.at = "save"
    BY <1>1, NewOperation DEF Steps
  <1> QED BY <1>5, <1>6 DEF WholeInv, At

\* What is deleted is all that is in memory, so that nothing of it is left when
\* another workspace is switched to, or none.
LEMMA DeletionWhole ==
    ASSUME OpenInv, NEW n \in Names,
           \/ DeleteWorkspace \/ RemoveFile(n) \/ RemoveMetadata
    PROVE  WholeInv'
  <1>1. /\ UNCHANGED files
        /\ op' \in Ops /\ op'.at \in {"remove", "rmdir"} /\ ~ op'.loading
        /\ files \subseteq {op'.ws} \X Names
    <2>1. CASE DeleteWorkspace
      <3>1. /\ op = None /\ workspace.current # None
            /\ op' = [Do("remove") EXCEPT !.ws = workspace.current,
                                          !.todo = disk[workspace.current]]
            /\ workspace.current \in Workspaces /\ UNCHANGED files
        BY <2>1, OpenWorkspace, WholeTypes DEF DeleteWorkspace, Ready, memory
      <3>2. files \subseteq {workspace.current} \X Names
        BY <3>1, WholeTypes DEF OpenInv, WholeInv, Whole, Paths
      <3>3. /\ op' \in Ops /\ op'.at = "remove" /\ op'.ws = workspace.current
            /\ ~ op'.loading
        BY <3>1, WholeTypes DEF Do, Loading, Ops, Steps, Typed
      <3> QED BY <3>1, <3>2, <3>3
    <2>2. CASE RemoveFile(n)
      <3>1. /\ op \in Ops /\ op # None /\ op.at = "remove" /\ UNCHANGED files
            /\ op' = [op EXCEPT !.todo = @ \ {n}]
        BY <2>2, WholeTypes DEF RemoveFile, At, Typed, memory
      <3>2. op' \in Ops /\ op'.at = "remove" /\ op'.ws = op.ws /\ op'.loading = op.loading
        BY <3>1 DEF Ops
      <3> QED BY <3>1, <3>2 DEF OpenInv, WholeInv, At
    <2>3. CASE RemoveMetadata
      <3>1. /\ op \in Ops /\ op # None /\ op.at = "remove" /\ UNCHANGED files
            /\ op' = [op EXCEPT !.at = "rmdir"]
        BY <2>3, WholeTypes DEF RemoveMetadata, Go, At, Typed, memory
      <3>2. op' \in Ops /\ op'.at = "rmdir" /\ op'.ws = op.ws /\ op'.loading = op.loading
        BY <3>1 DEF Ops, Steps
      <3> QED BY <3>1, <3>2 DEF OpenInv, WholeInv, At
    <2> QED BY <2>1, <2>2, <2>3
  <1>2. op' # None
    BY <1>1, NoneIsNoOperation
  <1> QED BY <1>1, <1>2 DEF WholeInv, At

\* After a deletion: another workspace that is listed, or none at all.
LEMMA RemoveDirWhole == ASSUME OpenInv, IInv', RemoveDir PROVE WholeInv'
  <1> DEFINE names == workspace.names \ {op.ws}
  <1>1. /\ op \in Ops /\ op # None /\ op.at = "rmdir" /\ ~ op.loading
        /\ files' = files \ ({op.ws} \X Names)
        /\ names \subseteq dirs'
    <2>1. /\ op \in Ops /\ op # None /\ op.at = "rmdir"
          /\ files' = files \ ({op.ws} \X Names)
          /\ dirs \ {op.ws} \subseteq dirs'
      BY WholeTypes DEF RemoveDir, At, Typed
    <2> QED BY <2>1 DEF OpenInv, WholeInv, IInv, NamesHaveDirs, AtRest, At
  <1>2. files' = {}
    BY <1>1 DEF OpenInv, WholeInv, At
  <1>3. CASE names = {}
    <2>1. op' = [op EXCEPT !.at = "names"] /\ workspace' = NoConfig
      BY <1>3 DEF RemoveDir, Go
    <2>2. op' \in Ops /\ op'.at = "names" /\ op' # None
      BY <1>1, <2>1, NextStep, NoneIsNoOperation DEF Steps
    <2> QED BY <1>1, <1>2, <2>1, <2>2 DEF WholeInv, At
  <1>4. CASE names # {}
    <2>1. PICK w \in names : /\ SwitchTo(w, None)
                             /\ workspace' = [workspace EXCEPT !.names = names]
      BY <1>4 DEF RemoveDir
    <2>2. w \in workspace'.names
      BY <2>1, WholeTypes DEF Typed, Configs
    <2> QED BY <1>1, <2>1, <2>2, SwitchToWhole
  <1> QED BY <1>3, <1>4

\* While the page loads nothing is in memory yet, whichever workspace is looked for.
LEMMA RecoverWhole == ASSUME OpenInv, Recover PROVE WholeInv'
  <1>1. /\ At("lost") /\ op \in Ops /\ op # None /\ op.loading
        /\ files = {} /\ ui = NoTabs /\ UNCHANGED <<files, ui>>
    BY WholeTypes DEF Recover, At, Typed, OpenInv, WholeInv
  <1>2. CASE workspace.names = {}
    <2>1. op' = None /\ workspace' = workspace
      BY <1>2 DEF Recover, Done
    <2>2. NoTabs \in Uis(OpenPaths')
      BY DEF NoTabs, Uis
    <2>3. Whole'
      BY <1>1, <1>2, <2>1, <2>2 DEF Whole
    <2> QED BY <2>1, <2>3 DEF WholeInv, At
  <1>3. CASE workspace.names # {}
    <2>1. op' = [op EXCEPT !.at = "config"]
      BY <1>3 DEF Recover, Go
    <2>2. op' \in Ops /\ op'.at = "config" /\ op'.loading
      BY <1>1, <2>1 DEF Ops, Steps
    <2> QED BY <1>1, <2>2, NoneIsNoOperation, SwitchesWhole
  <1> QED BY <1>2, <1>3

\* The page is loaded with the saved config and with no files.
LEMMA InitWorkspacesWhole == ASSUME OpenInv, InitWorkspaces PROVE WholeInv'
  <1>1. /\ At("init") /\ workspace' = config /\ UNCHANGED <<config, files, ui>>
        /\ op \in Ops /\ op # None /\ op.loading /\ files = {} /\ ui = NoTabs
    BY WholeTypes DEF InitWorkspaces, disks, OpenInv, WholeInv, At, Typed
  <1>2. CASE config.current \in config.names
    <2>1. SwitchTo(config.current, None) /\ config.current \in Workspaces
      BY <1>2, WholeTypes DEF InitWorkspaces, Typed, Configs
    <2>2. op' \in Ops /\ op'.at = "switch"
      BY <1>1, <2>1, NewSwitch
    <2>3. op'.loading
      BY <1>1, <2>1 DEF SwitchTo, Loading
    <2> QED BY <1>1, <2>2, <2>3, NoneIsNoOperation, SwitchesWhole
  <1>3. CASE config.current \notin config.names
    <2>1. op' = None
      BY <1>3 DEF InitWorkspaces, Done
    <2>2. NoTabs \in Uis(OpenPaths')
      BY DEF NoTabs, Uis
    <2>3. Whole'
      BY <1>1, <1>3, <2>2 DEF Whole
    <2> QED BY <2>1, <2>3 DEF WholeInv, At
  <1> QED BY <1>2, <1>3

\* A new workspace is listed before its files are written, and has its directory
\* when it is switched to.
LEMMA CreationWhole ==
    ASSUME OpenInv, IInv', NEW n \in Names,
           \/ WriteFile(n)
           \/ \E w \in Workspaces : CreateWorkspace(w, n)
    PROVE  WholeInv'
  <1>1. CASE WriteFile(n)
    <2>1. /\ op \in Ops /\ op # None /\ op.at = "write" /\ ~ op.loading
          /\ UNCHANGED workspace /\ op.ws \in workspace.names /\ op.ws \in dirs'
      BY <1>1, WholeTypes DEF WriteFile, memory, OpenInv, WholeInv, At, Typed
    <2>2. CASE op.todo = {n}
      <3>1. SwitchTo(op.ws, op.name) /\ op.name \in Names \cup {None}
        BY <1>1, <2>1, <2>2 DEF WriteFile, Ops
      <3> QED BY <2>1, <3>1, SwitchToWhole
    <2>3. CASE op.todo # {n}
      <3>1. op' = [op EXCEPT !.todo = @ \ {n}]
        BY <1>1, <2>3 DEF WriteFile
      <3>2. op' \in Ops /\ op'.at = "write" /\ op'.ws = op.ws /\ op'.loading = op.loading
        BY <2>1, <3>1 DEF Ops
      <3>3. op' # None
        BY <3>2, NoneIsNoOperation
      <3> QED BY <2>1, <3>2, <3>3 DEF WholeInv, At
    <2> QED BY <2>2, <2>3
  <1>2. ASSUME NEW w \in Workspaces, CreateWorkspace(w, n) PROVE WholeInv'
    <2>1. /\ op' = [Do("write") EXCEPT !.ws = w, !.name = n, !.todo = NewFiles]
          /\ w \in workspace'.names
      BY <1>2 DEF CreateWorkspace
    <2>2. op' \in Ops /\ op'.at = "write" /\ op'.ws = w /\ ~ op'.loading
      BY <2>1, ExplorerAssumption DEF Do, Loading, Ops, Steps
    <2>3. op' # None
      BY <2>2, NoneIsNoOperation
    <2> QED BY <2>1, <2>2, <2>3 DEF WholeInv, At
  <1> QED BY <1>1, <1>2

\* The switches of SwitchWorkspace, of a renaming and of other operations.
LEMMA SwitchingWhole ==
    ASSUME OpenInv, IInv',
           \/ \E w \in Workspaces, n \in Names \cup {None} : SwitchWorkspace(w, n)
           \/ \E v \in Workspaces : RenameWorkspace(v)
           \/ Switched
    PROVE  WholeInv'
  <1>1. ASSUME NEW w \in Workspaces, NEW n \in Names \cup {None}, SwitchWorkspace(w, n)
        PROVE  WholeInv'
    <2>1. /\ op = None /\ UNCHANGED workspace /\ w \in workspace.names
          /\ op' = [Do("config") EXCEPT !.to = w, !.name = n]
          /\ dirs \subseteq dirs'
      BY <1>1, WholeTypes, SaveMetaAdds DEF SwitchWorkspace, memory
    <2>2. w \in dirs' /\ w \in workspace'.names
      BY <2>1 DEF OpenInv, IInv, NamesHaveDirs, AtRest, At
    <2> QED BY <2>1, <2>2, SwitchToWhole
  <1>2. ASSUME NEW v \in Workspaces, RenameWorkspace(v) PROVE WholeInv'
    <2>1. /\ v \in dirs' /\ v = workspace'.current
          /\ op' = [Do("switch") EXCEPT !.to = v]
      BY <1>2 DEF RenameWorkspace, MoveWorkspace
    <2>2. None \in Names \cup {None}
      OBVIOUS
    <2> QED BY <2>1, <2>2, SwitchToWhole
  <1>3. CASE Switched
    <2>1. /\ At("switch") /\ op' = [op EXCEPT !.at = "config"] /\ op \in Ops
          /\ op # None /\ op.at = "switch"
          /\ UNCHANGED <<workspace, files, ui>> /\ dirs \subseteq dirs'
      BY <1>3, WholeTypes, SaveMetaAdds DEF Switched, Go, memory, At, Typed
    <2>2. /\ op' \in Ops /\ op'.at = "config" /\ op'.to = op.to
          /\ op'.loading = op.loading
      BY <2>1 DEF Ops, Steps
    <2>3. op' # None
      BY <2>2, NoneIsNoOperation
    <2>4. Switching' = Switching
      BY <2>1, <2>2 DEF Switching
    <2>5. /\ op.loading \/ Switching.current \in dirs
          /\ op.loading => files = {} /\ ui = NoTabs
      BY <2>1 DEF OpenInv, WholeInv, At
    <2> QED BY <2>1, <2>2, <2>3, <2>4, <2>5, SwitchesWhole
  <1> QED BY <1>1, <1>2, <1>3

\* The end of an operation.
LEMMA EndWhole ==
    ASSUME OpenInv, FinishWithMeta \/ SaveNames PROVE WholeInv'
  <1>1. CASE FinishWithMeta
    <2>1. /\ At("save") /\ op' = None /\ dirs \subseteq dirs'
          /\ UNCHANGED <<disk, workspace, files, ui>>
      BY <1>1, WholeTypes, SaveMetaAdds DEF FinishWithMeta, Done, memory
    <2>2. Whole'
      BY <2>1 DEF OpenInv, WholeInv, Whole, OpenPaths, Here
    <2> QED BY <2>1, <2>2 DEF WholeInv, At
  <1>2. CASE SaveNames
    <2>1. /\ op' = None /\ UNCHANGED <<workspace, files>>
          /\ workspace = NoConfig /\ files = {}
      BY <1>2 DEF SaveNames, Done, memory, OpenInv, WholeInv
    <2>2. Whole'
      BY <2>1 DEF Whole, NoConfig
    <2> QED BY <2>1, <2>2 DEF WholeInv, At
  <1> QED BY <1>1, <1>2

\* The tabs stay those of the open workspace whatever is clicked, and there are
\* none while the page loads.
LEMMA PageWhole ==
    ASSUME OpenInv, ~ ClosePage, Page \/ UNCHANGED vars PROVE WholeInv'
  <1>1. /\ UNCHANGED <<disk, workspace, files, op>> /\ dirs \subseteq dirs'
        /\ op # None /\ op.loading => UNCHANGED ui
    BY WholeTypes, SaveMetaAdds DEF Page, ClickFile, CloseTabs, DragTab, SaveMetadata,
       Loaded, vars, disks, memory
  <1>2. Switching' = Switching
    BY <1>1 DEF Switching
  <1>3. ASSUME workspace.current # None, Whole PROVE ui' \in Uis(OpenPaths)
    <2>1. workspace.current \in Workspaces
      BY <1>3, WholeTypes DEF Typed, Configs
    <2>2. ui \in Uis(OpenPaths) /\ files \subseteq OpenPaths
      BY <1>3, WholeTypes DEF Whole, OpenPaths, Paths
    <2>3. None \notin OpenPaths
      BY <2>1, NoneIsNoPath DEF OpenPaths, Paths
    <2>4. ASSUME NEW p \in Paths, ClickFile(p) PROVE ui' \in Uis(OpenPaths)
      BY <2>2, <2>4, ClickTyped
    <2>5. CASE CloseTabs \/ DragTab
      BY <2>2, <2>3, <2>5, CloseTabsTyped, DragTabTyped
    <2>6. CASE SaveMetadata \/ UNCHANGED vars
      BY <2>2, <2>6 DEF SaveMetadata, vars, memory
    <2> QED BY <2>4, <2>5, <2>6 DEF Page
  <1>4. Whole => Whole'
    <2>1. OpenPaths' = OpenPaths
      BY <1>1 DEF OpenPaths
    <2> QED BY <1>1, <1>3, <2>1 DEF Whole, Here
  <1> QED BY <1>1, <1>2, <1>4 DEF OpenInv, WholeInv, At

\* Every step keeps memory and disk together, a page that is closed too.
LEMMA WholeInvNext == ASSUME OpenInv, IInv', [Next]_vars PROVE WholeInv'
  <1>1. CASE ClosePage
    <2>1. op' = Loading /\ files' = {} /\ ui' = NoTabs
      BY <1>1 DEF ClosePage
    <2>2. op' \in Ops /\ op'.at = "init" /\ op'.loading
      BY <2>1 DEF Loading, Ops, Steps
    <2>3. op' # None
      BY <2>2, NoneIsNoOperation
    <2> QED BY <2>1, <2>2, <2>3 DEF WholeInv, At
  <1>2. PICK n \in Names : TRUE
    BY ExplorerAssumption
  <1>3. CASE Call
    <2>1. ASSUME NEW k \in Names, NEW override, NEW open,
                 CreateItem(k, override, open) PROVE WholeInv'
      BY <2>1, ItemsWhole
    <2>2. ASSUME NEW k \in Names, NEW m \in Names, RenameItem(k, m) PROVE WholeInv'
      BY <2>2, ItemsWhole
    <2>3. ASSUME NEW k \in Names, DeleteItem(k) PROVE WholeInv'
      BY <2>3, ItemsWhole
    <2>4. NewFiles \subseteq Names
      BY ExplorerAssumption
    <2>5. ASSUME NEW w \in Workspaces, NEW k \in NewFiles,
                 SwitchWorkspace(w, k) \/ CreateWorkspace(w, k) PROVE WholeInv'
      BY <2>4, <2>5, SwitchingWhole, CreationWhole
    <2>6. ASSUME NEW w \in Workspaces, SwitchWorkspace(w, None) \/ RenameWorkspace(w)
          PROVE  WholeInv'
      BY <2>6, SwitchingWhole
    <2>7. CASE DeleteWorkspace
      BY <1>2, <2>7, DeletionWhole
    <2> QED BY <1>3, <2>1, <2>2, <2>3, <2>5, <2>6, <2>7 DEF Call
  <1>4. CASE Advance
    BY <1>2, <1>4, InitWorkspacesWhole, EndWhole, SwitchingWhole, SaveConfigWhole,
       ReadFileWhole, ReadMetadataWhole, RecoverWhole, DeletionWhole, RemoveDirWhole,
       CreationWhole DEF Advance
  <1> QED BY <1>1, <1>3, <1>4, PageWhole DEF Next

\* OpenIsWhole: between operations memory is the workspace on disk, wherever the
\* page was closed before and whichever names begin with others.
THEOREM AlwaysOpenIsWhole == Spec => []OpenIsWhole
  <1>1. Init => ReadsDir /\ WholeInv
    <2> SUFFICES ASSUME Init PROVE ReadsDir /\ WholeInv
      OBVIOUS
    <2>1. Loading \in Ops /\ Loading.at = "init" /\ Loading.loading
      BY DEF Loading, Ops, Steps
    <2>2. op # None /\ op.at = "init" /\ op.loading
      BY <2>1, NoneIsNoOperation DEF Init
    <2> QED BY <2>2 DEF Init, ReadsDir, WholeInv, At
  <1>2. OpenInv /\ [Next]_vars => OpenInv'
    <2> SUFFICES ASSUME OpenInv, [Next]_vars PROVE OpenInv'
      OBVIOUS
    <2> QED BY NextIInv, ReadsDirNext, UiTypedNext, WholeInvNext DEF OpenInv
  <1>3. OpenInv => OpenIsWhole
    <2> SUFFICES ASSUME OpenInv, op = None PROVE OpenIsWhole
      BY DEF OpenIsWhole
    <2>1. config = workspace /\ Whole
      BY DEF OpenInv, IInv, ConfigIsSaved, AtRest, WholeInv
    <2>2. ASSUME workspace.current # None, NEW p \in ToSet(ui.tabs)
          PROVE  p[1] = workspace.current
      <3>1. ui.tabs \in Seq(OpenPaths)
        BY <2>1, <2>2 DEF Whole, Uis
      <3>2. p \in OpenPaths
        BY <2>2, <3>1 DEF ToSet
      <3> QED BY <3>2 DEF OpenPaths
    <2> QED BY <2>1, <2>2 DEF OpenIsWhole, Whole, Shadowed
  <1> QED BY <1>1, <1>2, <1>3, InitIInv, InitUiTyped, PTL DEF Spec, OpenInv
=============================================================================
