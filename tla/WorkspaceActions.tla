-------------------------- MODULE WorkspaceActions --------------------------
(* The learning page at work: switching workspaces, building, deploying and  *)
(* interacting (client/src/learning), on top of the explorer's current       *)
(* workspace and the program info that is saved in each workspace            *)
(* (client/src/utils).                                                       *)
(*                                                                           *)
(* Everything runs in one browser thread; a step below is the code between   *)
(* two awaits or timers.  A program info holds whose keypair and whose       *)
(* server directory it names: the workspace they were made for.              *)
EXTENDS Naturals, FiniteSets

CONSTANTS
    Workspaces, Home,   \* workspaces, and the one open at the start
    Ops,                \* calls of actions, each made at most once
    Switches,           \* switches of workspaces, each made at most once
    IdeSwitches,        \* the explorer's own menu switches workspaces
    Buttons,            \* actions the learner starts from the page
    Typed,              \* commands typed in the terminal
    None

ASSUME WorkspaceAssumption ==
    /\ Home \in Workspaces
    /\ None \notin Workspaces /\ None \notin Ops
    /\ IdeSwitches \in BOOLEAN
    /\ Buttons \subseteq {"build", "deploy", "interact", "open", "inline"}
    /\ Typed \subseteq {"buildCmd", "deployCmd"}

VARIABLES
    current,      \* PgExplorer.currentWorkspaceName
    loaded,       \* the workspace PgExplorer.files belong to
    created,      \* PgExplorer.allWorkspaceNames
    sw,           \* the switches under way
    active,       \* activeWorkspaceNameRef
    live,         \* PgProgramInfo
    store,        \* .workspace/program-info.json of each workspace
    writeDue,     \* the debounced save of PgProgramInfo is due
    refreshDue,   \* the debounced PgProgramInfo.refresh is due
    refresh,      \* workspaces whose program info is being read
    act,          \* chainActionRef
    op,           \* the actions under way
    deployState,  \* PgGlobal.deployState
    resumed,      \* the running deployment was paused and goes on
    stage,        \* programStage of each workspace
    owner,        \* history: the workspace whose info PgProgramInfo holds
    mixed         \* history: it was used while another one was current

explorerVars == <<current, loaded, created, sw>>
infoVars == <<live, store, writeDue, refreshDue, refresh>>
deployVars == <<deployState, resumed>>
history  == <<owner, mixed>>
vars == <<explorerVars, active, infoVars, act, op, deployVars, stage, history>>

Owners == Workspaces \cup {None}
Infos  == [uuid : Owners, kp : Owners]

ASSUME NoneIsNoInfo == None \notin Infos

Actions == {"build", "deploy", "interact"}
Kinds   == Actions \cup {"open", "inline", "buildCmd", "deployCmd"}
Stages  == {"source", "built", "deployed"}

\* defaultState of the program info
NoInfo == [uuid |-> None, kp |-> None]
NoAct  == [action |-> "none", ws |-> None, by |-> None]
Idle   == [pc |-> "idle", kind |-> "build", ws |-> None, from |-> None,
           base |-> NoInfo, cmd |-> FALSE,
           next |-> "release"]
Ended  == [Idle EXCEPT !.pc = "over"]
AtRest == [pc |-> "idle", to |-> None, learning |-> FALSE]
Over   == [AtRest EXCEPT !.pc = "over"]

OpPcs == {"idle", "net", "execute", "noFiles", "server", "save", "apply", "idl",
          "deploy", "noBinary", "fetch", "upload", "hung", "test", "inline",
          "release", "over"}

Calls ==
    [pc : OpPcs, kind : Kinds, ws : Owners, from : Owners, base : Infos,
     cmd : BOOLEAN,
     next : {"release", "execute", "deploy"}]
SwitchCalls ==
    [pc : {"idle", "fetching", "saveMeta", "saving", "opening", "over"},
     to : Owners, learning : BOOLEAN]

WorkspaceTypeOK ==
    /\ current \in Workspaces /\ loaded \in Workspaces /\ active \in Workspaces
    /\ created \subseteq Workspaces
    /\ sw \in [Switches -> SwitchCalls]
    /\ live \in Infos
    /\ store \in [Workspaces -> Infos \cup {None}]
    /\ writeDue \in BOOLEAN /\ refreshDue \in BOOLEAN
    /\ refresh \subseteq Workspaces
    /\ act \in [action : Actions, ws : Workspaces, by : Ops] \cup {NoAct}
    /\ op \in [Ops -> Calls]
    /\ deployState \in {"ready", "loading", "paused"}
    /\ stage \in [Workspaces -> Stages]
    /\ owner \in Workspaces /\ {mixed, resumed} \subseteq BOOLEAN

Init ==
    /\ current = Home /\ loaded = Home /\ active = Home
    /\ created = {Home}
    /\ sw = [s \in Switches |-> AtRest]
    /\ live = NoInfo
    /\ store = [w \in Workspaces |-> None]
    /\ writeDue = FALSE /\ refreshDue = FALSE /\ refresh = {}
    /\ act = NoAct
    /\ op = [o \in Ops |-> Idle]
    /\ deployState = "ready"
    /\ stage = [w \in Workspaces |-> "source"]
    /\ resumed = FALSE
    /\ owner = Home /\ mixed = FALSE

\* PgProgramInfo is saved, captured or updated for the current workspace.
UseInfo == mixed' = (mixed \/ owner # current) /\ owner' = owner

-----------------------------------------------------------------------------
(* Program info: saved and refreshed by timers of no delay *)

\* storage.write: the relative path is that of the workspace now open.
FlushInfo ==
    /\ writeDue
    /\ store' = [store EXCEPT ![current] = live]
    /\ writeDue' = FALSE
    /\ UseInfo
    /\ UNCHANGED <<explorerVars, active, live, refreshDue, refresh, act, op,
                   deployVars, stage>>

StartRefresh ==
    /\ refreshDue
    /\ refresh' = refresh \cup {current}
    /\ refreshDue' = FALSE
    /\ UNCHANGED <<explorerVars, active, live, store, writeDue, act, op,
                   deployVars, stage, history>>

\* Mutant: a file that is not there is not replaced by the default state.
EndRefreshNoDefault(w) ==
    /\ w \in refresh
    /\ refresh' = refresh \ {w}
    /\ live' = store[w]
    /\ writeDue' = TRUE
    /\ owner' = w
    /\ UNCHANGED <<explorerVars, active, store, refreshDue, act, op,
                   deployVars, stage, mixed>>

\* The setters of the refreshed fields make the next save due.
EndRefresh(w) ==
    /\ w \in refresh
    /\ refresh' = refresh \ {w}
    /\ live' = IF store[w] = None THEN NoInfo ELSE store[w]
    /\ writeDue' = TRUE
    /\ owner' = w
    /\ UNCHANGED <<explorerVars, active, store, refreshDue, act, op,
                   deployVars, stage, mixed>>

-----------------------------------------------------------------------------
(* Workspaces *)

\* "Deploy and interaction must stay attached to their current workspace."
ChainActionBlocks == act.action \in {"deploy", "interact"}

\* A tutorial, an example or a repository that is not there is fetched first.
StartSwitch(s, w, learning) ==
    /\ sw[s].pc = "idle"
    /\ sw' = [sw EXCEPT ![s] =
                [pc |-> IF w \in created THEN "saveMeta" ELSE "fetching",
                 to |-> w, learning |-> learning]]
    /\ UNCHANGED <<current, loaded, created, active, infoVars, act, op,
                   deployVars, stage, history>>

\* selectLesson, selectTutorial, selectProgram, selectCustomProgram and
\* startNewProgram.
Navigate(s, w) ==
    /\ ~ ChainActionBlocks
    /\ StartSwitch(s, w, TRUE)

\* The workspace menu of the explorer's sidebar.
IdeSwitch(s, w) ==
    /\ IdeSwitches
    /\ StartSwitch(s, w, FALSE)

\* createWorkspace makes the new workspace the current one, writes its files
\* and goes on as switchWorkspace does, with saveMeta.
Create(s) ==
    /\ sw[s].pc = "fetching" /\ sw[s].to \notin created
    /\ current' = sw[s].to
    /\ created' = created \cup {sw[s].to}
    /\ sw' = [sw EXCEPT ![s].pc = "saveMeta"]
    /\ UNCHANGED <<loaded, active, infoVars, act, op, deployVars, stage,
                   history>>

\* The files cannot be fetched, or the workspace was created meanwhile.
FetchFails(s) ==
    /\ sw[s].pc = "fetching"
    /\ sw' = [sw EXCEPT ![s] = Over]
    /\ UNCHANGED <<current, loaded, created, active, infoVars, act, op,
                   deployVars, stage, history>>

SetName(s) ==
    /\ sw[s].pc = "saveMeta"
    /\ current' = sw[s].to
    /\ sw' = [sw EXCEPT ![s].pc = "saving"]
    /\ UNCHANGED <<loaded, created, active, infoVars, act, op, deployVars,
                   stage, history>>

\* _initCurrentWorkspace reads the files of the workspace now current.
LoadFiles(s) ==
    /\ sw[s].pc = "saving"
    /\ loaded' = current
    /\ sw' = [sw EXCEPT ![s].pc = "opening"]
    /\ UNCHANGED <<current, created, active, infoVars, act, op, deployVars,
                   stage, history>>

\* The switch event: syncWorkspace follows the explorer, the program info is
\* to be refreshed, and the navigation that waited activates its workspace.
Arrive(s) ==
    /\ sw[s].pc = "opening"
    /\ active' = IF sw[s].learning THEN sw[s].to ELSE current
    /\ refreshDue' = TRUE
    /\ sw' = [sw EXCEPT ![s] = Over]
    /\ UNCHANGED <<current, loaded, created, live, store, writeDue, refresh,
                   act, op, deployVars, stage, history>>

-----------------------------------------------------------------------------
(* Building *)

\* getBuildFiles makes a keypair if there is none, and keeps the files of the
\* current workspace only; capture takes the program info as it is.
BeginBuild(o, r) ==
    LET base == IF live.kp = None THEN [live EXCEPT !.kp = current] ELSE live
    IN  /\ live' = base
        /\ writeDue' = (writeDue \/ base # live)
        /\ UseInfo
        /\ op' = [op EXCEPT ![o] =
                    [r EXCEPT !.from = current, !.base = base,
                       !.pc = IF loaded = current THEN "server" ELSE "noFiles"]]

\* buildProgram of the page; it refuses if the explorer is elsewhere.
PageBuild(o, r) ==
    IF current # active
    THEN /\ op' = [op EXCEPT ![o] = [r EXCEPT !.pc = "release"]]
         /\ UNCHANGED <<live, writeDue, stage, history>>
    ELSE /\ BeginBuild(o, r)
         /\ stage' = [stage EXCEPT ![current] = "source"]

\* The server answers; the answer holds a uuid if the request had none.
BuildReply(o) ==
    /\ op[o].pc = "server"
    /\ op' = [op EXCEPT ![o].pc = "save"]
    /\ UNCHANGED <<explorerVars, active, infoVars, act, deployVars, stage,
                   history>>

\* No Rust files, no answer, the 270 seconds are over, or the result cannot
\* be written.
BuildFails(o) ==
    /\ op[o].pc \in {"server", "noFiles", "save"}
    /\ op' = [op EXCEPT ![o].pc = "release"]
    /\ stage' = [stage EXCEPT
                   ![IF op[o].cmd THEN current ELSE op[o].from] = "source"]
    /\ UNCHANGED <<explorerVars, active, infoVars, act, deployVars, history>>

Update(o, info) ==
    [info EXCEPT !.uuid = IF op[o].base.uuid = None THEN op[o].from
                          ELSE op[o].base.uuid]

\* Mutant: the result is written to the workspace that is open.
WriteResultHere(o) ==
    /\ op[o].pc = "save"
    /\ store' = [store EXCEPT ![current] = Update(o, op[o].base)]
    /\ op' = [op EXCEPT ![o].pc = "apply"]
    /\ UNCHANGED <<explorerVars, active, live, writeDue, refreshDue, refresh,
                   act, deployVars, stage, history>>

\* updateWorkspace writes to the path of the workspace that was built ...
WriteResult(o) ==
    /\ op[o].pc = "save"
    /\ store' = [store EXCEPT ![op[o].from] = Update(o, op[o].base)]
    /\ op' = [op EXCEPT ![o].pc = "apply"]
    /\ UNCHANGED <<explorerVars, active, live, writeDue, refreshDue, refresh,
                   act, deployVars, stage, history>>

\* What a call goes on with after its build.
Goes(o, p) == op' = [op EXCEPT ![o] = [@ EXCEPT !.pc = p, !.base = NoInfo]]

\* The command shows its stage at once and goes on, failed or not; the page
\* gives up after a failure and otherwise saves the IDL first.
AfterBuild(o, failed) ==
    IF op[o].cmd
    THEN /\ Goes(o, op[o].next)
         /\ stage' = [stage EXCEPT ![current] = IF failed THEN "source"
                                               ELSE "built"]
    ELSE /\ Goes(o, IF failed THEN "release" ELSE "idl")
         /\ stage' = IF failed THEN [stage EXCEPT ![op[o].from] = "source"]
                     ELSE stage

\* ... and updates PgProgramInfo if that workspace is (again) the current one.
ApplyResult(o) ==
    /\ op[o].pc = "apply"
    /\ IF current = op[o].from
       THEN live' = Update(o, live) /\ writeDue' = TRUE /\ UseInfo
       ELSE UNCHANGED <<live, writeDue, history>>
    /\ \E failed \in BOOLEAN : AfterBuild(o, failed)
    /\ UNCHANGED <<explorerVars, active, store, refreshDue, refresh, act,
                   deployVars>>

\* idl.json is written to the workspace that was built, open or not.
SaveIdl(o) ==
    /\ op[o].pc = "idl"
    /\ op' = [op EXCEPT ![o].pc = op[o].next]
    /\ stage' = [stage EXCEPT ![op[o].from] = "built"]
    /\ UNCHANGED <<explorerVars, active, infoVars, act, deployVars, history>>

\* If that fails, so does the build, after its result was saved.
IdlFails(o) ==
    /\ op[o].pc = "idl"
    /\ op' = [op EXCEPT ![o].pc = "release"]
    /\ stage' = [stage EXCEPT ![op[o].from] = "source"]
    /\ UNCHANGED <<explorerVars, active, infoVars, act, deployVars, history>>

-----------------------------------------------------------------------------
(* Deploying *)

\* deployProgram after ensureSurfpool: it builds first if there is no uuid or
\* the last build failed.
Connected(o) ==
    /\ op[o].pc = "net"
    /\ \/ PageBuild(o, [op[o] EXCEPT !.next = "execute"])
       \/ /\ live.uuid # None
          /\ op' = [op EXCEPT ![o].pc = "execute"]
          /\ UNCHANGED <<live, writeDue, stage, history>>
    /\ UNCHANGED <<explorerVars, active, store, refreshDue, refresh, act,
                   deployVars>>

\* What follows the deploy command: its finish event, and the page's success.
AfterDeploy(o) ==
    LET page == op[o].kind \in Actions
    IN  /\ op' = [op EXCEPT ![o].pc = IF op[o].kind = "interact" THEN "test"
                                      ELSE "release"]
        /\ stage' = [w \in Workspaces |->
                       IF \/ page /\ w = active
                          \/ act.action # "deploy" /\ w = current
                       THEN "deployed" ELSE stage[w]]

\* checkProgram of the deploy command: a program that has no uuid is built.
CheckProgram(o) ==
    /\ op[o].pc = "execute"
    /\ IF live.uuid = None
       THEN BeginBuild(o, [op[o] EXCEPT !.cmd = TRUE, !.next = "deploy"])
       ELSE /\ op' = [op EXCEPT ![o].pc = "deploy"]
            /\ UNCHANGED <<live, writeDue, history>>
    /\ UNCHANGED <<explorerVars, active, store, refreshDue, refresh, act,
                   deployVars, stage>>

Deploying == {"noBinary", "fetch", "upload", "hung"}

\* Mutant: the `finally` of the handler covers the calls that pause, too.
DeployFinally(o) ==
    /\ op[o].pc = "deploy"
    /\ \/ /\ deployState = "ready"
          /\ deployState' = "loading" /\ resumed' = FALSE
          /\ op' = [op EXCEPT ![o].pc = IF live.uuid = None THEN "noBinary"
                                        ELSE "fetch"]
          /\ UNCHANGED stage
       \/ /\ deployState # "ready"
          /\ deployState' = "ready" /\ resumed' = FALSE
          /\ AfterDeploy(o)
    /\ UNCHANGED <<explorerVars, active, infoVars, act, history>>

\* Its handler: a call while a deployment is under way pauses or resumes that
\* one and returns; the others ask the server for the binary of the uuid.
Deploy(o) ==
    /\ op[o].pc = "deploy"
    /\ \/ /\ deployState = "ready"
          /\ deployState' = "loading" /\ resumed' = FALSE
          /\ op' = [op EXCEPT ![o].pc = IF live.uuid = None THEN "noBinary"
                                        ELSE "fetch"]
          /\ UNCHANGED stage
       \/ /\ deployState = "loading"
          /\ deployState' = "paused" /\ resumed' = resumed
          /\ AfterDeploy(o)
       \/ /\ deployState = "paused"
          /\ deployState' = "loading"
          /\ resumed' = (resumed \/ \E x \in Ops : op[x].pc = "upload")
          /\ AfterDeploy(o)
    /\ UNCHANGED <<explorerVars, active, infoVars, act, history>>

Fetched(o) ==
    /\ op[o].pc = "fetch"
    /\ op' = [op EXCEPT ![o].pc = "upload"]
    /\ UNCHANGED <<explorerVars, active, infoVars, act, deployVars, stage,
                   history>>

\* "Continue deployment?" is answered with yes: a nested loader takes over.
Resume(o) ==
    /\ op[o].pc = "upload" /\ deployState = "paused"
    /\ deployState' = "loading" /\ resumed' = TRUE
    /\ UNCHANGED <<explorerVars, active, infoVars, act, op, stage, history>>

\* The nested loader fails, which nobody hears of.
Hang(o) ==
    /\ op[o].pc = "upload" /\ resumed
    /\ op' = [op EXCEPT ![o].pc = "hung"]
    /\ UNCHANGED <<explorerVars, active, infoVars, act, deployVars, stage,
                   history>>

\* The last transaction goes to the address in PgProgramInfo at that time.  (A
\* pause is heeded only while the buffer is loaded, so it may not matter.)
FinishDeploy(o) ==
    /\ op[o].pc = "upload"
    /\ live.kp # None
    /\ deployState' = "ready" /\ resumed' = FALSE
    /\ AfterDeploy(o)
    /\ UNCHANGED <<explorerVars, active, infoVars, act, history>>

MayFail == {"net", "execute", "deploy", "noBinary", "fetch", "upload", "test"}

\* Mutant: the lock is released after a success only, not in a finally.
FailKeepsLock(o) ==
    /\ op[o].pc \in MayFail
    /\ op' = [op EXCEPT ![o] = Ended]
    /\ IF op[o].pc \in Deploying
       THEN deployState' = "ready" /\ resumed' = FALSE
       ELSE UNCHANGED deployVars
    /\ UNCHANGED <<explorerVars, active, infoVars, act, stage, history>>

\* Surfpool cannot be reached, a check or the learner refuses, a request or a
\* transaction fails, the deployment is cancelled, the test fails.
Fail(o) ==
    /\ op[o].pc \in MayFail
    /\ op' = [op EXCEPT ![o].pc = "release"]
    /\ IF op[o].pc \in Deploying
       THEN deployState' = "ready" /\ resumed' = FALSE
       ELSE UNCHANGED deployVars
    /\ UNCHANGED <<explorerVars, active, infoVars, act, stage, history>>

FinishTest(o) ==
    /\ op[o].pc = "test"
    /\ op' = [op EXCEPT ![o].pc = "release"]
    /\ UNCHANGED <<explorerVars, active, infoVars, act, deployVars, stage,
                   history>>

-----------------------------------------------------------------------------
(* Actions of the page *)

\* runChainAction with buildProgram, deployProgram, runLessonInteraction or
\* openInteraction, which only shows the drawer.
RunAction(o, a) ==
    LET r == [Idle EXCEPT !.kind = a, !.ws = active]
    IN  /\ op[o].pc = "idle"
        /\ act = NoAct
        /\ act' = [action |-> IF a = "open" THEN "interact" ELSE a,
                   ws |-> active, by |-> o]
        /\ IF a = "build"
           THEN PageBuild(o, r)
           ELSE /\ op' = [op EXCEPT ![o] =
                            [r EXCEPT !.pc =
                               CASE a = "open" -> "release"
                                 [] a = "interact" /\ stage[active] = "deployed"
                                      -> "test"
                                 [] OTHER -> "net"]]
                /\ UNCHANGED <<live, writeDue, stage, history>>
        /\ UNCHANGED <<explorerVars, active, store, refreshDue, refresh,
                       deployVars>>

\* `build` and `deploy` typed in the terminal or clicked in the IDE's views.
RunCommand(o, k) ==
    LET r == [Idle EXCEPT !.kind = k, !.cmd = TRUE]
    IN  /\ op[o].pc = "idle"
        /\ IF k = "buildCmd"
           THEN BeginBuild(o, r)
           ELSE /\ op' = [op EXCEPT ![o] = [r EXCEPT !.pc = "execute"]]
                /\ UNCHANGED <<live, writeDue, history>>
        /\ UNCHANGED <<explorerVars, active, store, refreshDue, refresh, act,
                       deployVars, stage>>

\* The finally of runChainAction: only the lock this call took is released.
Release(o) ==
    /\ op[o].pc = "release"
    /\ act' = IF act.by = o THEN NoAct ELSE act
    /\ op' = [op EXCEPT ![o] = Ended]
    /\ UNCHANGED <<explorerVars, active, infoVars, deployVars, stage, history>>

\* setInlineInteractionRunning(workspaceName, true) takes the lock, taken or
\* not ...
StartInline(o) ==
    /\ "inline" \in Buttons
    /\ op[o].pc = "idle"
    /\ act' = [action |-> "interact", ws |-> active, by |-> o]
    /\ op' = [op EXCEPT ![o] = [Idle EXCEPT !.kind = "inline", !.ws = active,
                                            !.pc = "inline"]]
    /\ UNCHANGED <<explorerVars, active, infoVars, deployVars, stage, history>>

\* Mutant: the workspace that is open now is compared.
EndInlineHere(o) ==
    /\ op[o].pc = "inline"
    /\ act' = IF act.action = "interact" /\ act.ws = active THEN NoAct ELSE act
    /\ op' = [op EXCEPT ![o] = Ended]
    /\ UNCHANGED <<explorerVars, active, infoVars, deployVars, stage, history>>

\* ... and (workspaceName, false) releases any interaction of the workspace.
EndInline(o) ==
    /\ op[o].pc = "inline"
    /\ act' = IF act.action = "interact" /\ act.ws = op[o].ws THEN NoAct
              ELSE act
    /\ op' = [op EXCEPT ![o] = Ended]
    /\ UNCHANGED <<explorerVars, active, infoVars, deployVars, stage, history>>

OpStep(o) ==
    \/ BuildReply(o)
    \/ BuildFails(o)
    \/ WriteResult(o)
    \/ ApplyResult(o)
    \/ SaveIdl(o)
    \/ IdlFails(o)
    \/ Connected(o)
    \/ CheckProgram(o)
    \/ Deploy(o)
    \/ Fetched(o)
    \/ Hang(o)
    \/ FinishDeploy(o)
    \/ Fail(o)
    \/ FinishTest(o)
    \/ Release(o)
    \/ EndInline(o)

SwitchStep(s) ==
    Create(s) \/ FetchFails(s) \/ SetName(s) \/ LoadFiles(s) \/ Arrive(s)

Timers == FlushInfo \/ StartRefresh \/ \E w \in Workspaces : EndRefresh(w)

Next ==
    \/ Timers
    \/ \E s \in Switches : SwitchStep(s)
    \/ \E o \in Ops : OpStep(o) \/ Resume(o)
    \/ \E s \in Switches, w \in Workspaces : Navigate(s, w)
    \/ \E s \in Switches, w \in Workspaces : IdeSwitch(s, w)
    \/ \E o \in Ops, a \in Buttons \ {"inline"} : RunAction(o, a)
    \/ \E o \in Ops, k \in Typed : RunCommand(o, k)
    \/ \E o \in Ops : StartInline(o)

Spec == Init /\ [][Next]_vars

\* What goes on by itself: a deployment that is paused does not.
Running(o) == op[o].pc # "upload" \/ deployState # "paused"

\* Requests and prompts are answered or aborted, retries are bounded, timers
\* run.
FairSpec ==
    /\ Spec
    /\ WF_vars(Timers)
    /\ \A s \in Switches : WF_vars(SwitchStep(s))
    /\ \A o \in Ops : WF_vars(Running(o) /\ OpStep(o))

-----------------------------------------------------------------------------
(* Properties *)

Own(info, w) == info.uuid \in {w, None} /\ info.kp \in {w, None}

\* program-info.ts:160-187: answers of builds may arrive at any time, before,
\* during and after any switches.  Unless PgProgramInfo itself was used while
\* it still held another workspace's info (between setWorkspaceName and the
\* end of the refresh), the keypair and the server directory saved in a
\* workspace, or kept by a build for it, are that workspace's own.
InfoIsOwn ==
    ~ mixed =>
    /\ \A w \in Workspaces : store[w] # None => Own(store[w], w)
    /\ \A o \in Ops :
          op[o].pc \in {"server", "save", "apply"} => Own(op[o].base, op[o].from)

\* useWorkspaceNavigation.ts:216: "Deploy and interaction must stay attached to
\* their current workspace": while one runs, its workspace stays open.
DeployIsAttached ==
    \A o \in Ops :
        /\ op[o].kind \in {"deploy", "interact"}
        /\ op[o].pc \notin {"idle", "release", "over"}
        => active = op[o].ws /\ current = op[o].ws

\* deploy.ts:22-36, 55-58: calls of the deploy command pause, resume and fail
\* in each other's way; still at most one deployment is under way, and the
\* state says so exactly as long as there is one.
OneDeployment ==
    /\ \A o, p \in Ops : {op[o].pc, op[p].pc} \subseteq Deploying => o = p
    /\ deployState = "ready" <=> \A o \in Ops : op[o].pc \notin Deploying

\* useProgramActions.ts:241-266, 345-350: drawer and buttons release the lock
\* under different conditions; still it never outlives the action that took it.
LockHasHolder == act # NoAct => op[act.by].pc \notin {"idle", "over"}

\* useProgramActions.ts:336-351: whatever fails, the page becomes free again
\* and again, but for a deployment that waits for the learner or one that was
\* resumed and hangs.
LockIsReleased ==
    \/ []<>(act = NoAct)
    \/ <>[](deployState = "paused")
    \/ <>(\E o \in Ops : op[o].pc = "hung")
=============================================================================
