-------------------------- MODULE WorkspaceProofs ---------------------------
(* Theorems about the learning page, for any number of workspaces, calls and *)
(* switches, all of them under way at once: its state is well formed, its    *)
(* lock has a holder, at most one deployment is under way, and what is saved *)
(* in a workspace is its own, as long as PgProgramInfo is not used while it  *)
(* holds another workspace's.                                                *)
EXTENDS WorkspaceActions, TLAPS

Building == {"server", "noFiles", "save", "apply", "idl"}

\* What a step of o leaves to the other calls, and what it does to o.
Others(o) == op' \in [Ops -> Calls] /\ \A x \in Ops \ {o} : op'[x] = op[x]

\* The call goes on to p, still for the same workspace and build.
Moves(o, p) ==
    /\ Others(o)
    /\ op'[o].pc = p /\ op'[o].ws = op[o].ws
    /\ op'[o].from = op[o].from /\ op'[o].base = op[o].base

\* The call leaves its build behind and goes on to p.
Leaves(o, p) ==
    /\ Others(o)
    /\ op'[o].pc = p /\ op'[o].ws = op[o].ws
    /\ op'[o].from = op[o].from /\ op'[o].base = NoInfo

\* Nothing happens to PgProgramInfo.
KeepsInfo == UNCHANGED <<live, writeDue, history>>

\* The call starts a build of the current workspace.
Builds(o) ==
    /\ Others(o)
    /\ UseInfo
    /\ op'[o].pc \in {"server", "noFiles"}
    /\ op'[o].from = current /\ op'[o].base = live'
    /\ live' = IF live.kp = None THEN [live EXCEPT !.kp = current] ELSE live
    /\ writeDue' = (writeDue \/ live' # live)
    /\ live' \in Infos

\* What the type of the calls says of one call.
LEMMA CallFields ==
  ASSUME NEW r \in Calls
  PROVE  /\ r.pc \in OpPcs /\ r.from \in Owners /\ r.base \in Infos
         /\ r.next \in {"release", "execute", "deploy"}
BY DEF Calls

\* What the type of the program infos says of one of them.
LEMMA InfoFields ==
  ASSUME NEW i \in Infos
  PROVE  i.uuid \in Owners /\ i.kp \in Owners
BY DEF Infos

\* A call that moves on keeps its other fields.
LEMMA PcChange ==
  ASSUME op \in [Ops -> Calls], NEW o \in Ops, NEW p \in OpPcs,
         op' = [op EXCEPT ![o].pc = p]
  PROVE  Moves(o, p)
<1>1. [op[o] EXCEPT !.pc = p] \in Calls
  BY DEF Calls
<1>2. op' = [op EXCEPT ![o] = [op[o] EXCEPT !.pc = p]]
  OBVIOUS
<1>3. op[o] \in Calls
  OBVIOUS
<1>4. op'[o] = [op[o] EXCEPT !.pc = p]
  BY <1>2
<1>5. Others(o)
  BY <1>1, <1>2 DEF Others
<1> QED
  BY <1>3, <1>4, <1>5 DEF Moves, Calls

\* One call is replaced, the others stay.
LEMMA Replaced ==
  ASSUME op \in [Ops -> Calls], NEW o \in Ops, NEW r \in Calls,
         op' = [op EXCEPT ![o] = r]
  PROVE  Others(o) /\ op'[o] = r
BY DEF Others

\* A call at rest is a call, and so is one that is over.
LEMMA IdleCall ==
  /\ Idle \in Calls /\ Idle.pc = "idle"
  /\ Ended \in Calls /\ Ended.pc = "over"
<1>1. NoInfo \in Infos
  BY DEF NoInfo, Infos, Owners
<1> HIDE DEF NoInfo
<1>2. Idle \in Calls /\ Idle.pc = "idle"
  BY <1>1 DEF Idle, Calls, Owners, OpPcs, Kinds, Actions
<1> HIDE DEF Idle
<1>3. Ended \in Calls /\ Ended.pc = "over"
  BY <1>2 DEF Ended, Calls, OpPcs
<1> QED
  BY <1>2, <1>3

\* A call stays a call when it moves on.
LEMMA WithPc ==
  ASSUME NEW r \in Calls, NEW p \in OpPcs
  PROVE  [r EXCEPT !.pc = p] \in Calls /\ [r EXCEPT !.pc = p].pc = p
BY DEF Calls

\* A program info stays one when it is given a keypair.
LEMMA KpChange ==
  ASSUME NEW i \in Infos, NEW w \in Owners
  PROVE  /\ [i EXCEPT !.kp = w] \in Infos
         /\ [i EXCEPT !.kp = w].uuid = i.uuid /\ [i EXCEPT !.kp = w].kp = w
BY DEF Infos

\* The result of a build makes a program info of a program info.
LEMMA UpdateInfo ==
  ASSUME op \in [Ops -> Calls], NEW o \in Ops, NEW i \in Infos
  PROVE  /\ Update(o, i) \in Infos
         /\ Update(o, i).kp = i.kp
         /\ Update(o, i).uuid = IF op[o].base.uuid = None THEN op[o].from
                                ELSE op[o].base.uuid
<1>1. op[o].from \in Owners /\ op[o].base.uuid \in Owners
  BY CallFields, InfoFields
<1> QED
  BY <1>1 DEF Update, Infos

\* What the start of a build does to the call and the program info.
LEMMA BeginBuildBuilds ==
  ASSUME op \in [Ops -> Calls], NEW o \in Ops, NEW r \in Calls,
         current \in Workspaces, live \in Infos, BeginBuild(o, r)
  PROVE  Builds(o)
<1> DEFINE base == IF live.kp = None THEN [live EXCEPT !.kp = current]
                   ELSE live
           p == IF loaded = current THEN "server" ELSE "noFiles"
           q == [r EXCEPT !.from = current, !.base = base, !.pc = p]
<1>1. base \in Infos
  BY KpChange DEF Owners
<1>2. /\ live' = base
      /\ writeDue' = (writeDue \/ base # live) /\ UseInfo
      /\ op' = [op EXCEPT ![o] = q]
  BY DEF BeginBuild
<1>3. /\ q \in Calls /\ q.pc = p /\ q.from = current /\ q.base = base
  <2> HIDE DEF base
  <2> QED
    BY <1>1 DEF Calls, Owners, OpPcs
<1>4. Others(o) /\ op'[o] = q
  BY <1>2, <1>3, Replaced
<1>5. p \in {"server", "noFiles"}
  OBVIOUS
<1> HIDE DEF q, p
<1> QED
  BY <1>1, <1>2, <1>3, <1>4, <1>5 DEF Builds

\* A call that leaves its build keeps its other fields.
LEMMA GoesLeaves ==
  ASSUME op \in [Ops -> Calls], NEW o \in Ops, NEW p \in OpPcs, Goes(o, p)
  PROVE  Leaves(o, p)
<1> DEFINE r == [op[o] EXCEPT !.pc = p, !.base = NoInfo]
<1>1. op[o] \in Calls /\ NoInfo \in Infos
  BY DEF NoInfo, Infos, Owners
<1>2. /\ r \in Calls /\ r.pc = p /\ r.ws = op[o].ws
      /\ r.from = op[o].from /\ r.base = NoInfo
  <2> HIDE DEF NoInfo
  <2> QED
    BY <1>1 DEF Calls
<1>3. op' = [op EXCEPT ![o] = r]
  BY DEF Goes
<1> HIDE DEF r
<1> QED
  BY <1>2, <1>3, Replaced DEF Leaves

\* What each action does to the call it belongs to.
LEMMA CallSteps ==
  ASSUME op \in [Ops -> Calls], current \in Workspaces, active \in Workspaces,
         live \in Infos, NEW o \in Ops
  PROVE  /\ BuildReply(o) => Moves(o, "save")
         /\ BuildFails(o) => Moves(o, "release")
         /\ WriteResult(o) => Moves(o, "apply")
         /\ ApplyResult(o) =>
              \E p \in {"release", "execute", "deploy", "idl"} : Leaves(o, p)
         /\ SaveIdl(o) =>
              \E p \in {"release", "execute", "deploy"} : Moves(o, p)
         /\ IdlFails(o) => Moves(o, "release")
         /\ Connected(o) =>
              \/ Builds(o)
              \/ \E p \in {"release", "execute"} : Moves(o, p) /\ KeepsInfo
         /\ CheckProgram(o) => Builds(o) \/ (Moves(o, "deploy") /\ KeepsInfo)
         /\ Deploy(o) =>
              \E p \in {"noBinary", "fetch", "test", "release"} : Moves(o, p)
         /\ Fetched(o) => Moves(o, "upload")
         /\ Hang(o) => Moves(o, "hung")
         /\ FinishDeploy(o) => \E p \in {"test", "release"} : Moves(o, p)
         /\ Fail(o) \/ FinishTest(o) => Moves(o, "release")
         /\ Release(o) \/ EndInline(o) => Others(o) /\ op'[o] = Ended
<1>1. op[o] \in Calls
  OBVIOUS
<1>2. /\ BuildReply(o) => Moves(o, "save")
      /\ BuildFails(o) \/ IdlFails(o) => Moves(o, "release")
      /\ WriteResult(o) => Moves(o, "apply")
      /\ Fetched(o) => Moves(o, "upload")
      /\ Hang(o) => Moves(o, "hung")
      /\ Fail(o) \/ FinishTest(o) => Moves(o, "release")
  BY PcChange DEF BuildReply, BuildFails, IdlFails, WriteResult, Fetched, Hang,
     Fail, FinishTest, OpPcs
<1>3. ASSUME ApplyResult(o)
      PROVE  \E p \in {"release", "execute", "deploy", "idl"} : Leaves(o, p)
  <2>1. op[o].next \in {"release", "execute", "deploy"}
    BY <1>1, CallFields
  <2>2. \E p \in {"release", "execute", "deploy", "idl"} : Goes(o, p)
    BY <1>3, <2>1 DEF ApplyResult, AfterBuild
  <2> QED
    BY <2>2, GoesLeaves DEF OpPcs
<1>4. ASSUME SaveIdl(o)
      PROVE  \E p \in {"release", "execute", "deploy"} : Moves(o, p)
  <2>1. /\ op[o].next \in {"release", "execute", "deploy"}
        /\ op[o].next \in OpPcs
    BY <1>1, CallFields DEF OpPcs
  <2>2. Moves(o, op[o].next)
    BY <1>4, <2>1, PcChange DEF SaveIdl
  <2> QED
    BY <2>1, <2>2
<1>5. ASSUME NEW r \in Calls, PageBuild(o, r)
      PROVE  \/ Builds(o)
             \/ op' = [op EXCEPT ![o] = [r EXCEPT !.pc = "release"]] /\ KeepsInfo
  BY <1>5, BeginBuildBuilds DEF PageBuild, KeepsInfo
<1>6. [op[o] EXCEPT !.next = "execute"] \in Calls
  BY <1>1 DEF Calls
<1>7. ASSUME Connected(o)
      PROVE  \/ Builds(o)
             \/ \E p \in {"release", "execute"} : Moves(o, p) /\ KeepsInfo
  <2> DEFINE r == [op[o] EXCEPT !.next = "execute"]
             q == [r EXCEPT !.pc = "release"]
  <2>1. CASE PageBuild(o, r)
    <3>1. CASE op' = [op EXCEPT ![o] = q] /\ KeepsInfo
      <4>1. /\ q \in Calls /\ q.pc = "release" /\ q.ws = op[o].ws
            /\ q.from = op[o].from /\ q.base = op[o].base
        BY <1>1 DEF Calls, OpPcs
      <4> HIDE DEF q
      <4>2. Others(o) /\ op'[o] = q
        BY <3>1, <4>1, Replaced
      <4>3. Moves(o, "release")
        BY <4>1, <4>2 DEF Moves
      <4> QED
        BY <3>1, <4>3
    <3> QED
      BY <1>5, <1>6, <2>1, <3>1
  <2>2. CASE op' = [op EXCEPT ![o].pc = "execute"] /\ KeepsInfo
    BY <2>2, PcChange DEF OpPcs
  <2> QED
    BY <1>7, <2>1, <2>2 DEF Connected, KeepsInfo
<1>8. ASSUME CheckProgram(o)
      PROVE  Builds(o) \/ (Moves(o, "deploy") /\ KeepsInfo)
  <2> DEFINE r == [op[o] EXCEPT !.cmd = TRUE, !.next = "deploy"]
  <2>1. CASE BeginBuild(o, r)
    <3>1. r \in Calls
      BY <1>1 DEF Calls
    <3> HIDE DEF r
    <3> QED
      BY <2>1, <3>1, BeginBuildBuilds
  <2>2. CASE op' = [op EXCEPT ![o].pc = "deploy"] /\ KeepsInfo
    BY <2>2, PcChange DEF OpPcs
  <2> QED
    BY <1>8, <2>1, <2>2 DEF CheckProgram, KeepsInfo
<1>9. ASSUME AfterDeploy(o) PROVE \E p \in {"test", "release"} : Moves(o, p)
  <2> DEFINE p == IF op[o].kind = "interact" THEN "test" ELSE "release"
  <2>1. p \in {"test", "release"} /\ p \in OpPcs
    BY DEF OpPcs
  <2>2. op' = [op EXCEPT ![o].pc = p]
    BY <1>9 DEF AfterDeploy
  <2> HIDE DEF p
  <2> QED
    BY <2>1, <2>2, PcChange
<1>10. ASSUME Deploy(o)
       PROVE  \E p \in {"noBinary", "fetch", "test", "release"} : Moves(o, p)
  <2> DEFINE p == IF live.uuid = None THEN "noBinary" ELSE "fetch"
  <2>1. p \in {"noBinary", "fetch"} /\ p \in OpPcs
    BY DEF OpPcs
  <2>2. op' = [op EXCEPT ![o].pc = p] \/ AfterDeploy(o)
    BY <1>10 DEF Deploy
  <2> HIDE DEF p
  <2> QED
    BY <1>9, <2>1, <2>2, PcChange
<1>11. ASSUME FinishDeploy(o)
       PROVE  \E p \in {"test", "release"} : Moves(o, p)
  BY <1>9, <1>11 DEF FinishDeploy
<1>12. ASSUME Release(o) \/ EndInline(o) PROVE Others(o) /\ op'[o] = Ended
  BY <1>12, IdleCall, Replaced DEF Release, EndInline
<1> QED
  BY <1>2, <1>3, <1>4, <1>7, <1>8, <1>10, <1>11, <1>12

\* The same for the actions that start a call.
LEMMA CallStarts ==
  ASSUME op \in [Ops -> Calls], current \in Workspaces, active \in Workspaces,
         live \in Infos, NEW o \in Ops
  PROVE  /\ \A a \in Buttons \ {"inline"} : RunAction(o, a) =>
              \/ Builds(o)
              \/ /\ Others(o) /\ op'[o].pc \in {"release", "test", "net"}
                 /\ KeepsInfo
         /\ \A k \in Typed : RunCommand(o, k) =>
              \/ Builds(o)
              \/ /\ Others(o) /\ op'[o].pc = "execute"
                 /\ KeepsInfo
         /\ StartInline(o) =>
              Others(o) /\ op'[o].pc = "inline" /\ op'[o].ws = active
<1>1. Idle \in Calls /\ active \in Owners
  BY IdleCall DEF Owners
<1>2. ASSUME NEW a \in Buttons \ {"inline"}, RunAction(o, a)
      PROVE  \/ Builds(o)
             \/ /\ Others(o) /\ op'[o].pc \in {"release", "test", "net"}
                /\ KeepsInfo
  <2> DEFINE r == [Idle EXCEPT !.kind = a, !.ws = active]
             p == CASE a = "open" -> "release"
                    [] a = "interact" /\ stage[active] = "deployed" -> "test"
                    [] OTHER -> "net"
  <2>1. a \in Kinds
    BY WorkspaceAssumption DEF Kinds, Actions
  <2>2. r \in Calls
    BY <1>1, <2>1 DEF Calls
  <2>3. p \in {"release", "test", "net"}
    OBVIOUS
  <2>4. \/ PageBuild(o, r)
        \/ op' = [op EXCEPT ![o] = [r EXCEPT !.pc = p]]
           /\ KeepsInfo
    BY <1>2 DEF RunAction, KeepsInfo
  <2> HIDE DEF r, p
  <2>5. \A q \in {"release", "test", "net"} :
          [r EXCEPT !.pc = q] \in Calls /\ [r EXCEPT !.pc = q].pc = q
    BY <2>2 DEF Calls, OpPcs
  <2>6. CASE PageBuild(o, r)
    <3>1. CASE BeginBuild(o, r)
      BY <2>2, <3>1, BeginBuildBuilds
    <3>2. CASE /\ op' = [op EXCEPT ![o] = [r EXCEPT !.pc = "release"]]
               /\ KeepsInfo
      BY <2>5, <3>2, Replaced
    <3> QED
      BY <2>6, <3>1, <3>2 DEF PageBuild, KeepsInfo
  <2>7. CASE /\ op' = [op EXCEPT ![o] = [r EXCEPT !.pc = p]]
             /\ KeepsInfo
    BY <2>3, <2>5, <2>7, Replaced
  <2> QED
    BY <2>4, <2>6, <2>7
<1>3. ASSUME NEW k \in Typed, RunCommand(o, k)
      PROVE  \/ Builds(o)
             \/ /\ Others(o) /\ op'[o].pc = "execute"
                /\ KeepsInfo
  <2> DEFINE r == [Idle EXCEPT !.kind = k, !.cmd = TRUE]
  <2>1. k \in Kinds
    BY WorkspaceAssumption DEF Kinds, Actions
  <2>2. r \in Calls
    BY <1>1, <2>1 DEF Calls
  <2>3. \/ BeginBuild(o, r)
        \/ /\ op' = [op EXCEPT ![o] = [r EXCEPT !.pc = "execute"]]
           /\ KeepsInfo
    BY <1>3 DEF RunCommand, KeepsInfo
  <2> HIDE DEF r
  <2>4. [r EXCEPT !.pc = "execute"] \in Calls
        /\ [r EXCEPT !.pc = "execute"].pc = "execute"
    BY <2>2, WithPc DEF OpPcs
  <2> QED
    BY <2>2, <2>3, <2>4, BeginBuildBuilds, Replaced
<1>4. ASSUME StartInline(o)
      PROVE  Others(o) /\ op'[o].pc = "inline" /\ op'[o].ws = active
  <2> DEFINE r == [Idle EXCEPT !.kind = "inline", !.ws = active,
                               !.pc = "inline"]
  <2>1. r \in Calls /\ r.pc = "inline" /\ r.ws = active
    BY <1>1 DEF Calls, Kinds, OpPcs
  <2>2. op' = [op EXCEPT ![o] = r]
    BY <1>4 DEF StartInline
  <2> HIDE DEF r
  <2> QED
    BY <2>1, <2>2, Replaced
<1> QED
  BY <1>2, <1>3, <1>4

-----------------------------------------------------------------------------
(* The state is well formed *)

\* A build knows its workspace, and a switch under way has a destination.
CallsOK ==
    /\ op \in [Ops -> Calls]
    /\ \A o \in Ops : op[o].pc \in Building => op[o].from \in Workspaces

SwitchesOK ==
    /\ sw \in [Switches -> SwitchCalls]
    /\ \A s \in Switches :
          sw[s].pc \notin {"idle", "over"} => sw[s].to \in Workspaces

TypeInv == WorkspaceTypeOK /\ CallsOK /\ SwitchesOK

\* The types hold initially.
LEMMA TypeInit == Init => TypeInv
<1> SUFFICES ASSUME Init PROVE TypeInv
  OBVIOUS
<1>1. AtRest \in SwitchCalls /\ AtRest.pc = "idle"
  BY DEF AtRest, SwitchCalls, Owners
<1>2. NoInfo \in Infos
  BY DEF NoInfo, Infos, Owners
<1>3. op \in [Ops -> Calls] /\ sw \in [Switches -> SwitchCalls]
  BY <1>1, IdleCall DEF Init
<1>4. /\ \A o \in Ops : op[o].pc = "idle"
      /\ \A s \in Switches : sw[s].pc = "idle"
  BY <1>1, IdleCall DEF Init
<1>5. CallsOK /\ SwitchesOK
  BY <1>3, <1>4 DEF CallsOK, SwitchesOK, Building
<1> QED
  BY <1>2, <1>3, <1>5, WorkspaceAssumption
     DEF Init, TypeInv, WorkspaceTypeOK, Stages

\* Every step keeps the fields of the calls in line with where they are.
LEMMA CallsOKNext == TypeInv /\ [Next]_vars => CallsOK'
<1> SUFFICES ASSUME TypeInv, [Next]_vars PROVE CallsOK'
  OBVIOUS
<1>1. /\ op \in [Ops -> Calls] /\ current \in Workspaces
      /\ active \in Workspaces /\ live \in Infos /\ CallsOK
  BY DEF TypeInv, WorkspaceTypeOK
<1>2. CASE UNCHANGED op
  BY <1>1, <1>2 DEF CallsOK
<1>3. ASSUME NEW o \in Ops, Others(o),
             op'[o].pc \in Building => op'[o].from \in Workspaces
      PROVE  CallsOK'
  BY <1>1, <1>3 DEF CallsOK, Others
<1>4. ASSUME NEW o \in Ops, Builds(o) PROVE CallsOK'
  BY <1>1, <1>3, <1>4 DEF Builds
<1>5. ASSUME NEW o \in Ops, NEW p, Moves(o, p) \/ Leaves(o, p),
             p \in Building => op[o].pc \in Building
      PROVE  CallsOK'
  BY <1>1, <1>3, <1>5 DEF Moves, Leaves, CallsOK
<1>6. ASSUME NEW o \in Ops, OpStep(o) PROVE CallsOK'
  <2>1. BuildReply(o) => Moves(o, "save") /\ op[o].pc = "server"
    BY <1>1, CallSteps DEF BuildReply
  <2>2. WriteResult(o) => Moves(o, "apply") /\ op[o].pc = "save"
    BY <1>1, CallSteps DEF WriteResult
  <2>3. ApplyResult(o) => op[o].pc = "apply"
    BY DEF ApplyResult
  <2>4. Release(o) \/ EndInline(o) => CallsOK'
    BY <1>1, <1>3, CallSteps, IdleCall DEF Building
  <2> QED
    BY <1>1, <1>4, <1>5, <1>6, <2>1, <2>2, <2>3, <2>4, CallSteps
       DEF OpStep, Building
<1>7. ASSUME NEW o \in Ops, NEW a \in Buttons \ {"inline"}, RunAction(o, a)
      PROVE  CallsOK'
  BY <1>1, <1>3, <1>4, <1>7, CallStarts DEF Building
<1>8. ASSUME NEW o \in Ops, NEW k \in Typed, RunCommand(o, k)
      PROVE  CallsOK'
  BY <1>1, <1>3, <1>4, <1>8, CallStarts DEF Building
<1>9. ASSUME NEW o \in Ops, StartInline(o) PROVE CallsOK'
  BY <1>1, <1>3, <1>9, CallStarts DEF Building
<1>10. CASE Timers
  BY <1>2, <1>10 DEF Timers, FlushInfo, StartRefresh, EndRefresh
<1>11. ASSUME NEW s \in Switches, SwitchStep(s) PROVE CallsOK'
  BY <1>2, <1>11 DEF SwitchStep, Create, FetchFails, SetName, LoadFiles, Arrive
<1>12. ASSUME NEW s \in Switches, NEW w \in Workspaces,
              Navigate(s, w) \/ IdeSwitch(s, w)
       PROVE  CallsOK'
  BY <1>2, <1>12 DEF Navigate, IdeSwitch, StartSwitch
<1>13. CASE UNCHANGED vars
  BY <1>2, <1>13 DEF vars
<1>14. ASSUME NEW o \in Ops, Resume(o) PROVE CallsOK'
  BY <1>2, <1>14 DEF Resume
<1> QED
  BY <1>6, <1>7, <1>8, <1>9, <1>10, <1>11, <1>12, <1>13, <1>14 DEF Next

\* Every step keeps a switch under way on its workspace.
LEMMA SwitchesOKNext == TypeInv /\ [Next]_vars => SwitchesOK'
<1> SUFFICES ASSUME TypeInv, [Next]_vars PROVE SwitchesOK'
  OBVIOUS
<1>1. SwitchesOK
  BY DEF TypeInv
<1>2. CASE UNCHANGED sw
  BY <1>1, <1>2 DEF SwitchesOK
<1>3. ASSUME NEW s \in Switches, SwitchStep(s) PROVE SwitchesOK'
  <2>1. CASE Arrive(s) \/ FetchFails(s)
    BY <1>1, <2>1 DEF Arrive, FetchFails, Over, AtRest, SwitchesOK, SwitchCalls,
       Owners
  <2>2. CASE Create(s) \/ SetName(s) \/ LoadFiles(s)
    BY <1>1, <2>2 DEF Create, SetName, LoadFiles, SwitchesOK, SwitchCalls
  <2> QED
    BY <1>3, <2>1, <2>2 DEF SwitchStep
<1>4. ASSUME NEW s \in Switches, NEW w \in Workspaces,
             Navigate(s, w) \/ IdeSwitch(s, w)
      PROVE  SwitchesOK'
  <2>1. PICK l \in BOOLEAN : StartSwitch(s, w, l)
    BY <1>4 DEF Navigate, IdeSwitch
  <2> DEFINE q == [pc |-> IF w \in created THEN "saveMeta" ELSE "fetching",
                   to |-> w, learning |-> l]
  <2>2. q \in SwitchCalls /\ q.to = w
    BY DEF SwitchCalls, Owners
  <2>3. sw' = [sw EXCEPT ![s] = q]
    BY <2>1 DEF StartSwitch
  <2> HIDE DEF q
  <2> QED
    BY <1>1, <2>2, <2>3 DEF SwitchesOK
<1>5. ASSUME NEW o \in Ops, OpStep(o) PROVE UNCHANGED sw
  BY <1>5 DEF OpStep, BuildReply, BuildFails, WriteResult, ApplyResult,
     SaveIdl, IdlFails, Connected, CheckProgram, Deploy, Fetched, Hang,
     FinishDeploy, Fail, FinishTest, Release, EndInline, explorerVars
<1>6. ASSUME NEW o \in Ops,
             \/ \E a \in Buttons \ {"inline"} : RunAction(o, a)
             \/ \E k \in Typed : RunCommand(o, k)
             \/ StartInline(o) \/ Resume(o)
      PROVE  UNCHANGED sw
  BY <1>6 DEF RunAction, RunCommand, StartInline, Resume, explorerVars
<1>7. Timers => UNCHANGED sw
  BY DEF Timers, FlushInfo, StartRefresh, EndRefresh, explorerVars
<1>8. UNCHANGED vars => UNCHANGED sw
  BY DEF vars, explorerVars
<1> QED
  BY <1>2, <1>3, <1>4, <1>5, <1>6, <1>7, <1>8 DEF Next

\* Every step keeps the types.
LEMMA TypeNext == TypeInv /\ [Next]_vars => TypeInv'
<1> SUFFICES ASSUME TypeInv, [Next]_vars PROVE WorkspaceTypeOK'
  BY CallsOKNext, SwitchesOKNext DEF TypeInv
<1>1. WorkspaceTypeOK /\ CallsOK /\ SwitchesOK /\ CallsOK' /\ SwitchesOK'
  BY CallsOKNext, SwitchesOKNext DEF TypeInv
<1>2. /\ op \in [Ops -> Calls] /\ op' \in [Ops -> Calls]
      /\ sw' \in [Switches -> SwitchCalls]
      /\ current \in Workspaces /\ active \in Workspaces /\ live \in Infos
      /\ deployVars \in {"ready", "loading", "paused"} \X BOOLEAN
      /\ stage \in [Workspaces -> Stages]
      /\ owner \in Workspaces /\ mixed \in BOOLEAN
      /\ writeDue \in BOOLEAN
  BY <1>1 DEF CallsOK, SwitchesOK, WorkspaceTypeOK, deployVars
<1>3. CASE UNCHANGED vars
  BY <1>1, <1>3 DEF vars, explorerVars, infoVars, deployVars, history,
     WorkspaceTypeOK
<1>4. CASE Timers
  <2>1. NoInfo \in Infos
    BY DEF NoInfo, Infos, Owners
  <2> QED
    BY <1>1, <1>2, <1>4, <2>1 DEF Timers, FlushInfo, StartRefresh, EndRefresh,
       UseInfo, explorerVars, deployVars, history, WorkspaceTypeOK
<1>5. ASSUME NEW s \in Switches, SwitchStep(s) PROVE WorkspaceTypeOK'
  <2>1. sw[s].to \in Workspaces
    BY <1>1, <1>5 DEF SwitchStep, Create, FetchFails, SetName, LoadFiles,
       Arrive, SwitchesOK
  <2> QED
    BY <1>1, <1>2, <1>5, <2>1 DEF SwitchStep, Create, FetchFails, SetName,
       LoadFiles, Arrive, infoVars, deployVars, history, WorkspaceTypeOK
<1>6. ASSUME NEW s \in Switches, NEW w \in Workspaces,
             Navigate(s, w) \/ IdeSwitch(s, w)
      PROVE  WorkspaceTypeOK'
  BY <1>1, <1>2, <1>6 DEF Navigate, IdeSwitch, StartSwitch, infoVars,
     deployVars, history, WorkspaceTypeOK
<1>7. ASSUME NEW o \in Ops, Builds(o) \/ KeepsInfo
      PROVE  /\ live' \in Infos /\ writeDue' \in BOOLEAN
             /\ owner' \in Workspaces /\ mixed' \in BOOLEAN
  BY <1>2, <1>7 DEF Builds, KeepsInfo, UseInfo, history
<1>8. ASSUME NEW o \in Ops, OpStep(o) PROVE WorkspaceTypeOK'
  <2>1. op[o].pc \in Building => op[o].from \in Workspaces
    BY <1>1 DEF CallsOK
  <2>2. op[o] \in Calls
    BY <1>2
  <2>3. CASE BuildReply(o) \/ Fetched(o) \/ Hang(o) \/ FinishTest(o)
    BY <1>1, <1>2, <2>3 DEF BuildReply, Fetched, Hang, FinishTest, explorerVars,
       infoVars, deployVars, history, WorkspaceTypeOK
  <2>4. CASE BuildFails(o) \/ SaveIdl(o) \/ IdlFails(o)
    <3>1. op[o].from \in Workspaces
      BY <2>1, <2>4 DEF BuildFails, SaveIdl, IdlFails, Building
    <3>2. stage' \in [Workspaces -> Stages]
      BY <1>2, <2>4, <3>1 DEF BuildFails, SaveIdl, IdlFails, Stages
    <3> QED
      BY <1>1, <1>2, <2>4, <3>2 DEF BuildFails, SaveIdl, IdlFails, explorerVars,
         infoVars, deployVars, history, WorkspaceTypeOK
  <2>5. CASE WriteResult(o)
    <3>1. op[o].from \in Workspaces /\ op[o].base \in Infos
      BY <2>1, <2>2, <2>5, CallFields DEF WriteResult, Building
    <3>2. Update(o, op[o].base) \in Infos
      BY <1>2, <3>1, UpdateInfo
    <3> QED
      BY <1>1, <1>2, <2>5, <3>1, <3>2 DEF WriteResult, explorerVars, deployVars,
         history, WorkspaceTypeOK
  <2>6. CASE ApplyResult(o)
    <3>1. op[o].from \in Workspaces
      BY <2>1, <2>6 DEF ApplyResult, Building
    <3>2. Update(o, live) \in Infos
      BY <1>2, UpdateInfo
    <3>3. /\ live' \in Infos /\ writeDue' \in BOOLEAN
          /\ owner' \in Workspaces /\ mixed' \in BOOLEAN
      BY <1>2, <2>6, <3>2 DEF ApplyResult, UseInfo, history
    <3>4. stage' \in [Workspaces -> Stages]
      BY <1>2, <2>6, <3>1 DEF ApplyResult, AfterBuild, Stages
    <3> QED
      BY <1>1, <1>2, <2>6, <3>3, <3>4 DEF ApplyResult, explorerVars, deployVars,
         WorkspaceTypeOK
  <2>7. CASE Connected(o)
    <3>1. Builds(o) \/ KeepsInfo
      BY <1>2, <2>7, CallSteps
    <3>2. stage' \in [Workspaces -> Stages]
      BY <1>2, <2>7 DEF Connected, PageBuild, Stages
    <3> QED
      BY <1>1, <1>2, <1>7, <2>7, <3>1, <3>2 DEF Connected, explorerVars,
         deployVars, WorkspaceTypeOK
  <2>8. CASE CheckProgram(o)
    <3>1. Builds(o) \/ KeepsInfo
      BY <1>2, <2>8, CallSteps
    <3> QED
      BY <1>1, <1>2, <1>7, <2>8, <3>1 DEF CheckProgram, explorerVars, deployVars,
         WorkspaceTypeOK
  <2>9. AfterDeploy(o) => stage' \in [Workspaces -> Stages]
    BY <1>2 DEF AfterDeploy, Stages
  <2>10. CASE Deploy(o) \/ FinishDeploy(o) \/ Fail(o)
    <3>1. stage' \in [Workspaces -> Stages]
      BY <1>2, <2>9, <2>10 DEF Deploy, FinishDeploy, Fail
    <3>2. /\ deployState' \in {"ready", "loading", "paused"}
          /\ resumed' \in BOOLEAN
      BY <1>2, <2>10 DEF Deploy, FinishDeploy, Fail, deployVars
    <3> QED
      BY <1>1, <1>2, <2>10, <3>1, <3>2 DEF Deploy, FinishDeploy, Fail,
         explorerVars, infoVars, history, WorkspaceTypeOK
  <2>11. CASE Release(o) \/ EndInline(o)
    BY <1>1, <1>2, <2>11 DEF Release, EndInline, explorerVars, infoVars,
       deployVars, history, WorkspaceTypeOK
  <2> QED
    BY <1>8, <2>3, <2>4, <2>5, <2>6, <2>7, <2>8, <2>10, <2>11 DEF OpStep
<1>9. ASSUME NEW o \in Ops, NEW a \in Buttons \ {"inline"}, RunAction(o, a)
      PROVE  WorkspaceTypeOK'
  <2>1. Builds(o) \/ KeepsInfo
    BY <1>2, <1>9, CallStarts
  <2>2. stage' \in [Workspaces -> Stages]
    BY <1>2, <1>9 DEF RunAction, PageBuild, Stages
  <2>3. act' \in [action : Actions, ws : Workspaces, by : Ops]
    <3>1. (IF a = "open" THEN "interact" ELSE a) \in Actions
      BY WorkspaceAssumption DEF Actions
    <3> QED
      BY <1>2, <1>9, <3>1 DEF RunAction
  <2> QED
    BY <1>1, <1>2, <1>7, <1>9, <2>1, <2>2, <2>3 DEF RunAction, explorerVars,
       deployVars, WorkspaceTypeOK
<1>10. ASSUME NEW o \in Ops, NEW k \in Typed, RunCommand(o, k)
       PROVE  WorkspaceTypeOK'
  <2>1. Builds(o) \/ KeepsInfo
    BY <1>2, <1>10, CallStarts
  <2> QED
    BY <1>1, <1>2, <1>7, <1>10, <2>1 DEF RunCommand, explorerVars, deployVars,
       WorkspaceTypeOK
<1>11. ASSUME NEW o \in Ops, StartInline(o) PROVE WorkspaceTypeOK'
  BY <1>1, <1>2, <1>11 DEF StartInline, Actions, explorerVars, infoVars,
     deployVars, history, WorkspaceTypeOK
<1>12. ASSUME NEW o \in Ops, Resume(o) PROVE WorkspaceTypeOK'
  BY <1>1, <1>2, <1>12 DEF Resume, explorerVars, infoVars, history,
     WorkspaceTypeOK
<1> QED
  BY <1>3, <1>4, <1>5, <1>6, <1>8, <1>9, <1>10, <1>11, <1>12 DEF Next

\* The types and what goes with them hold throughout.
LEMMA TypeAlways == Spec => []TypeInv
<1>1. Init => TypeInv
  BY TypeInit
<1>2. TypeInv /\ [Next]_vars => TypeInv'
  BY TypeNext
<1> QED
  BY <1>1, <1>2, PTL DEF Spec

\* The page and the explorer are well formed: every workspace, call, switch and
\* timer of the learning page keeps to its values, whatever overlaps.
THEOREM WorkspaceTyped == Spec => []WorkspaceTypeOK
<1>1. TypeInv => WorkspaceTypeOK
  BY DEF TypeInv
<1> QED
  BY <1>1, TypeAlways, PTL

-----------------------------------------------------------------------------
(* The lock *)

\* The call that took the lock is under way; a single instruction that took it
\* will recognize it when it ends.
LockInv ==
    act # NoAct =>
        /\ act.by \in Ops /\ op[act.by].pc \notin {"idle", "over"}
        /\ op[act.by].pc = "inline" =>
             act.action = "interact" /\ act.ws = op[act.by].ws

\* Every step keeps the lock with a call under way.
LEMMA LockNext == TypeInv /\ LockInv /\ [Next]_vars => LockInv'
<1> SUFFICES ASSUME TypeInv, LockInv, [Next]_vars PROVE LockInv'
  OBVIOUS
<1>1. /\ op \in [Ops -> Calls] /\ current \in Workspaces
      /\ active \in Workspaces /\ live \in Infos
  BY DEF TypeInv, CallsOK, WorkspaceTypeOK
<1>2. CASE UNCHANGED <<op, act>>
  BY <1>2 DEF LockInv, NoAct
<1>3. ASSUME NEW o \in Ops, Others(o), UNCHANGED act,
             op'[o].pc \notin {"idle", "over", "inline"}
      PROVE  LockInv'
  BY <1>1, <1>3 DEF LockInv, Others, NoAct
<1>4. ASSUME NEW o \in Ops, OpStep(o) PROVE LockInv'
  <2>1. CASE Release(o)
    <3>1. Others(o) /\ op'[o] = Ended
      BY <1>1, <2>1, CallSteps
    <3> QED
      BY <1>1, <2>1, <3>1 DEF Release, LockInv, Others
  <2>2. CASE EndInline(o)
    <3>1. Others(o) /\ op'[o] = Ended
      BY <1>1, <2>2, CallSteps
    <3> QED
      BY <1>1, <2>2, <3>1 DEF EndInline, LockInv, Others
  <2>3. CASE ~ Release(o) /\ ~ EndInline(o)
    <3>1. UNCHANGED act
      BY <1>4, <2>3 DEF OpStep, BuildReply, BuildFails, WriteResult,
         ApplyResult, SaveIdl, IdlFails, Connected, CheckProgram, Deploy,
         Fetched, Hang, FinishDeploy, Fail, FinishTest
    <3>2. Others(o) /\ op'[o].pc \notin {"idle", "over", "inline"}
      BY <1>1, <1>4, <2>3, CallSteps DEF OpStep, Moves, Leaves, Builds
    <3> QED
      BY <1>3, <3>1, <3>2
  <2> QED
    BY <2>1, <2>2, <2>3
<1>5. ASSUME NEW o \in Ops, NEW a \in Buttons \ {"inline"}, RunAction(o, a)
      PROVE  LockInv'
  <2>1. op'[o].pc \notin {"idle", "over", "inline"}
    BY <1>1, <1>5, CallStarts DEF Builds
  <2>2. act'.by = o
    BY <1>5 DEF RunAction
  <2> QED
    BY <2>1, <2>2 DEF LockInv
<1>6. ASSUME NEW o \in Ops, NEW k \in Typed, RunCommand(o, k) PROVE LockInv'
  <2>1. Others(o) /\ op'[o].pc \notin {"idle", "over", "inline"}
    BY <1>1, <1>6, CallStarts DEF Builds
  <2> QED
    BY <1>3, <1>6, <2>1 DEF RunCommand
<1>7. ASSUME NEW o \in Ops, StartInline(o) PROVE LockInv'
  BY <1>1, <1>7, CallStarts DEF StartInline, LockInv
<1>8. CASE Timers
  BY <1>2, <1>8 DEF Timers, FlushInfo, StartRefresh, EndRefresh
<1>9. ASSUME NEW s \in Switches, SwitchStep(s) PROVE LockInv'
  BY <1>2, <1>9 DEF SwitchStep, Create, FetchFails, SetName, LoadFiles, Arrive
<1>10. ASSUME NEW s \in Switches, NEW w \in Workspaces,
              Navigate(s, w) \/ IdeSwitch(s, w)
       PROVE  LockInv'
  BY <1>2, <1>10 DEF Navigate, IdeSwitch, StartSwitch
<1>11. CASE UNCHANGED vars
  BY <1>2, <1>11 DEF vars
<1>12. ASSUME NEW o \in Ops, Resume(o) PROVE LockInv'
  BY <1>2, <1>12 DEF Resume
<1> QED
  BY <1>4, <1>5, <1>6, <1>7, <1>8, <1>9, <1>10, <1>11, <1>12 DEF Next

\* The lock of the page never outlives the call that took it, though buttons
\* and drawer take and release it under different conditions and overlap.
THEOREM LockHeld == Spec => []LockHasHolder
<1>1. Init => LockInv
  BY DEF Init, LockInv
<1>2. TypeInv /\ LockInv /\ [Next]_vars => LockInv'
  BY LockNext
<1>3. LockInv => LockHasHolder
  BY DEF LockInv, LockHasHolder
<1> QED
  BY <1>1, <1>2, <1>3, TypeAlways, PTL DEF Spec

-----------------------------------------------------------------------------
(* One deployment at a time *)

\* Every step keeps at most one deployment under way, and the state in line.
LEMMA DeployNext == TypeInv /\ OneDeployment /\ [Next]_vars => OneDeployment'
<1> SUFFICES ASSUME TypeInv, OneDeployment, [Next]_vars PROVE OneDeployment'
  OBVIOUS
<1>1. /\ op \in [Ops -> Calls] /\ current \in Workspaces
      /\ active \in Workspaces /\ live \in Infos
  BY DEF TypeInv, CallsOK, WorkspaceTypeOK
<1>2. CASE UNCHANGED <<op, deployState>>
  BY <1>2 DEF OneDeployment
<1>3. ASSUME NEW o \in Ops, Others(o), UNCHANGED deployState,
             op[o].pc \in Deploying <=> op'[o].pc \in Deploying
      PROVE  OneDeployment'
  BY <1>1, <1>3 DEF OneDeployment, Others
<1>4. ASSUME NEW o \in Ops, Deploy(o) PROVE OneDeployment'
  <2>1. PICK p \in {"noBinary", "fetch", "test", "release"} : Moves(o, p)
    BY <1>1, <1>4, CallSteps
  <2>2. CASE deployState = "ready"
    <3>1. p \in Deploying /\ deployState' = "loading"
      <4>1. \/ op' = [op EXCEPT ![o].pc = "noBinary"]
            \/ op' = [op EXCEPT ![o].pc = "fetch"]
        BY <1>4, <2>2 DEF Deploy
      <4>2. op'[o].pc \in {"noBinary", "fetch"}
        BY <1>1, <4>1, PcChange DEF Moves, OpPcs
      <4> QED
        BY <1>4, <2>1, <2>2, <4>2 DEF Deploy, Deploying, Moves
    <3>2. \A x \in Ops : op[x].pc \notin Deploying
      BY <2>2 DEF OneDeployment
    <3> QED
      BY <2>1, <3>1, <3>2 DEF OneDeployment, Moves, Others
  <2>3. CASE deployState # "ready"
    <3>1. AfterDeploy(o) /\ deployState' # "ready"
      BY <1>4, <2>3 DEF Deploy
    <3>2. \/ op' = [op EXCEPT ![o].pc = "test"]
          \/ op' = [op EXCEPT ![o].pc = "release"]
      BY <3>1 DEF AfterDeploy
    <3>3. Others(o) /\ op'[o].pc \notin Deploying
      BY <1>1, <3>2, PcChange DEF Moves, OpPcs, Deploying
    <3>4. op[o].pc \notin Deploying
      BY <1>4 DEF Deploy, Deploying
    <3>5. \E x \in Ops : op[x].pc \in Deploying
      BY <2>3 DEF OneDeployment
    <3>6. \A x \in Ops : op'[x].pc \in Deploying <=> op[x].pc \in Deploying
      BY <3>3, <3>4 DEF Others
    <3> QED
      BY <3>1, <3>5, <3>6 DEF OneDeployment
  <2> QED
    BY <2>2, <2>3
<1>5. ASSUME NEW o \in Ops, op[o].pc \in Deploying, Others(o),
             op'[o].pc \notin Deploying, deployState' = "ready"
      PROVE  OneDeployment'
  <2>1. \A x \in Ops \ {o} : op[x].pc \notin Deploying
    BY <1>5 DEF OneDeployment
  <2>2. \A x \in Ops : op'[x].pc \notin Deploying
    BY <1>5, <2>1 DEF Others
  <2> QED
    BY <1>5, <2>2 DEF OneDeployment
<1>6. ASSUME NEW o \in Ops, FinishDeploy(o) PROVE OneDeployment'
  BY <1>1, <1>5, <1>6, CallSteps DEF FinishDeploy, Moves, Deploying
<1>7. ASSUME NEW o \in Ops, Fail(o) PROVE OneDeployment'
  <2>1. Others(o) /\ op'[o].pc \notin Deploying
    BY <1>1, <1>7, CallSteps DEF Moves, Deploying
  <2>2. CASE op[o].pc \in Deploying
    BY <1>5, <1>7, <2>1, <2>2 DEF Fail
  <2>3. CASE op[o].pc \notin Deploying
    BY <1>3, <1>7, <2>1, <2>3 DEF Fail, deployVars
  <2> QED
    BY <2>2, <2>3
<1>8. ASSUME NEW o \in Ops, OpStep(o),
             ~ Deploy(o), ~ FinishDeploy(o), ~ Fail(o)
      PROVE  OneDeployment'
  <2>1. UNCHANGED deployState
    BY <1>8 DEF OpStep, BuildReply, BuildFails, WriteResult, ApplyResult,
       SaveIdl, IdlFails, Connected, CheckProgram, Fetched, Hang, FinishTest,
       Release, EndInline, deployVars
  <2>2. CASE Fetched(o) \/ Hang(o)
    BY <1>1, <1>3, <2>1, <2>2, CallSteps DEF Fetched, Hang, Moves, Deploying
  <2>3. CASE ~ Fetched(o) /\ ~ Hang(o)
    <3>1. op[o].pc \notin Deploying
      BY <1>8, <2>3 DEF OpStep, BuildReply, BuildFails, WriteResult,
         ApplyResult, SaveIdl, IdlFails, Connected, CheckProgram, FinishTest,
         Release, EndInline, Deploying
    <3>2. Others(o) /\ op'[o].pc \notin Deploying
      BY <1>1, <1>8, <2>3, CallSteps, IdleCall
         DEF OpStep, Moves, Leaves, Builds, Deploying
    <3> QED
      BY <1>3, <2>1, <3>1, <3>2
  <2> QED
    BY <2>2, <2>3
<1>9. ASSUME NEW o \in Ops,
             \/ \E a \in Buttons \ {"inline"} : RunAction(o, a)
             \/ \E k \in Typed : RunCommand(o, k)
             \/ StartInline(o)
      PROVE  OneDeployment'
  <2>1. op[o].pc = "idle" /\ UNCHANGED deployState
    BY <1>9 DEF RunAction, RunCommand, StartInline, deployVars
  <2>2. Others(o) /\ op'[o].pc \notin Deploying
    BY <1>1, <1>9, CallStarts DEF Builds, Deploying
  <2> QED
    BY <1>3, <2>1, <2>2 DEF Deploying
<1>10. ASSUME NEW o \in Ops, Resume(o) PROVE OneDeployment'
  BY <1>10 DEF Resume, OneDeployment
<1>11. CASE Timers
  BY <1>2, <1>11 DEF Timers, FlushInfo, StartRefresh, EndRefresh, deployVars
<1>12. ASSUME NEW s \in Switches, SwitchStep(s) PROVE OneDeployment'
  BY <1>2, <1>12 DEF SwitchStep, Create, FetchFails, SetName, LoadFiles, Arrive,
     deployVars
<1>13. ASSUME NEW s \in Switches, NEW w \in Workspaces,
              Navigate(s, w) \/ IdeSwitch(s, w)
       PROVE  OneDeployment'
  BY <1>2, <1>13 DEF Navigate, IdeSwitch, StartSwitch, deployVars
<1>14. CASE UNCHANGED vars
  BY <1>2, <1>14 DEF vars, deployVars
<1> QED
  BY <1>4, <1>6, <1>7, <1>8, <1>9, <1>10, <1>11, <1>12, <1>13, <1>14 DEF Next

\* Deploy commands of buttons and terminal find each other through
\* PgGlobal.deployState only, look at it in one step and change it in others;
\* still never two deployments run, and the state never says that one does
\* when none does.
THEOREM DeploymentsExclude == Spec => []OneDeployment
<1>1. Init => OneDeployment
  BY IdleCall DEF Init, OneDeployment, Deploying
<1>2. TypeInv /\ OneDeployment /\ [Next]_vars => OneDeployment'
  BY DeployNext
<1> QED
  BY <1>1, <1>2, TypeAlways, PTL DEF Spec

-----------------------------------------------------------------------------
(* Whose the program info is *)

\* What is saved, what a build started from, and what PgProgramInfo holds, is
\* the own of the workspace it was saved in, started for and read from.
StoreOwn == \A w \in Workspaces : store[w] # None => Own(store[w], w)
BaseOwn  == \A o \in Ops :
              op[o].pc \in Building => Own(op[o].base, op[o].from)

OwnInv == ~ mixed => StoreOwn /\ BaseOwn /\ Own(live, owner)

\* Initially nothing is saved, and nothing is known of the workspace.
LEMMA OwnInit == Init => OwnInv
<1> SUFFICES ASSUME Init PROVE OwnInv
  OBVIOUS
<1>1. \A o \in Ops : op[o].pc = "idle"
  BY IdleCall DEF Init
<1>2. Own(live, owner)
  BY DEF Init, NoInfo, Own
<1> QED
  BY <1>1, <1>2 DEF Init, OwnInv, StoreOwn, BaseOwn, Building

\* A step that uses no PgProgramInfo of another workspace keeps all of it own.
LEMMA OwnNext == TypeInv /\ OwnInv /\ [Next]_vars => OwnInv'
<1> SUFFICES ASSUME TypeInv, OwnInv, [Next]_vars, ~ mixed'
             PROVE  StoreOwn' /\ BaseOwn' /\ Own(live, owner)'
  BY DEF OwnInv
<1>1. /\ op \in [Ops -> Calls] /\ current \in Workspaces
      /\ active \in Workspaces /\ live \in Infos /\ owner \in Workspaces
      /\ store \in [Workspaces -> Infos \cup {None}] /\ mixed \in BOOLEAN
  BY DEF TypeInv, CallsOK, WorkspaceTypeOK
<1>2. ASSUME UNCHANGED <<live, store, history, op>>
      PROVE  StoreOwn' /\ BaseOwn' /\ Own(live, owner)'
  BY <1>2 DEF OwnInv, StoreOwn, BaseOwn, Own, history
<1>3. ASSUME UseInfo
      PROVE  /\ owner = current /\ owner' = owner
             /\ StoreOwn /\ BaseOwn /\ Own(live, owner)
  BY <1>1, <1>3 DEF UseInfo, OwnInv
<1>4. ASSUME UNCHANGED history
      PROVE  StoreOwn /\ BaseOwn /\ Own(live, owner) /\ owner' = owner
  BY <1>4 DEF history, OwnInv
<1>5. ASSUME NEW o \in Ops, Builds(o), UNCHANGED store
      PROVE  StoreOwn' /\ BaseOwn' /\ Own(live, owner)'
  <2>1. /\ UseInfo /\ owner = current /\ owner' = owner
        /\ StoreOwn /\ BaseOwn /\ Own(live, owner)
    BY <1>3, <1>5 DEF Builds
  <2>2. /\ live'.uuid = live.uuid
        /\ live'.kp = live.kp \/ live'.kp = current
    <3>1. /\ [live EXCEPT !.kp = current].uuid = live.uuid
          /\ [live EXCEPT !.kp = current].kp = current
      BY <1>1, KpChange DEF Owners
    <3> QED
      BY <1>5, <3>1 DEF Builds
  <2>3. Own(live', current)
    BY <2>1, <2>2 DEF Own
  <2>4. BaseOwn'
    BY <1>1, <1>5, <2>1, <2>3 DEF BaseOwn, Builds, Others, Own
  <2>5. StoreOwn'
    BY <1>5, <2>1 DEF StoreOwn, Own
  <2>6. Own(live, owner)'
    BY <2>1, <2>3 DEF Own
  <2> QED
    BY <2>4, <2>5, <2>6
<1>6. ASSUME NEW o \in Ops, NEW p,
             \/ Moves(o, p) /\ (p \in Building => op[o].pc \in Building)
             \/ Leaves(o, p)
             \/ Others(o) /\ op'[o].pc = p /\ p \notin Building,
             UNCHANGED <<live, store, history>>
      PROVE  StoreOwn' /\ BaseOwn' /\ Own(live, owner)'
  <2>1. StoreOwn /\ BaseOwn /\ Own(live, owner) /\ owner' = owner
    BY <1>4, <1>6
  <2>2. Others(o)
    BY <1>6 DEF Moves, Leaves
  <2>3. op'[o].pc \in Building => Own(op'[o].base, op'[o].from)
    BY <1>6, <2>1 DEF Moves, Leaves, BaseOwn, Own, NoInfo
  <2>4. BaseOwn'
    BY <1>1, <2>1, <2>2, <2>3 DEF BaseOwn, Own, Others
  <2> QED
    BY <1>6, <2>1, <2>4 DEF StoreOwn, Own
<1>7. ASSUME NEW o \in Ops, WriteResult(o)
      PROVE  StoreOwn' /\ BaseOwn' /\ Own(live, owner)'
  <2>1. /\ Moves(o, "apply") /\ op[o].pc = "save"
        /\ UNCHANGED live /\ UNCHANGED history
    BY <1>1, <1>7, CallSteps DEF WriteResult
  <2>2. StoreOwn /\ BaseOwn /\ Own(live, owner) /\ owner' = owner
    BY <1>4, <2>1
  <2>3. Own(op[o].base, op[o].from) /\ op[o].base \in Infos
    BY <1>1, <2>1, <2>2, CallFields DEF BaseOwn, Building
  <2>4. Own(Update(o, op[o].base), op[o].from)
    BY <1>1, <2>3, UpdateInfo DEF Own
  <2>5. StoreOwn'
    BY <1>1, <1>7, <2>2, <2>4 DEF StoreOwn, WriteResult, Own
  <2>6. BaseOwn'
    BY <1>1, <2>1, <2>2, <2>3 DEF BaseOwn, Own, Moves, Others
  <2> QED
    BY <2>1, <2>2, <2>5, <2>6 DEF Own
<1>8. ASSUME NEW o \in Ops, ApplyResult(o)
      PROVE  StoreOwn' /\ BaseOwn' /\ Own(live, owner)'
  <2>1. PICK p \in {"release", "execute", "deploy", "idl"} : Leaves(o, p)
    BY <1>1, <1>8, CallSteps
  <2>2. op[o].pc = "apply" /\ UNCHANGED store
    BY <1>8 DEF ApplyResult
  <2>3. CASE current # op[o].from
    <3>1. UNCHANGED <<live, history>>
      BY <1>8, <2>3 DEF ApplyResult
    <3> QED
      BY <1>6, <2>1, <2>2, <3>1
  <2>4. CASE current = op[o].from
    <3>1. live' = Update(o, live) /\ UseInfo
      BY <1>8, <2>4 DEF ApplyResult
    <3>2. /\ owner = current /\ owner' = owner
          /\ StoreOwn /\ BaseOwn /\ Own(live, owner)
      BY <1>3, <3>1
    <3>3. Own(op[o].base, op[o].from)
      BY <2>2, <3>2 DEF BaseOwn, Building
    <3>4. Own(Update(o, live), current)
      BY <1>1, <2>4, <3>2, <3>3, UpdateInfo DEF Own
    <3>5. BaseOwn'
      BY <1>1, <2>1, <3>2 DEF BaseOwn, Leaves, Others, Own, NoInfo
    <3> QED
      BY <2>2, <3>1, <3>2, <3>4, <3>5 DEF StoreOwn, Own
  <2> QED
    BY <2>3, <2>4
<1>9. ASSUME NEW o \in Ops, Connected(o) \/ CheckProgram(o)
       PROVE  StoreOwn' /\ BaseOwn' /\ Own(live, owner)'
  <2>1. UNCHANGED store
    BY <1>9 DEF Connected, CheckProgram
  <2>2. \/ Builds(o)
        \/ \E p \in {"release", "execute", "deploy"} : Moves(o, p) /\ KeepsInfo
    BY <1>1, <1>9, CallSteps
  <2> QED
    BY <1>5, <1>6, <2>1, <2>2 DEF Building, KeepsInfo
<1>10. ASSUME NEW o \in Ops, OpStep(o),
              ~ WriteResult(o), ~ ApplyResult(o),
              ~ Connected(o), ~ CheckProgram(o)
       PROVE  StoreOwn' /\ BaseOwn' /\ Own(live, owner)'
  <2>1. UNCHANGED <<live, store, history>>
    BY <1>10 DEF OpStep, BuildReply, BuildFails, SaveIdl, IdlFails, Deploy,
       Fetched, Hang, FinishDeploy, Fail, FinishTest, Release, EndInline,
       infoVars
  <2>2. CASE BuildReply(o)
    BY <1>1, <1>6, <2>1, <2>2, CallSteps DEF BuildReply, Building
  <2>3. CASE Release(o) \/ EndInline(o)
    BY <1>1, <1>6, <2>1, <2>3, CallSteps, IdleCall DEF Building
  <2>4. CASE ~ BuildReply(o) /\ ~ Release(o) /\ ~ EndInline(o)
    <3>1. \E p : Moves(o, p) /\ p \notin Building
      BY <1>1, <1>10, <2>4, CallSteps DEF OpStep, Building
    <3> QED
      BY <1>6, <2>1, <3>1
  <2> QED
    BY <2>2, <2>3, <2>4
<1>11. ASSUME NEW o \in Ops,
              \/ \E a \in Buttons \ {"inline"} : RunAction(o, a)
              \/ \E k \in Typed : RunCommand(o, k)
       PROVE  StoreOwn' /\ BaseOwn' /\ Own(live, owner)'
  <2>1. UNCHANGED store
    BY <1>11 DEF RunAction, RunCommand
  <2>2. \/ Builds(o)
        \/ /\ Others(o) /\ op'[o].pc \in {"release", "test", "net", "execute"}
           /\ KeepsInfo
    BY <1>1, <1>11, CallStarts
  <2> QED
    BY <1>5, <1>6, <2>1, <2>2 DEF Building, KeepsInfo
<1>12. ASSUME NEW o \in Ops, StartInline(o)
       PROVE  StoreOwn' /\ BaseOwn' /\ Own(live, owner)'
  <2>1. Others(o) /\ op'[o].pc = "inline"
    BY <1>1, <1>12, CallStarts
  <2>2. UNCHANGED <<live, store, history>>
    BY <1>12 DEF StartInline, infoVars
  <2> QED
    BY <1>6, <2>1, <2>2 DEF Building
<1>13. CASE FlushInfo
  <2>1. /\ owner = current /\ owner' = owner
        /\ StoreOwn /\ BaseOwn /\ Own(live, owner)
    BY <1>3, <1>13 DEF FlushInfo
  <2>2. StoreOwn'
    BY <1>1, <1>13, <2>1 DEF FlushInfo, StoreOwn, Own
  <2>3. BaseOwn' /\ Own(live, owner)'
    BY <1>13, <2>1 DEF FlushInfo, BaseOwn, Own
  <2> QED
    BY <2>2, <2>3
<1>14. CASE StartRefresh
  BY <1>2, <1>14 DEF StartRefresh
<1>15. ASSUME NEW w \in Workspaces, EndRefresh(w)
       PROVE  StoreOwn' /\ BaseOwn' /\ Own(live, owner)'
  <2>1. StoreOwn /\ BaseOwn
    BY <1>15 DEF EndRefresh, OwnInv
  <2>2. Own(live', w) /\ owner' = w
    BY <1>15, <2>1 DEF EndRefresh, StoreOwn, NoInfo, Own
  <2>3. StoreOwn' /\ BaseOwn'
    BY <1>15, <2>1 DEF EndRefresh, StoreOwn, BaseOwn, Own
  <2> QED
    BY <2>2, <2>3 DEF Own
<1>16. ASSUME NEW s \in Switches,
              \/ SwitchStep(s)
              \/ \E w \in Workspaces : Navigate(s, w) \/ IdeSwitch(s, w)
       PROVE  StoreOwn' /\ BaseOwn' /\ Own(live, owner)'
  <2>1. UNCHANGED <<live, store, history, op>>
    BY <1>16 DEF SwitchStep, Create, FetchFails, SetName, LoadFiles, Arrive,
       Navigate, IdeSwitch, StartSwitch, infoVars
  <2> QED
    BY <1>2, <2>1
<1>17. ASSUME NEW o \in Ops, Resume(o)
       PROVE  StoreOwn' /\ BaseOwn' /\ Own(live, owner)'
  BY <1>2, <1>17 DEF Resume, infoVars
<1>18. CASE UNCHANGED vars
  BY <1>2, <1>18 DEF vars, infoVars
<1> QED
  BY <1>7, <1>8, <1>9, <1>10, <1>11, <1>12, <1>13, <1>14, <1>15, <1>16, <1>17,
     <1>18 DEF Next, Timers

\* Builds of page and terminal, their answers in any order around any number of
\* switches, refreshes and saves: as long as PgProgramInfo is not used while it
\* still holds another workspace's info, the keypair and the server directory
\* saved in a workspace, or kept by a build for it, are that workspace's own.
THEOREM InfoStaysOwn == Spec => []InfoIsOwn
<1>1. Init => OwnInv
  BY OwnInit
<1>2. TypeInv /\ OwnInv /\ [Next]_vars => OwnInv'
  BY OwnNext
<1>3. OwnInv => InfoIsOwn
  BY DEF OwnInv, StoreOwn, BaseOwn, Building, InfoIsOwn
<1> QED
  BY <1>1, <1>2, <1>3, TypeAlways, PTL DEF Spec
=============================================================================
