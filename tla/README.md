# Verification of the Solana learning playground

The repository is a browser playground for Solana programs (a fork of the
Solana Playground) with a learning page on top: lessons, a chain of actions
(build, deploy, interact) and an AI tutor called Program Pal.  A Rust server
compiles programs, serves their binaries and forwards the tutor's requests.
This directory holds TLA+ models of the parts in which steps of several actors
meet, TLC runs on small instances, and TLAPS proofs for every value of the
constants.

    tlc -workers 4 -config <run>.cfg <MC module>.tla    # a run
    tlapm <module>Proofs.tla                            # a proof module

`PROJECT.json` lists the components, runs, the source lines each definition
stands for, hazards, findings, mutants and theorems.

## 1. Inventory

| Component | State | Operations | Talks to |
|---|---|---|---|
| Build and deploy routes (`server/src/routes/build.rs`, `program.rs`, `routes/deploy.rs`) | semaphore, id vector, a handler per request, a blocking job per build, `programs/<id>`, `programs/<uuid>`, `programs/target` | `POST /build`, `GET /deploy/{uuid}`, acquire and drop of `Permit`, the job's file steps and compiler | browser (HTTP), file system, `cargo build-sbf` |
| Learning sessions and tutor allowance (`server/src/routes/learning`, `client/src/learning/api.ts`) | usage counters per session, address and in all; the saved session of each browser | sign and verify a session, take a turn, forward to OpenAI, one retry after a 401 | localStorage, the clock, OpenAI |
| Learning page: navigation and actions (`client/src/learning/use*.ts`) | active workspace, `chainActionRef` (the lock of the page), stage of each workspace | select a lesson, program or tutorial; build, deploy, interact; single instructions of the drawer | explorer, program info, commands |
| Program info (`client/src/utils/program-info.ts`, `decorators/updatable.ts`) | keypair, server directory (uuid), last build's failure; one file per workspace | debounced save, refresh after a switch, `updateWorkspace` | explorer's file system |
| Build and deploy commands (`client/src/commands`) | `PgGlobal.deployState`, a call under way | build, deploy, pause and resume, events on start and finish | server, chain, program info |
| Explorer (`client/src/utils/explorer`) | workspaces and the current one, files, tabs, current tab; the same on disk, saved by separate writes | create, rename, delete and switch, for workspaces and for files; open, close and reorder tabs; load the page | IndexedDB, editor |
| Tutor (`useTutor.ts`, `workspace-patch.ts`) | conversation, tool calls, last patch | turns of at most a few rounds, tools, patch and undo | sessions route, page actions, explorer |
| Learning network (`useLearningNetwork.ts`) | endpoint, connection state | connect, change, reset | Surfpool, stages of workspaces |
| Deployment of a program (`commands/deploy`, `tx.ts`) | buffer, offsets written, control state | write chunks, confirm, retry, pause, resume, cancel | chain |
| Playnet (`wasm/playnet`, `client/src/utils/playnet`) | accounts, ledger of transactions, slot, blockhash; saved data | load, execute and commit a transaction, system program, airdrop, save, load | the page, in place of a validator |
| Sending (`client/src/utils/tx.ts`) | the blockhash of the last 45 seconds | prepare, sign, send, retry | playnet or an RPC endpoint |
| Views, wallet, terminal, settings, router, share route, command line ports, editor extension | lists, settings, one database document each | rendering, storage, thin wrappers | - |

What is hard in it:

* **The build route is cancelled at its awaits.**  A handler is a future that
  is dropped when its client leaves; the blocking job it spawned is not.
  Permit and id are taken and returned in separate steps on several threads.
  Sources, manifest, target directory and binary are files shared by jobs, and
  every step may fail, time out or be cut short by a restart.
* **The allowance reads the clock before an await.**  Counters live in memory,
  a restart may change the secret, and two tabs share one saved session.
* **The page is a set of overlapping asynchronous calls.**  Saves are debounced
  and written to *the workspace that is open when the timer fires*; a build may
  end after the learner has left; buttons, drawer, terminal and the explorer's
  own menu start calls and switches under different guards; a deployment reads
  the same mutable program info several times across many awaits.
* **A deployment talks to a chain that may answer late or not at all.**  A
  transaction that could not be confirmed may still take effect, and is sent
  again; writes run concurrently and are lost, refused or repeated; the learner
  pauses, resumes and cancels while they are in flight.
* **The chain in the page has no one else to catch its mistakes.**  Accounts are
  written before a duplicate is detected, a page load brings back a part of the
  state, unsigned differences and a `todo!()` rely on what cannot happen.
* **The explorer keeps one state in memory and on disk, written piece by piece.**
  Directories, the list of workspaces and the tabs of each are saved at different
  awaits, a timer saves tabs in between, and the page may be closed anywhere;
  tabs are kept as an index into a list that changes under it.
* **The tutor** (not modelled): tools run in a workspace that may have changed.

What makes each component correct:

* build: slots are never given twice nor lost; each request is answered; a
  learner deploys, and is told about, exactly what was built from their own
  sources; no failure takes away a working binary;
* allowance: the limits hold per session, address and day; the rest shown to
  the learner counts down; a restart costs at most one retry;
* page: what is saved in a workspace belongs to it, whenever the answer of its
  build arrives; a deployment stays with its workspace and is the only one; the
  lock never outlives its holder and is released whatever fails;
* explorer: between operations memory is what is on disk; no operation on one
  workspace writes over another; a page closed halfway opens again; the index
  of the current tab is one of the tabs;
* tutor: a tool acts on the workspace of its conversation, undo restores it;
* deployment: a buffer is complete before it is deployed, whatever was sent
  twice; success is said only of a program that was replaced, a cancel leaves the
  old one; the command ends;
* playnet: a transaction takes effect at most once, takes only from who signed it,
  makes no lamports and leaves programs alone; a send ends.

## 2. Modules

| Module | Models | Remarks |
|---|---|---|
| `SlotPool` | what `Permit` promises | abstract specification |
| `BuildServer` | build and deploy routes, the job, the disk | implements `SlotPool` |
| `LearningQuota` | sessions, allowance and the browser's retry | |
| `WorkspaceActions` | page, explorer workspaces, program info, build and deploy commands | one composed module: these parts share state within one thread |
| `Deployment` | what the deploy command promises | abstract specification |
| `DeployFlow` | one deploy command, the loader of the buffer, the chain | implements `Deployment` |
| `SystemProgram` | the instructions of the system program | pure operators on accounts |
| `Playnet` | the bank, its RPC, `PgTx.send`, saving and loading | extends `SystemProgram` |
| `FileTabs` | tabs and the current index | pure operators on tabs |
| `Explorer` | files, workspaces and tabs in memory and on disk, and the page | extends `FileTabs` |
| `MC*` | symmetry, sets of transactions for TLC | `DeployFlow` and `WorkspaceActions` need none |
| `*Proofs` | theorems | extend the component's module |

### BuildServer

`pc[r]` is where the handler of request `r` is: `acquire` and `await` are its
two awaits, where alone it can be dropped (`Disconnect`).  `AcquireSem`,
`FinishAcquire`/`TakeId`, `FreeId` and `ReleaseSem` are separate steps because
other threads run between them; the lock of the id vector is held within one
step only.  `work[r]` is the step of `program::build` the job has reached; each
file operation is an action, and `IoError`, `CompileError`, `CompileTimeout`
and `RejectFiles` are its ways to end early.  Contents of sources, target and
binary are the *set of requests whose sources they were made from*: a binary of
`{q}` under the program of `r` is another learner's.  `WriteFiles` may or may
not keep files that were there before (they have other paths or the same).
`Restart` loses memory and keeps the disk, `Redeploy` loses both.  `Arrive`
takes a uuid the client learned from an earlier answer, or a new one; a guess of
someone else's uuid is not modelled.  `FirstWaiter` is the fairness of tokio's
semaphore, the one thing taken from a library.

### LearningQuota

A request is one call of `streamTutor`.  `headers`, `signing`, `send` are the
browser's side, `lock` and `upstream` the server's.  `ReadClock` computes the
day, `ConsumeTurn`/`DenyTurn` run under the lock with the day computed before.
An entry that `retain` dropped and one that was never there are both "no turns".
A token names its session and the process whose secret signed it; with
`SecretConfigured` all processes share one secret.  The history variable `met`
holds the requests that were under way at a restart.

### WorkspaceActions

A step is the code between two awaits or timers, in a single thread.  A program
info names the workspace its keypair was made for and the one its server
directory was made for, so a leak is visible as a foreign name.

* `FlushInfo`, `StartRefresh`, `EndRefresh`: the two debounced timers and the
  read of the file; the write goes to the *current* workspace, as the relative
  path does.
* `Navigate` (the page's five ways to open a workspace), `IdeSwitch` (the
  explorer's menu), then `Create` or `FetchFails`, `SetName`, `LoadFiles`, `Arrive`:
  the awaits of `createWorkspace`/`switchWorkspace` and the switch event.
* `RunAction` (`runChainAction`), `RunCommand` (a typed command), `StartInline`
  and `EndInline` (single instructions) start calls; `op[o]` follows each through
  `net`, `server`, `save`, `apply`, `idl`, `execute`, `deploy`, `fetch`, `upload`,
  `test`, `release`.
* `WriteResult` and `ApplyResult` are the two halves of `updateWorkspace` around
  its await, `SaveIdl` and `IdlFails` the file that follows it; `CheckProgram` and
  `Deploy` the check and the handler of the deploy command; `Resume` the question
  that is answered with yes; `Hang` the nested loader that fails and is heard of
  by nobody (finding 2); `Fail` every other error path up to the `finally`.

Every step is enabled whenever the code may run it: answers, timers, switches and
failures meet each other in any order.  A call and a switch are made once each
(`Ended`, `Over`): their numbers are the bounds, and a second click is another
call.  Two history variables tell what the page cannot know: `owner` is the
workspace whose info `PgProgramInfo` holds, and `mixed` says that it was saved,
captured or updated while another workspace was current.

Abstractions: the fetch of a binary, the transactions of a deployment and the
reading of files are one step each; a cancelled deployment is a failed one; a
pause is heeded only while the buffer is loaded, so a paused deployment may
still finish; `LoadFiles` reads whatever is current; whether the last build
failed is a choice.  Constants say who starts what: `IdeSwitches`, `Buttons` and
`Typed`.

### DeployFlow

`WorkspaceActions` takes the transactions of a deployment as one step that
succeeds or fails; `DeployFlow` opens that step, and `Deployment` says what may be
relied on from outside.  `step` is where `processDeploy` is.

* A transaction: `SendTx` or `SendThrows`, then `Confirm` or `NotConfirmed`, with
  `tries` counting attempts.  `fate` is what became of the last one sent,
  `pending[s]` how many of step `s` are in flight, the last one and those given up.
  `Broadcast` follows `PgTx.send`: the cached blockhash yields the same signature,
  which has one effect however often it is sent; an expired cache, or with
  preflight checks a signature already processed, yields a new one.  `LandTx` may
  execute any of them at any later time, `DropTx` fails or loses it.
* The loader: `Open`, `Simulate`, then rounds of `ReadBuffer`, `Missing`, `SendChunk`
  by the workers, `ChunkSent` or `ChunkRefused`, `Settle`, until `Loaded`.  The account is
  read in one step and used in the next.  When a loader is replaced after a pause
  or cancelled, its sends go on as `stray`.
* Pausing: `Toggle` is the button.  If a loader listens, the first change aborts it
  and opens the question, the next one answers it with yes, as
  `executeFromStr("yes")` does.  `Resume` starts a nested loader, `Cancel` and
  `AnswerClose` end the command.
* The chain (`Valid`, `Execute`): a buffer is created once, written and handed over
  by its authority, used up by a deployment, which verifies that it is a whole
  program.  First deployment and upgrade are one step, `upgrade`.

### SystemProgram and Playnet

An account is its lamports, owner, the length of its data, whether it is a program and,
for the nonce instructions, its nonce.  `CanTransfer`, `CanCreate`, `CanAllocate`,
`CanAssign`, `CanNonce` are the checks of `system_instruction_processor.rs` in their
order-free form (the first error drops the transaction, whichever it is), `Moved`,
`Created`, `Allocated`, `Assigned`, `Nonced` what is left after.  Lamports and sizes are
naturals: the bank's checked arithmetic never wraps.

* The client: `StartSend`, `Prepare` (`_prepareTx` with its cached blockhash),
  `Submit`; a refusal as already processed goes back to `Prepare` with `force`.
  `ExpireCache` is the 45 seconds passing.
* The bank: `Loads` are the checks before execution, `Execute` one instruction,
  `Refuse` the first error, `Commit` is `process_tx` from the write of the accounts on:
  it writes them first and looks the signature up second, as the code does.  A
  transaction *is* its body and blockhash, which is what its signature is of.
  The bank runs a transaction to the end in one call; `run` holds its copy of the
  accounts meanwhile, and nothing else moves.
* `Save`, `Restart` and `Reopen`: the saved data has accounts, slot and blockhash but
  not the ledger; each start endows the airdrop account anew.  `Restart` is a page
  load; `Reopen` is `destroy` and `init` within one page, when the endpoint is changed
  and changed back: the bank is saved, and `PgTx` keeps its cached blockhash.  The
  save of `Reopen` is taken to succeed (finding 15).
* `named`: a message may have the loader's key without an instruction of it, so
  that `load_tx_accounts` lets it write to programs and their data.

The upgradeable loader and the programs it runs are external: a write changes
contents, a deployment turns a buffer into program data, an invoked program changes
no account.  No fee is taken, as in the bank (`bank.rs:281`).  Logs, compute units, simulation and the
conversions of the RPC are left out.

### FileTabs and Explorer

`ui` is `tabs` and `currentIndex` (0 where the code has -1); `CloseFile` removes a tab
as the code does, reading the current path again by the old index, and with
`splice(-1)`'s effect where a path has no tab.  A path is a pair of workspace and name.

Disk: `disk` (files), `dirs` (directories), `metadata` (the tabs saved in each), `config`
(the list of workspaces).  Memory: `workspace`, `files`, `ui`.  An operation is a record
`op` with the await it is `at`:

* `CreateItem`, `RenameItem`, `DeleteItem` are the step after the first await of the
  function of that name; `save` is its last, `saveMeta` (`FinishWithMeta`).
* `CreateWorkspace` (`write`), `RenameWorkspace`, `DeleteWorkspace` (`remove`, `rmdir`,
  `names`), each followed by `switchWorkspace`: `switch` (metadata of the old workspace),
  `config` (name and list), `read` (files one by one, then metadata), or `lost` when the
  directory is not there (`Recover`, then `config` again).
* `InitWorkspaces` is a page load; `ClosePage` may happen between any two steps.
* `ClickFile`, `CloseTabs`, `DragTab` and the editor's timer `SaveMetadata` happen
  between any two awaits.

Operations do not overlap: the explorer's menus open modals, and the lock of the
learning page and switches are the subject of `WorkspaceActions`.

## 3. Runs

| Run | Instance | Shows |
|---|---|---|
| `build_slots` | 3 requests, 2 programs, 2 slots, clients leave | types, `PermitsAgree`, `IdAlwaysFound`, and that the permits implement `SlotPool` |
| `build_production` | 3 requests, 2 programs, 1 slot, 1 restart, clients wait, fair | `ReadyMeansComplete`, `BinaryIsOwn`, `AnswerIsOwn`, `CompilersBounded`, `BinaryNeverLost`, `EveryRequestAnswered` |
| `build_disconnect` | 1 slot, clients leave | `BinaryIsOwn` is **violated** |
| `quota_day` | 3 requests, 2 browsers, 2 addresses, 2 days, 1 restart, limits 2 and 3 | types (an underflow of the rest would break them), `DailyLimits`, `RemainingCountsDown`, `RetryRecovers` |
| `workspace_page` | 2 workspaces, 2 calls (build, deploy, interact, single instruction, typed deploy), 1 switch of either kind, fair | types, `InfoIsOwn`, `OneDeployment`, `LockHasHolder`, `LockIsReleased` |
| `workspace_attached` | 2 workspaces, 1 call (deploy), 1 switch | `DeployIsAttached` is **violated** |
| `deploy_flow` | 2 chunks, 2 workers, 2 attempts, fair | types, `BufferIsReady`, `PromptHolds`, `CommandEnds`, and that it implements `Deployment` |
| `deploy_hang` | the same, and the simulation of a resumed loader may fail | `CommandEnds` is **violated** |
| `playnet_bank` | 6 addresses, 17 transactions, 1 caller, 3 slots, 1 page load or reopening, fair | types, `LedgerIsDated`, `AirdropIsFresh`, `NonceIsUnreachable`, `OnlySignersPay`, `ProgramsStay`, `LamportsConserved`, `SendEnds` |
| `playnet_twice` | the same | `SendAppliesOnce` is **violated** |
| `explorer_files` | 2 workspaces, 2 files, 2 tabs and those a rename adds, closed anywhere, any number of page loads | types and the index, `OpenIsWhole`, `ListedOnDisk`, `FilesAreKept` |
| `explorer_lost` | the same | `RecoveryFindsOne` is **violated** |

Every property of a passing run has a mutant in the module, a plausible bug of
the same shape as the definition it replaces (named in its comment), under which
TLC finds the property violated.

**Bounds.**  Three build requests let one compile, one wait and one reuse the
uuid of a third, and give the queue an order; two programs are needed for a
binary to be another's; one restart reaches every half done state of the disk.
In `quota_day` three requests pass the limit of two per session and address and
straddle a day and a restart; the global limit of three is reached but never
exceeded there, and is proved for all values.  Two workspaces are enough for a
foreign name.  `workspace_page` has two calls, so that builds, deployments,
drawer and terminal meet each other and one switch; what needs more of them
(two switches at once, three calls) is covered by the proofs, which hold for any
number.  `open`, which only takes the lock and releases it, and a typed `build`,
whose steps the typed deployment takes too when nothing was built, are not started
there.  `CHECK_DEADLOCK FALSE` because calls and switches run out.
`deploy_flow` needs two chunks for one to be written
and the other missing, two workers for sends to overlap, and two attempts for a
transaction that was given up and its repetition; the code has five attempts and
eight workers.  Preflight checks are off there: with them on (the default) a
part of these behaviours remains, and the same properties hold.
`NestedFails` is off as well: with it `CommandEnds` fails, which is `deploy_hang`; the
other properties do not depend on it, and the proofs hold for both values.
`playnet_bank` has two learners, an address derived from one of them, a program, its
data and the airdrop account; its transactions hold each instruction once with each
way it is refused, and pairs of instructions of which the second fails or meets what
the first left.  Three slots let a second blockhash be fetched while the first is
cached, and one page load (or reopening) puts new transactions against a ledger that was lost.
`CHECK_DEADLOCK FALSE` there because sends stop at the last slot.  `explorer_files`: a
second workspace is what a name can be taken by, switched to or recovered to; two
files are needed for a tab left and right of the current one.  `MaxTabs` bounds only
the opening of further tabs.

**Fairness.**  `build_production` assumes that the runtime polls ready handlers
and runs blocking jobs, and that a compiler ends: `timeout` stops it after 240 s.
Each request then ends; nothing is assumed of clients.  `workspace_page`
assumes that timers run and that each call under way goes on: requests are
answered or aborted (the build's by its 270 s timer), retries are bounded, and
the learner answers a prompt, except "Continue deployment?": a paused deployment
(`~ Running`) may wait for ever, and a resumed one may hang, which `LockIsReleased`
says.  No fairness is assumed of clicks or switches.  A run under weak fairness of a
whole call (`OpStep`) lets each call fail or succeed.
`deploy_flow` assumes that the client goes on where it waits for nobody (`Go`), that a
request for a write is answered or fails, and, strongly, that among the writes
still missing some request is let through and some write lands: the loader
retries them for ever, and a network that never delivers any is one in which it
rightly never ends.  Nothing is assumed of the learner, nor of the other
transactions, whose confirmation times out.
`playnet_bank` assumes that the bank, which never waits, ends what it runs (`Finish`), and
strongly that the awaits of each call are answered (`Await`): the bank serves others in
between, which disables the call's next step again and again, but its request is in the
queue.  `Explorer` states safety only and has no fairness.

**Assumption of `InfoIsOwn`.**  The code lets the info of one workspace reach the other
(finding 7): between `setWorkspaceName` and the end of the refresh `PgProgramInfo` still
holds the old workspace's info, and whatever saves, captures or updates it then works on
the wrong one.  `InfoIsOwn` says that this is the only way: it is stated while `mixed` is
false, a condition on what happened and not on what may happen, so that no order of
answers, timers, switches and failures is left out.  What it promises is what
`updateWorkspace` was written for: a result that arrives before, during or after any
number of switches is written to the workspace that asked for it.

**Findings.**

1. `build_disconnect`: a client that leaves frees permit and id while its
   compile goes on; the next build shares id, manifest and target with it.
2. `deploy_hang`: the nested loader of a resumed deployment fails, nobody handles
   it, and the page stays in `loading` or `paused` until it is reloaded.
3. `playnet_twice`: a transaction sent again with the cached blockhash takes effect, is
   answered with `AlreadyProcessed`, is sent with a new blockhash and takes effect once
   more.

4. `workspace_attached`: the lock is looked at before the awaits of a switch, and a
   switch under way is not looked at when the lock is taken.  A deployment started while
   a tutorial or a repository is fetched, or a workspace loads, goes on in the next
   workspace, although "Deploy and interaction must stay attached to their current
   workspace" (`useWorkspaceNavigation.ts:216`).
5. `explorer_lost`: a page closed while a workspace is renamed does not find it again;
   its new directory is not listed, so it cannot be made the current one.

Seen with the same models, without a run of its own:

6. Midnight (`quota_day` with `MidnightRace = TRUE`): a request that read the clock before
   midnight and gets the lock after one of the new day drops the counters of the
   new day; `DailyLimits` and `RemainingCountsDown` are violated.
7. A leak (`InfoIsOwn` without its premise, in `workspace_page`): a debounced save, or the
   update of `PgProgramInfo` with a result, in the moments between the change of the
   current workspace and the end of the refresh puts one workspace's keypair or uuid into
   the other's file.
8. Two holders: a single instruction takes the lock of a deployment and gives it back
   (`setInlineInteractionRunning`); the learner can then leave while the deployment goes
   on, and another one can be started, which pauses it.
9. A build typed in the terminal sets the stage of the workspace that is open when it ends
   (`usePlaygroundEvents.ts:101`), and a second `deploy`, which pauses the first, is shown
   as a success.
10. A pause before the loader listens (while the buffer is created, say) is not heeded:
   the loader sends while the button offers to continue, and the click that should
   continue stops it (`[][deployState = "paused" => sending' \subseteq sending]_vars` is
   violated).  And a command may report failure although its program was replaced, for
   `checkConfirmation` is not consulted when sending or confirming throws.
11. Playnet: `get_account` (`bank.rs:221`) says that an account without lamports does not
   exist and returns it; `get_genesis_hash` (`bank.rs:206`) returns the latest blockhash, so it
   changes; nonce instructions can never succeed, for the sysvar they read is not in the
   cache; transactions with a Write have no status.
12. Tabs: `closeFile` reads the current path after the splice with the old index, so
   closing a tab left of the current one, or the first of two, makes another file the
   current one, or none, without `ON_DID_OPEN_FILE`: the editor goes on showing the old
   one.  The comment in `init` that tabs without a current file should no longer occur is
   refuted by the same steps.  Without a current file closing does nothing, and tabs of
   deleted files stay.  A deleted file without a tab takes the last tab with it.
   `deleteItem` drops from memory the files whose name begins with the deleted one's
   (`Extends`), which is why `OpenIsWhole` leaves those out.
13. Recovery without any directory: "reset all workspaces" does nothing, for
   `PgWorkspace.DEFAULT` is the object the names were read into, and a page closed while
   the only workspace is deleted never loads again.
14. Metadata: the timer's `saveMeta` while a workspace loads overwrites its saved tabs with
   those in memory; a save during `removeDir` leaves a directory behind; a page closed
   while a workspace is created leaves files that appear in the next one of that name.
15. Playnet's `destroy` goes on if its save fails (`playnet.ts:102-115` only logs it): the
   bank that `init` then makes of an older save has a lower slot and blockhash than the
   cached one of `PgTx`; with such a `Reopen` TLC finds `LedgerIsDated` violated, because a
   transaction is then dated with a blockhash the bank has yet to reach.

## 4. Proofs

For every number of requests, programs, workspaces, calls and every value of the
other constants:

| Module | Theorem | Says |
|---|---|---|
| `BuildServerProofs` | `TypeCorrect`, `PermitsCorrect`, `IdFoundCorrect` | the invariants of `build_slots` |
| | `PoolRefinement` | `BuildServer` implements `SlotPool` |
| `BuildOwnershipProofs` | `OwnBinary`, `OwnAnswer` | with one slot and clients that wait, binary and answer are the learner's own |
| | `CompilersCounted` | if clients wait, permits bound the compilers, for any number of slots |
| | `ReadyIsComplete`, `BinaryStays` | `ReadyMeansComplete` and `BinaryNeverLost`, for any number of slots and clients that leave |
| `LearningQuotaProofs` | `QuotaTyped`, `LimitsHold`, `RestCountsDown` | types, the daily limits and `RemainingCountsDown`, if no request straddles midnight |
| | `RetrySuffices` | `RetryRecovers`, midnight or not |
| `DeployFlowProofs` | `DeployTyped`, `BufferComplete`, `QuestionHolds` | types, `BufferIsReady` and `PromptHolds` |
| | `PromiseKept` | `DeployFlow` implements `Deployment` |
| `PlaynetProofs` | `PlaynetTyped`, `LedgerDated`, `AirdropFresh`, `NonceUnreachable` | the invariants of `playnet_bank` |
| | `SignersPay`, `ProgramsStayPut` | `OnlySignersPay` and `ProgramsStay` |
| | `SupplyConserved` | `LamportsConserved`, for any finite set of addresses |
| `ExplorerProofs` | `AlwaysListedOnDisk`, `AlwaysFilesAreKept` | `ListedOnDisk` and `FilesAreKept`, wherever the page is closed |
| | `ExplorerTyped` | `ExplorerTypeOK`, wherever the page is closed |
| | `AlwaysOpenIsWhole` | `OpenIsWhole`, wherever the page is closed |
| `WorkspaceProofs` | `WorkspaceTyped`, `LockHeld` | types and `LockHasHolder`, whatever overlaps |
| | `DeploymentsExclude` | `OneDeployment`, whatever pauses, resumes, fails or hangs |
| | `InfoStaysOwn` | `InfoIsOwn`, for any number of switches at once |

*BuildServerProofs.*  `IndInv` adds to the types that the admitted handlers are
finitely many, that their number and the semaphore's value sum to the
concurrency, that marked ids and owners correspond one to one, and that a job
at work has a program and a slot.  `IdFree` is a pigeonhole argument: a handler
past the semaphore is admitted and owns no id, so the owners are fewer than the
slots.  The refinement maps `owner[s]` to the owner of a marked id; `TakeId` is
a `Grant`, `FreeId` a `Return`, a restart a `Reset`, all else stutters.

*BuildOwnershipProofs.*  `OwnInv` says that a job is alive only while its handler
awaits it.  With one slot there is one owner, so the job that takes a step is
alone (`AloneAtWork`) and what it finds in manifest, sources and target is what
it put there.  Both conditions are needed: `build_disconnect` drops the second;
with two slots the target directory is shared.  `CompilersCounted` needs only
the first part, since a compiling job's handler is admitted.  `FilledInv` needs neither:
a directory is filled before its marker is written, and the target of a compilation
exists.

*LearningQuotaProofs.*  `DailyLimits` speaks of requests, the code of counters:
`CounterInv` says that for the current day each counter is the number of requests
that the running process granted, `RequestInv` that no request with an older day waits
for the lock.  `TurnCounted` shows that a grant adds one to both sides.  `RestInv`: whoever was
granted a turn today was told at least what is left now, so the next one is told less.
`StaleMet`: a stale token that a second try could use was signed before a restart that met
its browser.

*WorkspaceProofs.*  None of the four theorems has an assumption on what overlaps.
`TypeInv` adds to the types that a build under way knows its workspace and a switch its
target; `CallSteps` and `CallStarts` say once, for all actions, what a step does to its
own call and that it leaves the others alone.  `LockInv`: the holder is under way,
and a call of the drawer can tell its own lock.  `OneDeployment` is inductive: only
`Deploy` enters it, where the state is `ready`, and only the `finally` of the call
that entered leaves it.  `OwnInv`: unless `mixed`, stored infos, infos captured by
builds under way and the live info are own, the last one of its `owner`, which is the
current workspace whenever it is used.

*DeployFlowProofs.*  `ControlInv` ties `deployState`, loader and question to the step.
`BufferInv` says why a late transaction does no harm: before its step it is not in
flight, and after it the buffer is in a state that it does not accept, or the
program has been replaced: while the buffer exists a second create fails, once it
is handed over a second `setAuth` fails.  `Chunks \ chunks \subseteq todo` carries
completeness from the read of the account to its use.  The refinement maps each
variable to itself.

*PlaynetProofs.*  `Inv` is types, `LedgerIsDated`, `Hashes` (no cached or signed blockhash is
newer than the bank's) and `Lawful`, which speaks of the bank's accounts and of the copy
being executed.  `Good`: no nonce is initialised and an executable account is the
loader's.  `Fair(s, t, S)` is what a transaction signed by `S` may make of accounts `s`; a
lemma per instruction shows that it keeps `Good` and is `Fair`, and `FairTwice` that `Fair`
composes, so that the copy at `Commit` is `Fair` against the accounts the transaction
started from.  That nothing else writes accounts while `run` is not `None` makes these the
bank's own.  `AirdropIsFresh` follows from `LedgerIsDated`, an airdrop being signed on the
latest blockhash.

The supply is a sum over the addresses, in the model a fold.  A rule of induction over finite
sets cannot be cited (it has an operator as parameter), so each fact about sums is shown by a
smallest set without it (`Smallest`, from the well-foundedness of the strict subsets of a
finite set): a function that sums exists and is unique (`SumExists`, `SumsAgree`), and any
element may be taken out first (`SumRemove`).  `LamportsMove` then says that taking from one
account what another is given keeps the sum, a lemma per instruction that it does no more,
and `RunConserves` that the copy being executed has the bank's supply.  The theorem needs that
the addresses are finitely many, as the keys of a bank's map are: `PlaynetAssumption` says so.

*ExplorerProofs.*  `ListedOnDisk` is not inductive: a switch saves the list that is in memory.
`ConfigIsSaved` says at which awaits that list is the saved one, `NamesHaveDirs` for each await
which of the names in memory have directories (all but the one being created, switched
to or recovered from), `RemovesHere` that a removal is of the current workspace.
None of these mentions tabs, and the operators of `FileTabs` stay folded: `FilesAreKept` and
`ListedOnDisk` do not depend on what the learner does with them.

`ExplorerTyped` is about the tabs.  `Uis(P)` are tabs of paths in `P` with an index that is one
of theirs or 0; a lemma per operator of `FileTabs` shows that it stays within them, for every
`P`.  `CloseAll` and `Distinct` go through a sequence: `FoldExists` gives the recursive function,
and what holds at each of its steps is shown by the first step where it would not (`Least`).
`UiTyped` adds the saved metadata: it has at most as many tabs as there are names, because
`saveMeta` saves no tab twice (`DistinctIn`, and `InjectiveIsBounded` with `IsFiniteSet(Names)`).
`ReadsDir`: a directory is there until it has been read.

`AlwaysOpenIsWhole` puts these together.  `OpenIsWhole` says nothing while an operation is under
way, so `WholeInv` says for each await what memory has to do with the disk: while a directory is read,
the files in memory and those still to be read are those on disk; while a workspace is removed,
memory holds only its files; a page that loads has nothing in memory, and a switch
later on goes to a workspace that has its directory.  The tabs are in
`Uis({current} \X Names)`, by the same lemmas with another `P`.  It holds wherever the page was closed: loading
then ends in a listed workspace that was read from its directory, or in one that is not
listed and has no files in memory (finding 5).
`WholeInv` was checked as an invariant of `explorer_files` before it was proved.

Only model-checked: liveness (`EveryRequestAnswered`, `LockIsReleased`, `CommandEnds`,
`SendEnds`), which is beyond the prover.  Every invariant, action property and refinement of
the passing runs is proved.

## 5. Not modelled

The tutor and the learning network are planned below; what they could break is
listed as two hazards without a property.  The other hazards without one go wrong in the
code, where no line promises otherwise, or hold by the shape of the model; each says so.
Views, wallet, terminal, settings, router, the share and package routes, the
server's wiring, the ports of command line tools and the editor extension keep
no protocol of their own: they render, store single documents or wrap
third-party code.  Within the modelled parts: paths, sizes and text of files, compiler output, chat, custom program ids and
imported binaries, and airdrop prompts; of a deployment the amounts of SOL, a
change of wallet while it runs, and a transaction of one deployment that lands
during the next; of the explorer contents of files and their autosave, folders,
temporary projects (shared and tutorial ones), the import from localStorage, and
operations that overlap; of playnet what section 2 names.

By lines most of the repository is ports of third-party command line tools
(`wasm/solana-cli`, `wasm/spl-token-cli`, `wasm/rustfmt`), views and lesson data, which keep no
protocol; the models cover the parts above, not those lines.

## 6. Plan

Done: (1) `SlotPool`, `BuildServer` and its proofs; (2) `LearningQuota` and its proof;
(3) `WorkspaceActions` and its proofs;
(4) `Deployment`, `DeployFlow` and their proofs;
(5) `SystemProgram`, `Playnet` and their proofs; (6) `FileTabs`, `Explorer` and their proofs.

Next, in this order:

7. `Tutor`: turns and tools over `WorkspaceActions`, patch and undo.
8. `LearningNetwork`: a reset of the chain against the stages shown; playnet's client
   switching between the bank and an RPC endpoint.
9. `Playnet` as the chain of `DeployFlow`.

Worth proving next: nothing the prover reaches is left of the properties that the runs
check; each module above brings its own.  `Least`, `FoldExists` and the lemmas on sums are
written for any sequence and any finite set.
