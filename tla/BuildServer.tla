----------------------------- MODULE BuildServer -----------------------------
(* The build server: the `/build` handler and its concurrency permits        *)
(* (server/src/routes/build.rs), the blocking compile job it spawns and the  *)
(* directories that job works in (server/src/program.rs), and what `/deploy` *)
(* serves from them (server/src/routes/deploy.rs).                           *)
(*                                                                           *)
(* A handler is a future on a multi-threaded runtime: it can be dropped at   *)
(* an await (the client closed the connection) and runs in parallel with the *)
(* others between awaits.  The blocking job it spawned is detached when the  *)
(* future is dropped: it runs to its end.  File contents are abstracted to   *)
(* the set of requests whose sources they were made from.                    *)
EXTENDS Naturals, FiniteSets

CONSTANTS
    Requests,      \* build requests, each sent once
    Programs,      \* program uuids
    Concurrency,   \* PG_BUILD_CONCURRENCY
    MayDisconnect, \* whether clients may close the connection early
    MaxRestarts,   \* bound: how often the server process is restarted
    None           \* no program, no manifest, no owner

ASSUME BuildAssumption ==
    /\ Concurrency \in Nat \ {0}
    /\ MayDisconnect \in BOOLEAN
    /\ MaxRestarts \in Nat
    /\ None \notin Programs
    /\ None \notin Requests
    /\ None \notin Nat
    /\ "template" \notin Programs \cup {None}

VARIABLES
    pc, program, ticket, slot, response, \* the handler of each request
    nextTicket,                          \* arrival order at the semaphore
    sem, ids,                            \* BuildState
    work, result,                        \* the blocking job of each request
    slotFiles, manifest,                 \* programs/<id>/
    src, binary,                         \* programs/<uuid>/
    target,                              \* programs/target, shared by all
    restarts

handlerVars == <<pc, program, ticket, slot, response, nextTicket>>
poolVars    == <<sem, ids>>
jobVars     == <<work, result>>
diskVars    == <<slotFiles, manifest, src, binary, target>>
vars        == <<handlerVars, poolVars, jobVars, diskVars, restarts>>

Slots == 0 .. (Concurrency - 1)

\* Stages of a handler; "acquire" and "await" are its two await points.
Stages == {"new", "acquire", "takeId", "await", "freeId", "release", "done"}

\* Steps of the blocking job, in order; "idle" before it is spawned.
FsSteps  == {"ready?", "copyToml", "copyLock", "markReady", "remove", "write",
             "manifest"}
JobSteps == FsSteps \cup {"idle", "validate", "compile", "copyOut", "idl",
                          "finished"}
Kinds    == {"none", "invalidUuid", "noId", "error", "timeout",
             "compileError", "ok", "gone"}
Replies  == [kind : Kinds, idl : SUBSET Requests]
Reply(k) == [kind |-> k, idl |-> {}]

BuildTypeOK ==
    /\ pc \in [Requests -> Stages]
    /\ program \in [Requests -> Programs \cup {None}]
    /\ ticket \in [Requests -> Nat]
    /\ slot \in [Requests -> Slots \cup {None}]
    /\ response \in [Requests -> Replies]
    /\ nextTicket \in Nat
    /\ sem \in 0 .. Concurrency
    /\ ids \in [Slots -> BOOLEAN]
    /\ work \in [Requests -> JobSteps]
    /\ result \in [Requests -> Replies]
    /\ slotFiles \in [Slots -> SUBSET {"Cargo.lock", "ready"}]
    /\ manifest \in [Slots -> Programs \cup {None, "template"}]
    /\ src \in [Programs -> SUBSET Requests]
    /\ binary \in [Programs -> SUBSET Requests]
    /\ target \in SUBSET Requests
    /\ restarts \in 0 .. MaxRestarts

EmptyDisk ==
    /\ slotFiles = [s \in Slots |-> {}]
    /\ manifest = [s \in Slots |-> None]
    /\ src = [p \in Programs |-> {}]
    /\ binary = [p \in Programs |-> {}]
    /\ target = {}

Init ==
    /\ pc = [r \in Requests |-> "new"]
    /\ program = [r \in Requests |-> None]
    /\ ticket = [r \in Requests |-> 0]
    /\ slot = [r \in Requests |-> None]
    /\ response = [r \in Requests |-> Reply("none")]
    /\ nextTicket = 1
    /\ sem = Concurrency
    /\ ids = [s \in Slots |-> FALSE]
    /\ work = [r \in Requests |-> "idle"]
    /\ result = [r \in Requests |-> Reply("none")]
    /\ EmptyDisk
    /\ restarts = 0

-----------------------------------------------------------------------------
(* The handler *)

\* A build that returned Ok told its client the uuid.
Known(p) == \E q \in Requests : /\ pc[q] = "done"
                                /\ program[q] = p
                                /\ response[q].kind \in {"ok", "compileError"}

Fresh(p) == \A q \in Requests : program[q] # p

\* The request reuses the uuid of an earlier answer, or gets a new one, and
\* queues at the semaphore.
Arrive(r, p) ==
    /\ pc[r] = "new"
    /\ Known(p) \/ Fresh(p)
    /\ program' = [program EXCEPT ![r] = p]
    /\ pc' = [pc EXCEPT ![r] = "acquire"]
    /\ ticket' = [ticket EXCEPT ![r] = nextTicket]
    /\ nextTicket' = nextTicket + 1
    /\ UNCHANGED <<slot, response, poolVars, jobVars, diskVars, restarts>>

RejectUuid(r) ==
    /\ pc[r] = "new"
    /\ pc' = [pc EXCEPT ![r] = "done"]
    /\ response' = [response EXCEPT ![r] = Reply("invalidUuid")]
    /\ UNCHANGED <<program, ticket, slot, nextTicket, poolVars, jobVars,
                   diskVars, restarts>>

\* tokio's semaphore serves its waiters in arrival order.
FirstWaiter(r) ==
    /\ pc[r] = "acquire"
    /\ \A q \in Requests : pc[q] = "acquire" => ticket[r] <= ticket[q]

AcquireSem(r) ==
    /\ FirstWaiter(r)
    /\ sem > 0
    /\ sem' = sem - 1
    /\ pc' = [pc EXCEPT ![r] = "takeId"]
    /\ UNCHANGED <<program, ticket, slot, response, nextTicket, ids, jobVars,
                   diskVars, restarts>>

\* Mutant: an id is handed out whether it is in use or not.
TakeAnyId(r, s) ==
    /\ pc[r] = "takeId"
    /\ ids' = [ids EXCEPT ![s] = TRUE]
    /\ slot' = [slot EXCEPT ![r] = s]
    /\ pc' = [pc EXCEPT ![r] = "await"]
    /\ work' = [work EXCEPT ![r] = "validate"]
    /\ UNCHANGED <<program, ticket, response, nextTicket, sem, result,
                   diskVars, restarts>>

\* Mutant: the id is not marked as used.
TakeIdUnmarked(r, s) ==
    /\ pc[r] = "takeId"
    /\ ~ ids[s]
    /\ \A t \in Slots : t < s => ids[t]
    /\ slot' = [slot EXCEPT ![r] = s]
    /\ pc' = [pc EXCEPT ![r] = "await"]
    /\ work' = [work EXCEPT ![r] = "validate"]
    /\ UNCHANGED <<program, ticket, response, nextTicket, poolVars, result,
                   diskVars, restarts>>

\* Under the ids lock: the lowest id not in use; then the job is spawned.
TakeId(r, s) ==
    /\ pc[r] = "takeId"
    /\ ~ ids[s]
    /\ \A t \in Slots : t < s => ids[t]
    /\ ids' = [ids EXCEPT ![s] = TRUE]
    /\ slot' = [slot EXCEPT ![r] = s]
    /\ pc' = [pc EXCEPT ![r] = "await"]
    /\ work' = [work EXCEPT ![r] = "validate"]
    /\ UNCHANGED <<program, ticket, response, nextTicket, sem, result,
                   diskVars, restarts>>

\* Permit::acquire past the semaphore.  With no id free it fails ("Failed to
\* find concurrency id") and drops only the semaphore permit.
FinishAcquire(r) ==
    /\ pc[r] = "takeId"
    /\ IF \E s \in Slots : ~ ids[s]
       THEN \E s \in Slots : TakeId(r, s)
       ELSE /\ pc' = [pc EXCEPT ![r] = "release"]
            /\ response' = [response EXCEPT ![r] = Reply("noId")]
            /\ UNCHANGED <<program, ticket, slot, nextTicket, poolVars,
                           jobVars, diskVars, restarts>>

\* Mutant: the answer does not wait for the job.
JoinEarly(r) ==
    /\ pc[r] = "await"
    /\ response' = [response EXCEPT ![r] = result[r]]
    /\ pc' = [pc EXCEPT ![r] = "freeId"]
    /\ UNCHANGED <<program, ticket, slot, nextTicket, poolVars, jobVars,
                   diskVars, restarts>>

Join(r) ==
    /\ pc[r] = "await"
    /\ work[r] = "finished"
    /\ response' = [response EXCEPT ![r] = result[r]]
    /\ pc' = [pc EXCEPT ![r] = "freeId"]
    /\ UNCHANGED <<program, ticket, slot, nextTicket, poolVars, jobVars,
                   diskVars, restarts>>

\* Mutant: a handler dropped in the queue returns a permit it never had.
DisconnectReleases(r) ==
    /\ MayDisconnect
    /\ pc[r] \in {"acquire", "await"}
    /\ pc' = [pc EXCEPT ![r] = IF pc[r] = "await" THEN "freeId" ELSE "release"]
    /\ response' = [response EXCEPT ![r] = Reply("gone")]
    /\ UNCHANGED <<program, ticket, slot, nextTicket, poolVars, jobVars,
                   diskVars, restarts>>

\* The connection closes while the handler awaits: its future is dropped, and
\* with it the permit if it has one.  The job, once spawned, goes on.
Disconnect(r) ==
    /\ MayDisconnect
    /\ pc[r] \in {"acquire", "await"}
    /\ pc' = [pc EXCEPT ![r] = IF pc[r] = "await" THEN "freeId" ELSE "done"]
    /\ response' = [response EXCEPT ![r] = Reply("gone")]
    /\ UNCHANGED <<program, ticket, slot, nextTicket, poolVars, jobVars,
                   diskVars, restarts>>

\* Mutant: the permit goes back, the id stays marked.
FreeIdForgotten(r) ==
    /\ pc[r] = "freeId"
    /\ pc' = [pc EXCEPT ![r] = "release"]
    /\ UNCHANGED <<program, ticket, slot, response, nextTicket, poolVars,
                   jobVars, diskVars, restarts>>

\* Drop for Permit: first the id, then the semaphore permit it owns.
FreeId(r) ==
    /\ pc[r] = "freeId"
    /\ ids' = [ids EXCEPT ![slot[r]] = FALSE]
    /\ pc' = [pc EXCEPT ![r] = "release"]
    /\ UNCHANGED <<program, ticket, slot, response, nextTicket, sem, jobVars,
                   diskVars, restarts>>

\* Mutant: the semaphore permit leaks.
ReleaseLeaks(r) ==
    /\ pc[r] = "release"
    /\ pc' = [pc EXCEPT ![r] = "done"]
    /\ UNCHANGED <<program, ticket, slot, response, nextTicket, poolVars,
                   jobVars, diskVars, restarts>>

ReleaseSem(r) ==
    /\ pc[r] = "release"
    /\ sem' = sem + 1
    /\ pc' = [pc EXCEPT ![r] = "done"]
    /\ UNCHANGED <<program, ticket, slot, response, nextTicket, ids, jobVars,
                   diskVars, restarts>>

Handler(r) ==
    \/ AcquireSem(r)
    \/ FinishAcquire(r)
    \/ Join(r)
    \/ FreeId(r)
    \/ ReleaseSem(r)

-----------------------------------------------------------------------------
(* The blocking job: program::build *)

Step(r, from, to) ==
    /\ work[r] = from
    /\ work' = [work EXCEPT ![r] = to]
    /\ UNCHANGED <<handlerVars, poolVars, result, restarts>>

Finish(r, from, reply) ==
    /\ work[r] \in from
    /\ work' = [work EXCEPT ![r] = "finished"]
    /\ result' = [result EXCEPT ![r] = reply]
    /\ UNCHANGED <<handlerVars, poolVars, restarts>>

\* File count and paths are checked before anything is written.
Validate(r) ==
    /\ Step(r, "validate", "ready?")
    /\ UNCHANGED diskVars

RejectFiles(r) ==
    /\ Finish(r, {"validate"}, Reply("error"))
    /\ UNCHANGED diskVars

\* The id's directory is filled once; its `ready` marker is written last.
CheckReady(r) ==
    /\ Step(r, "ready?",
            IF "ready" \in slotFiles[slot[r]] THEN "remove" ELSE "copyToml")
    /\ UNCHANGED diskVars

\* Mutant: the marker is written first.
CopyTomlMarksReady(r) ==
    /\ Step(r, "copyToml", "copyLock")
    /\ manifest' = [manifest EXCEPT ![slot[r]] = "template"]
    /\ slotFiles' = [slotFiles EXCEPT ![slot[r]] = @ \cup {"ready"}]
    /\ UNCHANGED <<src, binary, target>>

CopyToml(r) ==
    /\ Step(r, "copyToml", "copyLock")
    /\ manifest' = [manifest EXCEPT ![slot[r]] = "template"]
    /\ UNCHANGED <<slotFiles, src, binary, target>>

CopyLock(r) ==
    /\ Step(r, "copyLock", "markReady")
    /\ slotFiles' = [slotFiles EXCEPT ![slot[r]] = @ \cup {"Cargo.lock"}]
    /\ UNCHANGED <<manifest, src, binary, target>>

MarkReady(r) ==
    /\ Step(r, "markReady", "remove")
    /\ slotFiles' = [slotFiles EXCEPT ![slot[r]] = @ \cup {"ready"}]
    /\ UNCHANGED <<manifest, src, binary, target>>

\* Mutant: files of earlier builds are left in place.
RemoveNothing(r) == Step(r, "remove", "write") /\ UNCHANGED diskVars

\* Mutant: the whole program directory is removed, its binary included.
RemoveProgram(r) ==
    /\ Step(r, "remove", "write")
    /\ src' = [src EXCEPT ![program[r]] = {}]
    /\ binary' = [binary EXCEPT ![program[r]] = {}]
    /\ UNCHANGED <<slotFiles, manifest, target>>

RemoveSrc(r) ==
    /\ Step(r, "remove", "write")
    /\ src' = [src EXCEPT ![program[r]] = {}]
    /\ UNCHANGED <<slotFiles, manifest, binary, target>>

\* Writing replaces the files of the same paths and keeps the others.
WriteFiles(r) ==
    /\ Step(r, "write", "manifest")
    /\ \E kept \in {{}, src[program[r]]} :
           src' = [src EXCEPT ![program[r]] = kept \cup {r}]
    /\ UNCHANGED <<slotFiles, manifest, binary, target>>

\* Mutant: the manifest is only written when the directory is filled.
KeepManifest(r) ==
    /\ Step(r, "manifest", "compile")
    /\ manifest' = [manifest EXCEPT ![slot[r]] =
                       IF @ = "template" THEN program[r] ELSE @]
    /\ UNCHANGED <<slotFiles, src, binary, target>>

WriteManifest(r) ==
    /\ Step(r, "manifest", "compile")
    /\ manifest' = [manifest EXCEPT ![slot[r]] = program[r]]
    /\ UNCHANGED <<slotFiles, src, binary, target>>

\* cargo compiles the crate the manifest of the id points at into the shared
\* target directory, which it locks for as long as that takes ...
Compile(r) ==
    /\ work[r] = "compile"
    /\ manifest[slot[r]] \in Programs
    /\ src[manifest[slot[r]]] # {}
    /\ Step(r, "compile", "copyOut")
    /\ target' = src[manifest[slot[r]]]
    /\ UNCHANGED <<slotFiles, manifest, src, binary>>

\* ... and cargo-build-sbf then copies solpg.so out of it.
CopyOut(r) ==
    /\ Step(r, "copyOut", "idl")
    /\ binary' = [binary EXCEPT ![program[r]] = target]
    /\ UNCHANGED <<slotFiles, manifest, src, target>>

\* A compile error is an answer, not an error; the old binary stays.
CompileError(r) ==
    /\ Finish(r, {"compile"}, Reply("compileError"))
    /\ UNCHANGED diskVars

\* `timeout` stops cargo-build-sbf after BUILD_TIMEOUT_SECONDS.
CompileTimeout(r) ==
    /\ Finish(r, {"compile", "copyOut"}, Reply("timeout"))
    /\ UNCHANGED diskVars

\* The IDL of an Anchor program is read from its lib.rs; any other program,
\* and an IDL that does not parse, give none.
ParseIdl(r) ==
    /\ work[r] = "idl"
    /\ src[program[r]] # {}
    /\ \E i \in {{}, src[program[r]]} :
           Finish(r, {"idl"}, [kind |-> "ok", idl |-> i])
    /\ UNCHANGED diskVars

\* Any file operation, the spawn of the compiler or the reading of its output
\* may fail; what was done before stays done.
IoError(r) ==
    /\ Finish(r, FsSteps \cup {"compile", "idl"}, Reply("error"))
    /\ UNCHANGED diskVars

Job(r) ==
    \/ Validate(r)   \/ RejectFiles(r)  \/ CheckReady(r)
    \/ CopyToml(r)   \/ CopyLock(r)     \/ MarkReady(r)
    \/ RemoveSrc(r)  \/ WriteFiles(r)   \/ WriteManifest(r)
    \/ Compile(r)    \/ CopyOut(r)      \/ CompileError(r)
    \/ CompileTimeout(r) \/ ParseIdl(r) \/ IoError(r)

-----------------------------------------------------------------------------
(* The process *)

KillProcess ==
    /\ restarts < MaxRestarts
    /\ restarts' = restarts + 1
    /\ pc' = [r \in Requests |-> IF pc[r] = "new" THEN "new" ELSE "done"]
    /\ response' = [r \in Requests |->
                      IF pc[r] \in {"new", "done"} THEN response[r]
                                                   ELSE Reply("gone")]
    /\ work' = [r \in Requests |-> "idle"]
    /\ sem' = Concurrency
    /\ ids' = [s \in Slots |-> FALSE]
    /\ UNCHANGED <<program, ticket, slot, nextTicket, result>>

\* BuildState is rebuilt empty; the disk is what the jobs left behind.
Restart == KillProcess /\ UNCHANGED diskVars

\* A new container starts from the image.
Redeploy ==
    /\ KillProcess
    /\ slotFiles' = [s \in Slots |-> {}]
    /\ manifest' = [s \in Slots |-> None]
    /\ src' = [p \in Programs |-> {}]
    /\ binary' = [p \in Programs |-> {}]
    /\ target' = {}

\* All requests are answered.
Quiescent ==
    /\ \A r \in Requests : pc[r] = "done" /\ work[r] \in {"idle", "finished"}
    /\ UNCHANGED vars

Next ==
    \/ \E r \in Requests, p \in Programs : Arrive(r, p)
    \/ \E r \in Requests : RejectUuid(r) \/ Disconnect(r)
    \/ \E r \in Requests : Handler(r) \/ Job(r)
    \/ Restart
    \/ Redeploy
    \/ Quiescent

Spec == Init /\ [][Next]_vars

\* The runtime polls every ready handler and runs every blocking job; the
\* compiler is stopped by `timeout` if it does not stop itself.
FairSpec == Spec /\ \A r \in Requests : WF_vars(Handler(r)) /\ WF_vars(Job(r))

\* get_binary: what /deploy/{uuid} answers; the empty set is "not built".
DeployBinary(p) == binary[p]

-----------------------------------------------------------------------------
(* Properties *)

\* Handlers between the semaphore and its release, and those owning an id.
Admitted == {r \in Requests : pc[r] \in {"takeId", "await", "freeId", "release"}}
IdOwners == {r \in Requests : pc[r] \in {"await", "freeId"}}

\* build.rs Permit: the semaphore and the id vector agree.  Every admitted
\* handler accounts for exactly one permit, an id is marked exactly when a
\* handler owns it, and no two handlers own the same id, although id and permit
\* are taken and returned in separate steps that other threads interleave.
PermitsAgree ==
    /\ sem + Cardinality(Admitted) = Concurrency
    /\ \A s \in Slots : ids[s] <=> \E r \in IdOwners : slot[r] = s
    /\ \A q, r \in IdOwners : slot[q] = slot[r] => q = r

\* build.rs:155: the "Failed to find concurrency id" error is unreachable: a
\* handler past the semaphore always finds a free id.
IdAlwaysFound == \A r \in Requests : response[r].kind # "noId"

\* program.rs:67-83: a directory whose `ready` marker exists is complete, also
\* when a job was killed or failed half way through filling it.
ReadyMeansComplete ==
    \A s \in Slots : "ready" \in slotFiles[s] =>
        /\ "Cargo.lock" \in slotFiles[s]
        /\ manifest[s] # None

RequestsOf(p) == {r \in Requests : program[r] = p}

\* program.rs:119-121: the binary offered for deployment of a program was built
\* from that program's own sources, never from another learner's.
BinaryIsOwn == \A p \in Programs : DeployBinary(p) \subseteq RequestsOf(p)

\* build.rs:104-110: when a build answers ok, the binary and the IDL on disk are
\* those of the sources this very request sent.
AnswerIsOwn ==
    \A r \in Requests :
        pc[r] = "freeId" /\ response[r].kind = "ok" =>
            /\ DeployBinary(program[r]) = {r}
            /\ response[r].idl \subseteq {r}

Compiling == {r \in Requests : work[r] \in {"compile", "copyOut"}}

\* build.rs:83: "Only permit a certain number of builds concurrently".
CompilersBounded == Cardinality(Compiling) <= Concurrency

\* program.rs:159-161: a failed, timed out or abandoned build of a program never
\* takes away the binary that an earlier build left to deploy; only a new
\* container does.
BinaryNeverLost ==
    [][\A p \in Programs : binary[p] # {} => binary'[p] # {} \/ EmptyDisk']_vars

\* program.rs:24-27 with build.rs:84: no wedged compiler and no number of other
\* clients keeps a request waiting forever; each queued request is answered (or
\* given up by its client).
EveryRequestAnswered ==
    \A r \in Requests : pc[r] = "acquire" ~> pc[r] = "done"

\* The pool the permits implement: the owner of each slot.
Owner == [s \in Slots |-> IF ids[s]
                          THEN CHOOSE r \in IdOwners : slot[r] = s
                          ELSE None]
Pool == INSTANCE SlotPool WITH Clients <- Requests, Slots <- Slots,
                               Free <- None, owner <- Owner,
                               served <- {r \in Requests : slot[r] # None}

\* build.rs:120-179: acquiring and dropping permits implements the slot pool.
ImplementsSlotPool == Pool!Spec
=============================================================================
