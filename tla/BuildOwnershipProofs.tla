------------------------ MODULE BuildOwnershipProofs ------------------------
(* With one build at a time and clients that wait for their answer, a        *)
(* learner only ever deploys what was built from their own sources.          *)
EXTENDS BuildServerProofs

Live(r) == work[r] \notin {"idle", "finished"}

\* A handler waits for every live job; sources and binaries belong to the
\* program they are stored under; and what the live job has produced so far is
\* made from its own request alone.
OwnInv ==
    /\ \A r \in Requests : pc[r] = "new" => program[r] = None
    /\ \A r \in Requests : Live(r) => pc[r] = "await"
    /\ \A p \in Programs : src[p] \subseteq RequestsOf(p)
    /\ BinaryIsOwn
    /\ \A r \in Requests :
        /\ work[r] = "write" => src[program[r]] = {}
        /\ work[r] \in {"manifest", "compile", "copyOut", "idl"} =>
              src[program[r]] = {r}
        /\ work[r] = "compile" => manifest[slot[r]] = program[r]
        /\ work[r] = "copyOut" => target = {r}
        /\ work[r] = "idl" => binary[program[r]] = {r}
        /\ pc[r] = "await" /\ work[r] = "finished" /\ result[r].kind = "ok" =>
              /\ binary[program[r]] = {r}
              /\ result[r].idl \subseteq {r}
    /\ AnswerIsOwn

\* With a single slot there is a single owner.
LEMMA OneOwner ==
    ASSUME Concurrency = 1, IndInv, NEW q \in IdOwners, NEW r \in IdOwners
    PROVE  q = r
<1>1. Slots = {0}
  BY DEF Slots
<1>2. slot[q] = slot[r]
  BY <1>1 DEF IndInv, PermitInv
<1>3. QED
  BY <1>2 DEF IndInv, PermitInv, PermitsAgree

\* Initially nothing is stored and nothing runs.
LEMMA InitOwn == Init => OwnInv
BY DEF Init, EmptyDisk, OwnInv, Live, RequestsOf, BinaryIsOwn, DeployBinary,
       AnswerIsOwn, Reply

\* No handler step changes what is on disk or whose it is.
LEMMA OwnHandlerStep ==
    ASSUME IndInv, OwnInv, ~ MayDisconnect, UNCHANGED diskVars,
           NEW r \in Requests,
           \/ \E p \in Programs : Arrive(r, p)
           \/ RejectUuid(r) \/ Disconnect(r) \/ Handler(r)
    PROVE  OwnInv'
<1> USE BuildAssumption
<1>0. BuildTypeOK
  BY DEF IndInv
<1>1. ASSUME NEW p \in Programs, Arrive(r, p)
      PROVE  OwnInv'
  <2>1. /\ program' = [program EXCEPT ![r] = p]
        /\ pc' = [pc EXCEPT ![r] = "acquire"]
        /\ pc[r] = "new" /\ program[r] = None /\ work[r] = "idle"
        /\ UNCHANGED <<work, result, response, slot, manifest, src, binary,
                       target>>
    BY <1>1 DEF Arrive, jobVars, diskVars, OwnInv, IndInv, JobInv
  <2>2. \A x \in Programs : RequestsOf(x) \subseteq RequestsOf(x)'
    BY <1>0, <2>1 DEF RequestsOf, BuildTypeOK
  <2>3. \A x \in Programs : src'[x] \subseteq RequestsOf(x)'
    BY <2>1, <2>2 DEF OwnInv
  <2>4. BinaryIsOwn'
    BY <2>1, <2>2 DEF OwnInv, BinaryIsOwn, DeployBinary
  <2>5. \A q \in Requests : work[q] # "idle" \/ pc[q] # "new" =>
            program'[q] = program[q] /\ pc'[q] = pc[q]
    BY <1>0, <2>1 DEF BuildTypeOK
  <2>6. AnswerIsOwn'
    BY <1>0, <2>1, <2>5 DEF AnswerIsOwn, OwnInv, BuildTypeOK, DeployBinary
  <2>7. QED
    BY <1>0, <2>1, <2>3, <2>4, <2>5, <2>6 DEF OwnInv, Live, BuildTypeOK
<1>2. ASSUME RejectUuid(r) \/ AcquireSem(r) \/ FreeId(r) \/ ReleaseSem(r)
      PROVE  OwnInv'
  <2>1. /\ UNCHANGED <<program, work, result, slot, manifest, src, binary,
                       target>>
        /\ pc[r] \in {"new", "acquire", "freeId", "release"}
        /\ pc'[r] \in {"done", "takeId", "release"}
        /\ \A q \in Requests : q # r => pc'[q] = pc[q]
                                        /\ response'[q] = response[q]
    BY <1>0, <1>2 DEF RejectUuid, AcquireSem, FirstWaiter, FreeId, ReleaseSem,
                      jobVars, diskVars, BuildTypeOK
  <2>2. \A x \in Programs : RequestsOf(x)' = RequestsOf(x)
    BY <2>1 DEF RequestsOf
  <2>3. AnswerIsOwn'
    BY <2>1 DEF AnswerIsOwn, OwnInv, DeployBinary
  <2>4. QED
    BY <2>1, <2>2, <2>3 DEF OwnInv, Live, BinaryIsOwn, DeployBinary
<1>3. ASSUME FinishAcquire(r)
      PROVE  OwnInv'
  <2>1. PICK s \in Slots : TakeId(r, s)
    BY <1>3, IdFree DEF FinishAcquire, IndInv
  <2>2. /\ UNCHANGED <<program, response, result, manifest, src, binary,
                       target>>
        /\ pc[r] = "takeId" /\ pc'[r] = "await" /\ work'[r] = "validate"
        /\ \A q \in Requests : q # r => /\ pc'[q] = pc[q]
                                        /\ work'[q] = work[q]
                                        /\ slot'[q] = slot[q]
    BY <1>0, <2>1 DEF TakeId, diskVars, BuildTypeOK
  <2>3. \A x \in Programs : RequestsOf(x)' = RequestsOf(x)
    BY <2>2 DEF RequestsOf
  <2>4. AnswerIsOwn'
    BY <2>2 DEF AnswerIsOwn, OwnInv, DeployBinary
  <2>5. QED
    BY <2>2, <2>3, <2>4 DEF OwnInv, Live, BinaryIsOwn, DeployBinary
<1>4. ASSUME Join(r)
      PROVE  OwnInv'
  <2>1. /\ UNCHANGED <<program, work, result, slot, manifest, src, binary,
                       target>>
        /\ pc[r] = "await" /\ pc'[r] = "freeId" /\ work[r] = "finished"
        /\ response'[r] = result[r]
        /\ \A q \in Requests : q # r => pc'[q] = pc[q]
                                        /\ response'[q] = response[q]
    BY <1>0, <1>4 DEF Join, jobVars, diskVars, BuildTypeOK
  <2>2. \A x \in Programs : RequestsOf(x)' = RequestsOf(x)
    BY <2>1 DEF RequestsOf
  <2>3. AnswerIsOwn'
    BY <2>1 DEF AnswerIsOwn, OwnInv, DeployBinary
  <2>4. QED
    BY <2>1, <2>2, <2>3 DEF OwnInv, Live, BinaryIsOwn, DeployBinary
<1>5. QED
  BY <1>1, <1>2, <1>3, <1>4 DEF Handler, Disconnect

\* What holds while a job takes a step: it is the only live one, and no other
\* handler stands between its job's end and the release of its id.
LEMMA AloneAtWork ==
    ASSUME Concurrency = 1, IndInv, OwnInv, NEW r \in Requests, Live(r)
    PROVE  /\ pc[r] = "await" /\ program[r] \in Programs /\ slot[r] \in Slots
           /\ \A q \in Requests : q # r => /\ ~ Live(q)
                                           /\ pc[q] \notin {"await", "freeId"}
<1>1. pc[r] = "await" /\ r \in IdOwners
  BY DEF OwnInv, IdOwners
<1>2. \A q \in IdOwners : q = r
  BY <1>1, OneOwner
<1>3. \A q \in Requests : q # r => pc[q] \notin {"await", "freeId"}
  BY <1>2 DEF IdOwners
<1>4. \A q \in Requests : q # r => ~ Live(q)
  BY <1>3 DEF OwnInv
<1>5. QED
  BY <1>1, <1>3, <1>4 DEF IndInv, JobInv, Live

\* A job alone at work only produces what is its own.
LEMMA OwnJobStep ==
    ASSUME Concurrency = 1, IndInv, OwnInv, NEW r \in Requests, Job(r)
    PROVE  OwnInv'
<1> USE BuildAssumption
<1>0. BuildTypeOK
  BY DEF IndInv
<1>1. Live(r)
  BY DEF Live, Job, Validate, RejectFiles, CheckReady, CopyToml, CopyLock,
     MarkReady, RemoveSrc, WriteFiles, WriteManifest, Compile, CopyOut,
     CompileError, CompileTimeout, ParseIdl, IoError, Step, Finish, FsSteps
<1>2. /\ pc[r] = "await" /\ program[r] \in Programs /\ slot[r] \in Slots
      /\ \A q \in Requests : q # r => /\ ~ Live(q)
                                      /\ pc[q] \notin {"await", "freeId"}
  BY <1>1, AloneAtWork
<1>3. /\ UNCHANGED <<pc, program, slot, response>>
      /\ \A q \in Requests : q # r => work'[q] = work[q]
  BY <1>0 DEF Job, Validate, RejectFiles, CheckReady, CopyToml, CopyLock,
     MarkReady, RemoveSrc, WriteFiles, WriteManifest, Compile, CopyOut,
     CompileError, CompileTimeout, ParseIdl, IoError, Step, Finish,
     handlerVars, BuildTypeOK
<1>4. r \in RequestsOf(program[r])
  BY DEF RequestsOf
<1>5. \A x \in Programs : RequestsOf(x)' = RequestsOf(x)
  BY <1>3 DEF RequestsOf
<1>6. AnswerIsOwn'
  BY <1>2, <1>3 DEF AnswerIsOwn
\* What is left to show for each step: the two ownership conjuncts, and the
\* progress of r itself.
<1> DEFINE Mine ==
      /\ \A p \in Programs : src[p] \subseteq RequestsOf(p)
      /\ \A p \in Programs : binary[p] \subseteq RequestsOf(p)
      /\ work[r] = "write" => src[program[r]] = {}
      /\ work[r] \in {"manifest", "compile", "copyOut", "idl"} =>
            src[program[r]] = {r}
      /\ work[r] = "compile" => manifest[slot[r]] = program[r]
      /\ work[r] = "copyOut" => target = {r}
      /\ work[r] = "idl" => binary[program[r]] = {r}
      /\ work[r] = "finished" /\ result[r].kind = "ok" =>
            /\ binary[program[r]] = {r}
            /\ result[r].idl \subseteq {r}
<1>7. Mine
  BY <1>1, <1>2 DEF OwnInv, Live, BinaryIsOwn, DeployBinary
<1>8. Mine' => OwnInv'
  BY <1>2, <1>3, <1>5, <1>6 DEF OwnInv, Live, BinaryIsOwn, DeployBinary
<1>9. Mine'
  <2> USE <1>0, <1>2, <1>3, <1>5, <1>7 DEF BuildTypeOK, Step, Finish
  <2>1. CASE Validate(r) \/ CheckReady(r)
    BY <2>1 DEF Validate, CheckReady, diskVars
  <2>2. CASE RejectFiles(r) \/ CompileError(r) \/ CompileTimeout(r)
             \/ IoError(r)
    BY <2>2 DEF RejectFiles, CompileError, CompileTimeout, IoError, diskVars,
                Reply
  <2>3. CASE CopyToml(r) \/ CopyLock(r) \/ MarkReady(r)
    BY <2>3 DEF CopyToml, CopyLock, MarkReady
  <2>4. CASE RemoveSrc(r)
    BY <2>4 DEF RemoveSrc
  <2>5. CASE WriteFiles(r)
    <3>0. src[program[r]] = {}
      BY <2>5 DEF WriteFiles
    <3>1. src' = [src EXCEPT ![program[r]] = {r}]
      <4>1. PICK kept \in {{}, src[program[r]]} :
               src' = [src EXCEPT ![program[r]] = kept \cup {r}]
        BY <2>5 DEF WriteFiles
      <4>2. kept \cup {r} = {r}
        BY <3>0
      <4>3. QED
        BY <4>1, <4>2
    <3>2. QED
      BY <1>4, <2>5, <3>1 DEF WriteFiles
  <2>6. CASE WriteManifest(r)
    BY <2>6 DEF WriteManifest
  <2>7. CASE Compile(r)
    BY <2>7 DEF Compile
  <2>8. CASE CopyOut(r)
    BY <1>4, <2>8 DEF CopyOut
  <2>9. CASE ParseIdl(r)
    BY <2>9 DEF ParseIdl, diskVars
  <2>10. QED
    BY <2>1, <2>2, <2>3, <2>4, <2>5, <2>6, <2>7, <2>8, <2>9 DEF Job
<1>10. QED
  BY <1>8, <1>9

\* Ownership is kept by every step.
LEMMA OwnStep ==
    ASSUME Concurrency = 1, ~ MayDisconnect, IndInv, OwnInv, [Next]_vars
    PROVE  OwnInv'
<1>1. ASSUME NEW r \in Requests,
             (\E p \in Programs : Arrive(r, p)) \/ RejectUuid(r)
             \/ Disconnect(r) \/ Handler(r)
      PROVE  OwnInv'
  <2>1. UNCHANGED diskVars
    <3>1. CASE FinishAcquire(r)
      BY <3>1, IdFree DEF FinishAcquire, TakeId, IndInv
    <3>2. QED
      BY <1>1, <3>1 DEF Arrive, RejectUuid, Disconnect, Handler, AcquireSem,
                        Join, FreeId, ReleaseSem
  <2>2. QED
    BY <1>1, <2>1, OwnHandlerStep
<1>2. ASSUME NEW r \in Requests, Job(r)
      PROVE  OwnInv'
  BY <1>2, OwnJobStep
<1>3. ASSUME KillProcess
      PROVE  /\ \A r \in Requests : pc'[r] = "new" => program'[r] = None
             /\ \A r \in Requests : ~ Live(r)' /\ work'[r] = "idle"
             /\ \A p \in Programs : RequestsOf(p)' = RequestsOf(p)
             /\ AnswerIsOwn'
  BY <1>3 DEF KillProcess, OwnInv, Live, RequestsOf, AnswerIsOwn, IndInv,
              BuildTypeOK
<1>4. ASSUME Restart
      PROVE  OwnInv'
  BY <1>3, <1>4 DEF Restart, OwnInv, BinaryIsOwn, DeployBinary, diskVars
<1>5. ASSUME Redeploy
      PROVE  OwnInv'
  BY <1>3, <1>5 DEF Redeploy, OwnInv, BinaryIsOwn, DeployBinary
<1>6. ASSUME UNCHANGED vars
      PROVE  OwnInv'
  BY <1>6 DEF vars, handlerVars, poolVars, jobVars, diskVars, OwnInv, Live,
     RequestsOf, BinaryIsOwn, AnswerIsOwn, DeployBinary
<1>7. QED
  BY <1>1, <1>2, <1>4, <1>5, <1>6 DEF Next, Quiescent

\* program.rs:119-121: with one build at a time and clients that wait, no
\* learner is ever served a binary made from another learner's sources,
\* whatever fails and however often the server restarts.
THEOREM OwnBinary ==
    ASSUME Concurrency = 1, ~ MayDisconnect
    PROVE  Spec => []BinaryIsOwn
<1>1. IndInv /\ OwnInv /\ [Next]_vars => OwnInv'
  BY OwnStep
<1>2. OwnInv => BinaryIsOwn
  BY DEF OwnInv
<1>3. QED
  BY <1>1, <1>2, InitOwn, Inductive, PTL DEF Spec

\* build.rs:104-110: under the same conditions an ok answer is about the very
\* sources its request sent: they are what /deploy serves and what the IDL
\* describes.
THEOREM OwnAnswer ==
    ASSUME Concurrency = 1, ~ MayDisconnect
    PROVE  Spec => []AnswerIsOwn
<1>1. IndInv /\ OwnInv /\ [Next]_vars => OwnInv'
  BY OwnStep
<1>2. OwnInv => AnswerIsOwn
  BY DEF OwnInv
<1>3. QED
  BY <1>1, <1>2, InitOwn, Inductive, PTL DEF Spec

-----------------------------------------------------------------------------
(* Compilers and permits *)

\* A handler waits for its job as long as it lives.
JobsAwaited == \A r \in Requests : Live(r) => pc[r] = "await"

\* If clients wait, so does every handler.
LEMMA AwaitedStep ==
    ASSUME ~ MayDisconnect, IndInv, JobsAwaited, [Next]_vars
    PROVE  JobsAwaited'
<1> USE BuildAssumption DEF IndInv, BuildTypeOK, JobsAwaited, Live
<1>1. ASSUME NEW r \in Requests, NEW p \in Programs, Arrive(r, p)
      PROVE  JobsAwaited'
  BY <1>1 DEF Arrive, jobVars
<1>2. ASSUME NEW r \in Requests,
             RejectUuid(r) \/ Disconnect(r) \/ Join(r) \/ AcquireSem(r)
             \/ FreeId(r) \/ ReleaseSem(r)
      PROVE  JobsAwaited'
  BY <1>2 DEF RejectUuid, Disconnect, Join, AcquireSem, FirstWaiter, FreeId,
              ReleaseSem, jobVars
<1>3. ASSUME NEW r \in Requests, FinishAcquire(r)
      PROVE  JobsAwaited'
  <2>1. PICK s \in Slots : TakeId(r, s)
    BY <1>3, IdFree DEF FinishAcquire
  <2>2. QED
    BY <2>1 DEF TakeId
<1>4. ASSUME NEW r \in Requests, Job(r)
      PROVE  JobsAwaited'
  <2>1. Live(r)
    BY <1>4 DEF Job, Validate, RejectFiles, CheckReady, CopyToml, CopyLock,
        MarkReady, RemoveSrc, WriteFiles, WriteManifest, Compile, CopyOut,
        CompileError, CompileTimeout, ParseIdl, IoError, Step, Finish, FsSteps
  <2>2. /\ UNCHANGED pc
        /\ \A q \in Requests : q # r => work'[q] = work[q]
    BY <1>4 DEF Job, Validate, RejectFiles, CheckReady, CopyToml, CopyLock,
        MarkReady, RemoveSrc, WriteFiles, WriteManifest, Compile, CopyOut,
        CompileError, CompileTimeout, ParseIdl, IoError, Step, Finish,
        handlerVars
  <2>3. QED
    BY <2>1, <2>2
<1>5. ASSUME KillProcess
      PROVE  JobsAwaited'
  BY <1>5 DEF KillProcess
<1>6. ASSUME UNCHANGED vars
      PROVE  JobsAwaited'
  BY <1>6 DEF vars, handlerVars, jobVars
<1>7. QED
  BY <1>1, <1>2, <1>3, <1>4, <1>5, <1>6 DEF Next, Handler, Restart, Redeploy,
     Quiescent

\* Every compiler at work is accounted for by a permit.
LEMMA CompilersHavePermits ==
    ASSUME IndInv, JobsAwaited
    PROVE  CompilersBounded
<1>1. Compiling \subseteq Admitted /\ IsFiniteSet(Admitted)
  BY DEF JobsAwaited, Live, Compiling, Admitted, IndInv, PermitInv
<1>2. Cardinality(Compiling) <= Cardinality(Admitted)
  BY <1>1, FS_Subset
<1>3. /\ Cardinality(Admitted) \in Nat /\ sem \in Nat
      /\ Cardinality(Compiling) \in Nat
  BY <1>1, FS_Subset, FS_CardinalityType, BuildAssumption
     DEF IndInv, BuildTypeOK
<1>4. sem + Cardinality(Admitted) = Concurrency
  BY DEF IndInv, PermitInv, PermitsAgree
<1>5. QED
  BY <1>2, <1>3, <1>4, BuildAssumption DEF CompilersBounded

\* build.rs:83: if clients wait for their answer, no more compilers run at once
\* than there are permits, for every concurrency.
THEOREM CompilersCounted ==
    ASSUME ~ MayDisconnect
    PROVE  Spec => []CompilersBounded
<1>1. Init => JobsAwaited
  BY DEF Init, JobsAwaited, Live
<1>2. IndInv /\ JobsAwaited /\ [Next]_vars => JobsAwaited'
  BY AwaitedStep
<1>3. IndInv /\ JobsAwaited => CompilersBounded
  BY CompilersHavePermits
<1>4. QED
  BY <1>1, <1>2, <1>3, Inductive, PTL DEF Spec

-----------------------------------------------------------------------------
(* What jobs leave on disk, for any concurrency and clients that leave *)

\* A job at each of these steps has done the one before it.
FilledInv ==
    /\ ReadyMeansComplete
    /\ \A r \in Requests :
        /\ work[r] \in {"copyLock", "markReady"} => manifest[slot[r]] # None
        /\ work[r] = "markReady" => "Cargo.lock" \in slotFiles[slot[r]]
        /\ work[r] = "copyOut" => target # {}

\* The handlers touch neither the disk nor the slot of a job at work.
LEMMA FilledHandler ==
    ASSUME IndInv, FilledInv, NEW r \in Requests,
           \/ \E p \in Programs : Arrive(r, p)
           \/ RejectUuid(r) \/ Disconnect(r) \/ Handler(r)
    PROVE  FilledInv'
<1> USE BuildAssumption DEF IndInv, BuildTypeOK
<1>1. /\ UNCHANGED diskVars
      /\ \A q \in Requests : work'[q] \notin {"idle", "validate"} =>
            work'[q] = work[q] /\ slot'[q] = slot[q]
  <2>1. CASE FinishAcquire(r)
    <3>1. PICK s \in Slots : TakeId(r, s)
      BY <2>1, IdFree DEF FinishAcquire
    <3> QED BY <3>1 DEF TakeId
  <2>2. CASE Join(r) \/ AcquireSem(r) \/ FreeId(r) \/ ReleaseSem(r)
             \/ RejectUuid(r) \/ Disconnect(r)
    BY <2>2 DEF Join, AcquireSem, FreeId, ReleaseSem, RejectUuid, Disconnect,
                jobVars
  <2>3. ASSUME NEW p \in Programs, Arrive(r, p)
        PROVE  UNCHANGED <<diskVars, work, slot>>
    BY <2>3 DEF Arrive, jobVars
  <2> QED BY <2>1, <2>2, <2>3 DEF Handler
<1> QED BY <1>1 DEF FilledInv, ReadyMeansComplete, diskVars

\* A step of a job fills a directory before it marks it.
LEMMA FilledJob ==
    ASSUME IndInv, FilledInv, NEW r \in Requests, Job(r)
    PROVE  FilledInv'
<1>0. BuildTypeOK /\ slot[r] \in Slots /\ program[r] \in Programs
  BY DEF IndInv, JobInv, Job, Validate, RejectFiles, CheckReady, CopyToml, CopyLock,
     MarkReady, RemoveSrc, WriteFiles, WriteManifest, Compile, CopyOut,
     CompileError, CompileTimeout, ParseIdl, IoError, Step, Finish, FsSteps
<1>1. slot' = slot /\ \A q \in Requests : q # r => work'[q] = work[q]
  BY <1>0 DEF Job, Validate, RejectFiles, CheckReady, CopyToml, CopyLock,
     MarkReady, RemoveSrc, WriteFiles, WriteManifest, Compile, CopyOut,
     CompileError, CompileTimeout, ParseIdl, IoError, Step, Finish,
     handlerVars, BuildTypeOK
<1>2. /\ slot[r] \in Slots
      /\ \A q \in Requests : work[q] # "idle" => slot[q] \in Slots
  BY <1>0 DEF IndInv, JobInv
\* A file of a slot, once there, stays.
<1>3. /\ \A s \in Slots : slotFiles[s] \subseteq slotFiles'[s]
      /\ \A s \in Slots : manifest[s] # None => manifest'[s] # None
      /\ target # {} => target' # {}
  BY <1>0, BuildAssumption DEF Job, Validate, RejectFiles, CheckReady, CopyToml, CopyLock,
     MarkReady, RemoveSrc, WriteFiles, WriteManifest, Compile, CopyOut,
     CompileError, CompileTimeout, ParseIdl, IoError, Step, Finish,
     diskVars, BuildTypeOK
<1>4. ASSUME NEW q \in Requests, q # r
      PROVE  /\ work'[q] \in {"copyLock", "markReady"} => manifest'[slot[q]] # None
             /\ work'[q] = "markReady" => "Cargo.lock" \in slotFiles'[slot[q]]
             /\ work'[q] = "copyOut" => target' # {}
  BY <1>1, <1>2, <1>3, <1>4 DEF FilledInv
<1>5. /\ work'[r] \in {"copyLock", "markReady"} => manifest'[slot[r]] # None
      /\ work'[r] = "markReady" => "Cargo.lock" \in slotFiles'[slot[r]]
      /\ work'[r] = "copyOut" => target' # {}
  <2> USE <1>0, <1>2, BuildAssumption DEF BuildTypeOK, Step, Finish, FilledInv
  <2>1. CASE Validate(r) \/ RejectFiles(r) \/ CheckReady(r) \/ CompileError(r)
             \/ CompileTimeout(r) \/ ParseIdl(r) \/ IoError(r) \/ MarkReady(r)
             \/ RemoveSrc(r) \/ WriteFiles(r) \/ WriteManifest(r) \/ CopyOut(r)
    BY <2>1 DEF Validate, RejectFiles, CheckReady, CompileError, CompileTimeout,
       ParseIdl, IoError, MarkReady, RemoveSrc, WriteFiles, WriteManifest, CopyOut
  <2>2. CASE CopyToml(r)
    BY <2>2 DEF CopyToml
  <2>3. CASE CopyLock(r)
    BY <2>3 DEF CopyLock
  <2>4. CASE Compile(r)
    BY <2>4 DEF Compile
  <2> QED BY <2>1, <2>2, <2>3, <2>4 DEF Job
<1>6. ReadyMeansComplete'
  <2>1. CASE MarkReady(r)
    <3>1. /\ "Cargo.lock" \in slotFiles[slot[r]] /\ manifest[slot[r]] # None
          /\ UNCHANGED manifest
          /\ \A s \in Slots : s # slot[r] => slotFiles'[s] = slotFiles[s]
      BY <1>0, <2>1 DEF MarkReady, Step, FilledInv, BuildTypeOK
    <3> QED BY <1>3, <3>1 DEF FilledInv, ReadyMeansComplete
  <2>2. CASE ~ MarkReady(r)
    <3>1. \A s \in Slots : "ready" \in slotFiles'[s] => "ready" \in slotFiles[s]
      BY <1>0, <2>2 DEF Job, Validate, RejectFiles, CheckReady, CopyToml, CopyLock,
         RemoveSrc, WriteFiles, WriteManifest, Compile, CopyOut,
         CompileError, CompileTimeout, ParseIdl, IoError, diskVars, BuildTypeOK
    <3> QED BY <1>3, <3>1 DEF FilledInv, ReadyMeansComplete
  <2> QED BY <2>1, <2>2
<1> QED BY <1>1, <1>4, <1>5, <1>6 DEF FilledInv

\* Every step keeps what jobs left on disk.
LEMMA FilledStep ==
    ASSUME IndInv, FilledInv, [Next]_vars
    PROVE  FilledInv'
<1>1. CASE Restart
  BY <1>1 DEF Restart, KillProcess, diskVars, FilledInv, ReadyMeansComplete
<1>2. CASE Redeploy
  BY <1>2 DEF Redeploy, KillProcess, FilledInv, ReadyMeansComplete
<1>3. CASE UNCHANGED vars
  BY <1>3 DEF vars, handlerVars, jobVars, diskVars, FilledInv, ReadyMeansComplete
<1> QED
  BY <1>1, <1>2, <1>3, FilledHandler, FilledJob DEF Next, Quiescent

\* So it is there in every reachable state.
LEMMA FilledAlways == Spec => [](IndInv /\ FilledInv)
<1>1. Init => FilledInv
  BY DEF Init, EmptyDisk, FilledInv, ReadyMeansComplete
<1> QED BY <1>1, FilledStep, Inductive, PTL DEF Spec

\* program.rs:67-83: the marker of a slot's directory never stands over a half
\* filled one, however many builds run, fail, are abandoned or cut short.
THEOREM ReadyIsComplete == Spec => []ReadyMeansComplete
<1>1. FilledInv => ReadyMeansComplete
  BY DEF FilledInv
<1> QED BY <1>1, FilledAlways, PTL

\* program.rs:159-161: no build, failed, abandoned or of another learner, takes
\* away the binary of a program: only a new container empties the disk.
THEOREM BinaryStays == Spec => BinaryNeverLost
<1> DEFINE Kept == \A p \in Programs : binary[p] # {} => binary'[p] # {} \/ EmptyDisk'
<1>1. ASSUME IndInv, FilledInv, [Next]_vars PROVE Kept
  <2>0. BuildTypeOK
    BY <1>1 DEF IndInv
  <2>1. CASE Redeploy
    BY <2>1 DEF Redeploy, EmptyDisk
  <2>2. ASSUME NEW r \in Requests, CopyOut(r) PROVE Kept
    BY <1>1, <2>0, <2>2 DEF CopyOut, Step, FilledInv, BuildTypeOK
  <2>3. ASSUME NEW r \in Requests, Job(r), ~ CopyOut(r) PROVE UNCHANGED binary
    BY <2>3 DEF Job, Validate, RejectFiles, CheckReady, CopyToml, CopyLock,
       MarkReady, RemoveSrc, WriteFiles, WriteManifest, Compile, CompileError,
       CompileTimeout, ParseIdl, IoError, diskVars
  <2>4. ASSUME NEW r \in Requests,
               \/ \E p \in Programs : Arrive(r, p)
               \/ RejectUuid(r) \/ Disconnect(r) \/ Handler(r)
        PROVE  UNCHANGED binary
    <3>1. CASE FinishAcquire(r)
      BY <3>1 DEF FinishAcquire, TakeId, diskVars
    <3> QED BY <2>4, <3>1 DEF Arrive, RejectUuid, Disconnect, Handler, AcquireSem,
                              Join, FreeId, ReleaseSem, diskVars
  <2>5. CASE Restart \/ UNCHANGED vars
    BY <2>5 DEF Restart, vars, diskVars
  <2> QED BY <1>1, <2>1, <2>2, <2>3, <2>4, <2>5 DEF Next, Quiescent
<1>2. Spec => [][Kept]_vars
  BY <1>1, FilledAlways, PTL DEF Spec
<1> QED BY <1>2 DEF BinaryNeverLost
=============================================================================
