-------------------------- MODULE BuildServerProofs --------------------------
(* Proofs about BuildServer, for any number of requests, programs and        *)
(* concurrent builds.                                                        *)
EXTENDS BuildServer, FiniteSetTheorems, TLAPS

\* What PermitsAgree needs to be inductive: the admitted handlers are finitely
\* many, an owner's slot is a real one, and a handler that has not reached the
\* ids lock has none.
PermitInv ==
    /\ IsFiniteSet(Admitted)
    /\ PermitsAgree
    /\ \A r \in IdOwners : slot[r] \in Slots
    /\ \A r \in Requests : pc[r] \in {"new", "acquire", "takeId"} =>
                              slot[r] = None

\* A job works on a real program in a real slot.
JobInv ==
    /\ \A r \in Requests :
          pc[r] \in {"acquire", "takeId"} \/ work[r] # "idle" =>
              program[r] \in Programs
    /\ \A r \in Requests : work[r] # "idle" => slot[r] \in Slots
    /\ \A r \in Requests : pc[r] \in {"new", "acquire", "takeId"} =>
                              work[r] = "idle"

\* A job never returns the answer that only Permit::acquire gives.
JobReplies == \A r \in Requests : result[r].kind # "noId"

IndInv == BuildTypeOK /\ PermitInv /\ JobInv /\ IdAlwaysFound /\ JobReplies

\* Slots is a finite set of Concurrency elements.
LEMMA SlotsCard == IsFiniteSet(Slots) /\ Cardinality(Slots) = Concurrency
BY FS_Interval, BuildAssumption DEF Slots

\* Fewer owners than slots leave a slot that nobody owns.
LEMMA FreeSlot ==
    ASSUME NEW S, IsFiniteSet(S), NEW f, Cardinality(S) < Concurrency
    PROVE  \E s \in Slots : \A r \in S : f[r] # s
<1>1. SUFFICES ASSUME \A s \in Slots : \E r \in S : f[r] = s
               PROVE  FALSE
  OBVIOUS
<1> DEFINE g == [s \in Slots |-> CHOOSE r \in S : f[r] = s]
<1>2. \A s \in Slots : g[s] \in S /\ f[g[s]] = s
  BY <1>1
<1>3. g \in [Slots -> S]
  BY <1>2
<1> HIDE DEF g
<1>4. \E x, y \in Slots : x # y /\ g[x] = g[y]
  BY <1>3, SlotsCard, FS_PigeonHole
<1>5. QED
  BY <1>2, <1>4

\* A handler at the ids lock holds a permit that no id owner holds, so the
\* owners are fewer than the slots: one of the ids is free.
LEMMA IdFree ==
    ASSUME BuildTypeOK, PermitInv, NEW r \in Requests, pc[r] = "takeId"
    PROVE  \E s \in Slots : ~ ids[s]
<1>1. IdOwners \in SUBSET (Admitted \ {r}) /\ r \in Admitted
  BY DEF IdOwners, Admitted
<1>2. /\ IsFiniteSet(Admitted \ {r})
      /\ Cardinality(Admitted \ {r}) = Cardinality(Admitted) - 1
  BY <1>1, FS_RemoveElement DEF PermitInv
<1>3. /\ IsFiniteSet(IdOwners)
      /\ Cardinality(IdOwners) <= Cardinality(Admitted) - 1
  BY <1>1, <1>2, FS_Subset
<1>4. Cardinality(Admitted) \in Nat /\ Cardinality(IdOwners) \in Nat
  BY <1>3, FS_CardinalityType DEF PermitInv
<1>5. Cardinality(Admitted) <= Concurrency
  BY <1>4, BuildAssumption DEF PermitInv, PermitsAgree, BuildTypeOK
<1>6. Cardinality(IdOwners) < Concurrency
  BY <1>3, <1>4, <1>5, BuildAssumption
<1>7. PICK s \in Slots : \A q \in IdOwners : slot[q] # s
  BY <1>3, <1>6, FreeSlot
<1>8. QED
  BY <1>7 DEF PermitInv, PermitsAgree

\* Initially nobody is admitted and every permit is available.
LEMMA InitInd == Init => IndInv
<1> SUFFICES ASSUME Init PROVE IndInv
  OBVIOUS
<1> USE BuildAssumption
<1>1. BuildTypeOK
  BY DEF Init, EmptyDisk, BuildTypeOK, Stages, JobSteps, FsSteps, Replies,
         Kinds, Reply
<1>2. Admitted = {} /\ IdOwners = {}
  BY DEF Init, Admitted, IdOwners
<1>3. PermitInv
  BY <1>2, FS_EmptySet DEF Init, PermitInv, PermitsAgree, Slots
<1>4. JobInv
  BY DEF Init, JobInv
<1>5. IdAlwaysFound /\ JobReplies
  BY DEF Init, IdAlwaysFound, JobReplies, Reply
<1>6. QED
  BY <1>1, <1>3, <1>4, <1>5 DEF IndInv

\* Steps that move no handler across the permits keep the permit invariant.
LEMMA PermitsUntouched ==
    ASSUME BuildTypeOK, PermitInv, UNCHANGED <<pc, slot, sem, ids>>
    PROVE  PermitInv'
<1>1. Admitted' = Admitted /\ IdOwners' = IdOwners
  BY DEF Admitted, IdOwners
<1>2. QED
  BY <1>1 DEF PermitInv, PermitsAgree

\* A handler that is admitted uses up one permit.
LEMMA AdmitOne ==
    ASSUME NEW S, IsFiniteSet(S), NEW x, x \notin S, NEW n \in Nat, n > 0,
           n + Cardinality(S) = Concurrency
    PROVE  /\ IsFiniteSet(S \cup {x})
           /\ (n - 1) + Cardinality(S \cup {x}) = Concurrency
<1>1. /\ Cardinality(S) \in Nat
      /\ IsFiniteSet(S \cup {x})
      /\ Cardinality(S \cup {x}) = Cardinality(S) + 1
  BY FS_AddElement, FS_CardinalityType
<1>2. QED
  BY <1>1, BuildAssumption

\* A handler that leaves returns one, never more than there were.
LEMMA ReleaseOne ==
    ASSUME NEW S, IsFiniteSet(S), NEW x \in S, NEW n \in Nat,
           n + Cardinality(S) = Concurrency
    PROVE  /\ IsFiniteSet(S \ {x})
           /\ (n + 1) + Cardinality(S \ {x}) = Concurrency
           /\ n + 1 <= Concurrency
<1>1. Cardinality(S) \in Nat /\ Cardinality(S \ {x}) = Cardinality(S) - 1
      /\ IsFiniteSet(S \ {x})
  BY FS_RemoveElement, FS_CardinalityType
<1>2. Cardinality(S \ {x}) \in Nat
  BY <1>1, FS_CardinalityType
<1>3. QED
  BY <1>1, <1>2, BuildAssumption

\* One step of the handlers keeps the permit invariant.
LEMMA PermitStep ==
    ASSUME IndInv, Next
    PROVE  PermitInv'
<1> USE BuildAssumption DEF IndInv
<1>1. ASSUME NEW r \in Requests, NEW p \in Programs, Arrive(r, p)
      PROVE  PermitInv'
  <2>1. Admitted' = Admitted /\ IdOwners' = IdOwners
    BY <1>1 DEF Arrive, Admitted, IdOwners, BuildTypeOK, poolVars
  <2>2. QED
    BY <1>1, <2>1 DEF Arrive, PermitInv, PermitsAgree, poolVars, BuildTypeOK
<1>2. ASSUME NEW r \in Requests, RejectUuid(r)
      PROVE  PermitInv'
  <2>1. Admitted' = Admitted /\ IdOwners' = IdOwners
    BY <1>2 DEF RejectUuid, Admitted, IdOwners, BuildTypeOK, poolVars
  <2>2. QED
    BY <1>2, <2>1 DEF RejectUuid, PermitInv, PermitsAgree, poolVars,
                      BuildTypeOK
<1>3. ASSUME NEW r \in Requests, Disconnect(r)
      PROVE  PermitInv'
  <2>1. Admitted' = Admitted /\ IdOwners' = IdOwners
    BY <1>3 DEF Disconnect, Admitted, IdOwners, BuildTypeOK, poolVars
  <2>2. QED
    BY <1>3, <2>1 DEF Disconnect, PermitInv, PermitsAgree, poolVars,
                      BuildTypeOK
<1>4. ASSUME NEW r \in Requests, AcquireSem(r)
      PROVE  PermitInv'
  <2>1. Admitted' = Admitted \cup {r} /\ r \notin Admitted
        /\ IdOwners' = IdOwners
    BY <1>4 DEF AcquireSem, FirstWaiter, Admitted, IdOwners, BuildTypeOK
  <2>2. sem \in Nat /\ sem > 0 /\ sem' = sem - 1
    BY <1>4 DEF AcquireSem, BuildTypeOK
  <2>3. IsFiniteSet(Admitted') /\ sem' + Cardinality(Admitted') = Concurrency
    BY <2>1, <2>2, AdmitOne DEF PermitInv, PermitsAgree
  <2>4. QED
    BY <1>4, <2>1, <2>3 DEF AcquireSem, FirstWaiter, PermitInv, PermitsAgree,
                            BuildTypeOK
<1>5. ASSUME NEW r \in Requests, FinishAcquire(r)
      PROVE  PermitInv'
  <2>1. PICK s \in Slots : TakeId(r, s)
    BY <1>5, IdFree DEF FinishAcquire
  <2>2. Admitted' = Admitted /\ IdOwners' = IdOwners \cup {r}
        /\ r \notin IdOwners
    BY <2>1 DEF TakeId, Admitted, IdOwners, BuildTypeOK
  <2>3. slot'[r] = s /\ \A q \in IdOwners : slot'[q] = slot[q] /\ slot[q] # s
    BY <2>1, <2>2 DEF TakeId, PermitInv, PermitsAgree, BuildTypeOK, IdOwners
  <2>4. \A t \in Slots : ids'[t] <=> \E q \in IdOwners' : slot'[q] = t
    BY <2>1, <2>2, <2>3 DEF TakeId, PermitInv, PermitsAgree, BuildTypeOK
  <2>5. \A q, t \in IdOwners' : slot'[q] = slot'[t] => q = t
    BY <2>2, <2>3 DEF PermitInv, PermitsAgree
  <2>6. \A q \in IdOwners' : slot'[q] \in Slots
    BY <2>2, <2>3 DEF PermitInv
  <2>7. \A q \in Requests : pc'[q] \in {"new", "acquire", "takeId"} =>
                              slot'[q] = None
    BY <2>1 DEF TakeId, PermitInv, BuildTypeOK
  <2>8. IsFiniteSet(Admitted') /\ sem' + Cardinality(Admitted') = Concurrency
    BY <2>1, <2>2 DEF TakeId, PermitInv, PermitsAgree
  <2>9. QED
    BY <2>4, <2>5, <2>6, <2>7, <2>8 DEF PermitInv, PermitsAgree, Slots
<1>6. ASSUME NEW r \in Requests, Join(r)
      PROVE  PermitInv'
  <2>1. Admitted' = Admitted /\ IdOwners' = IdOwners
    BY <1>6 DEF Join, Admitted, IdOwners, BuildTypeOK, poolVars
  <2>2. QED
    BY <1>6, <2>1 DEF Join, PermitInv, PermitsAgree, poolVars, BuildTypeOK
<1>7. ASSUME NEW r \in Requests, FreeId(r)
      PROVE  PermitInv'
  <2>1. Admitted' = Admitted /\ IdOwners' = IdOwners \ {r}
        /\ r \in IdOwners
    BY <1>7 DEF FreeId, Admitted, IdOwners, BuildTypeOK
  <2>2. slot[r] \in Slots
    BY <2>1 DEF PermitInv
  <2>3. \A t \in Slots : ids'[t] <=> \E q \in IdOwners' : slot'[q] = t
    BY <1>7, <2>1, <2>2 DEF FreeId, PermitInv, PermitsAgree, BuildTypeOK
  <2>4. QED
    BY <1>7, <2>1, <2>3 DEF FreeId, PermitInv, PermitsAgree, BuildTypeOK, Slots
<1>8. ASSUME NEW r \in Requests, ReleaseSem(r)
      PROVE  PermitInv'
  <2>1. Admitted' = Admitted \ {r} /\ r \in Admitted /\ IdOwners' = IdOwners
    BY <1>8 DEF ReleaseSem, Admitted, IdOwners, BuildTypeOK
  <2>2. sem \in Nat /\ sem' = sem + 1
    BY <1>8 DEF ReleaseSem, BuildTypeOK
  <2>3. IsFiniteSet(Admitted') /\ sem' + Cardinality(Admitted') = Concurrency
    BY <2>1, <2>2, ReleaseOne DEF PermitInv, PermitsAgree
  <2>4. QED
    BY <1>8, <2>1, <2>3 DEF ReleaseSem, PermitInv, PermitsAgree, BuildTypeOK
<1>9. ASSUME NEW r \in Requests, Job(r)
      PROVE  PermitInv'
  <2>1. UNCHANGED <<pc, slot, sem, ids>>
    BY <1>9 DEF Job, Validate, RejectFiles, CheckReady, CopyToml, CopyLock,
        MarkReady, RemoveSrc, WriteFiles, WriteManifest, Compile, CopyOut,
        CompileError, CompileTimeout, ParseIdl, IoError, Step, Finish,
        handlerVars, poolVars
  <2>2. QED
    BY <2>1, PermitsUntouched
<1>10. ASSUME KillProcess
       PROVE  PermitInv'
  <2>1. Admitted' = {} /\ IdOwners' = {}
    BY <1>10 DEF KillProcess, Admitted, IdOwners
  <2>2. IsFiniteSet(Admitted') /\ sem' + Cardinality(Admitted') = Concurrency
    BY <1>10, <2>1, FS_EmptySet DEF KillProcess
  <2>3. QED
    BY <1>10, <2>1, <2>2 DEF KillProcess, PermitInv, PermitsAgree, Slots
<1>11. ASSUME Quiescent
       PROVE  PermitInv'
  BY <1>11, PermitsUntouched DEF Quiescent, vars, handlerVars, poolVars
<1>12. QED
  BY <1>1, <1>2, <1>3, <1>4, <1>5, <1>6, <1>7, <1>8, <1>9, <1>10, <1>11
     DEF Next, Handler, Restart, Redeploy

\* The stages, steps and answers that the actions name are well typed.
LEMMA Labels ==
    /\ {"new", "acquire", "takeId", "await", "freeId", "release", "done"}
          \subseteq Stages
    /\ FsSteps \subseteq JobSteps
    /\ {"idle", "validate", "compile", "copyOut", "idl", "finished",
        "ready?", "copyToml", "copyLock", "markReady", "remove", "write",
        "manifest"} \subseteq JobSteps
    /\ \A k \in Kinds : Reply(k) \in Replies
    /\ \A i \in SUBSET Requests : [kind |-> "ok", idl |-> i] \in Replies
    /\ {"invalidUuid", "noId", "error", "timeout", "compileError", "gone"}
          \subseteq Kinds
BY DEF Stages, JobSteps, FsSteps, Kinds, Replies, Reply

\* One step keeps the types, given that permits are accounted for.
LEMMA TypeStep ==
    ASSUME IndInv, Next
    PROVE  BuildTypeOK'
<1> USE BuildAssumption, Labels
<1>0. BuildTypeOK
  BY DEF IndInv
<1>1. ASSUME NEW r \in Requests, NEW p \in Programs, Arrive(r, p)
      PROVE  BuildTypeOK'
  BY <1>0, <1>1 DEF Arrive, BuildTypeOK, poolVars, jobVars, diskVars
<1>2. ASSUME NEW r \in Requests, RejectUuid(r)
      PROVE  BuildTypeOK'
  BY <1>0, <1>2 DEF RejectUuid, BuildTypeOK, poolVars, jobVars, diskVars
<1>3. ASSUME NEW r \in Requests, Disconnect(r)
      PROVE  BuildTypeOK'
  BY <1>0, <1>3 DEF Disconnect, BuildTypeOK, poolVars, jobVars, diskVars
<1>4. ASSUME NEW r \in Requests, AcquireSem(r)
      PROVE  BuildTypeOK'
  BY <1>0, <1>4 DEF AcquireSem, BuildTypeOK, jobVars, diskVars
<1>5. ASSUME NEW r \in Requests, FinishAcquire(r)
      PROVE  BuildTypeOK'
  <2>1. PICK s \in Slots : TakeId(r, s)
    BY <1>5, IdFree DEF FinishAcquire, IndInv
  <2>2. QED
    BY <1>0, <2>1 DEF TakeId, BuildTypeOK, diskVars
<1>6. ASSUME NEW r \in Requests, Join(r)
      PROVE  BuildTypeOK'
  BY <1>0, <1>6 DEF Join, BuildTypeOK, poolVars, jobVars, diskVars
<1>7. ASSUME NEW r \in Requests, FreeId(r)
      PROVE  BuildTypeOK'
  BY <1>0, <1>7 DEF FreeId, BuildTypeOK, jobVars, diskVars
<1>8. ASSUME NEW r \in Requests, ReleaseSem(r)
      PROVE  BuildTypeOK'
  <2>1. r \in Admitted
    BY <1>8 DEF ReleaseSem, Admitted
  <2>2. sem \in Nat
    BY <1>0 DEF BuildTypeOK
  <2>3. sem + 1 <= Concurrency
    BY <2>1, <2>2, ReleaseOne DEF IndInv, PermitInv, PermitsAgree
  <2>4. QED
    BY <1>0, <1>8, <2>2, <2>3 DEF ReleaseSem, BuildTypeOK, jobVars, diskVars
<1>9. ASSUME NEW r \in Requests, Job(r)
      PROVE  BuildTypeOK'
  <2> USE <1>0 DEF BuildTypeOK, Step, Finish, handlerVars, poolVars, diskVars
  <2>1. CASE Validate(r)
    BY <2>1 DEF Validate
  <2>2. CASE RejectFiles(r)
    BY <2>2 DEF RejectFiles
  <2>3. CASE CheckReady(r)
    BY <2>3 DEF CheckReady
  <2>4. CASE CopyToml(r)
    BY <2>4 DEF CopyToml
  <2>5. CASE CopyLock(r)
    BY <2>5 DEF CopyLock
  <2>6. CASE MarkReady(r)
    BY <2>6 DEF MarkReady
  <2>7. CASE RemoveSrc(r)
    BY <2>7 DEF RemoveSrc
  <2>8. CASE WriteFiles(r)
    <3>1. PICK kept \in {{}, src[program[r]]} :
             src' = [src EXCEPT ![program[r]] = kept \cup {r}]
      BY <2>8 DEF WriteFiles
    <3>2. src' \in [Programs -> SUBSET Requests]
      BY <3>1
    <3>3. QED
      BY <2>8, <3>2 DEF WriteFiles
  <2>9. CASE WriteManifest(r)
    <3>1. program[r] \in Programs
      BY <2>9 DEF WriteManifest, IndInv, JobInv
    <3>2. QED
      BY <2>9, <3>1 DEF WriteManifest
  <2>10. CASE Compile(r)
    BY <2>10 DEF Compile
  <2>11. CASE CopyOut(r)
    BY <2>11 DEF CopyOut
  <2>12. CASE CompileError(r)
    BY <2>12 DEF CompileError
  <2>13. CASE CompileTimeout(r)
    BY <2>13 DEF CompileTimeout
  <2>14. CASE ParseIdl(r)
    <3>1. program[r] \in Programs
      BY <2>14 DEF ParseIdl, IndInv, JobInv
    <3>2. QED
      BY <2>14, <3>1 DEF ParseIdl
  <2>15. CASE IoError(r)
    BY <2>15 DEF IoError
  <2>16. QED
    BY <1>9, <2>1, <2>2, <2>3, <2>4, <2>5, <2>6, <2>7, <2>8, <2>9, <2>10,
       <2>11, <2>12, <2>13, <2>14, <2>15 DEF Job
<1>10. ASSUME KillProcess
       PROVE  UNCHANGED diskVars => BuildTypeOK'
  BY <1>0, <1>10 DEF KillProcess, BuildTypeOK, diskVars
<1>11. ASSUME Redeploy
       PROVE  BuildTypeOK'
  BY <1>0, <1>11 DEF Redeploy, KillProcess, BuildTypeOK
<1>12. ASSUME Quiescent
       PROVE  BuildTypeOK'
  BY <1>0, <1>12 DEF Quiescent, vars, handlerVars, poolVars, jobVars, diskVars,
                     BuildTypeOK
<1>13. QED
  BY <1>1, <1>2, <1>3, <1>4, <1>5, <1>6, <1>7, <1>8, <1>9, <1>10, <1>11,
     <1>12 DEF Next, Handler, Restart

\* One step keeps every job attached to a program and a slot.
LEMMA JobStep ==
    ASSUME IndInv, Next
    PROVE  JobInv'
<1> USE BuildAssumption DEF IndInv
<1>1. ASSUME NEW r \in Requests, NEW p \in Programs, Arrive(r, p)
      PROVE  JobInv'
  BY <1>1 DEF Arrive, JobInv, BuildTypeOK, jobVars
<1>2. ASSUME NEW r \in Requests,
             RejectUuid(r) \/ Disconnect(r) \/ Join(r) \/ AcquireSem(r)
             \/ FreeId(r) \/ ReleaseSem(r)
      PROVE  JobInv'
  BY <1>2 DEF RejectUuid, Disconnect, Join, AcquireSem, FirstWaiter, FreeId,
              ReleaseSem, JobInv, BuildTypeOK, jobVars
<1>3. ASSUME NEW r \in Requests, FinishAcquire(r)
      PROVE  JobInv'
  <2>1. PICK s \in Slots : TakeId(r, s)
    BY <1>3, IdFree DEF FinishAcquire
  <2>2. QED
    BY <2>1 DEF TakeId, JobInv, BuildTypeOK
<1>4. ASSUME NEW r \in Requests, Job(r)
      PROVE  JobInv'
  <2>1. work[r] # "idle"
    BY <1>4 DEF Job, Validate, RejectFiles, CheckReady, CopyToml, CopyLock,
        MarkReady, RemoveSrc, WriteFiles, WriteManifest, Compile, CopyOut,
        CompileError, CompileTimeout, ParseIdl, IoError, Step, Finish, FsSteps
  <2>2. /\ UNCHANGED <<pc, program, slot>>
        /\ \A q \in Requests : q # r => work'[q] = work[q]
    BY <1>4 DEF Job, Validate, RejectFiles, CheckReady, CopyToml, CopyLock,
        MarkReady, RemoveSrc, WriteFiles, WriteManifest, Compile, CopyOut,
        CompileError, CompileTimeout, ParseIdl, IoError, Step, Finish,
        handlerVars, BuildTypeOK
  <2>3. QED
    BY <2>1, <2>2 DEF JobInv
<1>5. ASSUME KillProcess
      PROVE  JobInv'
  BY <1>5 DEF KillProcess, JobInv, BuildTypeOK
<1>6. ASSUME Quiescent
      PROVE  JobInv'
  BY <1>6 DEF Quiescent, vars, handlerVars, jobVars, JobInv
<1>7. QED
  BY <1>1, <1>2, <1>3, <1>4, <1>5, <1>6 DEF Next, Handler, Restart, Redeploy

\* No step produces the "Failed to find concurrency id" answer.
LEMMA FoundStep ==
    ASSUME IndInv, Next
    PROVE  IdAlwaysFound' /\ JobReplies'
<1> USE DEF IndInv, IdAlwaysFound, JobReplies
<1>1. ASSUME NEW r \in Requests, NEW p \in Programs, Arrive(r, p)
      PROVE  IdAlwaysFound' /\ JobReplies'
  BY <1>1 DEF Arrive, jobVars
<1>2. ASSUME NEW r \in Requests,
             RejectUuid(r) \/ Disconnect(r) \/ Join(r) \/ AcquireSem(r)
             \/ FreeId(r) \/ ReleaseSem(r)
      PROVE  IdAlwaysFound' /\ JobReplies'
  BY <1>2 DEF RejectUuid, Disconnect, Join, AcquireSem, FreeId, ReleaseSem,
              BuildTypeOK, jobVars, Reply
<1>3. ASSUME NEW r \in Requests, FinishAcquire(r)
      PROVE  IdAlwaysFound' /\ JobReplies'
  <2>1. PICK s \in Slots : TakeId(r, s)
    BY <1>3, IdFree DEF FinishAcquire
  <2>2. QED
    BY <2>1 DEF TakeId
<1>4. ASSUME NEW r \in Requests, Job(r)
      PROVE  IdAlwaysFound' /\ JobReplies'
  <2>1. UNCHANGED response
    BY <1>4 DEF Job, Validate, RejectFiles, CheckReady, CopyToml, CopyLock,
        MarkReady, RemoveSrc, WriteFiles, WriteManifest, Compile, CopyOut,
        CompileError, CompileTimeout, ParseIdl, IoError, Step, Finish,
        handlerVars
  <2>2. \/ UNCHANGED result
        \/ \E v : v.kind # "noId" /\ result' = [result EXCEPT ![r] = v]
    BY <1>4 DEF Job, Validate, RejectFiles, CheckReady, CopyToml, CopyLock,
        MarkReady, RemoveSrc, WriteFiles, WriteManifest, Compile, CopyOut,
        CompileError, CompileTimeout, ParseIdl, IoError, Step, Finish, Reply
  <2>3. QED
    BY <2>1, <2>2 DEF BuildTypeOK
<1>5. ASSUME KillProcess
      PROVE  IdAlwaysFound' /\ JobReplies'
  BY <1>5 DEF KillProcess, Reply
<1>6. ASSUME Quiescent
      PROVE  IdAlwaysFound' /\ JobReplies'
  BY <1>6 DEF Quiescent, vars, handlerVars, jobVars
<1>7. QED
  BY <1>1, <1>2, <1>3, <1>4, <1>5, <1>6 DEF Next, Handler, Restart, Redeploy

\* The inductive invariant is kept by every step, stuttering included.
LEMMA StepInd == IndInv /\ [Next]_vars => IndInv'
<1>1. ASSUME IndInv, Next PROVE IndInv'
  BY <1>1, TypeStep, PermitStep, JobStep, FoundStep DEF IndInv
<1>2. ASSUME IndInv, UNCHANGED vars PROVE IndInv'
  BY <1>2 DEF vars, handlerVars, poolVars, jobVars, diskVars, IndInv,
     BuildTypeOK, PermitInv, PermitsAgree, JobInv, IdAlwaysFound, JobReplies,
     Admitted, IdOwners
<1>3. QED
  BY <1>1, <1>2

\* The inductive invariant holds in every behaviour of the build server.
THEOREM Inductive == Spec => []IndInv
BY InitInd, StepInd, PTL DEF Spec

\* build.rs, program.rs: every variable keeps its type; in particular the
\* semaphore never holds more permits than PG_BUILD_CONCURRENCY.
THEOREM TypeCorrect == Spec => []BuildTypeOK
<1>1. IndInv => BuildTypeOK
  BY DEF IndInv
<1>2. QED
  BY <1>1, Inductive, PTL

\* build.rs:120-179: the semaphore and the id vector agree in every state, for
\* any concurrency and any number of requests.
THEOREM PermitsCorrect == Spec => []PermitsAgree
<1>1. IndInv => PermitsAgree
  BY DEF IndInv, PermitInv
<1>2. QED
  BY <1>1, Inductive, PTL

\* build.rs:155: no request is ever answered "Failed to find concurrency id".
THEOREM IdFoundCorrect == Spec => []IdAlwaysFound
<1>1. IndInv => IdAlwaysFound
  BY DEF IndInv
<1>2. QED
  BY <1>1, Inductive, PTL

-----------------------------------------------------------------------------
(* The permits implement the slot pool *)

\* A slot with a single owner is mapped to that owner.
LEMMA UniqueOwner ==
    ASSUME NEW S, NEW f, NEW s, NEW r \in S, f[r] = s,
           \A q \in S : f[q] = s => q = r
    PROVE  (CHOOSE q \in S : f[q] = s) = r
OBVIOUS

Served == {r \in Requests : slot[r] # None}

\* The mapped owner is a function on the slots, before and after a step.
LEMMA OwnerFunction ==
    /\ Owner = [s \in Slots |-> Owner[s]]
    /\ Owner' = [s \in Slots |-> Owner'[s]]
BY DEF Owner

\* Steps that neither take nor free an id leave the abstract pool alone.
LEMMA PoolUntouched ==
    ASSUME UNCHANGED <<ids, slot>>, IdOwners' = IdOwners
    PROVE  Owner' = Owner /\ Served' = Served
BY DEF Owner, Served

\* Taking the lowest free id grants the slot to a request served for the first
\* time.
LEMMA TakeIdGrants ==
    ASSUME IndInv, NEW r \in Requests, NEW s \in Slots, TakeId(r, s)
    PROVE  /\ Owner[s] = None
           /\ r \notin Served
           /\ Owner' = [Owner EXCEPT ![s] = r]
           /\ Served' = Served \cup {r}
<1> USE BuildAssumption DEF IndInv
<1>1. IdOwners' = IdOwners \cup {r} /\ r \notin IdOwners
  BY DEF TakeId, IdOwners, BuildTypeOK
<1>2. slot' = [slot EXCEPT ![r] = s] /\ ids' = [ids EXCEPT ![s] = TRUE]
      /\ ~ ids[s] /\ slot[r] = None
  BY DEF TakeId, PermitInv
<1>3. Owner[s] = None
  BY <1>2 DEF Owner
<1>4. s # None
  BY DEF Slots
<1>5. r \notin Served /\ Served' = Served \cup {r}
  BY <1>2, <1>4 DEF Served, BuildTypeOK
<1>6. \A q \in IdOwners : slot'[q] = slot[q] /\ slot[q] # s
  BY <1>1, <1>2 DEF PermitInv, PermitsAgree, BuildTypeOK, IdOwners
<1>7. slot'[r] = s
  BY <1>2 DEF BuildTypeOK
<1>8. (CHOOSE q \in IdOwners' : slot'[q] = s) = r
  BY <1>1, <1>6, <1>7, UniqueOwner
<1>9. ASSUME NEW t \in Slots, t # s, ids[t]
      PROVE  (CHOOSE q \in IdOwners' : slot'[q] = t)
                = (CHOOSE q \in IdOwners : slot[q] = t)
  <2>1. PICK q \in IdOwners : slot[q] = t
    BY <1>9 DEF PermitInv, PermitsAgree
  <2>2. (CHOOSE x \in IdOwners : slot[x] = t) = q
    BY <2>1, UniqueOwner DEF PermitInv, PermitsAgree
  <2>3. q \in IdOwners' /\ slot'[q] = t
        /\ \A x \in IdOwners' : slot'[x] = t => x = q
    BY <1>1, <1>6, <1>7, <1>9, <2>1 DEF PermitInv, PermitsAgree
  <2>4. (CHOOSE x \in IdOwners' : slot'[x] = t) = q
    BY <2>3, UniqueOwner
  <2>5. QED
    BY <2>2, <2>4
<1>10. ASSUME NEW t \in Slots
       PROVE  Owner'[t] = IF t = s THEN r ELSE Owner[t]
  <2>1. CASE t = s
    BY <1>2, <1>8, <2>1 DEF Owner, BuildTypeOK
  <2>2. CASE t # s /\ ids[t]
    <3>1. ids'[t]
      BY <1>2, <2>2 DEF BuildTypeOK
    <3>2. Owner'[t] = (CHOOSE q \in IdOwners' : slot'[q] = t)
      BY <3>1 DEF Owner
    <3>3. Owner[t] = (CHOOSE q \in IdOwners : slot[q] = t)
      BY <2>2 DEF Owner
    <3>4. QED
      BY <1>9, <2>2, <3>2, <3>3
  <2>3. CASE t # s /\ ~ ids[t]
    BY <1>2, <2>3 DEF Owner, BuildTypeOK
  <2>4. QED
    BY <2>1, <2>2, <2>3
<1>11. Owner' = [Owner EXCEPT ![s] = r]
  BY <1>10, OwnerFunction
<1>12. QED
  BY <1>3, <1>5, <1>11

\* Dropping the permit returns the slot its handler owned, and no other.
LEMMA FreeIdReturns ==
    ASSUME IndInv, NEW r \in Requests, FreeId(r)
    PROVE  /\ slot[r] \in Slots
           /\ Owner[slot[r]] # None
           /\ Owner' = [Owner EXCEPT ![slot[r]] = None]
           /\ Served' = Served
<1> USE BuildAssumption DEF IndInv
<1>1. IdOwners' = IdOwners \ {r} /\ r \in IdOwners
  BY DEF FreeId, IdOwners, BuildTypeOK
<1>2. slot' = slot /\ ids' = [ids EXCEPT ![slot[r]] = FALSE]
      /\ slot[r] \in Slots /\ ids[slot[r]]
  BY <1>1 DEF FreeId, PermitInv, PermitsAgree
<1>3. (CHOOSE q \in IdOwners : slot[q] = slot[r]) = r
  BY <1>1, UniqueOwner DEF PermitInv, PermitsAgree
<1>4. Owner[slot[r]] = r
  BY <1>2, <1>3 DEF Owner
<1>5. ASSUME NEW t \in Slots, t # slot[r], ids[t]
      PROVE  (CHOOSE q \in IdOwners' : slot'[q] = t)
                = (CHOOSE q \in IdOwners : slot[q] = t)
  <2>1. PICK q \in IdOwners : slot[q] = t
    BY <1>5 DEF PermitInv, PermitsAgree
  <2>2. (CHOOSE x \in IdOwners : slot[x] = t) = q
    BY <2>1, UniqueOwner DEF PermitInv, PermitsAgree
  <2>3. q \in IdOwners' /\ slot'[q] = t
        /\ \A x \in IdOwners' : slot'[x] = t => x = q
    BY <1>1, <1>2, <1>5, <2>1 DEF PermitInv, PermitsAgree
  <2>4. (CHOOSE x \in IdOwners' : slot'[x] = t) = q
    BY <2>3, UniqueOwner
  <2>5. QED
    BY <2>2, <2>4
<1>6. ASSUME NEW t \in Slots
      PROVE  Owner'[t] = IF t = slot[r] THEN None ELSE Owner[t]
  <2>1. CASE t = slot[r]
    BY <1>2, <2>1 DEF Owner, BuildTypeOK
  <2>2. CASE t # slot[r] /\ ids[t]
    <3>1. ids'[t]
      BY <1>2, <2>2 DEF BuildTypeOK
    <3>2. Owner'[t] = (CHOOSE q \in IdOwners' : slot'[q] = t)
      BY <3>1 DEF Owner
    <3>3. Owner[t] = (CHOOSE q \in IdOwners : slot[q] = t)
      BY <2>2 DEF Owner
    <3>4. QED
      BY <1>5, <2>2, <3>2, <3>3
  <2>3. CASE t # slot[r] /\ ~ ids[t]
    BY <1>2, <2>3 DEF Owner, BuildTypeOK
  <2>4. QED
    BY <2>1, <2>2, <2>3
<1>7. Owner' = [Owner EXCEPT ![slot[r]] = None]
  BY <1>6, OwnerFunction
<1>8. QED
  BY <1>2, <1>4, <1>7 DEF Served

\* build.rs:120-179: for every concurrency and every set of requests, the
\* permits implement the slot pool: a slot is granted only while free, to a
\* request that never had one, and is returned only by dropping its permit or
\* by a restart of the server.
THEOREM PoolRefinement == Spec => ImplementsSlotPool
<1> USE BuildAssumption
<1>1. Init => Pool!Init
  BY DEF Init, Pool!Init, Owner
<1>2. IndInv /\ [Next]_vars => [Pool!Next]_<<Owner, Served>>
  <2> SUFFICES ASSUME IndInv, [Next]_vars
               PROVE  [Pool!Next]_<<Owner, Served>>
    OBVIOUS
  <2>0. BuildTypeOK
    BY DEF IndInv
  <2>1. ASSUME NEW r \in Requests, NEW p \in Programs, Arrive(r, p)
        PROVE  Owner' = Owner /\ Served' = Served
    <3>1. IdOwners' = IdOwners
      BY <2>0, <2>1 DEF Arrive, IdOwners, BuildTypeOK
    <3>2. QED
      BY <2>1, <3>1, PoolUntouched DEF Arrive, poolVars
  <2>2. ASSUME NEW r \in Requests,
               RejectUuid(r) \/ Disconnect(r) \/ Join(r) \/ AcquireSem(r)
               \/ ReleaseSem(r)
        PROVE  Owner' = Owner /\ Served' = Served
    <3>1. IdOwners' = IdOwners
      BY <2>0, <2>2 DEF RejectUuid, Disconnect, Join, AcquireSem, FirstWaiter,
                        ReleaseSem, IdOwners, BuildTypeOK
    <3>2. QED
      BY <2>2, <3>1, PoolUntouched
         DEF RejectUuid, Disconnect, Join, AcquireSem, ReleaseSem, poolVars
  <2>3. ASSUME NEW r \in Requests, FinishAcquire(r)
        PROVE  Pool!Next
    <3>1. PICK s \in Slots : TakeId(r, s)
      BY <2>3, IdFree DEF FinishAcquire, IndInv
    <3>2. Pool!Grant(r, s)
      BY <3>1, TakeIdGrants DEF Pool!Grant, Served
    <3>3. QED
      BY <3>2 DEF Pool!Next
  <2>4. ASSUME NEW r \in Requests, FreeId(r)
        PROVE  Pool!Next
    <3>1. slot[r] \in Slots /\ Pool!Return(slot[r])
      BY <2>4, FreeIdReturns DEF Pool!Return, Served
    <3>2. QED
      BY <3>1 DEF Pool!Next
  <2>5. ASSUME NEW r \in Requests, Job(r)
        PROVE  Owner' = Owner /\ Served' = Served
    <3>1. UNCHANGED <<pc, slot, ids>>
      BY <2>5 DEF Job, Validate, RejectFiles, CheckReady, CopyToml, CopyLock,
          MarkReady, RemoveSrc, WriteFiles, WriteManifest, Compile, CopyOut,
          CompileError, CompileTimeout, ParseIdl, IoError, Step, Finish,
          handlerVars, poolVars
    <3>2. QED
      BY <3>1, PoolUntouched DEF IdOwners
  <2>6. ASSUME KillProcess
        PROVE  Pool!Next
    <3>1. Pool!Reset
      BY <2>6 DEF KillProcess, Pool!Reset, Owner
    <3>2. QED
      BY <3>1 DEF Pool!Next
  <2>7. ASSUME UNCHANGED vars
        PROVE  Owner' = Owner /\ Served' = Served
    BY <2>7, PoolUntouched DEF vars, handlerVars, poolVars, IdOwners
  <2>8. QED
    BY <2>1, <2>2, <2>3, <2>4, <2>5, <2>6, <2>7
       DEF Next, Handler, Restart, Redeploy, Quiescent
<1>3. QED
  BY <1>1, <1>2, Inductive, PTL DEF Spec, ImplementsSlotPool, Pool!Spec, Served
=============================================================================
