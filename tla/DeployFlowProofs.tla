-------------------------- MODULE DeployFlowProofs --------------------------
(* Theorems about DeployFlow, for every number of chunks, retries and        *)
(* workers: a binary is complete when it is deployed, and the command keeps  *)
(* the promise of Deployment.                                                *)
EXTENDS DeployFlow, TLAPS

-----------------------------------------------------------------------------
(* Types *)

\* The Booleans among the types, and the other types, which need different
\* provers.
Flags ==
    /\ standard \in BOOLEAN /\ extends \in BOOLEAN
    /\ aborted \in BOOLEAN /\ resumed \in BOOLEAN /\ limited \in BOOLEAN

Rest ==
    /\ deployState \in {"ready", "loading", "paused", "cancelled"}
    /\ outcome \in {"none", "success", "failed", "cancelled"}
    /\ step \in Steps
    /\ phase \in {"send", "confirm"} /\ tries \in 0 .. MAX_RETRIES - 1
    /\ fate \in {"none", "pending", "lost", "ok", "failed"}
    /\ at \in Listening \cup {"off", "opening", "hung"}
    /\ todo \subseteq Chunks /\ sending \subseteq Chunks /\ stray \subseteq Chunks
    /\ prompt \in {"none", "continue", "yes", "close"}
    /\ pending \in [TxSteps -> Nat] /\ writes \subseteq Chunks
    /\ landed \subseteq {"transfer", "extend"}
    /\ buffer \in {"none", "payer", "wallet"} /\ chunks \subseteq Chunks
    /\ program \in {"old", "new"}

\* Initially nothing runs and nothing is on the chain (Init).
LEMMA TypeInit == Init => DeployTypeOK
<1>1. Init => Flags
  BY Zenon DEF Init, Flags
<1>2. Init => Rest
  BY DeployAssumption, SMT DEF Init, Rest, TxSteps, Steps, Listening
<1> QED
  BY <1>1, <1>2 DEF DeployTypeOK, Flags, Rest

\* A step of client, learner or network keeps the types (the whole module).
LEMMA TypeStep == DeployTypeOK /\ [Next]_vars => DeployTypeOK'
<1> SUFFICES ASSUME DeployTypeOK, [Next]_vars
             PROVE  DeployTypeOK'
  OBVIOUS
<1> USE DeployAssumption DEF TxSteps, Steps, Listening
<1>1. CASE Start
  BY <1>1 DEF Start, DeployTypeOK, vars, command, retries, loader, account
<1>2. CASE Toggle
  <2>1. Flags'
    BY <1>2, Zenon DEF Toggle, Flags, DeployTypeOK, vars, command, retries,
       loader, account
  <2>2. Rest'
    BY <1>2, SMT DEF Toggle, Rest, DeployTypeOK, vars, command, retries,
       loader, account
  <2> QED
    BY <2>1, <2>2 DEF DeployTypeOK, Flags, Rest
<1>3. CASE Cancel
  <2>1. Flags'
    BY <1>3, Zenon DEF Cancel, Replace, Flags, DeployTypeOK, vars, command,
       retries, loader, account
  <2>2. Rest'
    BY <1>3, SMT DEF Cancel, Replace, Rest, DeployTypeOK, vars, command,
       retries, loader, account
  <2> QED
    BY <2>1, <2>2 DEF DeployTypeOK, Flags, Rest
<1>4. CASE Resume
  <2>1. Flags'
    BY <1>4, Zenon DEF Resume, Replace, Flags, DeployTypeOK, vars, command,
       retries, loader, account
  <2>2. Rest'
    BY <1>4, SMT DEF Resume, Replace, Rest, DeployTypeOK, vars, command,
       retries, loader, account
  <2> QED
    BY <2>1, <2>2 DEF DeployTypeOK, Flags, Rest
<1>5. CASE PrepareThrows
  BY <1>5 DEF PrepareThrows, Throw, End, DeployTypeOK, vars, command, retries,
     loader, account
<1>6. CASE SendTx
  BY <1>6 DEF SendTx, Broadcast, DeployTypeOK, vars, command, retries, loader,
     account
<1>7. CASE SendThrows
  BY <1>7 DEF SendThrows, Broadcast, Retry, Throw, End, DeployTypeOK, vars,
     command, retries, loader, account
<1>8. CASE Confirm
  BY <1>8 DEF Confirm, CheckConfirmation, Advance, Begin, Throw, End,
     DeployTypeOK, vars, command, retries, loader, account
<1>9. CASE NotConfirmed
  BY <1>9 DEF NotConfirmed, Retry, Throw, End, DeployTypeOK, vars, command,
     retries, loader, account
<1>10. CASE Open
  BY <1>10 DEF Open, DeployTypeOK, vars, command, retries, loader, account
<1>11. CASE Simulate
  BY <1>11 DEF Simulate, DeployTypeOK, vars, command, retries, loader, account
<1>12. CASE SimulateThrows
  BY <1>12 DEF SimulateThrows, DeployTypeOK, vars, command, retries, loader,
     account
<1>13. CASE Stop
  BY <1>13 DEF Stop, DeployTypeOK, vars, command, retries, loader, account
<1>14. CASE ReadBuffer
  BY <1>14 DEF ReadBuffer, DeployTypeOK, vars, command, retries, loader,
     account
<1>15. CASE Missing
  BY <1>15 DEF Missing, DeployTypeOK, vars, command, retries, loader, account
<1>16. CASE Loaded
  BY <1>16 DEF Loaded, Begin, DeployTypeOK, vars, command, retries, loader,
     account
<1>17. CASE Settle
  <2>1. Flags'
    BY <1>17, Zenon DEF Settle, Flags, DeployTypeOK, vars, command, retries,
       loader, account
  <2>2. Rest'
    BY <1>17, SMT DEF Settle, Rest, DeployTypeOK, vars, command, retries,
       loader, account
  <2> QED
    BY <2>1, <2>2 DEF DeployTypeOK, Flags, Rest
<1>18. ASSUME NEW yes \in BOOLEAN, AnswerClose(yes)
       PROVE  DeployTypeOK'
  BY <1>18 DEF AnswerClose, Begin, DeployTypeOK, vars, command, retries,
     loader, account
<1>19. ASSUME NEW c \in Chunks, SendChunk(c)
       PROVE  DeployTypeOK'
  BY <1>19 DEF SendChunk, DeployTypeOK, vars, command, retries, loader,
     account
<1>20. ASSUME NEW c \in Chunks, ChunkSent(c)
       PROVE  DeployTypeOK'
  BY <1>20 DEF ChunkSent, DeployTypeOK, vars, command, retries, loader,
     account
<1>21. ASSUME NEW c \in Chunks, ChunkRefused(c)
       PROVE  DeployTypeOK'
  <2>1. Flags'
    BY <1>21, Zenon DEF ChunkRefused, Flags, DeployTypeOK, vars, command,
       retries, loader, account
  <2>2. Rest'
    BY <1>21, SMT DEF ChunkRefused, Rest, DeployTypeOK, vars, command,
       retries, loader, account
  <2> QED
    BY <2>1, <2>2 DEF DeployTypeOK, Flags, Rest
<1>22. ASSUME NEW c \in Chunks, StrayEnds(c)
       PROVE  DeployTypeOK'
  BY <1>22 DEF StrayEnds, DeployTypeOK, vars, command, retries, loader,
     account
<1>23. ASSUME NEW c \in Chunks, LandChunk(c)
       PROVE  DeployTypeOK'
  BY <1>23 DEF LandChunk, DeployTypeOK, vars, command, retries, loader,
     account
<1>24. ASSUME NEW c \in Chunks, DropChunk(c)
       PROVE  DeployTypeOK'
  BY <1>24 DEF DropChunk, DeployTypeOK, vars, command, retries, loader,
     account
<1>25. ASSUME NEW s \in TxSteps, LandTx(s)
       PROVE  DeployTypeOK'
  BY <1>25 DEF LandTx, Execute, Settles, Valid, DeployTypeOK, vars, command,
     retries, loader, account
<1>26. ASSUME NEW s \in TxSteps, DropTx(s)
       PROVE  DeployTypeOK'
  BY <1>26 DEF DropTx, Settles, DeployTypeOK, vars, command, retries, loader,
     account
<1>27. ASSUME NEW std \in BOOLEAN, NEW ext \in BOOLEAN, Prepare(std, ext)
       PROVE  DeployTypeOK'
  BY <1>27 DEF Prepare, Begin, DeployTypeOK, vars, command, retries, loader,
     account
<1>28. CASE UNCHANGED vars
  BY <1>28 DEF DeployTypeOK, vars, command, retries, loader, account
<1> QED
  BY <1>1, <1>2, <1>3, <1>4, <1>5, <1>6, <1>7, <1>8, <1>9, <1>10, <1>11,
     <1>12, <1>13, <1>14, <1>15, <1>16, <1>17, <1>18, <1>19, <1>20, <1>21,
     <1>22, <1>23, <1>24, <1>25, <1>26, <1>27, <1>28 DEF Next, Learner,
     Transact, Load, Network

\* Types hold for ever: an attempt is never counted past MAX_RETRIES
\* (sendAndConfirmTxWithRetries).
THEOREM DeployTyped == Spec => []DeployTypeOK
<1> QED
  BY TypeInit, TypeStep, PTL DEF Spec

-----------------------------------------------------------------------------
(* Control *)

\* What deployState, the loader and the open question tell of processDeploy.
ControlInv ==
    /\ deployState = "ready" <=> step \in {"idle", "over"}
    /\ deployState = "cancelled" <=> step \in {"cancel", "close"}
    /\ outcome = "none" <=> step # "over"
    /\ at = "off" <=> step # "load"
    /\ aborted <=> prompt \in {"continue", "yes"}
    /\ aborted => at \in Listening
    /\ prompt = "close" => step = "cancel"

\* Initially the command has not begun (Init).
LEMMA ControlInit == Init => ControlInv
<1> QED
  BY DEF Init, ControlInv, Listening

\* Only the loader that listens is stopped, and only processDeploy goes on
\* from one state of the command to the next (deploy.ts).
LEMMA ControlStep == DeployTypeOK /\ ControlInv /\ [Next]_vars => ControlInv'
<1> SUFFICES ASSUME DeployTypeOK, ControlInv, [Next]_vars
             PROVE  ControlInv'
  OBVIOUS
<1> USE DEF TxSteps, Steps, Listening
<1>1. CASE Start
  BY <1>1 DEF Start, ControlInv, DeployTypeOK, vars, command, retries, loader,
     account
<1>2. CASE Toggle
  BY <1>2 DEF Toggle, ControlInv, DeployTypeOK, vars, command, retries,
     loader, account
<1>3. CASE Cancel
  BY <1>3 DEF Cancel, Replace, ControlInv, DeployTypeOK, vars, command,
     retries, loader, account
<1>4. CASE Resume
  BY <1>4 DEF Resume, Replace, ControlInv, DeployTypeOK, vars, command,
     retries, loader, account
<1>5. CASE PrepareThrows
  BY <1>5 DEF PrepareThrows, Throw, End, ControlInv, DeployTypeOK, vars,
     command, retries, loader, account
<1>6. CASE SendTx
  BY <1>6 DEF SendTx, Broadcast, ControlInv, DeployTypeOK, vars, command,
     retries, loader, account
<1>7. CASE SendThrows
  BY <1>7 DEF SendThrows, Broadcast, Retry, Throw, End, ControlInv,
     DeployTypeOK, vars, command, retries, loader, account
<1>8. CASE Confirm
  BY <1>8 DEF Confirm, CheckConfirmation, Advance, Begin, Throw, End,
     ControlInv, DeployTypeOK, vars, command, retries, loader, account
<1>9. CASE NotConfirmed
  BY <1>9 DEF NotConfirmed, Retry, Throw, End, ControlInv, DeployTypeOK, vars,
     command, retries, loader, account
<1>10. CASE Open
  BY <1>10 DEF Open, ControlInv, DeployTypeOK, vars, command, retries, loader,
     account
<1>11. CASE Simulate
  BY <1>11 DEF Simulate, ControlInv, DeployTypeOK, vars, command, retries,
     loader, account
<1>12. CASE SimulateThrows
  BY <1>12 DEF SimulateThrows, ControlInv, DeployTypeOK, vars, command,
     retries, loader, account
<1>13. CASE Stop
  BY <1>13 DEF Stop, ControlInv, DeployTypeOK, vars, command, retries, loader,
     account
<1>14. CASE ReadBuffer
  BY <1>14 DEF ReadBuffer, ControlInv, DeployTypeOK, vars, command, retries,
     loader, account
<1>15. CASE Missing
  BY <1>15 DEF Missing, ControlInv, DeployTypeOK, vars, command, retries,
     loader, account
<1>16. CASE Loaded
  BY <1>16 DEF Loaded, Begin, ControlInv, DeployTypeOK, vars, command,
     retries, loader, account
<1>17. CASE Settle
  BY <1>17 DEF Settle, ControlInv, DeployTypeOK, vars, command, retries,
     loader, account
<1>18. ASSUME NEW yes \in BOOLEAN, AnswerClose(yes)
       PROVE  ControlInv'
  BY <1>18 DEF AnswerClose, Begin, ControlInv, DeployTypeOK, vars, command,
     retries, loader, account
<1>19. ASSUME NEW c \in Chunks, SendChunk(c)
       PROVE  ControlInv'
  BY <1>19 DEF SendChunk, ControlInv, DeployTypeOK, vars, command, retries,
     loader, account
<1>20. ASSUME NEW c \in Chunks, ChunkSent(c)
       PROVE  ControlInv'
  BY <1>20 DEF ChunkSent, ControlInv, DeployTypeOK, vars, command, retries,
     loader, account
<1>21. ASSUME NEW c \in Chunks, ChunkRefused(c)
       PROVE  ControlInv'
  BY <1>21 DEF ChunkRefused, ControlInv, DeployTypeOK, vars, command, retries,
     loader, account
<1>22. ASSUME NEW c \in Chunks, StrayEnds(c)
       PROVE  ControlInv'
  BY <1>22 DEF StrayEnds, ControlInv, DeployTypeOK, vars, command, retries,
     loader, account
<1>23. ASSUME NEW c \in Chunks, LandChunk(c)
       PROVE  ControlInv'
  BY <1>23 DEF LandChunk, ControlInv, DeployTypeOK, vars, command, retries,
     loader, account
<1>24. ASSUME NEW c \in Chunks, DropChunk(c)
       PROVE  ControlInv'
  BY <1>24 DEF DropChunk, ControlInv, DeployTypeOK, vars, command, retries,
     loader, account
<1>25. ASSUME NEW s \in TxSteps, LandTx(s)
       PROVE  ControlInv'
  BY <1>25 DEF LandTx, Execute, Settles, Valid, ControlInv, DeployTypeOK,
     vars, command, retries, loader, account
<1>26. ASSUME NEW s \in TxSteps, DropTx(s)
       PROVE  ControlInv'
  BY <1>26 DEF DropTx, Settles, ControlInv, DeployTypeOK, vars, command,
     retries, loader, account
<1>27. ASSUME NEW std \in BOOLEAN, NEW ext \in BOOLEAN, Prepare(std, ext)
       PROVE  ControlInv'
  BY <1>27 DEF Prepare, Begin, ControlInv, DeployTypeOK, vars, command,
     retries, loader, account
<1>28. CASE UNCHANGED vars
  BY <1>28 DEF ControlInv, DeployTypeOK, vars, command, retries, loader,
     account
<1> QED
  BY <1>1, <1>2, <1>3, <1>4, <1>5, <1>6, <1>7, <1>8, <1>9, <1>10, <1>11,
     <1>12, <1>13, <1>14, <1>15, <1>16, <1>17, <1>18, <1>19, <1>20, <1>21,
     <1>22, <1>23, <1>24, <1>25, <1>26, <1>27, <1>28 DEF Next, Learner,
     Transact, Load, Network

-----------------------------------------------------------------------------
(* The buffer *)

\* What the chain holds at each step.  A transaction of a later step is not in
\* flight before that step; in flight, it finds the buffer in a state it does
\* not accept, or the program replaced.
BufferInv ==
    /\ step \in {"idle", "prepare", "transfer", "extend", "create", "load",
                 "cancel", "close"} =>
          /\ program = "old" /\ buffer # "wallet"
          /\ pending["setAuth"] = 0 /\ pending["upgrade"] = 0
    /\ pending["close"] > 0 => step \in {"close", "over"}
    /\ pending["setAuth"] > 0 => standard
    /\ step \in {"load", "cancel"} => buffer = "payer"
    /\ step = "create" /\ fate = "ok" => buffer = "payer"
    /\ at = "read" => Chunks \ chunks \subseteq todo
    /\ step = "setAuth" =>
          /\ standard /\ program = "old" /\ pending["upgrade"] = 0
          /\ buffer # "none" /\ chunks = Chunks
          /\ fate = "ok" => buffer = "wallet"
    /\ step = "upgrade" =>
          /\ program = "new" \/ (buffer = Authority /\ chunks = Chunks)
          /\ fate = "ok" => program = "new"
    /\ outcome = "success" => program = "new"
    /\ outcome = "cancelled" => program = "old" /\ pending["upgrade"] = 0

DeployInv == DeployTypeOK /\ ControlInv /\ BufferInv

\* Initially no transaction is in flight (Init).
LEMMA BufferInit == Init => BufferInv
<1> QED
  BY DEF Init, BufferInv, TxSteps

\* Lost, late and repeated transactions leave the buffer as the next step
\* expects it (processDeploy, loadBuffer).
LEMMA BufferStep ==
    DeployTypeOK /\ ControlInv /\ BufferInv /\ [Next]_vars => BufferInv'
<1> SUFFICES ASSUME DeployTypeOK, ControlInv, BufferInv, [Next]_vars
             PROVE  BufferInv'
  OBVIOUS
<1> USE DEF TxSteps, Steps, Listening
<1>1. CASE Start
  BY <1>1 DEF Start, BufferInv, Authority, DeployTypeOK, ControlInv, vars,
     command, retries, loader, account
<1>2. CASE Toggle
  BY <1>2 DEF Toggle, BufferInv, Authority, DeployTypeOK, ControlInv, vars,
     command, retries, loader, account
<1>3. CASE Cancel
  BY <1>3 DEF Cancel, Replace, BufferInv, Authority, DeployTypeOK, ControlInv,
     vars, command, retries, loader, account
<1>4. CASE Resume
  BY <1>4 DEF Resume, Replace, BufferInv, Authority, DeployTypeOK, ControlInv,
     vars, command, retries, loader, account
<1>5. CASE PrepareThrows
  BY <1>5 DEF PrepareThrows, Throw, End, BufferInv, Authority, DeployTypeOK,
     ControlInv, vars, command, retries, loader, account
<1>6. CASE SendTx
  BY <1>6 DEF SendTx, Broadcast, BufferInv, Authority, DeployTypeOK,
     ControlInv, vars, command, retries, loader, account
<1>7. CASE SendThrows
  BY <1>7 DEF SendThrows, Broadcast, Retry, Throw, End, BufferInv, Authority,
     DeployTypeOK, ControlInv, vars, command, retries, loader, account
<1>8. CASE Confirm
  BY <1>8 DEF Confirm, CheckConfirmation, Advance, Begin, Throw, End,
     BufferInv, Authority, DeployTypeOK, ControlInv, vars, command, retries,
     loader, account
<1>9. CASE NotConfirmed
  BY <1>9 DEF NotConfirmed, Retry, Throw, End, BufferInv, Authority,
     DeployTypeOK, ControlInv, vars, command, retries, loader, account
<1>10. CASE Open
  BY <1>10 DEF Open, BufferInv, Authority, DeployTypeOK, ControlInv, vars,
     command, retries, loader, account
<1>11. CASE Simulate
  BY <1>11 DEF Simulate, BufferInv, Authority, DeployTypeOK, ControlInv, vars,
     command, retries, loader, account
<1>12. CASE SimulateThrows
  BY <1>12 DEF SimulateThrows, BufferInv, Authority, DeployTypeOK, ControlInv,
     vars, command, retries, loader, account
<1>13. CASE Stop
  BY <1>13 DEF Stop, BufferInv, Authority, DeployTypeOK, ControlInv, vars,
     command, retries, loader, account
<1>14. CASE ReadBuffer
  BY <1>14 DEF ReadBuffer, BufferInv, Authority, DeployTypeOK, ControlInv,
     vars, command, retries, loader, account
<1>15. CASE Missing
  BY <1>15 DEF Missing, BufferInv, Authority, DeployTypeOK, ControlInv, vars,
     command, retries, loader, account
<1>16. CASE Loaded
  BY <1>16 DEF Loaded, Begin, BufferInv, Authority, DeployTypeOK, ControlInv,
     vars, command, retries, loader, account
<1>17. CASE Settle
  BY <1>17 DEF Settle, BufferInv, Authority, DeployTypeOK, ControlInv, vars,
     command, retries, loader, account
<1>18. ASSUME NEW yes \in BOOLEAN, AnswerClose(yes)
       PROVE  BufferInv'
  BY <1>18 DEF AnswerClose, Begin, BufferInv, Authority, DeployTypeOK,
     ControlInv, vars, command, retries, loader, account
<1>19. ASSUME NEW c \in Chunks, SendChunk(c)
       PROVE  BufferInv'
  BY <1>19 DEF SendChunk, BufferInv, Authority, DeployTypeOK, ControlInv,
     vars, command, retries, loader, account
<1>20. ASSUME NEW c \in Chunks, ChunkSent(c)
       PROVE  BufferInv'
  BY <1>20 DEF ChunkSent, BufferInv, Authority, DeployTypeOK, ControlInv,
     vars, command, retries, loader, account
<1>21. ASSUME NEW c \in Chunks, ChunkRefused(c)
       PROVE  BufferInv'
  BY <1>21 DEF ChunkRefused, BufferInv, Authority, DeployTypeOK, ControlInv,
     vars, command, retries, loader, account
<1>22. ASSUME NEW c \in Chunks, StrayEnds(c)
       PROVE  BufferInv'
  BY <1>22 DEF StrayEnds, BufferInv, Authority, DeployTypeOK, ControlInv,
     vars, command, retries, loader, account
<1>23. ASSUME NEW c \in Chunks, LandChunk(c)
       PROVE  BufferInv'
  BY <1>23 DEF LandChunk, BufferInv, Authority, DeployTypeOK, ControlInv,
     vars, command, retries, loader, account
<1>24. ASSUME NEW c \in Chunks, DropChunk(c)
       PROVE  BufferInv'
  BY <1>24 DEF DropChunk, BufferInv, Authority, DeployTypeOK, ControlInv,
     vars, command, retries, loader, account
<1>25. ASSUME NEW s \in TxSteps, LandTx(s)
       PROVE  BufferInv'
  <2>1. CASE s = "transfer"
    BY <1>25, <2>1 DEF LandTx, Execute, Settles, Valid, BufferInv, Authority,
       DeployTypeOK, ControlInv, vars, command, retries, loader, account
  <2>2. CASE s = "extend"
    BY <1>25, <2>2 DEF LandTx, Execute, Settles, Valid, BufferInv, Authority,
       DeployTypeOK, ControlInv, vars, command, retries, loader, account
  <2>3. CASE s = "create"
    BY <1>25, <2>3 DEF LandTx, Execute, Settles, Valid, BufferInv, Authority,
       DeployTypeOK, ControlInv, vars, command, retries, loader, account
  <2>4. CASE s = "setAuth"
    BY <1>25, <2>4 DEF LandTx, Execute, Settles, Valid, BufferInv, Authority,
       DeployTypeOK, ControlInv, vars, command, retries, loader, account
  <2>5. CASE s = "upgrade"
    BY <1>25, <2>5 DEF LandTx, Execute, Settles, Valid, BufferInv, Authority,
       DeployTypeOK, ControlInv, vars, command, retries, loader, account
  <2>6. CASE s = "close"
    BY <1>25, <2>6 DEF LandTx, Execute, Settles, Valid, BufferInv, Authority,
       DeployTypeOK, ControlInv, vars, command, retries, loader, account
  <2> QED
    BY <2>1, <2>2, <2>3, <2>4, <2>5, <2>6 DEF TxSteps
<1>26. ASSUME NEW s \in TxSteps, DropTx(s)
       PROVE  BufferInv'
  BY <1>26 DEF DropTx, Settles, BufferInv, Authority, DeployTypeOK,
     ControlInv, vars, command, retries, loader, account
<1>27. ASSUME NEW std \in BOOLEAN, NEW ext \in BOOLEAN, Prepare(std, ext)
       PROVE  BufferInv'
  BY <1>27 DEF Prepare, Begin, BufferInv, Authority, DeployTypeOK, ControlInv,
     vars, command, retries, loader, account
<1>28. CASE UNCHANGED vars
  BY <1>28 DEF BufferInv, Authority, DeployTypeOK, ControlInv, vars, command,
     retries, loader, account
<1> QED
  BY <1>1, <1>2, <1>3, <1>4, <1>5, <1>6, <1>7, <1>8, <1>9, <1>10, <1>11,
     <1>12, <1>13, <1>14, <1>15, <1>16, <1>17, <1>18, <1>19, <1>20, <1>21,
     <1>22, <1>23, <1>24, <1>25, <1>26, <1>27, <1>28 DEF Next, Learner,
     Transact, Load, Network

\* The inductive invariant.
LEMMA Inductive == Spec => []DeployInv
<1>1. Init => DeployInv
  BY TypeInit, ControlInit, BufferInit DEF DeployInv
<1>2. DeployInv /\ [Next]_vars => DeployInv'
  BY TypeStep, ControlStep, BufferStep DEF DeployInv
<1> QED
  BY <1>1, <1>2, PTL DEF Spec

\* No upgrade is tried from an incomplete buffer or one of another wallet
\* (processDeploy, loadBuffer).
THEOREM BufferComplete == Spec => []BufferIsReady
<1>1. DeployInv => BufferIsReady
  BY DEF DeployInv, BufferInv, BufferIsReady
<1> QED
  BY Inductive, <1>1, PTL

-----------------------------------------------------------------------------
(* The open question *)

\* What one step may do while "Continue deployment?" is open.
HeldStep ==
    prompt = "continue" =>
        sending' \subseteq sending /\ step' \notin {"setAuth", "upgrade"}

\* The question is open only while the loader is stopped, and only the loader
\* leaves the loading of the buffer (loadBufferWithControl).
LEMMA HoldStep == DeployTypeOK /\ ControlInv /\ [Next]_vars => HeldStep
<1> SUFFICES ASSUME DeployTypeOK, ControlInv, [Next]_vars
             PROVE  HeldStep
  OBVIOUS
<1> USE DEF TxSteps, Steps, Listening
<1>1. CASE Start
  BY <1>1 DEF Start, DeployTypeOK, ControlInv, HeldStep, vars, command,
     retries, loader, account
<1>2. CASE Toggle
  BY <1>2 DEF Toggle, DeployTypeOK, ControlInv, HeldStep, vars, command,
     retries, loader, account
<1>3. CASE Cancel
  BY <1>3 DEF Cancel, Replace, DeployTypeOK, ControlInv, HeldStep, vars,
     command, retries, loader, account
<1>4. CASE Resume
  BY <1>4 DEF Resume, Replace, DeployTypeOK, ControlInv, HeldStep, vars,
     command, retries, loader, account
<1>5. CASE PrepareThrows
  BY <1>5 DEF PrepareThrows, Throw, End, DeployTypeOK, ControlInv, HeldStep,
     vars, command, retries, loader, account
<1>6. CASE SendTx
  BY <1>6 DEF SendTx, Broadcast, DeployTypeOK, ControlInv, HeldStep, vars,
     command, retries, loader, account
<1>7. CASE SendThrows
  BY <1>7 DEF SendThrows, Broadcast, Retry, Throw, End, DeployTypeOK,
     ControlInv, HeldStep, vars, command, retries, loader, account
<1>8. CASE Confirm
  BY <1>8 DEF Confirm, CheckConfirmation, Advance, Begin, Throw, End,
     DeployTypeOK, ControlInv, HeldStep, vars, command, retries, loader,
     account
<1>9. CASE NotConfirmed
  BY <1>9 DEF NotConfirmed, Retry, Throw, End, DeployTypeOK, ControlInv,
     HeldStep, vars, command, retries, loader, account
<1>10. CASE Open
  BY <1>10 DEF Open, DeployTypeOK, ControlInv, HeldStep, vars, command,
     retries, loader, account
<1>11. CASE Simulate
  BY <1>11 DEF Simulate, DeployTypeOK, ControlInv, HeldStep, vars, command,
     retries, loader, account
<1>12. CASE SimulateThrows
  BY <1>12 DEF SimulateThrows, DeployTypeOK, ControlInv, HeldStep, vars,
     command, retries, loader, account
<1>13. CASE Stop
  BY <1>13 DEF Stop, DeployTypeOK, ControlInv, HeldStep, vars, command,
     retries, loader, account
<1>14. CASE ReadBuffer
  BY <1>14 DEF ReadBuffer, DeployTypeOK, ControlInv, HeldStep, vars, command,
     retries, loader, account
<1>15. CASE Missing
  BY <1>15 DEF Missing, DeployTypeOK, ControlInv, HeldStep, vars, command,
     retries, loader, account
<1>16. CASE Loaded
  BY <1>16 DEF Loaded, Begin, DeployTypeOK, ControlInv, HeldStep, vars,
     command, retries, loader, account
<1>17. CASE Settle
  BY <1>17 DEF Settle, DeployTypeOK, ControlInv, HeldStep, vars, command,
     retries, loader, account
<1>18. ASSUME NEW yes \in BOOLEAN, AnswerClose(yes)
       PROVE  HeldStep
  BY <1>18 DEF AnswerClose, Begin, DeployTypeOK, ControlInv, HeldStep, vars,
     command, retries, loader, account
<1>19. ASSUME NEW c \in Chunks, SendChunk(c)
       PROVE  HeldStep
  BY <1>19 DEF SendChunk, DeployTypeOK, ControlInv, HeldStep, vars, command,
     retries, loader, account
<1>20. ASSUME NEW c \in Chunks, ChunkSent(c)
       PROVE  HeldStep
  BY <1>20 DEF ChunkSent, DeployTypeOK, ControlInv, HeldStep, vars, command,
     retries, loader, account
<1>21. ASSUME NEW c \in Chunks, ChunkRefused(c)
       PROVE  HeldStep
  BY <1>21 DEF ChunkRefused, DeployTypeOK, ControlInv, HeldStep, vars,
     command, retries, loader, account
<1>22. ASSUME NEW c \in Chunks, StrayEnds(c)
       PROVE  HeldStep
  BY <1>22 DEF StrayEnds, DeployTypeOK, ControlInv, HeldStep, vars, command,
     retries, loader, account
<1>23. ASSUME NEW c \in Chunks, LandChunk(c)
       PROVE  HeldStep
  BY <1>23 DEF LandChunk, DeployTypeOK, ControlInv, HeldStep, vars, command,
     retries, loader, account
<1>24. ASSUME NEW c \in Chunks, DropChunk(c)
       PROVE  HeldStep
  BY <1>24 DEF DropChunk, DeployTypeOK, ControlInv, HeldStep, vars, command,
     retries, loader, account
<1>25. ASSUME NEW s \in TxSteps, LandTx(s)
       PROVE  HeldStep
  BY <1>25 DEF LandTx, Execute, Settles, Valid, DeployTypeOK, ControlInv,
     HeldStep, vars, command, retries, loader, account
<1>26. ASSUME NEW s \in TxSteps, DropTx(s)
       PROVE  HeldStep
  BY <1>26 DEF DropTx, Settles, DeployTypeOK, ControlInv, HeldStep, vars,
     command, retries, loader, account
<1>27. ASSUME NEW std \in BOOLEAN, NEW ext \in BOOLEAN, Prepare(std, ext)
       PROVE  HeldStep
  BY <1>27 DEF Prepare, Begin, DeployTypeOK, ControlInv, HeldStep, vars,
     command, retries, loader, account
<1>28. CASE UNCHANGED vars
  BY <1>28 DEF DeployTypeOK, ControlInv, HeldStep, vars, command, retries,
     loader, account
<1> QED
  BY <1>1, <1>2, <1>3, <1>4, <1>5, <1>6, <1>7, <1>8, <1>9, <1>10, <1>11,
     <1>12, <1>13, <1>14, <1>15, <1>16, <1>17, <1>18, <1>19, <1>20, <1>21,
     <1>22, <1>23, <1>24, <1>25, <1>26, <1>27, <1>28 DEF Next, Learner,
     Transact, Load, Network

\* An open question holds the deployment (loadBufferWithControl).
THEOREM QuestionHolds == Spec => PromptHolds
<1>1. DeployInv /\ [Next]_vars => [HeldStep]_vars
  BY HoldStep DEF DeployInv
<1> QED
  BY Inductive, <1>1, PTL DEF Spec, PromptHolds, HeldStep

-----------------------------------------------------------------------------
(* Refinement *)

\* Every step of the command and the chain is a step of Deployment or hidden
\* (deploy.handle, processDeploy).
LEMMA RefineStep == DeployInv /\ [Next]_vars => [Promise!Next]_Promise!vars
<1> SUFFICES ASSUME DeployTypeOK, ControlInv, BufferInv, [Next]_vars
             PROVE  [Promise!Next]_Promise!vars
  BY DEF DeployInv
<1> USE DEF TxSteps, Steps, Listening
<1>1. CASE Start
  BY <1>1 DEF Start, DeployTypeOK, ControlInv, BufferInv, Promise!Next,
     Promise!vars, Promise!Start, Promise!Toggle, Promise!Cancel,
     Promise!TakeEffect, Promise!Succeed, Promise!Fail, Promise!EndCancelled,
     vars, command, retries, loader, account
<1>2. CASE Toggle
  BY <1>2 DEF Toggle, DeployTypeOK, ControlInv, BufferInv, Promise!Next,
     Promise!vars, Promise!Start, Promise!Toggle, Promise!Cancel,
     Promise!TakeEffect, Promise!Succeed, Promise!Fail, Promise!EndCancelled,
     vars, command, retries, loader, account
<1>3. CASE Cancel
  BY <1>3 DEF Cancel, Replace, DeployTypeOK, ControlInv, BufferInv,
     Promise!Next, Promise!vars, Promise!Start, Promise!Toggle,
     Promise!Cancel, Promise!TakeEffect, Promise!Succeed, Promise!Fail,
     Promise!EndCancelled, vars, command, retries, loader, account
<1>4. CASE Resume
  BY <1>4 DEF Resume, Replace, DeployTypeOK, ControlInv, BufferInv,
     Promise!Next, Promise!vars, Promise!Start, Promise!Toggle,
     Promise!Cancel, Promise!TakeEffect, Promise!Succeed, Promise!Fail,
     Promise!EndCancelled, vars, command, retries, loader, account
<1>5. CASE PrepareThrows
  BY <1>5 DEF PrepareThrows, Throw, End, DeployTypeOK, ControlInv, BufferInv,
     Promise!Next, Promise!vars, Promise!Start, Promise!Toggle,
     Promise!Cancel, Promise!TakeEffect, Promise!Succeed, Promise!Fail,
     Promise!EndCancelled, vars, command, retries, loader, account
<1>6. CASE SendTx
  BY <1>6 DEF SendTx, Broadcast, Authority, DeployTypeOK, ControlInv,
     BufferInv, Promise!Next, Promise!vars, Promise!Start, Promise!Toggle,
     Promise!Cancel, Promise!TakeEffect, Promise!Succeed, Promise!Fail,
     Promise!EndCancelled, vars, command, retries, loader, account
<1>7. CASE SendThrows
  BY <1>7 DEF SendThrows, Broadcast, Retry, Throw, End, Authority,
     DeployTypeOK, ControlInv, BufferInv, Promise!Next, Promise!vars,
     Promise!Start, Promise!Toggle, Promise!Cancel, Promise!TakeEffect,
     Promise!Succeed, Promise!Fail, Promise!EndCancelled, vars, command,
     retries, loader, account
<1>8. CASE Confirm
  BY <1>8 DEF Confirm, CheckConfirmation, Advance, Begin, Throw, End,
     Authority, DeployTypeOK, ControlInv, BufferInv, Promise!Next,
     Promise!vars, Promise!Start, Promise!Toggle, Promise!Cancel,
     Promise!TakeEffect, Promise!Succeed, Promise!Fail, Promise!EndCancelled,
     vars, command, retries, loader, account
<1>9. CASE NotConfirmed
  BY <1>9 DEF NotConfirmed, Retry, Throw, End, DeployTypeOK, ControlInv,
     BufferInv, Promise!Next, Promise!vars, Promise!Start, Promise!Toggle,
     Promise!Cancel, Promise!TakeEffect, Promise!Succeed, Promise!Fail,
     Promise!EndCancelled, vars, command, retries, loader, account
<1>10. CASE Open
  BY <1>10 DEF Open, DeployTypeOK, ControlInv, BufferInv, Promise!Next,
     Promise!vars, Promise!Start, Promise!Toggle, Promise!Cancel,
     Promise!TakeEffect, Promise!Succeed, Promise!Fail, Promise!EndCancelled,
     vars, command, retries, loader, account
<1>11. CASE Simulate
  BY <1>11 DEF Simulate, DeployTypeOK, ControlInv, BufferInv, Promise!Next,
     Promise!vars, Promise!Start, Promise!Toggle, Promise!Cancel,
     Promise!TakeEffect, Promise!Succeed, Promise!Fail, Promise!EndCancelled,
     vars, command, retries, loader, account
<1>12. CASE SimulateThrows
  BY <1>12 DEF SimulateThrows, DeployTypeOK, ControlInv, BufferInv,
     Promise!Next, Promise!vars, Promise!Start, Promise!Toggle,
     Promise!Cancel, Promise!TakeEffect, Promise!Succeed, Promise!Fail,
     Promise!EndCancelled, vars, command, retries, loader, account
<1>13. CASE Stop
  BY <1>13 DEF Stop, DeployTypeOK, ControlInv, BufferInv, Promise!Next,
     Promise!vars, Promise!Start, Promise!Toggle, Promise!Cancel,
     Promise!TakeEffect, Promise!Succeed, Promise!Fail, Promise!EndCancelled,
     vars, command, retries, loader, account
<1>14. CASE ReadBuffer
  BY <1>14 DEF ReadBuffer, DeployTypeOK, ControlInv, BufferInv, Promise!Next,
     Promise!vars, Promise!Start, Promise!Toggle, Promise!Cancel,
     Promise!TakeEffect, Promise!Succeed, Promise!Fail, Promise!EndCancelled,
     vars, command, retries, loader, account
<1>15. CASE Missing
  BY <1>15 DEF Missing, DeployTypeOK, ControlInv, BufferInv, Promise!Next,
     Promise!vars, Promise!Start, Promise!Toggle, Promise!Cancel,
     Promise!TakeEffect, Promise!Succeed, Promise!Fail, Promise!EndCancelled,
     vars, command, retries, loader, account
<1>16. CASE Loaded
  BY <1>16 DEF Loaded, Begin, Authority, DeployTypeOK, ControlInv, BufferInv,
     Promise!Next, Promise!vars, Promise!Start, Promise!Toggle,
     Promise!Cancel, Promise!TakeEffect, Promise!Succeed, Promise!Fail,
     Promise!EndCancelled, vars, command, retries, loader, account
<1>17. CASE Settle
  BY <1>17 DEF Settle, DeployTypeOK, ControlInv, BufferInv, Promise!Next,
     Promise!vars, Promise!Start, Promise!Toggle, Promise!Cancel,
     Promise!TakeEffect, Promise!Succeed, Promise!Fail, Promise!EndCancelled,
     vars, command, retries, loader, account
<1>18. ASSUME NEW yes \in BOOLEAN, AnswerClose(yes)
       PROVE  [Promise!Next]_Promise!vars
  BY <1>18 DEF AnswerClose, Begin, DeployTypeOK, ControlInv, BufferInv,
     Promise!Next, Promise!vars, Promise!Start, Promise!Toggle,
     Promise!Cancel, Promise!TakeEffect, Promise!Succeed, Promise!Fail,
     Promise!EndCancelled, vars, command, retries, loader, account
<1>19. ASSUME NEW c \in Chunks, SendChunk(c)
       PROVE  [Promise!Next]_Promise!vars
  BY <1>19 DEF SendChunk, DeployTypeOK, ControlInv, BufferInv, Promise!Next,
     Promise!vars, Promise!Start, Promise!Toggle, Promise!Cancel,
     Promise!TakeEffect, Promise!Succeed, Promise!Fail, Promise!EndCancelled,
     vars, command, retries, loader, account
<1>20. ASSUME NEW c \in Chunks, ChunkSent(c)
       PROVE  [Promise!Next]_Promise!vars
  BY <1>20 DEF ChunkSent, DeployTypeOK, ControlInv, BufferInv, Promise!Next,
     Promise!vars, Promise!Start, Promise!Toggle, Promise!Cancel,
     Promise!TakeEffect, Promise!Succeed, Promise!Fail, Promise!EndCancelled,
     vars, command, retries, loader, account
<1>21. ASSUME NEW c \in Chunks, ChunkRefused(c)
       PROVE  [Promise!Next]_Promise!vars
  BY <1>21 DEF ChunkRefused, DeployTypeOK, ControlInv, BufferInv,
     Promise!Next, Promise!vars, Promise!Start, Promise!Toggle,
     Promise!Cancel, Promise!TakeEffect, Promise!Succeed, Promise!Fail,
     Promise!EndCancelled, vars, command, retries, loader, account
<1>22. ASSUME NEW c \in Chunks, StrayEnds(c)
       PROVE  [Promise!Next]_Promise!vars
  BY <1>22 DEF StrayEnds, DeployTypeOK, ControlInv, BufferInv, Promise!Next,
     Promise!vars, Promise!Start, Promise!Toggle, Promise!Cancel,
     Promise!TakeEffect, Promise!Succeed, Promise!Fail, Promise!EndCancelled,
     vars, command, retries, loader, account
<1>23. ASSUME NEW c \in Chunks, LandChunk(c)
       PROVE  [Promise!Next]_Promise!vars
  BY <1>23 DEF LandChunk, DeployTypeOK, ControlInv, BufferInv, Promise!Next,
     Promise!vars, Promise!Start, Promise!Toggle, Promise!Cancel,
     Promise!TakeEffect, Promise!Succeed, Promise!Fail, Promise!EndCancelled,
     vars, command, retries, loader, account
<1>24. ASSUME NEW c \in Chunks, DropChunk(c)
       PROVE  [Promise!Next]_Promise!vars
  BY <1>24 DEF DropChunk, DeployTypeOK, ControlInv, BufferInv, Promise!Next,
     Promise!vars, Promise!Start, Promise!Toggle, Promise!Cancel,
     Promise!TakeEffect, Promise!Succeed, Promise!Fail, Promise!EndCancelled,
     vars, command, retries, loader, account
<1>25. ASSUME NEW s \in TxSteps, LandTx(s)
       PROVE  [Promise!Next]_Promise!vars
  BY <1>25 DEF LandTx, Execute, Settles, Valid, Authority, DeployTypeOK,
     ControlInv, BufferInv, Promise!Next, Promise!vars, Promise!Start,
     Promise!Toggle, Promise!Cancel, Promise!TakeEffect, Promise!Succeed,
     Promise!Fail, Promise!EndCancelled, vars, command, retries, loader,
     account
<1>26. ASSUME NEW s \in TxSteps, DropTx(s)
       PROVE  [Promise!Next]_Promise!vars
  BY <1>26 DEF DropTx, Settles, DeployTypeOK, ControlInv, BufferInv,
     Promise!Next, Promise!vars, Promise!Start, Promise!Toggle,
     Promise!Cancel, Promise!TakeEffect, Promise!Succeed, Promise!Fail,
     Promise!EndCancelled, vars, command, retries, loader, account
<1>27. ASSUME NEW std \in BOOLEAN, NEW ext \in BOOLEAN, Prepare(std, ext)
       PROVE  [Promise!Next]_Promise!vars
  BY <1>27 DEF Prepare, Begin, Authority, DeployTypeOK, ControlInv, BufferInv,
     Promise!Next, Promise!vars, Promise!Start, Promise!Toggle,
     Promise!Cancel, Promise!TakeEffect, Promise!Succeed, Promise!Fail,
     Promise!EndCancelled, vars, command, retries, loader, account
<1>28. CASE UNCHANGED vars
  BY <1>28 DEF DeployTypeOK, ControlInv, BufferInv, Promise!Next,
     Promise!vars, Promise!Start, Promise!Toggle, Promise!Cancel,
     Promise!TakeEffect, Promise!Succeed, Promise!Fail, Promise!EndCancelled,
     vars, command, retries, loader, account
<1> QED
  BY <1>1, <1>2, <1>3, <1>4, <1>5, <1>6, <1>7, <1>8, <1>9, <1>10, <1>11,
     <1>12, <1>13, <1>14, <1>15, <1>16, <1>17, <1>18, <1>19, <1>20, <1>21,
     <1>22, <1>23, <1>24, <1>25, <1>26, <1>27, <1>28 DEF Next, Learner,
     Transact, Load, Network

\* The command keeps the promise of Deployment: a success is a replaced
\* program, and after a cancel the old program stays (deploy.handle).
THEOREM PromiseKept == Spec => ImplementsDeployment
<1>1. Init => Promise!Init
  BY DEF Init, Promise!Init
<1> QED
  BY <1>1, Inductive, RefineStep, PTL DEF Spec, ImplementsDeployment, Promise!Spec
=============================================================================
