----------------------------- MODULE DeployFlow -----------------------------
(* One run of the deploy command (client/src/commands/deploy): the           *)
(* transactions it sends one after the other with retries, the concurrent    *)
(* loading of the buffer, and the learner who pauses, resumes and cancels.   *)
(*                                                                           *)
(* A step is the code between two awaits.  The chain executes, drops or      *)
(* delays what it was sent, also after the client has stopped waiting.       *)
EXTENDS Naturals, FiniteSets

CONSTANTS
    Chunks,           \* the pieces of the binary, one write transaction each
    MAX_RETRIES,      \* sendAndConfirmTxWithRetries
    loadConcurrency,  \* loadBuffer
    preflightChecks,  \* PgSettings.connection.preflightChecks
    NestedFails       \* the simulation of a resumed loader may throw

ASSUME DeployAssumption ==
    /\ MAX_RETRIES \in Nat \ {0} /\ loadConcurrency \in Nat \ {0}
    /\ preflightChecks \in BOOLEAN /\ NestedFails \in BOOLEAN

VARIABLES
    deployState, outcome,     \* PgGlobal.deployState; how the command ended
    standard, extends,        \* a standard wallet; the account must grow
    step,                     \* where processDeploy is
    phase, tries, fate,       \* in sendAndConfirmTxWithRetries; its last tx
    at, aborted, resumed,     \* where the loader is, its controller, is it nested
    todo, sending, limited,   \* indices left, sends under way, isRateLimited
    stray,                    \* sends under way of loaders that were replaced
    prompt,                   \* the question open in the terminal
    pending, writes,          \* transactions and chunk writes in flight
    landed, buffer, chunks, program   \* the chain

command == <<deployState, outcome, standard, extends>>
retries == <<phase, tries, fate>>
loader  == <<at, aborted, resumed, todo, sending, limited>>
account == <<landed, buffer, chunks, program>>
vars == <<command, step, retries, loader, stray, prompt, pending, writes,
          account>>

TxSteps == {"transfer", "extend", "create", "setAuth", "upgrade", "close"}
Steps   == TxSteps \cup {"idle", "prepare", "load", "cancel", "over"}
\* Where a loader is that listens to deployState.
Listening == {"simulate", "check", "read", "send", "stopped"}

DeployTypeOK ==
    /\ deployState \in {"ready", "loading", "paused", "cancelled"}
    /\ outcome \in {"none", "success", "failed", "cancelled"}
    /\ standard \in BOOLEAN /\ extends \in BOOLEAN
    /\ step \in Steps
    /\ phase \in {"send", "confirm"} /\ tries \in 0 .. MAX_RETRIES - 1
    /\ fate \in {"none", "pending", "lost", "ok", "failed"}
    /\ at \in Listening \cup {"off", "opening", "hung"}
    /\ aborted \in BOOLEAN /\ resumed \in BOOLEAN /\ limited \in BOOLEAN
    /\ todo \subseteq Chunks /\ sending \subseteq Chunks /\ stray \subseteq Chunks
    /\ prompt \in {"none", "continue", "yes", "close"}
    /\ pending \in [TxSteps -> Nat] /\ writes \subseteq Chunks
    /\ landed \subseteq {"transfer", "extend"}
    /\ buffer \in {"none", "payer", "wallet"} /\ chunks \subseteq Chunks
    /\ program \in {"old", "new"}

Init ==
    /\ deployState = "ready" /\ outcome = "none"
    /\ standard = FALSE /\ extends = FALSE
    /\ step = "idle"
    /\ phase = "send" /\ tries = 0 /\ fate = "none"
    /\ at = "off" /\ aborted = FALSE /\ resumed = FALSE
    /\ todo = {} /\ sending = {} /\ limited = FALSE
    /\ stray = {} /\ prompt = "none"
    /\ pending = [s \in TxSteps |-> 0] /\ writes = {}
    /\ landed = {}
    /\ buffer = "none" /\ chunks = {} /\ program = "old"

-----------------------------------------------------------------------------
(* The command *)

\* The finally of the handler.
End(result) ==
    /\ step' = "over" /\ deployState' = "ready" /\ outcome' = result
    /\ UNCHANGED <<standard, extends, phase, tries, at, aborted, resumed,
                   todo, sending, limited, stray, prompt>>

\* An error leaves processDeploy, whatever it was doing.
Throw == End(IF deployState = "cancelled" THEN "cancelled" ELSE "failed")

\* deploy.handle: the button starts, pauses or resumes.  A cancelled command
\* rejects it.
Start ==
    /\ deployState = "ready" /\ outcome = "none"
    /\ deployState' = "loading" /\ step' = "prepare"
    /\ UNCHANGED <<outcome, standard, extends, retries, loader, stray, prompt,
                   pending, writes, account>>

\* handle of the loader that listens: the first change stops the loader and
\* asks, the next one answers the question with "yes".
Toggle ==
    /\ deployState \in {"loading", "paused"}
    /\ deployState' = IF deployState = "loading" THEN "paused" ELSE "loading"
    /\ IF at \in Listening
       THEN /\ aborted' = TRUE
            /\ prompt' = IF aborted THEN "yes" ELSE "continue"
       ELSE UNCHANGED <<aborted, prompt>>
    /\ UNCHANGED <<outcome, standard, extends, step, retries, at, resumed,
                   todo, sending, limited, stray, pending, writes, account>>

\* Enter sendAndConfirmTxWithRetries.
Begin(s) == step' = s /\ phase' = "send" /\ tries' = 0 /\ fate' = "none"

\* processDeploy up to its first transaction: fetch the binary, compare the
\* balance, ask for an airdrop.  Any of it may throw.
Prepare(std, ext) ==
    /\ step = "prepare"
    /\ standard' = std /\ extends' = ext
    /\ Begin(IF std THEN "transfer" ELSE IF ext THEN "extend" ELSE "create")
    /\ UNCHANGED <<deployState, outcome, loader, stray, prompt, pending, writes,
                   account>>

PrepareThrows ==
    /\ step = "prepare"
    /\ Throw
    /\ UNCHANGED <<fate, pending, writes, account>>

-----------------------------------------------------------------------------
(* A transaction with retries *)

\* The wallet that must be the buffer's authority when it is deployed.
Authority == IF standard THEN "wallet" ELSE "payer"

\* What the chain accepts.  The first deployment creates the program's account
\* and an upgrade replaces its contents; both verify the binary and use up the
\* buffer.
Valid(s) ==
    /\ s = "create"  => buffer = "none"
    /\ s = "setAuth" => buffer = "payer"
    /\ s = "close"   => buffer = "payer"
    /\ s = "upgrade" => buffer = Authority /\ chunks = Chunks

\* PgTx.send.  The cached blockhash gives the same signature again; a new one is
\* fetched when the cache has expired or the chain has already processed it.
Broadcast ==
    /\ preflightChecks => Valid(step)
    /\ \/ /\ fate \in {"pending", "lost"}
          /\ pending' = [pending EXCEPT ![step] = @ + IF fate = "lost" THEN 1 ELSE 0]
          /\ fate' = "pending"
       \/ /\ pending' = [pending EXCEPT ![step] = @ + 1]
          /\ fate' = "pending"
       \/ /\ fate \in {"ok", "failed"} /\ ~preflightChecks
          /\ UNCHANGED <<pending, fate>>

\* Mutant: one attempt too many.
RetryOffByOne ==
    \/ /\ tries < MAX_RETRIES
       /\ tries' = tries + 1 /\ phase' = "send"
       /\ UNCHANGED <<command, step, loader, stray, prompt>>
    \/ /\ tries >= MAX_RETRIES
       /\ Throw

\* The next attempt, or the error after the last one.
Retry ==
    \/ /\ tries + 1 < MAX_RETRIES
       /\ tries' = tries + 1 /\ phase' = "send"
       /\ UNCHANGED <<command, step, loader, stray, prompt>>
    \/ /\ tries + 1 >= MAX_RETRIES
       /\ Throw

SendTx ==
    /\ step \in TxSteps /\ phase = "send"
    /\ Broadcast
    /\ phase' = "confirm"
    /\ UNCHANGED <<command, step, tries, loader, stray, prompt, writes, account>>

\* The wallet, the simulation or the request fails, or only its answer is lost.
SendThrows ==
    /\ step \in TxSteps /\ phase = "send"
    /\ Broadcast \/ UNCHANGED <<pending, fate>>
    /\ Retry
    /\ UNCHANGED <<writes, account>>

\* Mutant: the buffer still being there counts as an upgrade.
CheckConfirmationInverted(answer) ==
    /\ step \in {"transfer", "extend"} => (answer => step \in landed)
    /\ step \in {"create", "upgrade"} => answer = (buffer # "none")
    /\ step = "setAuth" => answer = (buffer = "wallet")
    /\ step = "close" => answer = (buffer = "none")

\* checkConfirmation.  Balance and program data are cached and may lag behind.
CheckConfirmation(answer) ==
    /\ step \in {"transfer", "extend"} => (answer => step \in landed)
    /\ step = "create"  => answer = (buffer # "none")
    /\ step = "setAuth" => answer = (buffer = "wallet")
    /\ step \in {"upgrade", "close"} => answer = (buffer = "none")

\* What processDeploy does after a confirmed transaction.
Advance ==
    \/ /\ step = "transfer"
       /\ Begin(IF extends THEN "extend" ELSE "create")
       /\ UNCHANGED <<command, loader, stray, prompt>>
    \/ /\ step = "extend"
       /\ Begin("create")
       /\ UNCHANGED <<command, loader, stray, prompt>>
    \/ /\ step = "create"
       /\ Begin("load") /\ at' = "opening"
       /\ UNCHANGED <<command, aborted, resumed, todo, sending, limited, stray,
                      prompt>>
    \/ /\ step = "setAuth"
       /\ Begin("upgrade")
       /\ UNCHANGED <<command, loader, stray, prompt>>
    \/ /\ step = "upgrade"
       /\ End("success") /\ UNCHANGED fate
    \/ /\ step = "close"
       /\ Throw /\ UNCHANGED fate

Confirm ==
    /\ step \in TxSteps /\ phase = "confirm"
    /\ fate = "ok" \/ (fate = "failed" /\ CheckConfirmation(TRUE))
    /\ Advance
    /\ UNCHANGED <<pending, writes, account>>

\* The transaction failed and the check says no, or confirm or the check throw.
NotConfirmed ==
    /\ step \in TxSteps /\ phase = "confirm"
    /\ Retry
    /\ UNCHANGED <<fate, pending, writes, account>>

-----------------------------------------------------------------------------
(* Loading the buffer *)

\* loadBufferWithControl after the terminal is there.
Open ==
    /\ at = "opening"
    /\ at' = "simulate"
    /\ UNCHANGED <<command, step, retries, aborted, resumed, todo, sending,
                   limited, stray, prompt, pending, writes, account>>

Simulate ==
    /\ at = "simulate"
    /\ at' = "check"
    /\ UNCHANGED <<command, step, retries, aborted, resumed, todo, sending,
                   limited, stray, prompt, pending, writes, account>>

\* loadBuffer rejects.  The first loader passes the error on; a nested one has
\* nobody who handles its rejection.
SimulateThrows ==
    /\ at = "simulate" /\ (resumed => aborted \/ NestedFails)
    /\ at' = IF aborted THEN "stopped" ELSE IF resumed THEN "hung" ELSE "off"
    /\ IF aborted \/ resumed
       THEN UNCHANGED <<command, step>>
       ELSE /\ step' = "over" /\ deployState' = "ready" /\ outcome' = "failed"
            /\ UNCHANGED <<standard, extends>>
    /\ UNCHANGED <<retries, aborted, resumed, todo, sending, limited, stray,
                   prompt, pending, writes, account>>

\* The abort is noticed at the top of the loop.
Stop ==
    /\ at = "check" /\ aborted
    /\ at' = "stopped"
    /\ UNCHANGED <<command, step, retries, aborted, resumed, todo, sending,
                   limited, stray, prompt, pending, writes, account>>

\* Read the account; the answer may be old when it is used.
ReadBuffer ==
    /\ at = "check" /\ ~aborted /\ buffer # "none"
    /\ at' = "read" /\ todo' = Chunks \ chunks
    /\ UNCHANGED <<command, step, retries, aborted, resumed, sending, limited,
                   stray, prompt, pending, writes, account>>

\* Chunks are missing: send them.
Missing ==
    /\ at = "read" /\ todo # {}
    /\ at' = "send"
    /\ UNCHANGED <<command, step, retries, aborted, resumed, todo, sending,
                   limited, stray, prompt, pending, writes, account>>

\* The buffer is complete; the promise resolves if nobody has paused meanwhile.
Loaded ==
    /\ at = "read" /\ todo = {}
    /\ IF aborted
       THEN /\ at' = "stopped"
            /\ UNCHANGED <<step, retries>>
       ELSE /\ at' = "off"
            /\ Begin(IF standard THEN "setAuth" ELSE "upgrade")
    /\ UNCHANGED <<command, aborted, resumed, todo, sending, limited, stray,
                   prompt, pending, writes, account>>

\* Mutant: a worker does not look at the abort signal.
SendChunkRegardless(c) ==
    /\ at = "send" /\ ~limited
    /\ c \in todo /\ Cardinality(sending) < loadConcurrency
    /\ todo' = todo \ {c} /\ sending' = sending \cup {c}
    /\ UNCHANGED <<command, step, retries, at, aborted, resumed, limited, stray,
                   prompt, pending, writes, account>>

\* A worker takes the next index.
SendChunk(c) ==
    /\ at = "send" /\ ~aborted /\ ~limited
    /\ c \in todo /\ Cardinality(sending) < loadConcurrency
    /\ todo' = todo \ {c} /\ sending' = sending \cup {c}
    /\ UNCHANGED <<command, step, retries, at, aborted, resumed, limited, stray,
                   prompt, pending, writes, account>>

ChunkSent(c) ==
    /\ c \in sending
    /\ sending' = sending \ {c} /\ writes' = writes \cup {c}
    /\ UNCHANGED <<command, step, retries, at, aborted, resumed, todo, limited,
                   stray, prompt, pending, account>>

\* The request fails, by a rate limit or otherwise; the chunk is left to the
\* next round.
ChunkRefused(c) ==
    /\ c \in sending
    /\ sending' = sending \ {c} /\ limited' \in {limited, TRUE}
    /\ UNCHANGED <<command, step, retries, at, aborted, resumed, todo, stray,
                   prompt, pending, writes, account>>

\* A send of a loader that was replaced or cancelled comes to its end.
StrayEnds(c) ==
    /\ c \in stray
    /\ stray' = stray \ {c} /\ writes' \in {writes, writes \cup {c}}
    /\ UNCHANGED <<command, step, retries, loader, prompt, pending, account>>

\* Mutant: what was sent is taken for written.
SettleTrusting ==
    /\ at = "send" /\ sending = {}
    /\ aborted \/ limited \/ todo = {}
    /\ at' = IF aborted THEN "stopped" ELSE IF limited THEN "check" ELSE "read"
    /\ limited' = FALSE /\ todo' = {}
    /\ UNCHANGED <<command, step, retries, aborted, resumed, sending, stray,
                   prompt, pending, writes, account>>

\* Mutant: the flag of the rate limit outlives its round.
SettleKeepsLimit ==
    /\ at = "send" /\ sending = {}
    /\ aborted \/ limited \/ todo = {}
    /\ at' = IF aborted THEN "stopped" ELSE "check"
    /\ todo' = {}
    /\ UNCHANGED <<command, step, retries, aborted, resumed, sending, limited,
                   stray, prompt, pending, writes, account>>

\* All workers have returned.  Wait for the last write or for the rate limit,
\* and look at the account again.
Settle ==
    /\ at = "send" /\ sending = {}
    /\ aborted \/ limited \/ todo = {}
    /\ at' = IF aborted THEN "stopped" ELSE "check"
    /\ limited' = FALSE /\ todo' = {}
    /\ UNCHANGED <<command, step, retries, aborted, resumed, sending, stray,
                   prompt, pending, writes, account>>

\* The loader is replaced by state s; its sends go on.
Replace(s) ==
    /\ at' = s /\ aborted' = FALSE /\ todo' = {} /\ limited' = FALSE
    /\ sending' = {} /\ stray' = stray \cup sending

\* "Continue deployment?" is answered with yes, by the learner or by Toggle.
Resume ==
    /\ prompt \in {"continue", "yes"}
    /\ prompt' = "none" /\ deployState' = "loading"
    /\ Replace("opening") /\ resumed' = TRUE
    /\ UNCHANGED <<outcome, standard, extends, step, retries, pending, writes,
                   account>>

Cancel ==
    /\ prompt = "continue"
    /\ prompt' = "close" /\ deployState' = "cancelled"
    /\ Replace("off") /\ step' = "cancel"
    /\ UNCHANGED <<outcome, standard, extends, retries, resumed, pending,
                   writes, account>>

\* Whether to close the buffer and reclaim its SOL.
AnswerClose(yes) ==
    /\ prompt = "close"
    /\ prompt' = "none"
    /\ IF yes
       THEN Begin("close") /\ UNCHANGED <<deployState, outcome>>
       ELSE /\ step' = "over" /\ deployState' = "ready" /\ outcome' = "cancelled"
            /\ UNCHANGED retries
    /\ UNCHANGED <<standard, extends, loader, stray, pending, writes, account>>

-----------------------------------------------------------------------------
(* The chain *)

\* What a transaction of step s does.
Execute(s) ==
    /\ landed' = landed \cup ({s} \cap {"transfer", "extend"})
    /\ buffer' = IF s = "create" THEN "payer"
                 ELSE IF s = "setAuth" THEN "wallet"
                 ELSE IF s \in {"upgrade", "close"} THEN "none" ELSE buffer
    /\ chunks' = IF s \in {"create", "upgrade", "close"} THEN {} ELSE chunks
    /\ program' = IF s = "upgrade" THEN "new" ELSE program

\* Whether a transaction in flight is the last one processDeploy sent, and
\* then what becomes of it.
Settles(s, result) ==
    \/ /\ s = step /\ fate = "pending"
       /\ fate' = result
    \/ /\ pending[s] > (IF s = step /\ fate = "pending" THEN 1 ELSE 0)
       /\ UNCHANGED fate

LandTx(s) ==
    /\ pending[s] > 0 /\ Valid(s)
    /\ pending' = [pending EXCEPT ![s] = @ - 1]
    /\ Execute(s)
    /\ Settles(s, "ok")
    /\ UNCHANGED <<command, step, phase, tries, loader, stray, prompt, writes>>

\* It fails on the chain, or it is dropped or expires.
DropTx(s) ==
    /\ pending[s] > 0
    /\ pending' = [pending EXCEPT ![s] = @ - 1]
    /\ \E result \in {"failed", "lost"} : Settles(s, result)
    /\ UNCHANGED <<command, step, phase, tries, loader, stray, prompt, writes,
                   account>>

LandChunk(c) ==
    /\ c \in writes
    /\ writes' = writes \ {c}
    /\ chunks' = IF buffer = "payer" THEN chunks \cup {c} ELSE chunks
    /\ UNCHANGED <<command, step, retries, loader, stray, prompt, pending,
                   landed, buffer, program>>

DropChunk(c) ==
    /\ c \in writes
    /\ writes' = writes \ {c}
    /\ UNCHANGED <<command, step, retries, loader, stray, prompt, pending,
                   account>>

-----------------------------------------------------------------------------

Learner == Start \/ Toggle \/ Cancel \/ (\E yes \in BOOLEAN : AnswerClose(yes))

Transact == SendTx \/ SendThrows \/ Confirm \/ NotConfirmed

Load ==
    \/ Open \/ Simulate \/ SimulateThrows \/ Stop \/ ReadBuffer \/ Missing
    \/ Loaded \/ Settle
    \/ \E c \in Chunks : SendChunk(c)

Network ==
    \/ \E c \in Chunks : \/ ChunkSent(c) \/ ChunkRefused(c) \/ StrayEnds(c)
                         \/ LandChunk(c) \/ DropChunk(c)
    \/ \E s \in TxSteps : LandTx(s) \/ DropTx(s)

Next ==
    \/ Learner \/ Transact \/ Load \/ Network \/ Resume
    \/ (\E std, ext \in BOOLEAN : Prepare(std, ext)) \/ PrepareThrows

Spec == Init /\ [][Next]_vars

\* What the client does without being asked anything.
Go == Transact \/ Load \/ (prompt = "yes" /\ Resume)
      \/ PrepareThrows \/ \E std, ext \in BOOLEAN : Prepare(std, ext)

\* The client goes on where nobody is asked; requests are answered or time out;
\* of the writes that are sent again and again one is let through and lands.
FairSpec ==
    /\ Spec
    /\ WF_vars(Go)
    /\ WF_vars(\E c \in Chunks : ChunkSent(c) \/ ChunkRefused(c))
    /\ SF_vars(\E c \in Chunks \ (chunks \cup writes) : ChunkSent(c))
    /\ SF_vars(\E c \in Chunks \ chunks : LandChunk(c))

-----------------------------------------------------------------------------
(* Properties *)

\* A deploy or upgrade transaction is only ever sent for a buffer that holds
\* the whole binary and belongs to the wallet that signs, or after the program
\* was replaced: whatever writes were lost, refused, repeated or paused
\* (loadBuffer, setBufferAuthority, processDeploy).
BufferIsReady ==
    step = "upgrade" =>
        program = "new" \/ (buffer = Authority /\ chunks = Chunks)

\* While "Continue deployment?" is open no worker takes another chunk, and the
\* deployment does not go on to the upgrade, even if the last write lands just
\* then (loadBufferWithControl, the abort checks of loadBuffer).
PromptHolds ==
    [][prompt = "continue" =>
          sending' \subseteq sending /\ step' \notin {"setAuth", "upgrade"}]_vars

\* The command ends, or asks the learner something: no lost transaction, rate
\* limit, pause or retry leaves it waiting for nothing (deploy.handle).
CommandEnds == deployState # "ready" ~> (deployState = "ready" \/ prompt # "none")

\* The command keeps what it promises (Deployment): success is said only of a
\* program that was replaced, and nothing replaces it after a cancel.
Promise == INSTANCE Deployment
ImplementsDeployment == Promise!Spec
=============================================================================
