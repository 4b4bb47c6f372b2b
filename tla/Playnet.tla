------------------------------- MODULE Playnet -------------------------------
(* Playnet (wasm/playnet/src): the chain that runs in the page, its RPC, and *)
(* the page that sends it transactions (client/src/utils/tx.ts) and saves it *)
(* (client/src/utils/playnet/playnet.ts).                                    *)
(*                                                                           *)
(* The bank runs one transaction at a time, to the end: between Submit or    *)
(* RequestAirdrop and Commit or Refuse the variable run holds its copy of    *)
(* the accounts, and nobody else moves.                                      *)
EXTENDS SystemProgram, Sequences, FiniteSetsExt, Functions

CONSTANTS
    Callers,            \* the calls of PgTx.send under way at once
    Bodies,             \* what the learner's pages send
    Receivers,          \* who asks for airdrops
    AirdropKey, Endowment, AirdropAmount,
    ProgramData,        \* the address of the data of each program address
    MaxSlot, MaxStarts  \* bounds: a last slot for new sends, page loads

\* named: the message has the loader's key, as any instruction may ask for.
TxBodies == [payer : Addresses, signers : SUBSET Addresses,
             ixs : Seq(Instructions), named : BOOLEAN]

ASSUME PlaynetAssumption ==
    /\ Bodies \subseteq TxBodies
    /\ IsFiniteSet(Addresses)   \* the accounts of a bank are a map
    /\ Receivers \subseteq Addresses /\ AirdropKey \in Addresses \ Receivers
    /\ Endowment \in Nat /\ AirdropAmount \in Nat
    /\ ProgramData \in [Addresses -> Addresses]
    /\ MaxSlot \in Nat /\ MaxStarts \in Nat
    /\ None \notin Callers \cup Addresses
    \* only the bank has the key that signs airdrops
    /\ \A b \in Bodies : AirdropKey \notin b.signers

VARIABLES
    accounts, txs, slot, latestBlockhash,   \* PgBank; a hash is its place in the chain
    run,      \* the transaction being executed, or None
    saved,    \* the data in IndexedDB, or None
    starts,   \* page loads
    cache,    \* the blockhash PgTx has cached, or None
    call      \* each call of PgTx.send, and how often its instructions have
              \* taken effect: not at all, once, or (2) more often

bank == <<accounts, txs, slot, latestBlockhash>>
page == <<saved, starts>>
vars == <<bank, run, page, cache, call>>

\* A transaction is known by its signature, that is by what was signed.
Txs(bodies) == [body : bodies, hash : Nat]
\* airdrop: the transfer that the bank signs
AirdropBody(to) ==
    [payer |-> AirdropKey, signers |-> {AirdropKey}, named |-> FALSE,
     ixs |-> << [op |-> "transfer", from |-> AirdropKey, to |-> to,
                 base |-> None, lamports |-> AirdropAmount, space |-> 0,
                 owner |-> System] >>]
AirdropBodies == { AirdropBody(to) : to \in Receivers }
AllTxs == Txs(Bodies \cup AirdropBodies)

Snapshots == [accounts : [Addresses -> Account], slot : Nat,
              latestBlockhash : Nat]
Runs  == [by : Callers \cup {None}, tx : AllTxs,
          s : [Addresses -> Account], next : Nat \ {0}]
Calls == [at : {"idle", "prepare", "signed", "running"},
          body : Bodies \cup {None}, hash : Nat, force : BOOLEAN,
          applied : 0 .. 2]
Idle  == [at |-> "idle", body |-> None, hash |-> 0, force |-> FALSE,
          applied |-> 0]

PlaynetTypeOK ==
    /\ accounts \in [Addresses -> Account]
    /\ DOMAIN txs \subseteq AllTxs
    /\ \A t \in DOMAIN txs : txs[t] \in Nat
    /\ slot \in Nat /\ latestBlockhash \in Nat
    /\ run \in Runs \cup {None}
    /\ saved \in Snapshots \cup {None} /\ starts \in Nat
    /\ cache \in Nat \cup {None}
    /\ call \in [Callers -> Calls]

-----------------------------------------------------------------------------
(* A new bank: only the airdrop account has lamports; its balance is set     *)
(* anew at every start.  The native and sysvar accounts never change and are *)
(* left out; the sysvars at hand are the ones put in the cache.              *)
FullSysvarCache == {"clock", "rent", "recent_blockhashes"}   \* a mutant
SysvarCache == {"clock", "rent"}
Endowed(s)  == [s EXCEPT ![AirdropKey] = [NoAccount EXCEPT !.lamports = Endowment]]
NewBank == [accounts |-> [a \in Addresses |-> NoAccount], slot |-> 0,
            latestBlockhash |-> 0]

Init ==
    /\ accounts = Endowed(NewBank.accounts)
    /\ txs = << >> /\ slot = 0 /\ latestBlockhash = 0
    /\ run = None
    /\ saved = None /\ starts = 0
    /\ cache = None
    /\ call = [c \in Callers |-> Idle]

-----------------------------------------------------------------------------
(* PgTx.send and the loading of a transaction.                               *)

Ixs(b)     == { b.ixs[k] : k \in DOMAIN b.ixs }
\* is_upgradeable_loader_present
ToLoader(b) == b.named \/ \E i \in Ixs(b) : i.op \in {"write", "deploy"}
Writable(b) == {b.payer} \cup UNION { {i.from, i.to} :
                                  i \in { j \in Ixs(b) : j.op # "invoke" } }
\* load_executable_accounts: a program and its data are there.
Executable(s, a) == s[a].exec /\ s[ProgramData[a]] # NoAccount

\* load_tx_accounts with the fee 0
Loads(s, b) ==
    /\ s[b.payer].lamports > 0
    /\ SystemAccountKind(s[b.payer]) = "system"
    /\ \A a \in Writable(b) :
          s[a].owner = Loader =>
             ToLoader(b) /\ (s[a].exec => Executable(s, a))
    /\ \A i \in Ixs(b) : i.op = "invoke" => Executable(s, i.to)

\* A learner sends; what the call did before is forgotten.
StartSend(c, b) ==
    /\ run = None /\ call[c].at = "idle" /\ slot < MaxSlot
    /\ call' = [call EXCEPT ![c] = [Idle EXCEPT !.at = "prepare", !.body = b]]
    /\ UNCHANGED <<bank, run, page, cache>>

\* Mutant of Prepare: a new blockhash is not forced.
PrepareCached(c) ==
    /\ run = None /\ call[c].at = "prepare"
    /\ LET hash == IF cache = None THEN latestBlockhash ELSE cache
       IN  /\ cache' = hash
           /\ call' = [call EXCEPT ![c].at = "signed", ![c].hash = hash]
    /\ UNCHANGED <<bank, run, page>>

\* _prepareTx: the blockhash is taken from the cache unless it is forced.
Prepare(c) ==
    /\ run = None /\ call[c].at = "prepare"
    /\ LET hash == IF cache = None \/ call[c].force THEN latestBlockhash
                   ELSE cache
       IN  /\ cache' = hash
           /\ call' = [call EXCEPT ![c].at = "signed", ![c].hash = hash]
    /\ UNCHANGED <<bank, run, page>>

\* The cached blockhash is older than 45 seconds.
ExpireCache ==
    /\ run = None /\ cache # None
    /\ cache' = None
    /\ UNCHANGED <<bank, run, page, call>>

\* send_transaction up to execute_loaded_tx
Submit(c) ==
    /\ run = None /\ call[c].at = "signed"
    /\ IF Loads(accounts, call[c].body)
       THEN /\ run' = [by |-> c, s |-> accounts, next |-> 1,
                       tx |-> [body |-> call[c].body, hash |-> call[c].hash]]
            /\ call' = [call EXCEPT ![c].at = "running"]
       ELSE /\ call' = [call EXCEPT ![c] = Idle]
            /\ UNCHANGED run
    /\ UNCHANGED <<bank, page, cache>>

RequestAirdrop(to) ==
    /\ run = None /\ slot < MaxSlot
    /\ Loads(accounts, AirdropBody(to))
    /\ run' = [by |-> None, s |-> accounts, next |-> 1,
               tx |-> [body |-> AirdropBody(to), hash |-> latestBlockhash]]
    /\ UNCHANGED <<bank, page, cache, call>>

-----------------------------------------------------------------------------
(* process_message: one instruction after the other.                         *)

Running == run # None /\ run.next <= Len(run.tx.body.ixs)
Ix      == run.tx.body.ixs[run.next]
Signers == run.tx.body.signers

\* The write and deploy instructions of the upgradeable loader (external): the
\* buffer i.from becomes the data of the program i.to.
Unused(account) == account.owner = Loader /\ ~ account.exec /\ account.space > 0
CanWrite(s, i)  == Unused(s[i.to]) /\ i.to \notin Range(ProgramData)
CanDeploy(s, i) ==
    /\ Unused(s[i.to]) /\ Unused(s[i.from]) /\ i.from # i.to
    /\ {i.from, i.to} \cap Range(ProgramData) = {}
    /\ s[ProgramData[i.to]] = NoAccount
Deployed(s, i) ==
    LET data == ProgramData[i.to]
    IN  [s EXCEPT ![i.to].exec = TRUE,
                  ![i.from] = [@ EXCEPT !.lamports = 0, !.space = 0],
                  ![data] = s[i.from]]

CanRun(s, i) ==
    \/ i.op = "transfer" /\ CanTransfer(s, i, Signers)
    \/ i.op = "create"   /\ CanCreate(s, i, Signers)
    \/ i.op = "allocate" /\ CanAllocate(s, i, Signers) /\ CanAssign(s, i, Signers)
    \/ i.op = "assign"   /\ CanAssign(s, i, Signers)
    \/ i.op \in NonceOps /\ CanNonce(s, i, Signers, SysvarCache, run.tx.hash)
    \/ i.op = "write"    /\ CanWrite(s, i)
    \/ i.op = "deploy"   /\ CanDeploy(s, i)
    \/ i.op = "invoke"

\* The accounts after the instruction; a write changes only contents, and the
\* program that is invoked changes nothing.
After(s, i) ==
    IF i.op = "transfer" THEN Moved(s, i)
    ELSE IF i.op = "create" THEN Created(s, i)
    ELSE IF i.op = "allocate" THEN Allocated(s, i)
    ELSE IF i.op = "assign" THEN Assigned(s, i)
    ELSE IF i.op \in NonceOps THEN Nonced(s, i, run.tx.hash)
    ELSE IF i.op = "deploy" THEN Deployed(s, i) ELSE s

Execute ==
    /\ Running /\ CanRun(run.s, Ix)
    /\ run' = [run EXCEPT !.s = After(run.s, Ix), !.next = @ + 1]
    /\ UNCHANGED <<bank, page, cache, call>>

\* The first error drops the transaction; PgTx.send throws.
Refuse ==
    /\ Running /\ ~ CanRun(run.s, Ix)
    /\ run' = None
    /\ call' = [c \in Callers |-> IF c = run.by THEN Idle ELSE call[c]]
    /\ UNCHANGED <<bank, page, cache>>

\* new_slot: the slot and the blockhash go on together; the mutant forgets it.
SameSlot(n) == n
NewSlot(n)  == n + 1

\* process_tx: the accounts are set, then save_tx keeps the transaction and
\* opens the next slot, unless it has a Write or its signature is known.  To the
\* latter PgTx.send answers by sending again with a new blockhash.
Commit ==
    LET t    == run.tx
        done == \E i \in Ixs(t.body) : i.op = "write"
        new  == ~ done /\ t \notin DOMAIN txs
    IN  /\ run # None /\ run.next > Len(t.body.ixs)
        /\ accounts' = run.s
        /\ txs' = IF new THEN [x \in DOMAIN txs \cup {t} |->
                                  IF x = t THEN slot ELSE txs[x]]
                         ELSE txs
        /\ slot' = IF new THEN NewSlot(slot) ELSE slot
        /\ latestBlockhash' = IF new THEN NewSlot(latestBlockhash)
                                     ELSE latestBlockhash
        /\ call' = [c \in Callers |->
              IF c # run.by THEN call[c]
              ELSE [(IF done \/ new THEN Idle
                     ELSE [call[c] EXCEPT !.at = "prepare", !.force = TRUE])
                    EXCEPT !.applied = IF call[c].applied = 0 THEN 1 ELSE 2]]
        /\ run' = None
        /\ UNCHANGED <<page, cache>>

-----------------------------------------------------------------------------
(* Saving and loading; txs is not part of the data.  As a bound, nothing is  *)
(* saved that no later page load reads.                                      *)

Save ==
    /\ run = None /\ starts < MaxStarts
    /\ saved' = [accounts |-> accounts, slot |-> slot,
                 latestBlockhash |-> latestBlockhash]
    /\ UNCHANGED <<bank, run, starts, cache, call>>

\* The page is loaded again; data that cannot be read gives a new bank.
Restart ==
    /\ run = None /\ starts < MaxStarts
    /\ \E b \in {NewBank, IF saved = None THEN NewBank ELSE saved} :
          /\ accounts' = Endowed(b.accounts)
          /\ slot' = b.slot /\ latestBlockhash' = b.latestBlockhash
    /\ txs' = << >>
    /\ starts' = starts + 1
    /\ saved' = IF starts' < MaxStarts THEN saved ELSE None
    /\ cache' = None /\ call' = [c \in Callers |-> Idle]
    /\ UNCHANGED run

\* The endpoint is changed and changed back: destroy saves the bank, init makes
\* one of what was saved.  PgTx keeps its blockhash; a call under way ends at the
\* old bank, whose accounts nobody reads any more.
Reopen ==
    /\ run = None /\ starts < MaxStarts
    /\ accounts' = Endowed(accounts) /\ txs' = << >>
    /\ starts' = starts + 1
    /\ saved' = IF starts' < MaxStarts
                THEN [accounts |-> accounts, slot |-> slot,
                      latestBlockhash |-> latestBlockhash]
                ELSE None
    /\ call' = [c \in Callers |-> Idle]
    /\ UNCHANGED <<slot, latestBlockhash, run, cache>>

-----------------------------------------------------------------------------
Await(c) == Prepare(c) \/ Submit(c)
Finish   == Execute \/ Refuse \/ Commit

Next ==
    \/ \E c \in Callers : Await(c) \/ \E b \in Bodies : StartSend(c, b)
    \/ \E to \in Receivers : RequestAirdrop(to)
    \/ Finish
    \/ ExpireCache \/ Save \/ Restart \/ Reopen

Spec == Init /\ [][Next]_vars

\* The bank runs to the end, and the answers of the RPC arrive, one after the
\* other whoever else the bank serves meanwhile.
FairSpec == Spec /\ WF_vars(Finish) /\ \A c \in Callers : SF_vars(Await(c))

-----------------------------------------------------------------------------
(* Properties.                                                               *)

Supply(s) == MapThenSumSet(LAMBDA a : s[a].lamports, Addresses)

\* Every transaction the bank keeps is older than its slot and has a slot of its
\* own, and was signed on an older blockhash than the latest: the confirmations
\* that get_signature_statuses computes as an unsigned difference never
\* underflow, and a blockhash fetched now gives a signature never seen.
LedgerIsDated ==
    /\ \A t \in DOMAIN txs : txs[t] < slot /\ t.hash < latestBlockhash
    /\ \A t, u \in DOMAIN txs : txs[t] = txs[u] => t = u

\* Two airdrops of one amount to one account are never one transaction, although
\* the bank signs the same transfer: request_airdrop never answers that it was
\* already processed.
AirdropIsFresh ==
    run # None /\ run.by = None => run.tx \notin DOMAIN txs

\* validate_fee_payer never meets an initialised nonce account, for which it has
\* only a todo!() that would take the page's chain down.
NonceIsUnreachable ==
    \A a \in Addresses : SystemAccountKind(accounts[a]) # "nonce"

\* The lamports and the owner of an account of the system program change to its
\* loss only by a transaction that it, or the base it is derived from, signed.
Authorised(a, S) ==
    \/ a \in S \/ (a \in DOMAIN BaseOf /\ BaseOf[a] \in S)
    \/ a \in Range(ProgramData)   \* the loader signs for these
OnlySignersPay ==
    [][starts' = starts =>
          \A a \in Addresses :
             /\ accounts[a].owner = System
             /\ \/ accounts'[a].lamports < accounts[a].lamports
                \/ accounts'[a].owner # System
             => Authorised(a, Signers)]_vars

\* The account of a deployed program is never changed by a transaction again,
\* whatever other programs are asked to do with it.
ProgramsStay ==
    [][starts' = starts =>
          \A a \in Addresses :
             accounts[a].exec => accounts'[a] = accounts[a]]_vars

\* Between two page loads no transaction makes or destroys lamports.
LamportsConserved ==
    [][starts' = starts => Supply(accounts') = Supply(accounts)]_vars

\* What PgTx.send is asked to send takes effect at most once.
SendAppliesOnce == \A c \in Callers : call[c].applied < 2

\* PgTx.send ends: the transaction it sends again after a refusal as already
\* processed is in the end a new one.
SendEnds == \A c \in Callers : call[c].at # "idle" ~> call[c].at = "idle"
=============================================================================
