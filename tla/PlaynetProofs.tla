---------------------------- MODULE PlaynetProofs ----------------------------
(* Theorems about Playnet, for every set of keys, bodies and callers.        *)
EXTENDS Playnet, TLAPS, FiniteSetTheorems, WellFoundedInduction

\* Accounts as the bank can meet them: no nonce was ever initialised, and what
\* is executable belongs to the loader.
Good(s) ==
    /\ s \in [Addresses -> Account]
    /\ \A a \in Addresses : /\ s[a].nonce = None
                            /\ s[a].exec => s[a].owner = Loader

\* What a transaction signed by S may make of the accounts s.
Fair(s, t, S) ==
    \A a \in Addresses :
       /\ s[a].exec => t[a] = s[a]
       /\ s[a].owner = System /\ ~ Authorised(a, S)
             => t[a].owner = System /\ s[a].lamports <= t[a].lamports

-----------------------------------------------------------------------------
(* The instructions, one by one.                                             *)

\* Accounts that are left alone are fairly changed.
LEMMA FairItself == ASSUME NEW s, NEW S, Good(s) PROVE Fair(s, s, S)
  <1>1. ASSUME NEW a \in Addresses PROVE s[a].lamports <= s[a].lamports
    BY DEF Good, Account
  <1> QED BY <1>1, Zenon DEF Fair

\* A step that is fair after a fair one leaves the accounts fairly changed: what
\* Execute adds to a transaction under way.
LEMMA FairTwice ==
    ASSUME NEW s, NEW t, NEW u, NEW S, Good(s), Good(t), Good(u),
           Fair(s, t, S), Fair(t, u, S)
    PROVE  Fair(s, u, S)
  <1> SUFFICES ASSUME NEW a \in Addresses
               PROVE  /\ s[a].exec => u[a] = s[a]
                      /\ s[a].owner = System /\ ~ Authorised(a, S)
                            => u[a].owner = System /\ s[a].lamports <= u[a].lamports
    BY DEF Fair
  <1>1. s[a].exec => u[a] = s[a]
    BY Zenon DEF Fair
  <1>2. /\ s[a].lamports \in Nat /\ t[a].lamports \in Nat /\ u[a].lamports \in Nat
    BY DEF Good, Account
  <1>3. s[a].owner = System /\ ~ Authorised(a, S)
           => u[a].owner = System /\ s[a].lamports <= u[a].lamports
    <2> SUFFICES ASSUME s[a].owner = System, ~ Authorised(a, S)
                 PROVE  u[a].owner = System /\ s[a].lamports <= u[a].lamports
      OBVIOUS
    <2>1. t[a].owner = System /\ s[a].lamports <= t[a].lamports
      BY Zenon DEF Fair
    <2>2. u[a].owner = System /\ t[a].lamports <= u[a].lamports
      BY <2>1, Zenon DEF Fair
    <2> QED BY <2>1, <2>2, <1>2
  <1> QED BY <1>1, <1>3

\* transfer_verified (system_instruction_processor.rs): moving lamports keeps
\* accounts good, and is fair when the payer signed.
LEMMA MoveLawful ==
    ASSUME NEW s, NEW i \in Instructions, NEW S, Good(s), CanMove(s, i),
           Authorised(i.from, S)
    PROVE  Good(Moved(s, i)) /\ Fair(s, Moved(s, i), S)
  <1> DEFINE p == [s EXCEPT ![i.from].lamports = @ - i.lamports]
             t == [p EXCEPT ![i.to].lamports = @ + i.lamports]
  <1>t. Moved(s, i) = t
    BY DEF Moved
  <1>0. i.from \in Addresses /\ i.to \in Addresses /\ i.lamports \in Nat
    BY DEF Instructions
  <1>1. /\ s[i.from].lamports \in Nat /\ s[i.to].lamports \in Nat
        /\ i.lamports <= s[i.from].lamports
        /\ s[i.from].owner = System /\ ~ s[i.to].exec
    BY <1>0 DEF Good, Account, CanMove
  <1>s. s \in [Addresses -> Account]
    BY DEF Good
  <1>p. p \in [Addresses -> Account]
    BY <1>0, <1>1, <1>s DEF Account
  <1>2. t \in [Addresses -> Account]
    BY <1>0, <1>p DEF Account
  <1>3. ASSUME NEW a \in Addresses
        PROVE  /\ t[a].nonce = s[a].nonce /\ t[a].exec = s[a].exec
               /\ t[a].owner = s[a].owner
               /\ a # i.from => s[a].lamports <= t[a].lamports
               /\ a # i.from /\ a # i.to => t[a] = s[a]
    <2>1. /\ p[a].nonce = s[a].nonce /\ p[a].exec = s[a].exec
          /\ p[a].owner = s[a].owner
          /\ a # i.from => p[a] = s[a]
      BY <1>0, <1>s DEF Account
    <2>2. /\ t[a].nonce = p[a].nonce /\ t[a].exec = p[a].exec
          /\ t[a].owner = p[a].owner
          /\ p[a].lamports <= t[a].lamports
          /\ a # i.to => t[a] = p[a]
      BY <1>0, <1>p DEF Account
    <2> HIDE DEF p, t
    <2> QED BY <2>1, <2>2
  <1>4. System # Loader
    BY SystemAssumption
  <1>5. ~ s[i.from].exec
    BY <1>0, <1>1, <1>4 DEF Good
  <1> HIDE DEF p, t
  <1>6. Good(t)
    <2>1. ASSUME NEW a \in Addresses
          PROVE  t[a].nonce = None /\ (t[a].exec => t[a].owner = Loader)
      BY <1>3, Zenon DEF Good
    <2> QED BY <1>2, <2>1, Zenon DEF Good
  <1>7. Fair(s, t, S)
    <2> SUFFICES ASSUME NEW a \in Addresses
                 PROVE  /\ s[a].exec => t[a] = s[a]
                        /\ s[a].owner = System /\ ~ Authorised(a, S)
                              => t[a].owner = System /\ s[a].lamports <= t[a].lamports
      BY Zenon DEF Fair
    <2>1. s[a].exec => a # i.from /\ a # i.to
      BY <1>1, <1>5, Zenon
    <2>2. ~ Authorised(a, S) => a # i.from
      BY Zenon
    <2> QED BY <1>3, <2>1, <2>2, Zenon
  <1> QED BY <1>t, <1>6, <1>7, Zenon

\* An instruction that moves nothing changes nothing (a transfer of 0).
LEMMA MoveNothing ==
    ASSUME NEW s, NEW i \in Instructions, Good(s), i.lamports = 0
    PROVE  Moved(s, i) = s
  <1> DEFINE p == [s EXCEPT ![i.from].lamports = @ - i.lamports]
  <1>0. i.from \in Addresses /\ i.to \in Addresses
    BY DEF Instructions
  <1>1. s \in [Addresses -> Account]
    BY DEF Good
  <1>2. \A a \in Addresses : s[a].lamports - 0 = s[a].lamports /\ s[a].lamports + 0 = s[a].lamports
    BY <1>1 DEF Account
  <1>3. p = s
    BY <1>0, <1>1, <1>2 DEF Account
  <1>4. [s EXCEPT ![i.to].lamports = @ + i.lamports] = s
    BY <1>0, <1>1, <1>2 DEF Account
  <1> QED BY <1>3, <1>4 DEF Moved

\* Address::is_signer with Address::create: who signs for an address, or for
\* the base that it is derived from, is authorised to use it.
LEMMA SignedIsAuthorised ==
    ASSUME NEW a, NEW i, NEW S, Derives(a, i), Signs(a, i, S)
    PROVE  Authorised(a, S)
  BY DEF Derives, Signs, Authorised

\* Space is allocated in an account that signed.
LEMMA AllocateLawful ==
    ASSUME NEW s, NEW i \in Instructions, NEW S, Good(s), CanAllocate(s, i, S)
    PROVE  /\ Good(Allocated(s, i)) /\ Fair(s, Allocated(s, i), S)
           /\ Authorised(i.to, S)
  <1> DEFINE t == Allocated(s, i)
  <1>0. i.to \in Addresses /\ i.space \in Nat /\ i.owner \in {System, Loader}
    BY DEF Instructions
  <1>1. s \in [Addresses -> Account] /\ s[i.to].owner = System
    BY DEF Good, CanAllocate
  <1>2. Authorised(i.to, S)
    BY SignedIsAuthorised DEF CanAllocate
  <1>3. ~ s[i.to].exec
    BY <1>0, <1>1, SystemAssumption DEF Good
  <1>4. t \in [Addresses -> Account]
    BY <1>0, <1>1 DEF Allocated, Account
  <1>5. ASSUME NEW a \in Addresses
        PROVE  /\ t[a].nonce = s[a].nonce /\ t[a].exec = s[a].exec
               /\ a # i.to => t[a] = s[a]
    BY <1>0, <1>1 DEF Allocated, Account
  <1> HIDE DEF t
  <1>6. Good(t)
    <2>1. ASSUME NEW a \in Addresses
          PROVE  t[a].nonce = None /\ (t[a].exec => t[a].owner = Loader)
      BY <1>3, <1>5, Zenon DEF Good
    <2> QED BY <1>4, <2>1, Zenon DEF Good
  <1>7. Fair(s, t, S)
    <2> SUFFICES ASSUME NEW a \in Addresses
                 PROVE  /\ s[a].exec => t[a] = s[a]
                        /\ s[a].owner = System /\ ~ Authorised(a, S)
                              => t[a].owner = System /\ s[a].lamports <= t[a].lamports
      BY Zenon DEF Fair
    <2>1. (s[a].exec \/ ~ Authorised(a, S)) => t[a] = s[a]
      BY <1>2, <1>3, <1>5, Zenon
    <2>2. s[a].lamports <= s[a].lamports
      BY <1>1 DEF Account
    <2> QED BY <2>1, <2>2, Zenon
  <1> QED BY <1>2, <1>6, <1>7 DEF t

\* assign changes the owner of an account of the system program that signed.
LEMMA AssignLawful ==
    ASSUME NEW s, NEW i \in Instructions, NEW S, Good(s), CanAssign(s, i, S)
    PROVE  Good(Assigned(s, i)) /\ Fair(s, Assigned(s, i), S)
  <1> DEFINE t == Assigned(s, i)
  <1>0. i.to \in Addresses /\ i.owner \in {System, Loader}
    BY DEF Instructions
  <1>1. s \in [Addresses -> Account]
    BY DEF Good
  <1>2. t \in [Addresses -> Account]
    BY <1>0, <1>1 DEF Assigned, Account
  <1>3. ASSUME NEW a \in Addresses
        PROVE  /\ t[a].nonce = s[a].nonce /\ t[a].exec = s[a].exec
               /\ a # i.to => t[a] = s[a]
               /\ s[i.to].owner = i.owner => t[a] = s[a]
    BY <1>0, <1>1 DEF Assigned, Account
  <1>4. s[i.to].owner # i.owner => ~ s[i.to].exec /\ Authorised(i.to, S)
    <2>1. s[i.to].owner # i.owner => Authorised(i.to, S)
      BY SignedIsAuthorised DEF CanAssign
    <2>2. s[i.to].owner # i.owner => ~ s[i.to].exec
      BY <1>0, <1>1, SystemAssumption DEF Good, CanAssign
    <2> QED BY <2>1, <2>2, Zenon
  <1> HIDE DEF t
  <1>6. Good(t)
    <2>1. ASSUME NEW a \in Addresses
          PROVE  t[a].nonce = None /\ (t[a].exec => t[a].owner = Loader)
      BY <1>3, <1>4, Zenon DEF Good
    <2> QED BY <1>2, <2>1, Zenon DEF Good
  <1>7. Fair(s, t, S)
    <2> SUFFICES ASSUME NEW a \in Addresses
                 PROVE  /\ s[a].exec => t[a] = s[a]
                        /\ s[a].owner = System /\ ~ Authorised(a, S)
                              => t[a].owner = System /\ s[a].lamports <= t[a].lamports
      BY Zenon DEF Fair
    <2>1. (s[a].exec \/ ~ Authorised(a, S)) => t[a] = s[a]
      BY <1>3, <1>4, Zenon
    <2>2. s[a].lamports <= s[a].lamports
      BY <1>1 DEF Account
    <2> QED BY <2>1, <2>2, Zenon
  <1> QED BY <1>6, <1>7 DEF t

\* create_account allocates and assigns first, and then moves the lamports.
LEMMA CreateLawful ==
    ASSUME NEW s, NEW i \in Instructions, NEW S, Good(s), CanCreate(s, i, S)
    PROVE  Good(Created(s, i)) /\ Fair(s, Created(s, i), S)
  <1> DEFINE t == Allocated(s, i)
  <1>1. Good(t) /\ Fair(s, t, S)
    BY AllocateLawful DEF CanCreate
  <1>2. Good(Moved(t, i)) /\ Fair(t, Moved(t, i), S)
    <2>1. CASE i.lamports = 0
      <3>1. Moved(t, i) = t
        BY <1>1, <2>1, MoveNothing, Zenon
      <3>2. Fair(t, t, S)
        BY <1>1, FairItself, Zenon
      <3> QED BY <1>1, <3>1, <3>2, Zenon
    <2>2. CASE i.lamports # 0
      <3>0. i.from \in Addresses /\ i.to \in Addresses /\ i.lamports \in Nat
        BY DEF Instructions
      <3>1. CanMove(s, i) /\ i.from \in S /\ s[i.to].lamports = 0
        BY <2>2 DEF CanCreate
      <3>2. i.from # i.to
        BY <2>2, <3>0, <3>1 DEF CanMove
      <3>3. s \in [Addresses -> Account]
        BY DEF Good
      <3>4. t[i.from] = s[i.from] /\ t[i.to].exec = s[i.to].exec
        BY <3>0, <3>2, <3>3 DEF Allocated, Account
      <3>5. CanMove(t, i)
        BY <3>1, <3>4, Zenon DEF CanMove
      <3>6. Authorised(i.from, S)
        BY <3>1 DEF Authorised
      <3> HIDE DEF t
      <3> QED BY <1>1, <3>5, <3>6, MoveLawful, Zenon
    <2> QED BY <2>1, <2>2, Zenon
  <1>3. Fair(s, Moved(t, i), S)
    <2> HIDE DEF t
    <2> QED BY <1>1, <1>2, FairTwice, Zenon
  <1> QED BY <1>2, <1>3, Zenon DEF Created

\* The loader takes a buffer and a program account of its own, and the data
\* account that it signs for.
LEMMA DeployLawful ==
    ASSUME NEW s, NEW i \in Instructions, NEW S, Good(s), CanDeploy(s, i)
    PROVE  Good(Deployed(s, i)) /\ Fair(s, Deployed(s, i), S)
  <1> DEFINE t == Deployed(s, i)
             d == ProgramData[i.to]
  <1>0. i.from \in Addresses /\ i.to \in Addresses
    BY DEF Instructions
  <1>d. d \in Addresses /\ d \in Range(ProgramData)
    BY <1>0, PlaynetAssumption DEF Range
  <1>1. s \in [Addresses -> Account]
    BY DEF Good
  <1>2. /\ s[i.to].owner = Loader /\ ~ s[i.to].exec
        /\ s[i.from].owner = Loader /\ ~ s[i.from].exec
        /\ i.from # i.to /\ i.from # d /\ i.to # d
        /\ ~ s[d].exec
    BY <1>d DEF CanDeploy, Unused, NoAccount
  <1>3. t \in [Addresses -> Account]
    <2>1. /\ [s[i.from] EXCEPT !.lamports = 0, !.space = 0] \in Account
          /\ [s[i.to] EXCEPT !.exec = TRUE] \in Account
      BY <1>0, <1>1 DEF Account
    <2> QED BY <1>0, <1>d, <1>1, <1>2, <2>1 DEF Deployed
  <1>4. ASSUME NEW a \in Addresses
        PROVE  /\ t[a].nonce = s[a].nonce
               /\ t[a].exec => s[a].exec \/ a = i.to
               /\ a # i.from /\ a # i.to /\ a # d => t[a] = s[a]
               /\ a # d => t[a].owner = s[a].owner
               /\ a = d => t[a].owner = Loader
    <2>1. a # i.from /\ a # i.to /\ a # d => t[a] = s[a]
      BY <1>0, <1>d, <1>1, <1>2 DEF Deployed
    <2>2. t[d] = s[i.from]
      BY <1>0, <1>d, <1>1, <1>2 DEF Deployed
    <2>3. t[i.to] = [s[i.to] EXCEPT !.exec = TRUE]
      BY <1>0, <1>d, <1>1, <1>2 DEF Deployed
    <2>4. t[i.from] = [s[i.from] EXCEPT !.lamports = 0, !.space = 0]
      BY <1>0, <1>d, <1>1, <1>2 DEF Deployed
    <2>5. s[i.from].nonce = None /\ s[i.to].nonce = None /\ s[d].nonce = None
      BY <1>0, <1>d, Zenon DEF Good
    <2>6. t[i.to].nonce = s[i.to].nonce /\ t[i.to].owner = s[i.to].owner
      BY <1>0, <1>1, <2>3 DEF Account
    <2>7. /\ t[i.from].nonce = s[i.from].nonce /\ t[i.from].owner = s[i.from].owner
          /\ t[i.from].exec = s[i.from].exec
      BY <1>0, <1>1, <2>4 DEF Account
    <2> HIDE DEF t, d
    <2> QED BY <1>2, <2>1, <2>2, <2>5, <2>6, <2>7, Zenon
  <1>5. System # Loader
    BY SystemAssumption
  <1> HIDE DEF t, d
  <1>6. Good(t)
    <2>1. ASSUME NEW a \in Addresses
          PROVE  t[a].nonce = None /\ (t[a].exec => t[a].owner = Loader)
      BY <1>2, <1>4, Zenon DEF Good
    <2> QED BY <1>3, <2>1, Zenon DEF Good
  <1>7. Fair(s, t, S)
    <2> SUFFICES ASSUME NEW a \in Addresses
                 PROVE  /\ s[a].exec => t[a] = s[a]
                        /\ s[a].owner = System /\ ~ Authorised(a, S)
                              => t[a].owner = System /\ s[a].lamports <= t[a].lamports
      BY Zenon DEF Fair
    <2>1. s[a].exec => t[a] = s[a]
      BY <1>2, <1>4, Zenon
    <2>2. s[a].owner = System /\ ~ Authorised(a, S) => t[a] = s[a]
      BY <1>d, <1>2, <1>4, <1>5, Zenon DEF Authorised
    <2>3. s[a].lamports <= s[a].lamports
      BY <1>1 DEF Account
    <2> QED BY <2>1, <2>2, <2>3, Zenon
  <1> QED BY <1>6, <1>7 DEF t

\* Without the sysvar of the recent blockhashes no nonce instruction succeeds.
LEMMA NoNonceOp ==
    ASSUME NEW s, NEW i \in Instructions, Good(s), CanRun(s, i)
    PROVE  i.op \notin NonceOps
  <1> SUFFICES ASSUME i.op \in NonceOps PROVE FALSE
    OBVIOUS
  <1>1. CanNonce(s, i, Signers, SysvarCache, run.tx.hash)
    BY DEF CanRun, NonceOps
  <1>2. s[i.to].nonce = None
    BY DEF Good, Instructions
  <1>3. "recent_blockhashes" \notin SysvarCache
    BY DEF SysvarCache
  <1> QED BY <1>1, <1>2, <1>3, Zenon DEF CanNonce

\* process_message: whatever instruction succeeds.
LEMMA InstructionLawful ==
    ASSUME NEW s, NEW i \in Instructions, Good(s), CanRun(s, i)
    PROVE  Good(After(s, i)) /\ Fair(s, After(s, i), Signers)
  <1>0. Fair(s, s, Signers)
    BY FairItself, Zenon
  <1>1. CASE i.op = "transfer"
    <2>0. CanTransfer(s, i, Signers) /\ After(s, i) = Moved(s, i)
      BY <1>1 DEF CanRun, After, NonceOps
    <2>1. CASE i.lamports = 0
      BY <1>0, <2>0, <2>1, MoveNothing, Zenon
    <2>2. CASE i.lamports # 0
      <3>1. CanMove(s, i) /\ Authorised(i.from, Signers)
        BY <2>0, <2>2, SignedIsAuthorised, Zenon DEF CanTransfer
      <3> QED BY <2>0, <3>1, MoveLawful, Zenon
    <2> QED BY <2>1, <2>2, Zenon
  <1>2. CASE i.op = "create"
    <2>0. CanCreate(s, i, Signers) /\ After(s, i) = Created(s, i)
      BY <1>2 DEF CanRun, After, NonceOps
    <2> QED BY <2>0, CreateLawful, Zenon
  <1>3. CASE i.op = "allocate"
    <2>0. CanAllocate(s, i, Signers) /\ After(s, i) = Allocated(s, i)
      BY <1>3 DEF CanRun, After, NonceOps
    <2> QED BY <2>0, AllocateLawful, Zenon
  <1>4. CASE i.op = "assign"
    <2>0. CanAssign(s, i, Signers) /\ After(s, i) = Assigned(s, i)
      BY <1>4 DEF CanRun, After, NonceOps
    <2> QED BY <2>0, AssignLawful, Zenon
  <1>5. CASE i.op = "deploy"
    <2>0. CanDeploy(s, i) /\ After(s, i) = Deployed(s, i)
      BY <1>5 DEF CanRun, After, NonceOps
    <2> QED BY <2>0, DeployLawful, Zenon
  <1>6. i.op \notin NonceOps
    BY NoNonceOp
  <1>7. CASE i.op \in {"write", "invoke"}
    <2>0. After(s, i) = s
      BY <1>7 DEF After, NonceOps
    <2> QED BY <1>0, <2>0, Zenon
  <1>8. i.op \in Ops
    BY DEF Instructions
  <1> QED BY <1>1, <1>2, <1>3, <1>4, <1>5, <1>6, <1>7, <1>8 DEF Ops

-----------------------------------------------------------------------------
(* Sums over finite sets. *)

\* h sums f over every subset of S, taking the elements as MapThenSumSet does.
First(s) == CHOOSE x \in s : TRUE
IsSum(h, f, S) ==
    h = [s \in SUBSET S |->
           IF s = {} THEN 0 ELSE f[First(s)] + h[s \ {First(s)}]]
SumOf(f, S) == (CHOOSE h : IsSum(h, f, S))[S]

\* Among sets of elements of a finite set there is a smallest: how a fact about
\* every finite set is proved, by looking at a smallest one without it.
LEMMA Smallest ==
    ASSUME NEW S, IsFiniteSet(S), NEW T, T \subseteq SUBSET S, T # {}
    PROVE  \E s \in T : \A t \in SUBSET s : t # s => t \notin T
  <1>1. T \subseteq FiniteSubsetsOf(S)
    BY FS_Subset DEF FiniteSubsetsOf
  <1>2. PICK s \in T : \A t \in T : <<t, s>> \notin StrictSubsetOrdering(S)
    BY <1>1, WFMin, FS_StrictSubsetOrderingWellFounded
  <1> QED BY <1>2 DEF StrictSubsetOrdering

\* A set that is not empty has a first element.
LEMMA FirstIsIn == ASSUME NEW s, s # {} PROVE First(s) \in s
  BY DEF First

\* Two functions that sum f agree wherever both are defined.
LEMMA SumsAgree ==
    ASSUME NEW f, NEW S, NEW R, IsFiniteSet(S), NEW h, NEW g,
           IsSum(h, f, S), IsSum(g, f, R),
           NEW s, s \subseteq S, s \subseteq R
    PROVE  h[s] = g[s]
  <1> DEFINE T == {t \in SUBSET s : h[t] # g[t]}
  <1>1. SUFFICES ASSUME T # {} PROVE FALSE
    OBVIOUS
  <1>2. PICK t \in T : \A u \in SUBSET t : u # t => u \notin T
    <2>1. T \subseteq SUBSET s /\ IsFiniteSet(s)
      BY FS_Subset
    <2> HIDE DEF T
    <2> QED BY <1>1, <2>1, Smallest
  <1>3. t \subseteq S /\ t \subseteq R /\ h[t] # g[t]
    OBVIOUS
  <1>4. CASE t = {}
    BY <1>3, <1>4 DEF IsSum
  <1>5. CASE t # {}
    <2>1. First(t) \in t
      BY <1>5, FirstIsIn
    <2>2. h[t \ {First(t)}] = g[t \ {First(t)}]
      BY <1>2, <2>1
    <2>3. h[t] = f[First(t)] + h[t \ {First(t)}]
      BY <1>3, <1>5 DEF IsSum
    <2>4. g[t] = f[First(t)] + g[t \ {First(t)}]
      BY <1>3, <1>5 DEF IsSum
    <2> QED BY <1>3, <2>2, <2>3, <2>4
  <1> QED BY <1>4, <1>5

\* The recursive function that a sum is defined with exists.
LEMMA SumExists ==
    ASSUME NEW f, NEW S, IsFiniteSet(S)
    PROVE  \E h : IsSum(h, f, S)
  <1> DEFINE T == {s \in SUBSET S : ~ \E h : IsSum(h, f, s)}
  <1>1. SUFFICES ASSUME T # {} PROVE FALSE
    OBVIOUS
  <1>2. PICK s \in T : \A t \in SUBSET s : t # s => t \notin T
    <2>1. T \subseteq SUBSET S
      OBVIOUS
    <2> HIDE DEF T
    <2> QED BY <1>1, <2>1, Smallest
  <1> DEFINE k(t) == CHOOSE h : IsSum(h, f, t)
             H == [t \in SUBSET s |->
                     IF t = {} THEN 0
                     ELSE f[First(t)] + k(t \ {First(t)})[t \ {First(t)}]]
  <1>3. ASSUME NEW t \in SUBSET s, t # s PROVE IsSum(k(t), f, t)
    BY <1>2, <1>3
  <1>4. ASSUME NEW t \in SUBSET s, t # {}
        PROVE  H[t \ {First(t)}] = k(t \ {First(t)})[t \ {First(t)}]
    <2> DEFINE u == t \ {First(t)}
               v == u \ {First(u)}
    <2>1. u \in SUBSET s /\ u # s
      BY <1>4, FirstIsIn
    <2>2. IsSum(k(u), f, u)
      BY <1>3, <2>1
    <2>3. CASE u = {}
      BY <2>1, <2>2, <2>3 DEF IsSum
    <2>4. CASE u # {}
      <3>1. v \in SUBSET s /\ v # s
        BY <2>1, <2>4, FirstIsIn
      <3>2. IsSum(k(v), f, v)
        BY <1>3, <3>1
      <3>3. k(v)[v] = k(u)[v]
        <4>1. IsFiniteSet(v)
          BY FS_Subset, <3>1
        <4> HIDE DEF k, u
        <4> QED BY <2>2, <3>2, <4>1, SumsAgree
      <3>4. k(u)[u] = f[First(u)] + k(u)[v]
        BY <2>2, <2>4 DEF IsSum
      <3>5. H[u] = f[First(u)] + k(v)[v]
        BY <2>1, <2>4
      <3> QED BY <3>3, <3>4, <3>5
    <2> QED BY <2>3, <2>4
  <1>5. IsSum(H, f, s)
    <2> HIDE DEF k
    <2>1. \A t \in SUBSET s : H[t] = IF t = {} THEN 0 ELSE f[First(t)] + H[t \ {First(t)}]
      BY <1>4
    <2>2. H = [t \in SUBSET s |-> H[t]]
      OBVIOUS
    <2> HIDE DEF H
    <2> QED BY <2>1, <2>2 DEF IsSum
  <1> QED BY <1>5

\* The sum over S is that of its first element and of the rest.
LEMMA SumStep ==
    ASSUME NEW f, NEW S, IsFiniteSet(S)
    PROVE  SumOf(f, S) = IF S = {} THEN 0
                       ELSE f[First(S)] + SumOf(f, S \ {First(S)})
  <1> DEFINE h == CHOOSE h : IsSum(h, f, S)
             u == S \ {First(S)}
             g == CHOOSE g : IsSum(g, f, u)
  <1>1. IsSum(h, f, S) /\ IsSum(g, f, u)
    BY SumExists, FS_Subset
  <1>2. h[u] = g[u]
    <2> HIDE DEF h, g
    <2> QED BY <1>1, SumsAgree
  <1>3. SumOf(f, S) = h[S] /\ SumOf(f, u) = g[u]
    BY DEF SumOf
  <1>4. h[S] = IF S = {} THEN 0 ELSE f[First(S)] + h[u]
    <2> HIDE DEF h
    <2> QED BY <1>1 DEF IsSum
  <1> HIDE DEF h, g
  <1> QED BY <1>2, <1>3, <1>4

\* A sum of naturals is one.
LEMMA SumIsNat ==
    ASSUME NEW S, IsFiniteSet(S), NEW f, \A x \in S : f[x] \in Nat
    PROVE  SumOf(f, S) \in Nat
  <1> DEFINE T == {s \in SUBSET S : SumOf(f, s) \notin Nat}
  <1>1. SUFFICES ASSUME T # {} PROVE FALSE
    OBVIOUS
  <1>2. PICK s \in T : \A t \in SUBSET s : t # s => t \notin T
    <2>1. T \subseteq SUBSET S
      OBVIOUS
    <2> HIDE DEF T
    <2> QED BY <1>1, <2>1, Smallest
  <1>3. SumOf(f, s) = IF s = {} THEN 0 ELSE f[First(s)] + SumOf(f, s \ {First(s)})
    BY SumStep, FS_Subset
  <1>4. s # {} => SumOf(f, s \ {First(s)}) \in Nat /\ f[First(s)] \in Nat
    BY <1>2, FirstIsIn
  <1> QED BY <1>3, <1>4

\* Any element can be taken first.
LEMMA SumRemove ==
    ASSUME NEW S, IsFiniteSet(S), NEW f, \A x \in S : f[x] \in Nat, NEW x \in S
    PROVE  SumOf(f, S) = f[x] + SumOf(f, S \ {x})
  <1> DEFINE T == {s \in SUBSET S : \E y \in s : SumOf(f, s) # f[y] + SumOf(f, s \ {y})}
  <1>1. SUFFICES ASSUME T # {} PROVE FALSE
    OBVIOUS
  <1>2. PICK s \in T : \A t \in SUBSET s : t # s => t \notin T
    <2>1. T \subseteq SUBSET S
      OBVIOUS
    <2> HIDE DEF T
    <2> QED BY <1>1, <2>1, Smallest
  <1>3. PICK y \in s : SumOf(f, s) # f[y] + SumOf(f, s \ {y})
    OBVIOUS
  <1> DEFINE p == First(s)
             r == s \ {p, y}
  <1>4. SumOf(f, s) = f[p] + SumOf(f, s \ {p}) /\ p \in s
    BY <1>3, SumStep, FS_Subset, FirstIsIn
  <1>5. p # y
    BY <1>3, <1>4
  <1>6. SumOf(f, s \ {p}) = f[y] + SumOf(f, r)
    <2>1. (s \ {p}) \ {y} = r
      OBVIOUS
    <2> HIDE DEF p
    <2> QED BY <1>2, <1>3, <1>4, <1>5, <2>1
  <1>7. SumOf(f, s \ {y}) = f[p] + SumOf(f, r)
    <2>1. /\ (s \ {y}) \ {p} = r /\ p \in s \ {y}
          /\ s \ {y} \in SUBSET s /\ s \ {y} # s
      BY <1>4, <1>5
    <2> HIDE DEF p
    <2> QED BY <1>2, <2>1
  <1>8. f[p] \in Nat /\ f[y] \in Nat /\ SumOf(f, r) \in Nat
    <2>1. r \subseteq S
      OBVIOUS
    <2> HIDE DEF r
    <2> QED BY <2>1, <1>4, SumIsNat, FS_Subset
  <1> HIDE DEF p, r
  <1> QED BY <1>3, <1>4, <1>6, <1>7, <1>8

\* A sum depends only on what is summed.
LEMMA SumCongruent ==
    ASSUME NEW S, IsFiniteSet(S), NEW f, NEW g, \A x \in S : f[x] = g[x]
    PROVE  SumOf(f, S) = SumOf(g, S)
  <1> DEFINE T == {s \in SUBSET S : SumOf(f, s) # SumOf(g, s)}
  <1>1. SUFFICES ASSUME T # {} PROVE FALSE
    OBVIOUS
  <1>2. PICK s \in T : \A t \in SUBSET s : t # s => t \notin T
    <2>1. T \subseteq SUBSET S
      OBVIOUS
    <2> HIDE DEF T
    <2> QED BY <1>1, <2>1, Smallest
  <1>3. /\ SumOf(f, s) = IF s = {} THEN 0 ELSE f[First(s)] + SumOf(f, s \ {First(s)})
        /\ SumOf(g, s) = IF s = {} THEN 0 ELSE g[First(s)] + SumOf(g, s \ {First(s)})
    BY SumStep, FS_Subset
  <1>4. s # {} => /\ SumOf(f, s \ {First(s)}) = SumOf(g, s \ {First(s)})
                  /\ f[First(s)] = g[First(s)]
    BY <1>2, FirstIsIn
  <1> QED BY <1>3, <1>4

-----------------------------------------------------------------------------
(* Supply: what each instruction does to the lamports of all accounts.       *)

Lamports(s) == [a \in Addresses |-> s[a].lamports]

\* Supply is the sum of the lamports of all addresses.
LEMMA SupplyIsSum ==
    ASSUME NEW s PROVE Supply(s) = SumOf(Lamports(s), Addresses)
  BY DEF Supply, MapThenSumSet, MapThenFoldSet, SumOf, IsSum, First, Lamports

\* Where no balance changes the supply does not.
LEMMA SameLamports ==
    ASSUME NEW s, NEW t, \A a \in Addresses : t[a].lamports = s[a].lamports
    PROVE  Supply(t) = Supply(s)
  <1>1. Lamports(t) = Lamports(s)
    BY DEF Lamports
  <1> QED BY <1>1, SupplyIsSum

\* What one account loses another gains.
LEMMA LamportsMove ==
    ASSUME NEW s \in [Addresses -> Account], NEW t \in [Addresses -> Account],
           NEW a \in Addresses, NEW b \in Addresses, a # b,
           \A c \in Addresses \ {a, b} : t[c].lamports = s[c].lamports,
           t[a].lamports + t[b].lamports = s[a].lamports + s[b].lamports
    PROVE  Supply(t) = Supply(s)
  <1> DEFINE R == Addresses \ {a, b}
  <1>f. IsFiniteSet(Addresses) /\ IsFiniteSet(Addresses \ {a}) /\ IsFiniteSet(R)
    BY PlaynetAssumption, FS_Subset
  <1>1. ASSUME NEW u \in [Addresses -> Account]
        PROVE  /\ Supply(u) = u[a].lamports + (u[b].lamports + SumOf(Lamports(u), R))
               /\ SumOf(Lamports(u), R) \in Nat
    <2>1. \A c \in Addresses : Lamports(u)[c] \in Nat /\ Lamports(u)[c] = u[c].lamports
      BY DEF Lamports, Account
    <2>2. SumOf(Lamports(u), Addresses)
            = Lamports(u)[a] + SumOf(Lamports(u), Addresses \ {a})
      BY <1>f, <2>1, SumRemove
    <2>3. SumOf(Lamports(u), Addresses \ {a})
            = Lamports(u)[b] + SumOf(Lamports(u), R)
      <3>1. (Addresses \ {a}) \ {b} = R /\ b \in Addresses \ {a}
        OBVIOUS
      <3> HIDE DEF R
      <3> QED BY <1>f, <2>1, <3>1, SumRemove
    <2>4. SumOf(Lamports(u), R) \in Nat
      BY <1>f, <2>1, SumIsNat
    <2> HIDE DEF R
    <2> QED BY <2>1, <2>2, <2>3, <2>4, SupplyIsSum
  <1>2. SumOf(Lamports(t), R) = SumOf(Lamports(s), R)
    <2>1. \A c \in R : Lamports(t)[c] = Lamports(s)[c]
      BY DEF Lamports
    <2> HIDE DEF R
    <2> QED BY <1>f, <2>1, SumCongruent
  <1>3. /\ s[a].lamports \in Nat /\ s[b].lamports \in Nat
        /\ t[a].lamports \in Nat /\ t[b].lamports \in Nat
    BY DEF Account
  <1> HIDE DEF R
  <1> QED BY <1>1, <1>2, <1>3

\* transfer_verified: also when an account pays itself.
LEMMA MoveConserves ==
    ASSUME NEW s, NEW i \in Instructions, Good(s), CanMove(s, i)
    PROVE  Supply(Moved(s, i)) = Supply(s)
  <1> DEFINE p == [s EXCEPT ![i.from].lamports = @ - i.lamports]
             t == [p EXCEPT ![i.to].lamports = @ + i.lamports]
  <1>t. Moved(s, i) = t
    BY DEF Moved
  <1>0. i.from \in Addresses /\ i.to \in Addresses /\ i.lamports \in Nat
    BY DEF Instructions
  <1>1. s \in [Addresses -> Account] /\ i.lamports <= s[i.from].lamports
    BY DEF Good, CanMove
  <1>2. p \in [Addresses -> Account] /\ p[i.from].lamports = s[i.from].lamports - i.lamports
    BY <1>0, <1>1 DEF Account
  <1>3. \A a \in Addresses \ {i.from} : p[a] = s[a]
    BY <1>1
  <1>4. t \in [Addresses -> Account] /\ t[i.to].lamports = p[i.to].lamports + i.lamports
    <2> HIDE DEF p
    <2> QED BY <1>0, <1>2 DEF Account
  <1>5. \A a \in Addresses \ {i.to} : t[a] = p[a]
    BY <1>2
  <1>6. s[i.from].lamports \in Nat /\ s[i.to].lamports \in Nat
    BY <1>0, <1>1 DEF Account
  <1> HIDE DEF p, t
  <1>7. CASE i.from = i.to
    <2>1. t[i.to].lamports = s[i.to].lamports
      BY <1>0, <1>2, <1>4, <1>6, <1>7
    <2>2. \A a \in Addresses : t[a].lamports = s[a].lamports
      BY <1>3, <1>5, <1>7, <2>1
    <2> QED BY <1>t, <2>2, SameLamports
  <1>8. CASE i.from # i.to
    <2>1. \A a \in Addresses \ {i.from, i.to} : t[a].lamports = s[a].lamports
      BY <1>3, <1>5
    <2>2. p[i.to] = s[i.to] /\ t[i.from] = p[i.from]
      BY <1>0, <1>3, <1>5, <1>8
    <2>3. t[i.from].lamports + t[i.to].lamports = s[i.from].lamports + s[i.to].lamports
      BY <1>0, <1>2, <1>4, <1>6, <2>2
    <2> QED BY <1>t, <1>0, <1>1, <1>4, <1>8, <2>1, <2>3, LamportsMove
  <1> QED BY <1>7, <1>8

\* A new account is paid for by the one that creates it.
LEMMA CreateConserves ==
    ASSUME NEW s, NEW i \in Instructions, NEW S, Good(s), CanCreate(s, i, S)
    PROVE  Supply(Created(s, i)) = Supply(s)
  <1> DEFINE t == Allocated(s, i)
  <1>0. i.from \in Addresses /\ i.to \in Addresses /\ i.lamports \in Nat
    BY DEF Instructions
  <1>1. Good(t)
    BY AllocateLawful DEF CanCreate
  <1>2. s \in [Addresses -> Account]
    BY DEF Good
  <1>3. Supply(t) = Supply(s)
    <2>1. \A a \in Addresses : t[a].lamports = s[a].lamports
      BY <1>0, <1>2 DEF Allocated, Account
    <2> HIDE DEF t
    <2> QED BY <2>1, SameLamports
  <1>4. Supply(Moved(t, i)) = Supply(t)
    <2>1. CASE i.lamports = 0
      BY <1>1, <2>1, MoveNothing
    <2>2. CASE i.lamports # 0
      <3>1. CanMove(s, i) /\ s[i.to].lamports = 0
        BY <2>2 DEF CanCreate
      <3>2. i.from # i.to
        BY <2>2, <1>0, <3>1 DEF CanMove
      <3>3. t[i.from] = s[i.from] /\ t[i.to].exec = s[i.to].exec
        BY <1>0, <1>2, <3>2 DEF Allocated, Account
      <3>4. CanMove(t, i)
        BY <3>1, <3>3, Zenon DEF CanMove
      <3> HIDE DEF t
      <3> QED BY <1>1, <3>4, MoveConserves
    <2> QED BY <2>1, <2>2
  <1> QED BY <1>3, <1>4 DEF Created

\* The buffer's lamports go to the data of the program, which had none.
LEMMA DeployConserves ==
    ASSUME NEW s, NEW i \in Instructions, NEW S, Good(s), CanDeploy(s, i)
    PROVE  Supply(Deployed(s, i)) = Supply(s)
  <1> DEFINE t == Deployed(s, i)
             d == ProgramData[i.to]
  <1>0. i.from \in Addresses /\ i.to \in Addresses
    BY DEF Instructions
  <1>1. d \in Addresses /\ d \in Range(ProgramData)
    BY <1>0, PlaynetAssumption DEF Range
  <1>2. s \in [Addresses -> Account]
    BY DEF Good
  <1>3. i.from # i.to /\ i.from # d /\ i.to # d /\ s[d].lamports = 0
    BY <1>1 DEF CanDeploy, NoAccount
  <1>4. t \in [Addresses -> Account]
    BY DeployLawful DEF Good
  <1>5. /\ t[d] = s[i.from]
        /\ t[i.to] = [s[i.to] EXCEPT !.exec = TRUE]
        /\ t[i.from] = [s[i.from] EXCEPT !.lamports = 0, !.space = 0]
        /\ \A a \in Addresses \ {i.from, i.to, d} : t[a] = s[a]
    BY <1>0, <1>1, <1>2, <1>3 DEF Deployed
  <1>6. t[i.to].lamports = s[i.to].lamports /\ t[i.from].lamports = 0
    BY <1>0, <1>2, <1>5 DEF Account
  <1>7. s[i.from].lamports \in Nat
    BY <1>0, <1>2 DEF Account
  <1> HIDE DEF t, d
  <1>8. \A a \in Addresses \ {i.from, d} : t[a].lamports = s[a].lamports
    BY <1>5, <1>6
  <1>9. t[i.from].lamports + t[d].lamports = s[i.from].lamports + s[d].lamports
    BY <1>3, <1>5, <1>6, <1>7
  <1>10. Supply(t) = Supply(s)
    BY <1>0, <1>1, <1>2, <1>3, <1>4, <1>8, <1>9, LamportsMove
  <1> QED BY <1>10 DEF t

\* process_message: no instruction that succeeds makes or destroys lamports.
LEMMA InstructionConserves ==
    ASSUME NEW s, NEW i \in Instructions, Good(s), CanRun(s, i)
    PROVE  Supply(After(s, i)) = Supply(s)
  <1>0. i.to \in Addresses /\ s \in [Addresses -> Account]
    BY DEF Instructions, Good
  <1>1. CASE i.op = "transfer"
    <2>0. CanTransfer(s, i, Signers) /\ After(s, i) = Moved(s, i)
      BY <1>1 DEF CanRun, After, NonceOps
    <2>1. CASE i.lamports = 0
      BY <2>0, <2>1, MoveNothing
    <2>2. CASE i.lamports # 0
      <3>1. CanMove(s, i)
        BY <2>0, <2>2 DEF CanTransfer
      <3> QED BY <2>0, <3>1, MoveConserves
    <2> QED BY <2>1, <2>2
  <1>2. CASE i.op = "create"
    <2>0. CanCreate(s, i, Signers) /\ After(s, i) = Created(s, i)
      BY <1>2 DEF CanRun, After, NonceOps
    <2> QED BY <2>0, CreateConserves
  <1>3. CASE i.op = "allocate"
    <2>0. After(s, i) = Allocated(s, i)
      BY <1>3 DEF CanRun, After, NonceOps
    <2>1. \A a \in Addresses : Allocated(s, i)[a].lamports = s[a].lamports
      BY <1>0 DEF Allocated, Account
    <2> QED BY <2>0, <2>1, SameLamports
  <1>4. CASE i.op = "assign"
    <2>0. After(s, i) = Assigned(s, i)
      BY <1>4 DEF CanRun, After, NonceOps
    <2>1. \A a \in Addresses : Assigned(s, i)[a].lamports = s[a].lamports
      BY <1>0 DEF Assigned, Account
    <2> QED BY <2>0, <2>1, SameLamports
  <1>5. CASE i.op = "deploy"
    <2>0. CanDeploy(s, i) /\ After(s, i) = Deployed(s, i)
      BY <1>5 DEF CanRun, After, NonceOps
    <2> QED BY <2>0, DeployConserves
  <1>6. i.op \notin NonceOps
    BY NoNonceOp
  <1>7. CASE i.op \in {"write", "invoke"}
    BY <1>7 DEF After, NonceOps
  <1>8. i.op \in Ops
    BY DEF Instructions
  <1> QED BY <1>1, <1>2, <1>3, <1>4, <1>5, <1>6, <1>7, <1>8 DEF Ops

-----------------------------------------------------------------------------
(* The inductive invariant.                                                  *)

Hashes ==
    /\ \A c \in Callers : /\ call[c].hash <= latestBlockhash
                          /\ call[c].at # "idle" => call[c].body \in Bodies
    /\ cache # None => cache <= latestBlockhash
    /\ run # None => /\ run.tx.hash <= latestBlockhash
                     /\ run.by = None => run.tx.hash = latestBlockhash
                     /\ run.by # None => call[run.by].body \in Bodies

Lawful ==
    /\ Good(accounts)
    /\ saved # None => Good(saved.accounts)
    /\ run # None => /\ Good(run.s)
                     /\ Fair(accounts, run.s, run.tx.body.signers)

Inv == PlaynetTypeOK /\ LedgerIsDated /\ Hashes /\ Lawful

\* What callers and airdrops send are transactions.
LEMMA BodiesTyped == Bodies \cup AirdropBodies \subseteq TxBodies
  <1>1. ASSUME NEW to \in Receivers PROVE AirdropBody(to) \in TxBodies
    <2>1. /\ AirdropKey \in Addresses /\ to \in Addresses /\ AirdropAmount \in Nat
          /\ System \in {System, Loader} /\ None \in Addresses \cup {None}
      BY PlaynetAssumption
    <2>2. [op |-> "transfer", from |-> AirdropKey, to |-> to,
           base |-> None, lamports |-> AirdropAmount, space |-> 0,
           owner |-> System] \in Instructions
      BY <2>1 DEF Instructions, Ops
    <2> QED BY <2>1, <2>2 DEF AirdropBody, TxBodies
  <1> QED BY <1>1, PlaynetAssumption DEF AirdropBodies

\* A page load only fills the airdrop account.
LEMMA EndowedGood == ASSUME NEW s, Good(s) PROVE Good(Endowed(s))
  <1>1. AirdropKey \in Addresses /\ Endowment \in Nat
    BY PlaynetAssumption
  <1>2. [NoAccount EXCEPT !.lamports = Endowment] \in Account
    BY <1>1 DEF NoAccount, Account
  <1>3. /\ [NoAccount EXCEPT !.lamports = Endowment].nonce = None
        /\ ~ [NoAccount EXCEPT !.lamports = Endowment].exec
    BY DEF NoAccount
  <1>4. s \in [Addresses -> Account]
    BY DEF Good
  <1>5. Endowed(s) \in [Addresses -> Account]
    BY <1>1, <1>2, <1>4 DEF Endowed
  <1>6. ASSUME NEW a \in Addresses
        PROVE  /\ Endowed(s)[a].nonce = None
               /\ Endowed(s)[a].exec => Endowed(s)[a].owner = Loader
    <2>1. a # AirdropKey => Endowed(s)[a] = s[a]
      BY <1>4 DEF Endowed
    <2>2. Endowed(s)[AirdropKey] = [NoAccount EXCEPT !.lamports = Endowment]
      BY <1>1, <1>4 DEF Endowed
    <2> QED BY <1>3, <2>1, <2>2, Zenon DEF Good
  <1> QED BY <1>5, <1>6, Zenon DEF Good

\* The bank of a first page load.
LEMMA NewBankGood == Good(NewBank.accounts)
  <1>1. NoAccount \in Account /\ NoAccount.nonce = None /\ ~ NoAccount.exec
    BY DEF NoAccount, Account
  <1>2. NewBank.accounts = [a \in Addresses |-> NoAccount]
    BY DEF NewBank
  <1> QED BY <1>1, <1>2 DEF Good

\* The invariant holds at first, and each action preserves it.
LEMMA InitInv == Init => Inv
  <1> SUFFICES ASSUME Init PROVE Inv
    OBVIOUS
  <1>1. Good(accounts)
    BY EndowedGood, NewBankGood DEF Init
  <1>2. Lawful
    BY <1>1 DEF Lawful, Init
  <1>3. Idle \in Calls /\ Idle.hash = 0 /\ Idle.at = "idle"
    BY DEF Idle, Calls
  <1>4. DOMAIN txs = {}
    BY DEF Init
  <1>5. LedgerIsDated
    BY <1>4 DEF LedgerIsDated
  <1>6. call \in [Callers -> Calls]
    BY <1>3 DEF Init
  <1>7. PlaynetTypeOK
    BY <1>1, <1>4, <1>6 DEF PlaynetTypeOK, Init, Good
  <1>8. Hashes
    BY <1>3 DEF Hashes, Init
  <1> QED BY <1>2, <1>5, <1>7, <1>8 DEF Inv

-----------------------------------------------------------------------------
(* Every action keeps it.                                                    *)

\* Where the bank and the run stand still, only the calls and the cache matter.
LEMMA CallsStep ==
    ASSUME Inv, UNCHANGED <<bank, run, page>>,
           call' \in [Callers -> Calls], cache' \in Nat \cup {None}, Hashes'
    PROVE  Inv'
  <1> USE DEF bank, page
  <1>1. PlaynetTypeOK'
    BY DEF Inv, PlaynetTypeOK
  <1>2. LedgerIsDated'
    BY DEF Inv, LedgerIsDated
  <1>3. Lawful'
    BY DEF Inv, Lawful
  <1> QED BY <1>1, <1>2, <1>3 DEF Inv

LEMMA StartSendStep ==
    ASSUME Inv, NEW c \in Callers, NEW b \in Bodies, StartSend(c, b)
    PROVE  Inv'
  <1> USE DEF bank, page
  <1> DEFINE r == [Idle EXCEPT !.at = "prepare", !.body = b]
  <1>0. Idle \in Calls /\ Idle.hash = 0
    BY DEF Idle, Calls
  <1>1. r \in Calls /\ r.hash = 0 /\ r.body = b
    BY <1>0 DEF Calls
  <1>2. call \in [Callers -> Calls] /\ latestBlockhash \in Nat
    BY DEF Inv, PlaynetTypeOK
  <1>3. /\ call' = [call EXCEPT ![c] = r]
        /\ run = None /\ UNCHANGED <<bank, run, page, cache>>
    BY DEF StartSend
  <1> HIDE DEF r
  <1>4. call' \in [Callers -> Calls]
    BY <1>1, <1>2, <1>3
  <1>5. Hashes'
    BY <1>1, <1>2, <1>3 DEF Inv, Hashes
  <1>6. cache' \in Nat \cup {None}
    BY <1>3 DEF Inv, PlaynetTypeOK
  <1> QED BY <1>3, <1>4, <1>5, <1>6, CallsStep

LEMMA PrepareStep ==
    ASSUME Inv, NEW c \in Callers, Prepare(c)
    PROVE  Inv'
  <1> USE DEF bank, page
  <1> DEFINE h == IF cache = None \/ call[c].force THEN latestBlockhash ELSE cache
  <1>1. /\ call \in [Callers -> Calls] /\ latestBlockhash \in Nat
        /\ cache \in Nat \cup {None}
    BY DEF Inv, PlaynetTypeOK
  <1>2. h \in Nat /\ h <= latestBlockhash
    BY <1>1 DEF Inv, Hashes
  <1>3. /\ call' = [call EXCEPT ![c].at = "signed", ![c].hash = h]
        /\ cache' = h /\ run = None /\ UNCHANGED <<bank, run, page>>
    BY DEF Prepare
  <1>4. call[c].body \in Bodies
    BY DEF Inv, Hashes, Prepare
  <1> HIDE DEF h
  <1>5. call' \in [Callers -> Calls]
    BY <1>1, <1>2, <1>3 DEF Calls
  <1>6. ASSUME NEW d \in Callers
        PROVE  /\ call'[d].hash <= latestBlockhash
               /\ call'[d].at # "idle" => call'[d].body \in Bodies
    BY <1>1, <1>2, <1>3, <1>4 DEF Inv, Hashes, Calls
  <1>7. Hashes'
    BY <1>2, <1>3, <1>6 DEF Inv, Hashes
  <1> QED BY <1>2, <1>3, <1>5, <1>7, CallsStep

LEMMA ExpireStep == ASSUME Inv, ExpireCache PROVE Inv'
  <1> USE DEF bank, page
  <1>1. Hashes'
    BY DEF Inv, Hashes, ExpireCache
  <1>2. call' \in [Callers -> Calls] /\ cache' \in Nat \cup {None}
    BY DEF Inv, PlaynetTypeOK, ExpireCache
  <1> QED BY <1>1, <1>2, CallsStep DEF ExpireCache

\* A run that starts: a transaction on a blockhash of the chain, and the bank's
\* own accounts.
LEMMA RunStarts ==
    ASSUME Inv, NEW by \in Callers \cup {None}, NEW t \in AllTxs,
           t.hash <= latestBlockhash, by = None => t.hash = latestBlockhash,
           run' = [by |-> by, s |-> accounts, next |-> 1, tx |-> t],
           UNCHANGED <<bank, page, cache>>,
           call' \in [Callers -> Calls], by # None => call'[by].body \in Bodies,
           \A c \in Callers : /\ call'[c].hash <= latestBlockhash
                              /\ call'[c].at # "idle" => call'[c].body \in Bodies
    PROVE  Inv'
  <1> USE DEF bank, page
  <1>1. run' \in Runs /\ run'.tx = t /\ run'.by = by /\ run'.s = accounts
    BY DEF Runs, Inv, PlaynetTypeOK
  <1>2. PlaynetTypeOK'
    BY <1>1 DEF Inv, PlaynetTypeOK
  <1>3. LedgerIsDated'
    BY DEF Inv, LedgerIsDated
  <1>4. Hashes'
    BY <1>1 DEF Inv, Hashes
  <1>5. Good(accounts) /\ Fair(accounts, accounts, t.body.signers)
    BY FairItself DEF Inv, Lawful
  <1>6. Lawful'
    BY <1>1, <1>5 DEF Inv, Lawful
  <1> QED BY <1>2, <1>3, <1>4, <1>6 DEF Inv

LEMMA SubmitStep ==
    ASSUME Inv, NEW c \in Callers, Submit(c)
    PROVE  Inv'
  <1> USE DEF bank, page
  <1>1. /\ call \in [Callers -> Calls] /\ latestBlockhash \in Nat
        /\ cache' = cache /\ cache \in Nat \cup {None}
        /\ UNCHANGED <<bank, page>>
    BY DEF Inv, PlaynetTypeOK, Submit
  <1>2. call[c].body \in Bodies /\ call[c].hash \in Nat /\ call[c].hash <= latestBlockhash
    BY <1>1 DEF Inv, Hashes, Submit, Calls
  <1>3. CASE Loads(accounts, call[c].body)
    <2> DEFINE t == [body |-> call[c].body, hash |-> call[c].hash]
    <2>1. t \in AllTxs /\ t.hash = call[c].hash
      BY <1>2 DEF AllTxs, Txs
    <2>2. /\ run' = [by |-> c, s |-> accounts, next |-> 1, tx |-> t]
          /\ call' = [call EXCEPT ![c].at = "running"]
      BY <1>3 DEF Submit
    <2>3. call' \in [Callers -> Calls]
      BY <1>1, <2>2 DEF Calls
    <2>4. ASSUME NEW d \in Callers
          PROVE  /\ call'[d].hash <= latestBlockhash
                 /\ call'[d].at # "idle" => call'[d].body \in Bodies
      BY <1>1, <1>2, <2>2 DEF Inv, Hashes, Calls
    <2>5. c # None /\ call'[c].body \in Bodies
      BY <1>1, <1>2, <2>2, PlaynetAssumption DEF Calls
    <2> HIDE DEF t
    <2> QED BY <1>1, <1>2, <2>1, <2>2, <2>3, <2>4, <2>5, RunStarts
  <1>4. CASE ~ Loads(accounts, call[c].body)
    <2>1. call' = [call EXCEPT ![c] = Idle] /\ run = None /\ run' = run
      BY <1>4 DEF Submit
    <2>2. Idle \in Calls /\ Idle.hash = 0 /\ Idle.at = "idle"
      BY DEF Idle, Calls
    <2>3. Hashes'
      BY <1>1, <2>1, <2>2 DEF Inv, Hashes
    <2>4. call' \in [Callers -> Calls]
      BY <1>1, <2>1, <2>2
    <2> QED BY <1>1, <2>1, <2>3, <2>4, CallsStep
  <1> QED BY <1>3, <1>4

LEMMA AirdropStep ==
    ASSUME Inv, NEW to \in Receivers, RequestAirdrop(to)
    PROVE  Inv'
  <1> USE DEF bank, page
  <1> DEFINE t == [body |-> AirdropBody(to), hash |-> latestBlockhash]
  <1>1. t \in AllTxs /\ t.hash = latestBlockhash
    BY DEF AllTxs, Txs, AirdropBodies, Inv, PlaynetTypeOK
  <1>2. /\ run' = [by |-> None, s |-> accounts, next |-> 1, tx |-> t]
        /\ UNCHANGED <<bank, page, cache, call>>
    BY DEF RequestAirdrop
  <1>3. call' \in [Callers -> Calls] /\ latestBlockhash \in Nat
    BY <1>2 DEF Inv, PlaynetTypeOK
  <1>4. \A c \in Callers : /\ call'[c].hash <= latestBlockhash
                           /\ call'[c].at # "idle" => call'[c].body \in Bodies
    BY <1>2 DEF Inv, Hashes
  <1> HIDE DEF t
  <1> QED BY <1>1, <1>2, <1>3, <1>4, RunStarts

\* What is known of a run under way.
LEMMA RunTyped ==
    ASSUME Inv, run # None
    PROVE  /\ run \in Runs /\ run.tx \in AllTxs
           /\ run.tx.body \in Bodies \cup AirdropBodies
           /\ run.tx.body.ixs \in Seq(Instructions)
           /\ run.s \in [Addresses -> Account] /\ run.next \in Nat \ {0}
           /\ run.by \in Callers \cup {None}
           /\ run.tx.hash \in Nat
  <1>1. run \in Runs
    BY DEF Inv, PlaynetTypeOK
  <1>2. run.tx \in AllTxs /\ run.s \in [Addresses -> Account]
        /\ run.next \in Nat \ {0} /\ run.by \in Callers \cup {None}
    BY <1>1 DEF Runs
  <1>3. run.tx.body \in Bodies \cup AirdropBodies /\ run.tx.hash \in Nat
    BY <1>2 DEF AllTxs, Txs
  <1>4. run.tx.body \in TxBodies
    BY <1>3, BodiesTyped
  <1>5. run.tx.body.ixs \in Seq(Instructions)
    BY <1>4 DEF TxBodies
  <1> QED BY <1>1, <1>2, <1>3, <1>5

LEMMA ExecuteStep == ASSUME Inv, Execute PROVE Inv'
  <1> USE DEF bank, page
  <1>0. run # None /\ Running
    BY DEF Execute, Running
  <1>1. /\ run \in Runs /\ run.tx.body.ixs \in Seq(Instructions)
        /\ run.s \in [Addresses -> Account] /\ run.next \in Nat \ {0}
    BY <1>0, RunTyped
  <1>2. Ix \in Instructions
    <2>1. run.next \in 1 .. Len(run.tx.body.ixs)
      BY <1>0, <1>1 DEF Running
    <2> QED BY <1>1, <2>1 DEF Ix
  <1>3. Good(run.s) /\ Good(accounts) /\ Fair(accounts, run.s, Signers)
    BY <1>0 DEF Inv, Lawful, Signers
  <1> DEFINE t == After(run.s, Ix)
  <1>4. Good(t) /\ Fair(run.s, t, Signers)
    BY <1>2, <1>3, InstructionLawful DEF Execute
  <1>5. /\ run' = [run EXCEPT !.s = t, !.next = @ + 1]
        /\ UNCHANGED <<bank, page, cache, call>>
    BY DEF Execute
  <1> HIDE DEF t
  <1>6. Fair(accounts, t, Signers)
    BY <1>3, <1>4, FairTwice, Zenon
  <1>s. t \in [Addresses -> Account]
    BY <1>4 DEF Good
  <1>n. run.next + 1 \in Nat \ {0}
    BY <1>1
  <1>7. /\ run' \in Runs /\ run'.tx = run.tx /\ run'.by = run.by /\ run'.s = t
    <2>1. run' = [[run EXCEPT !.s = t] EXCEPT !.next = run.next + 1]
      BY <1>1, <1>5 DEF Runs
    <2>2. [run EXCEPT !.s = t] \in Runs
      BY <1>1, <1>s DEF Runs
    <2> QED BY <1>1, <1>n, <2>1, <2>2 DEF Runs
  <1>8. PlaynetTypeOK'
    BY <1>5, <1>7 DEF Inv, PlaynetTypeOK
  <1>9. LedgerIsDated'
    BY <1>5 DEF Inv, LedgerIsDated
  <1>10. Hashes'
    BY <1>0, <1>5, <1>7 DEF Inv, Hashes
  <1>11. Lawful'
    BY <1>4, <1>5, <1>6, <1>7 DEF Inv, Lawful, Signers
  <1> QED BY <1>8, <1>9, <1>10, <1>11 DEF Inv

LEMMA RefuseStep == ASSUME Inv, Refuse PROVE Inv'
  <1> USE DEF bank, page
  <1>1. /\ run' = None /\ UNCHANGED <<bank, page, cache>>
        /\ call' = [c \in Callers |-> IF c = run.by THEN Idle ELSE call[c]]
    BY DEF Refuse
  <1>2. Idle \in Calls /\ Idle.hash = 0 /\ Idle.at = "idle"
    BY DEF Idle, Calls
  <1>3. call \in [Callers -> Calls] /\ latestBlockhash \in Nat
    BY DEF Inv, PlaynetTypeOK
  <1>4. call' \in [Callers -> Calls]
    BY <1>1, <1>2, <1>3
  <1>5. PlaynetTypeOK'
    BY <1>1, <1>4 DEF Inv, PlaynetTypeOK
  <1>6. LedgerIsDated'
    BY <1>1 DEF Inv, LedgerIsDated
  <1>7. Hashes'
    BY <1>1, <1>2, <1>3 DEF Inv, Hashes
  <1>8. Lawful'
    BY <1>1 DEF Inv, Lawful
  <1> QED BY <1>5, <1>6, <1>7, <1>8 DEF Inv

LEMMA CommitStep == ASSUME Inv, Commit PROVE Inv'
  <1> USE DEF bank, page
  <1> DEFINE t    == run.tx
             done == \E i \in Ixs(t.body) : i.op = "write"
             new  == ~ done /\ t \notin DOMAIN txs
             r(c) == [(IF done \/ new THEN Idle
                       ELSE [call[c] EXCEPT !.at = "prepare", !.force = TRUE])
                      EXCEPT !.applied = IF call[c].applied = 0 THEN 1 ELSE 2]
  <1>1. /\ run # None /\ accounts' = run.s /\ run' = None
        /\ txs' = IF new THEN [x \in DOMAIN txs \cup {t} |->
                                  IF x = t THEN slot ELSE txs[x]] ELSE txs
        /\ slot' = IF new THEN NewSlot(slot) ELSE slot
        /\ latestBlockhash' = IF new THEN NewSlot(latestBlockhash)
                                     ELSE latestBlockhash
        /\ call' = [c \in Callers |-> IF c # run.by THEN call[c] ELSE r(c)]
        /\ UNCHANGED <<page, cache>>
    BY Zenon DEF Commit
  <1>2. t \in AllTxs /\ t.hash \in Nat /\ t.hash <= latestBlockhash
        /\ run.s \in [Addresses -> Account]
    BY <1>1, RunTyped DEF Inv, Hashes
  <1> HIDE DEF done, new, t
  <1>3. /\ call \in [Callers -> Calls] /\ latestBlockhash \in Nat /\ slot \in Nat
        /\ DOMAIN txs \subseteq AllTxs /\ \A x \in DOMAIN txs : txs[x] \in Nat
    BY DEF Inv, PlaynetTypeOK
  <1>4. latestBlockhash' \in Nat /\ latestBlockhash <= latestBlockhash' /\ slot' \in Nat
    <2>1. CASE new
      <3>1. slot' = slot + 1 /\ latestBlockhash' = latestBlockhash + 1
        BY <1>1, <2>1, Zenon DEF NewSlot
      <3> QED BY <1>3, <3>1
    <2>2. CASE ~ new
      <3>1. slot' = slot /\ latestBlockhash' = latestBlockhash
        BY <1>1, <2>2, Zenon
      <3> QED BY <1>3, <3>1
    <2> QED BY <2>1, <2>2, Zenon
  <1>5. ASSUME NEW c \in Callers
        PROVE  /\ r(c) \in Calls /\ r(c).hash <= latestBlockhash
               /\ r(c).at # "idle" => r(c).body = call[c].body /\ ~ (done \/ new)
    <2>1. call[c] \in Calls /\ call[c].hash <= latestBlockhash
      BY <1>3 DEF Inv, Hashes
    <2>0. (IF call[c].applied = 0 THEN 1 ELSE 2) \in 0 .. 2
      OBVIOUS
    <2>2. CASE done \/ new
      <3>1. r(c) = [Idle EXCEPT !.applied = IF call[c].applied = 0 THEN 1 ELSE 2]
        BY <2>2
      <3>2. Idle \in Calls /\ Idle.hash = 0 /\ Idle.at = "idle"
        BY DEF Idle, Calls
      <3> HIDE DEF r
      <3> QED BY <1>3, <2>0, <3>1, <3>2 DEF Calls
    <2>3. CASE ~ (done \/ new)
      <3>1. r(c) = [[call[c] EXCEPT !.at = "prepare", !.force = TRUE]
                    EXCEPT !.applied = IF call[c].applied = 0 THEN 1 ELSE 2]
        BY <2>3
      <3> HIDE DEF r
      <3> QED BY <2>0, <2>1, <2>3, <3>1 DEF Calls
    <2> QED BY <2>2, <2>3
  <1> HIDE DEF r
  <1>6. call' \in [Callers -> Calls]
    BY <1>1, <1>3, <1>5
  <1>7. PlaynetTypeOK'
    <2>1. /\ accounts' \in [Addresses -> Account] /\ run' = None
      BY <1>1, <1>2
    <2>2. DOMAIN txs' \subseteq AllTxs /\ \A x \in DOMAIN txs' : txs'[x] \in Nat
      BY <1>1, <1>2, <1>3
    <2> QED BY <1>1, <1>4, <1>6, <2>1, <2>2 DEF Inv, PlaynetTypeOK
  <1>8. LedgerIsDated'
    <2>1. CASE new
      <3>1. /\ slot' = slot + 1 /\ latestBlockhash' = latestBlockhash + 1
            /\ DOMAIN txs' = DOMAIN txs \cup {t} /\ txs'[t] = slot
            /\ \A x \in DOMAIN txs : x # t => txs'[x] = txs[x]
        BY <1>1, <2>1 DEF NewSlot
      <3>2. \A x \in DOMAIN txs : /\ txs[x] < slot /\ x.hash < latestBlockhash
                                  /\ x.hash \in Nat
        BY <1>3 DEF Inv, LedgerIsDated, AllTxs, Txs
      <3>3. \A x \in DOMAIN txs' : txs'[x] < slot' /\ x.hash < latestBlockhash'
        BY <1>2, <1>3, <3>1, <3>2
      <3>4. ASSUME NEW x \in DOMAIN txs', NEW y \in DOMAIN txs', txs'[x] = txs'[y]
            PROVE  x = y
        <4>1. CASE x = t /\ y # t
          BY <1>3, <3>1, <3>2, <3>4, <4>1
        <4>2. CASE x # t /\ y = t
          BY <1>3, <3>1, <3>2, <3>4, <4>2
        <4>3. CASE x # t /\ y # t
          BY <3>1, <3>4, <4>3, Zenon DEF Inv, LedgerIsDated
        <4> QED BY <4>1, <4>2, <4>3
      <3> QED BY <3>3, <3>4 DEF LedgerIsDated
    <2>2. CASE ~ new
      BY <1>1, <2>2 DEF Inv, LedgerIsDated
    <2> QED BY <2>1, <2>2
  <1>9. Hashes'
    <2>1. ASSUME NEW c \in Callers
          PROVE  /\ call'[c].hash <= latestBlockhash'
                 /\ call'[c].at # "idle" => call'[c].body \in Bodies
      <3>1. call[c].hash \in Nat /\ call[c].hash <= latestBlockhash
        BY <1>3 DEF Inv, Hashes, Calls
      <3>2. CASE c # run.by
        BY <1>1, <1>3, <1>4, <3>1, <3>2 DEF Inv, Hashes
      <3>3. CASE c = run.by
        <4>1. call'[c] = r(c)
          BY <1>1, <3>3
        <4>2. r(c).hash \in Nat
          BY <1>5 DEF Calls
        <4>3. r(c).at # "idle" => call[c].body \in Bodies
          BY <1>1, <1>5, <3>3, PlaynetAssumption, Zenon DEF Inv, Hashes
        <4> QED BY <1>3, <1>4, <1>5, <4>1, <4>2, <4>3
      <3> QED BY <3>2, <3>3
    <2>2. cache \in Nat \cup {None} /\ cache' = cache
      BY <1>1 DEF Inv, PlaynetTypeOK
    <2>3. cache' # None => cache' <= latestBlockhash'
      BY <1>3, <1>4, <2>2 DEF Inv, Hashes
    <2> QED BY <1>1, <2>1, <2>3 DEF Hashes
  <1>10. Lawful'
    BY <1>1 DEF Inv, Lawful
  <1> QED BY <1>7, <1>8, <1>9, <1>10 DEF Inv

LEMMA SaveStep == ASSUME Inv, Save PROVE Inv'
  <1> USE DEF bank, page
  <1>1. /\ saved' = [accounts |-> accounts, slot |-> slot,
                     latestBlockhash |-> latestBlockhash]
        /\ UNCHANGED <<bank, run, starts, cache, call>>
    BY DEF Save
  <1>2. saved' \in Snapshots /\ saved'.accounts = accounts
    BY <1>1 DEF Snapshots, Inv, PlaynetTypeOK
  <1>3. PlaynetTypeOK'
    BY <1>1, <1>2 DEF Inv, PlaynetTypeOK
  <1>4. LedgerIsDated'
    BY <1>1 DEF Inv, LedgerIsDated
  <1>5. Hashes'
    BY <1>1 DEF Inv, Hashes
  <1>6. Lawful'
    BY <1>1, <1>2 DEF Inv, Lawful
  <1> QED BY <1>3, <1>4, <1>5, <1>6 DEF Inv

\* The page that is loaded again has no calls, no cache and no ledger.
LEMMA RestartStep == ASSUME Inv, Restart PROVE Inv'
  <1> USE DEF bank, page
  <1> DEFINE Loadable == {NewBank, IF saved = None THEN NewBank ELSE saved}
  <1>1. PICK b \in Loadable :
           /\ accounts' = Endowed(b.accounts)
           /\ slot' = b.slot /\ latestBlockhash' = b.latestBlockhash
    BY DEF Restart
  <1>2. /\ txs' = << >> /\ starts' = starts + 1
        /\ saved' = (IF starts' < MaxStarts THEN saved ELSE None)
        /\ cache' = None /\ call' = [c \in Callers |-> Idle] /\ run = None
        /\ run' = run
    BY DEF Restart
  <1>3. NewBank.slot = 0 /\ NewBank.latestBlockhash = 0
    BY DEF NewBank
  <1>4. Good(b.accounts) /\ b.slot \in Nat /\ b.latestBlockhash \in Nat
    <2>1. CASE b = NewBank
      BY <1>3, <2>1, NewBankGood
    <2>2. CASE b = saved /\ saved # None
      <3>1. saved \in Snapshots
        BY <2>2 DEF Inv, PlaynetTypeOK
      <3> QED BY <2>2, <3>1 DEF Inv, Lawful, Snapshots
    <2> QED BY <2>1, <2>2
  <1>5. Good(accounts')
    BY <1>1, <1>4, EndowedGood, Zenon
  <1>6. Idle \in Calls /\ Idle.hash = 0 /\ Idle.at = "idle"
    BY DEF Idle, Calls
  <1>7. PlaynetTypeOK'
    <2>1. accounts' \in [Addresses -> Account]
      BY <1>5 DEF Good
    <2>2. DOMAIN txs' = {}
      BY <1>2
    <2>3. call' \in [Callers -> Calls]
      BY <1>2, <1>6
    <2>4. saved' \in Snapshots \cup {None} /\ starts' \in Nat
      BY <1>2 DEF Inv, PlaynetTypeOK
    <2> QED BY <1>1, <1>2, <1>4, <2>1, <2>2, <2>3, <2>4 DEF PlaynetTypeOK
  <1>8. LedgerIsDated'
    BY <1>2 DEF LedgerIsDated
  <1>9. Hashes'
    BY <1>1, <1>2, <1>4, <1>6 DEF Hashes
  <1>10. Lawful'
    BY <1>2, <1>5 DEF Inv, Lawful
  <1> QED BY <1>7, <1>8, <1>9, <1>10 DEF Inv

\* The endpoint that is changed and changed back keeps slot, blockhash and cache.
LEMMA ReopenStep == ASSUME Inv, Reopen PROVE Inv'
  <1> USE DEF bank, page
  <1>1. /\ accounts' = Endowed(accounts) /\ txs' = << >>
        /\ starts' = starts + 1
        /\ saved' = IF starts' < MaxStarts
                    THEN [accounts |-> accounts, slot |-> slot,
                          latestBlockhash |-> latestBlockhash]
                    ELSE None
        /\ call' = [c \in Callers |-> Idle] /\ run = None
        /\ UNCHANGED <<slot, latestBlockhash, run, cache>>
    BY DEF Reopen
  <1>2. Good(accounts) /\ Good(accounts')
    <2>1. Good(accounts)
      BY DEF Inv, Lawful
    <2> QED BY <1>1, <2>1, EndowedGood, Zenon
  <1>3. /\ saved' \in Snapshots \cup {None}
        /\ saved' # None => saved'.accounts = accounts
    BY <1>1 DEF Snapshots, Inv, PlaynetTypeOK
  <1>4. Idle \in Calls /\ Idle.hash = 0 /\ Idle.at = "idle"
    BY DEF Idle, Calls
  <1>5. PlaynetTypeOK'
    <2>1. accounts' \in [Addresses -> Account]
      BY <1>2 DEF Good
    <2>2. DOMAIN txs' = {}
      BY <1>1
    <2>3. call' \in [Callers -> Calls]
      BY <1>1, <1>4
    <2>4. starts' \in Nat
      BY <1>1 DEF Inv, PlaynetTypeOK
    <2> QED BY <1>1, <1>3, <2>1, <2>2, <2>3, <2>4 DEF Inv, PlaynetTypeOK
  <1>6. LedgerIsDated'
    BY <1>1 DEF LedgerIsDated
  <1>7. Hashes'
    <2>1. \A c \in Callers : /\ call'[c].hash <= latestBlockhash'
                             /\ call'[c].at = "idle"
      BY <1>1, <1>4 DEF Inv, PlaynetTypeOK
    <2>2. cache' # None => cache' <= latestBlockhash'
      BY <1>1 DEF Inv, Hashes
    <2> QED BY <1>1, <2>1, <2>2 DEF Hashes
  <1>8. Lawful'
    BY <1>1, <1>2, <1>3 DEF Lawful
  <1> QED BY <1>5, <1>6, <1>7, <1>8 DEF Inv

LEMMA NextInv == Inv /\ [Next]_vars => Inv'
  <1> SUFFICES ASSUME Inv, [Next]_vars PROVE Inv'
    OBVIOUS
  <1>1. ASSUME NEW c \in Callers, Await(c) PROVE Inv'
    BY <1>1, PrepareStep, SubmitStep DEF Await
  <1>2. ASSUME NEW c \in Callers, NEW b \in Bodies, StartSend(c, b) PROVE Inv'
    BY <1>2, StartSendStep
  <1>3. ASSUME NEW to \in Receivers, RequestAirdrop(to) PROVE Inv'
    BY <1>3, AirdropStep
  <1>4. CASE Finish
    BY <1>4, ExecuteStep, RefuseStep, CommitStep DEF Finish
  <1>5. CASE ExpireCache \/ Save \/ Restart \/ Reopen
    BY <1>5, ExpireStep, SaveStep, RestartStep, ReopenStep
  <1>6. CASE UNCHANGED vars
    <2>1. UNCHANGED <<bank, run, page>> /\ call' = call /\ cache' = cache
      BY <1>6 DEF vars
    <2>2. call' \in [Callers -> Calls] /\ cache' \in Nat \cup {None}
      BY <2>1 DEF Inv, PlaynetTypeOK
    <2>3. Hashes'
      BY <2>1 DEF Inv, Hashes, bank
    <2> QED BY <2>1, <2>2, <2>3, CallsStep
  <1> QED BY <1>1, <1>2, <1>3, <1>4, <1>5, <1>6 DEF Next

\* Types, dates, blockhashes and lawful accounts hold in every reachable state.
THEOREM PlaynetInvariant == Spec => []Inv
  <1> QED BY InitInv, NextInv, PTL DEF Spec

-----------------------------------------------------------------------------
(* What follows.                                                             *)

\* PlaynetTypeOK: in particular no balance and no count of the bank (bank.rs)
\* ever falls below 0.
THEOREM PlaynetTyped == Spec => []PlaynetTypeOK
  <1>1. Inv => PlaynetTypeOK
    BY DEF Inv
  <1> QED BY <1>1, PlaynetInvariant, PTL

\* LedgerIsDated: save_tx and new_slot give each transaction a slot of its own,
\* older than the bank's (bank.rs).
THEOREM LedgerDated == Spec => []LedgerIsDated
  <1>1. Inv => LedgerIsDated
    BY DEF Inv
  <1> QED BY <1>1, PlaynetInvariant, PTL

\* AirdropIsFresh: airdrop (bank.rs) signs the latest blockhash, on which nothing
\* in the ledger was signed.
THEOREM AirdropFresh == Spec => []AirdropIsFresh
  <1>1. Inv => AirdropIsFresh
    <2> SUFFICES ASSUME Inv, run # None, run.by = None, run.tx \in DOMAIN txs
                 PROVE  FALSE
      BY DEF AirdropIsFresh
    <2>1. run.tx.hash < latestBlockhash
      BY DEF Inv, LedgerIsDated
    <2>2. run.tx.hash = latestBlockhash /\ latestBlockhash \in Nat
      BY DEF Inv, Hashes, PlaynetTypeOK
    <2> QED BY <2>1, <2>2
  <1> QED BY <1>1, PlaynetInvariant, PTL

\* NonceIsUnreachable: without the sysvar of the recent blockhashes no nonce is
\* initialised, and the todo!() of validate_fee_payer (bank.rs) is not reached.
THEOREM NonceUnreachable == Spec => []NonceIsUnreachable
  <1>1. Inv => NonceIsUnreachable
    BY DEF Inv, Lawful, Good, NonceIsUnreachable, SystemAccountKind
  <1> QED BY <1>1, PlaynetInvariant, PTL

\* What a step does to the accounts while the page is not loaded again
\* and the bank not reopened.
LEMMA AccountsStep ==
    ASSUME Inv, [Next]_vars, starts' = starts
    PROVE  accounts' = accounts \/ (Commit /\ Fair(accounts, accounts', Signers))
  <1> USE DEF bank, page
  <1>1. CASE Commit
    <2>1. run # None /\ accounts' = run.s
      BY <1>1 DEF Commit
    <2> QED BY <1>1, <2>1 DEF Inv, Lawful, Signers
  <1>2. ASSUME Restart \/ Reopen PROVE FALSE
    BY <1>2 DEF Restart, Reopen, Inv, PlaynetTypeOK
  <1>3. CASE Execute \/ Refuse \/ ExpireCache \/ Save
    BY <1>3 DEF Execute, Refuse, ExpireCache, Save
  <1>4. ASSUME NEW c \in Callers, Await(c) PROVE accounts' = accounts
    BY <1>4 DEF Await, Prepare, Submit
  <1>5. ASSUME NEW c \in Callers, NEW b \in Bodies, StartSend(c, b)
        PROVE  accounts' = accounts
    BY <1>5 DEF StartSend
  <1>6. ASSUME NEW to \in Receivers, RequestAirdrop(to) PROVE accounts' = accounts
    BY <1>6 DEF RequestAirdrop
  <1>7. CASE UNCHANGED vars
    BY <1>7 DEF vars
  <1> QED BY <1>1, <1>2, <1>3, <1>4, <1>5, <1>6, <1>7 DEF Next, Finish

\* OnlySignersPay: no account of the system program loses lamports, or changes
\* hands, by a transaction it did not sign (system_instruction_processor.rs).
THEOREM SignersPay == Spec => OnlySignersPay
  <1>1. Inv /\ [Next]_vars =>
          [starts' = starts =>
            \A a \in Addresses :
              /\ accounts[a].owner = System
              /\ \/ accounts'[a].lamports < accounts[a].lamports
                 \/ accounts'[a].owner # System
              => Authorised(a, Signers)]_vars
    <2> SUFFICES ASSUME Inv, [Next]_vars, starts' = starts,
                        NEW a \in Addresses, accounts[a].owner = System,
                        \/ accounts'[a].lamports < accounts[a].lamports
                        \/ accounts'[a].owner # System
                 PROVE  Authorised(a, Signers)
      OBVIOUS
    <2>1. accounts[a].lamports \in Nat
      BY DEF Inv, PlaynetTypeOK, Account
    <2>2. CASE accounts' = accounts
      BY <2>1, <2>2
    <2>3. CASE Commit /\ Fair(accounts, accounts', Signers)
      <3>1. accounts'[a].lamports \in Nat
        BY NextInv DEF Inv, PlaynetTypeOK, Account
      <3> QED BY <2>1, <2>3, <3>1 DEF Fair
    <2> QED BY <2>2, <2>3, AccountsStep
  <1> QED BY <1>1, PlaynetInvariant, PTL DEF Spec, OnlySignersPay

\* ProgramsStay: what is executable is never written (bank.rs, load_tx_accounts).
THEOREM ProgramsStayPut == Spec => ProgramsStay
  <1>1. Inv /\ [Next]_vars =>
          [starts' = starts =>
            \A a \in Addresses :
              accounts[a].exec => accounts'[a] = accounts[a]]_vars
    BY AccountsStep, Zenon DEF Fair
  <1> QED BY <1>1, PlaynetInvariant, PTL DEF Spec, ProgramsStay

-----------------------------------------------------------------------------
(* The supply.                                                               *)

\* What a transaction under way has made of its copy is worth as much.
RunConserves == run # None => Supply(run.s) = Supply(accounts)

\* A copy being executed has the supply it started with.
LEMMA RunConservesStep ==
    ASSUME Inv, RunConserves, [Next]_vars
    PROVE  RunConserves'
  <1> USE DEF bank, page
  <1>1. CASE Execute
    <2>1. /\ run # None /\ run' = [run EXCEPT !.s = After(run.s, Ix), !.next = @ + 1]
          /\ CanRun(run.s, Ix) /\ accounts' = accounts
      BY <1>1 DEF Execute, Running
    <2>2. Ix \in Instructions /\ run \in Runs
      BY <1>1, <2>1, RunTyped DEF Execute, Running, Ix, Inv, PlaynetTypeOK
    <2>3. run'.s = After(run.s, Ix)
      BY <2>1, <2>2 DEF Runs
    <2>4. Good(run.s)
      BY <2>1 DEF Inv, Lawful
    <2>5. Supply(After(run.s, Ix)) = Supply(run.s)
      BY <2>1, <2>2, <2>4, InstructionConserves
    <2> QED BY <2>1, <2>3, <2>5 DEF RunConserves
  <1>2. CASE Refuse \/ Commit
    BY <1>2 DEF Refuse, Commit, RunConserves
  <1>3. CASE ExpireCache \/ Save \/ Restart \/ Reopen
    BY <1>3 DEF ExpireCache, Save, Restart, Reopen, RunConserves
  <1>4. ASSUME NEW c \in Callers, Await(c) PROVE RunConserves'
    BY <1>4 DEF Await, Prepare, Submit, RunConserves
  <1>5. ASSUME NEW c \in Callers, NEW b \in Bodies, StartSend(c, b)
        PROVE  RunConserves'
    BY <1>5 DEF StartSend, RunConserves
  <1>6. ASSUME NEW to \in Receivers, RequestAirdrop(to) PROVE RunConserves'
    BY <1>6 DEF RequestAirdrop, RunConserves
  <1>7. CASE UNCHANGED vars
    BY <1>7 DEF vars, RunConserves
  <1> QED BY <1>1, <1>2, <1>3, <1>4, <1>5, <1>6, <1>7 DEF Next, Finish

\* LamportsConserved: whatever instructions a transaction has, it makes and
\* destroys no lamports; only a page load sets the airdrop account anew (bank.rs,
\* system_instruction_processor.rs).
THEOREM SupplyConserved == Spec => LamportsConserved
  <1>1. Init => RunConserves
    BY DEF Init, RunConserves
  <1>2. Inv /\ RunConserves /\ [Next]_vars
           => [starts' = starts => Supply(accounts') = Supply(accounts)]_vars
    <2> SUFFICES ASSUME Inv, RunConserves, [Next]_vars, starts' = starts
                 PROVE  Supply(accounts') = Supply(accounts)
      OBVIOUS
    <2>1. CASE accounts' = accounts
      BY <2>1
    <2>2. CASE Commit
      BY <2>2 DEF Commit, RunConserves
    <2> QED BY <2>1, <2>2, AccountsStep
  <1> QED BY <1>1, <1>2, PlaynetInvariant, RunConservesStep, PTL
          DEF Spec, LamportsConserved

=============================================================================
