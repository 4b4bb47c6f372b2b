---------------------------- MODULE SystemProgram ----------------------------
(* The instructions of Playnet's system program                              *)
(* (wasm/playnet/src/runtime/system_instruction_processor.rs and             *)
(* nonce_keyed_account.rs): when one succeeds on the accounts s for the      *)
(* signers S, and what it makes of them.  An instruction with a seed is the  *)
(* one without, with a base.                                                 *)
EXTENDS Naturals

CONSTANTS
    Addresses,          \* the public keys in use
    System, Loader,     \* the programs that own accounts
    BaseOf,             \* the base of each address derived from a seed
    MAX_SPACE,          \* MAX_PERMITTED_DATA_LENGTH
    NonceSpace,         \* nonce::State::size()
    MinimumBalance,     \* that makes an account of that size rent exempt
    None

ASSUME SystemAssumption ==
    /\ System # Loader
    /\ DOMAIN BaseOf \subseteq Addresses
    /\ MAX_SPACE \in Nat /\ NonceSpace \in Nat \ {0} /\ MinimumBalance \in Nat

Nonces   == [authority : Addresses, hash : Nat]
Account  == [lamports : Nat, space : Nat, owner : {System, Loader},
             exec : BOOLEAN, nonce : Nonces \cup {None}]
NoAccount == [lamports |-> 0, space |-> 0, owner |-> System,
              exec |-> FALSE, nonce |-> None]

NonceOps == {"initNonce", "advanceNonce", "authorizeNonce", "withdrawNonce",
             "upgradeNonce"}
\* "write" and "deploy" are for the upgradeable loader, "invoke" for a program
\* that was deployed.
Ops == {"transfer", "create", "allocate", "assign", "write", "deploy", "invoke"}
          \cup NonceOps

Instructions == [op : Ops, from : Addresses, to : Addresses,
                 base : Addresses \cup {None}, lamports : Nat, space : Nat,
                 owner : {System, Loader}]

\* Address::is_signer
Signs(address, i, S) == IF i.base = None THEN address \in S ELSE i.base \in S

\* Address::create: an address given with a seed is the derived one.
Derives(address, i) ==
    i.base # None => address \in DOMAIN BaseOf /\ BaseOf[address] = i.base

CanAllocate(s, i, S) ==
    /\ Derives(i.to, i) /\ Signs(i.to, i, S)
    /\ s[i.to].space = 0 /\ s[i.to].owner = System
    /\ i.space <= MAX_SPACE

\* assign, and what the runtime then accepts: a program gives away only
\* accounts of its own.
CanAssign(s, i, S) ==
    /\ Derives(i.to, i)
    /\ s[i.to].owner # i.owner =>
          /\ Signs(i.to, i, S)
          /\ s[i.to].owner = System /\ s[i.to].nonce = None

\* Mutants of CanMove: no check of the balance, or of the receiver.
CanMoveAnything(s, i) ==
    /\ s[i.from].space = 0
    /\ s[i.from].owner = System /\ ~ s[i.to].exec
CanMoveAnywhere(s, i) ==
    /\ s[i.from].space = 0
    /\ i.lamports <= s[i.from].lamports
    /\ s[i.from].owner = System

\* transfer_verified, and what the runtime then accepts: a program debits only
\* accounts of its own, and the lamports of an executable account never change.
CanMove(s, i) ==
    /\ s[i.from].space = 0
    /\ i.lamports <= s[i.from].lamports
    /\ s[i.from].owner = System /\ ~ s[i.to].exec

\* Mutant of CanTransfer: the signature is not looked at.
CanTransferUnsigned(s, i, S) ==
    i.lamports # 0 => Derives(i.from, i) /\ CanMove(s, i)

\* transfer and transfer_with_seed; system_transfer_zero_check is not active.
CanTransfer(s, i, S) ==
    i.lamports # 0 =>
       Signs(i.from, i, S) /\ Derives(i.from, i) /\ CanMove(s, i)

\* create_account: its transfer is the one without a seed.
CanCreate(s, i, S) ==
    /\ s[i.to].lamports = 0
    /\ CanAllocate(s, i, S) /\ CanAssign(s, i, S)
    /\ i.lamports # 0 => i.from \in S /\ CanMove(s, i)

\* Mutant of Moved: both balances are read before either is written.
MovedStale(s, i) ==
    [s EXCEPT ![i.from].lamports = s[i.from].lamports - i.lamports,
              ![i.to].lamports = s[i.to].lamports + i.lamports]

Moved(s, i) ==
    LET paid == [s EXCEPT ![i.from].lamports = @ - i.lamports]
    IN  [paid EXCEPT ![i.to].lamports = @ + i.lamports]

Assigned(s, i)  == [s EXCEPT ![i.to].owner = i.owner]
\* allocate_and_assign; Allocate names the owner the account has, the system.
Allocated(s, i) == [s EXCEPT ![i.to].space = i.space, ![i.to].owner = i.owner]
Created(s, i)   == Moved(Allocated(s, i), i)

\* The nonce instructions, given the sysvars at hand and the hash of the
\* transaction.  i.from is the authority, or the account to withdraw from.
CanNonce(s, i, S, sysvars, hash) ==
    \/ /\ i.op = "initNonce" /\ "recent_blockhashes" \in sysvars
       /\ s[i.to].space >= NonceSpace /\ s[i.to].owner = System
       /\ s[i.to].nonce = None /\ s[i.to].lamports >= MinimumBalance
    \/ /\ i.op = "advanceNonce" /\ "recent_blockhashes" \in sysvars
       /\ s[i.to].nonce # None /\ s[i.to].nonce.hash # hash
       /\ s[i.to].nonce.authority \in S
    \/ /\ i.op = "authorizeNonce" /\ s[i.to].nonce # None
       /\ s[i.to].nonce.authority \in S
    \/ /\ i.op = "withdrawNonce" /\ "recent_blockhashes" \in sysvars
       /\ s[i.from].space >= NonceSpace /\ s[i.from].owner = System
       /\ IF s[i.from].nonce = None
          THEN i.lamports <= s[i.from].lamports /\ i.from \in S
          ELSE /\ s[i.from].nonce.authority \in S
               /\ \/ /\ i.lamports = s[i.from].lamports
                     /\ s[i.from].nonce.hash # hash
                  \/ i.lamports + MinimumBalance <= s[i.from].lamports

Nonced(s, i, hash) ==
    IF i.op = "withdrawNonce"
    THEN Moved(IF i.lamports = s[i.from].lamports
               THEN [s EXCEPT ![i.from].nonce = None] ELSE s, i)
    ELSE [s EXCEPT ![i.to].nonce =
             [authority |-> IF i.op = "advanceNonce" THEN @.authority ELSE i.from,
              hash      |-> IF i.op = "authorizeNonce" THEN @.hash ELSE hash]]

\* get_system_account_kind
SystemAccountKind(account) ==
    IF account.owner # System THEN "none"
    ELSE IF account.space = 0 THEN "system"
    ELSE IF account.space = NonceSpace /\ account.nonce # None THEN "nonce"
    ELSE "none"
=============================================================================
