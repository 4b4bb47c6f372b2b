------------------------------ MODULE MCPlaynet ------------------------------
(* Playnet for TLC: two learners' keys, an address derived from the first,   *)
(* a program and its data, and one body for each thing that can be asked.    *)
EXTENDS Playnet, TLC

CONSTANTS key, u1, u2, d1, p1, pd1

MCAddresses   == {key, u1, u2, d1, p1, pd1}
MCBaseOf      == d1 :> u1
MCProgramData == [a \in MCAddresses |-> pd1]

\* An instruction that moves n lamports; the rest is filled in with @@.
I(op, from, to, n) ==
    [op |-> op, from |-> from, to |-> to, base |-> None, lamports |-> n,
     space |-> 0, owner |-> System]
Tx(payer, signers, ixs) ==
    [payer |-> payer, signers |-> signers, ixs |-> ixs, named |-> FALSE]

Pay     == Tx(u1, {u1}, << I("transfer", u1, u2, 1) >>)
PayBack == Tx(u1, {u1, u2},
              << I("transfer", u1, u2, 1), I("transfer", u2, u1, 2) >>)
PaySelf == Tx(u1, {u1}, << I("transfer", u1, u1, 1) >>)
Steal   == Tx(u1, {u1}, << I("transfer", u2, u1, 1) >>)
Spend   == Tx(u2, {u2}, << I("transfer", u2, u1, 1) >>)

NewNonce  == Tx(u1, {u1, u2},
                << [I("create", u1, u2, 1) EXCEPT !.space = NonceSpace],
                   I("initNonce", u1, u2, 0) >>)
Allocate  == Tx(u1, {u1, u2},
                << [I("allocate", u2, u2, 0) EXCEPT !.space = NonceSpace] >>)
InitNonce == Tx(u1, {u1}, << I("initNonce", u1, u2, 0) >>)
Assign    == Tx(u1, {u1, u2}, << [I("assign", u2, u2, 0) EXCEPT !.owner = Loader] >>)

Fund     == Tx(u1, {u1}, << I("transfer", u1, d1, 1) >>)
PaySeed  == Tx(u1, {u1}, Fund.ixs \o
               << [I("transfer", d1, u2, 1) EXCEPT !.base = u1] >>)
Buffer   == Tx(u1, {u1}, << [I("create", u1, d1, 1) EXCEPT
                                !.base = u1, !.space = 1, !.owner = Loader] >>)
Write    == Tx(u1, {u1}, << I("write", u1, d1, 0) >>)
Deploy   == Tx(u1, {u1, p1}, Buffer.ixs \o
               << [I("create", u1, p1, 1) EXCEPT !.space = 1, !.owner = Loader],
                  I("deploy", d1, p1, 0) >>)
Invoke   == Tx(u1, {u1}, << I("invoke", p1, p1, 0) >>)
WritePay == Tx(u1, {u1, u2},
               << [I("create", u1, u2, 0) EXCEPT !.space = 1, !.owner = Loader],
                  I("write", u1, u2, 0), I("transfer", u1, p1, 1) >>)
PayProgram == [Tx(u1, {u1}, << I("transfer", u1, p1, 1) >>) EXCEPT !.named = TRUE]

MoneyBodies == {Pay, PayBack, PaySelf, Steal, Spend, Fund, PaySeed}
AllBodies   == MoneyBodies \cup {NewNonce, Allocate, InitNonce, Assign, Buffer,
                                 Write, Deploy, Invoke, WritePay, PayProgram}
=============================================================================
