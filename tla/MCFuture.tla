------------------------------ MODULE MCFuture ------------------------------
(* Small programs of futures and a chain for TLC.                          *)
EXTENDS CallbackChain

Body0 == [kind |-> "call", of |-> <<>>]
Then(f) == [kind |-> "then", of |-> <<f>>]
All(list) == [kind |-> "all", of |-> list]
Join(list) == [kind |-> "join", of |-> list]

\* Two bodies, a continuation of one, and a join of them, of one of them twice, of
\* a list with a null in it, or of none; then a continuation of the join.
Pipelines == {<<Body0, Body0, All(<<1, 2>>), Then(3)>>,
              <<Body0, Then(1), All(<<2, 1>>)>>,
              <<Body0, Then(1), Then(1)>>,
              <<Body0, All(<<1, 1>>), Then(2)>>,
              <<Body0, All(<<1, 0>>), Then(2)>>,
              <<All(<<>>), Then(1)>>}

\* A blocking join, which needs a worker of its own.
Joins == {<<Body0, Then(1), Join(<<2, 1>>)>>, <<Body0, Body0, Join(<<1, 2>>)>>}

\* A chain of three invocations.
Start == [kind |-> "start", of |-> <<>>]
Chains == {<<Start, Then(1), Then(1), Then(1)>>}

Programs == Pipelines \cup Joins \cup Chains
=============================================================================
