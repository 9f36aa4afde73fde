------------------------------ MODULE MCManaged ------------------------------
(***************************************************************************)
(* Instances of Managed: two packages that provide the same unit of one    *)
(* agent, and a second unit of the first of them.                          *)
(***************************************************************************)
EXTENDS Managed, TLC

CONSTANTS x, y

MCPackages == {"p", "q"}
MCProvides == [p |-> {"u", "w"}, q |-> {"u"}]
MCBefore == {<<"q", "p">>}
MCPinned == [p |-> 1, q |-> 2]
Commands == {x, y}
Symmetric == Permutations(Commands)
=============================================================================
