------------------------------ MODULE Registry ------------------------------
(***************************************************************************)
(* What live collaboration promises the agents of a project: a register of *)
(* who owns which path, of the latest revision of every named contract and *)
(* of who took the latest decision under every title.  It knows nothing of *)
(* event logs, sequence numbers or compaction; CoordLog implements it.     *)
(***************************************************************************)
EXTENDS Integers

CONSTANTS
  Agents,   \* the coding agents working on the project
  Paths,    \* project-relative paths an agent may own
  Inside,   \* pairs <<p, d>>: path p lies below directory d
  Names,    \* contract names
  Titles,   \* decision titles
  NoOwner,  \* the owner of a path nobody owns
  NoAgent   \* the author of a decision nobody took

VARIABLES
  owner,     \* the ownership of every path
  revision,  \* the latest revision of every contract, 0 when unpublished
  decided    \* the author of the latest decision under every title

rvars == <<owner, revision, decided>>

Overlap(p, q) == p = q \/ <<p, q>> \in Inside \/ <<q, p>> \in Inside

Init ==
  /\ owner = [p \in Paths |-> NoOwner]
  /\ revision = [n \in Names |-> 0]
  /\ decided = [t \in Titles |-> NoAgent]

\* Nobody else holds an overlapping path, unless both sides only share it.
MayClaim(held, a, ps, mode) ==
  \A p \in ps, q \in Paths :
    (Overlap(p, q) /\ held[q] # NoOwner /\ held[q].agent # a)
       => (mode = "shared" /\ held[q].mode = "shared")

Grant(a, ps, mode) ==
  /\ LET held == owner
     IN  /\ MayClaim(held, a, ps, mode)
         /\ owner' = [p \in Paths |->
                        IF p \in ps THEN [agent |-> a, mode |-> mode] ELSE held[p]]
  /\ UNCHANGED <<revision, decided>>

\* An agent gives up paths; it can take none from another agent.
Yield(a, ps) ==
  /\ LET held == owner
     IN  /\ \A p \in ps : held[p] # NoOwner => held[p].agent = a
         /\ owner' = [p \in Paths |-> IF p \in ps THEN NoOwner ELSE held[p]]
  /\ UNCHANGED <<revision, decided>>

Publish(n) ==
  /\ revision'[n] > revision[n]
  /\ revision' = [revision EXCEPT ![n] = revision'[n]]
  /\ UNCHANGED <<owner, decided>>

Decide(a, t) ==
  /\ decided' = [decided EXCEPT ![t] = a]
  /\ UNCHANGED <<owner, revision>>

Next ==
  \/ \E a \in Agents, ps \in SUBSET Paths :
       \/ \E mode \in {"exclusive", "shared"} : Grant(a, ps, mode)
       \/ Yield(a, ps)
  \/ \E n \in Names : Publish(n)
  \/ \E a \in Agents, t \in Titles : Decide(a, t)

Spec == Init /\ [][Next]_rvars

=============================================================================
