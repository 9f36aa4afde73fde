----------------------------- MODULE MCCoordLog -----------------------------
(* CoordLog on a small project: a directory, a file in it, two agents. *)
EXTENDS CoordLog, SequencesExt

CONSTANTS a1, a2, dir, file

MCInside == {<<file, dir>>}
MCPathLists == {{dir}, {file}, {dir, file}}
\* ownershipFromEvents as it is written: a replay of the log, event by event.
NoOwners == [p \in Paths |-> NoOwner]
ApplyEvent(owner, e) ==
  [p \in Paths |->
     IF e.type # "ownership" \/ p \notin e.paths THEN owner[p]
     ELSE IF e.mode # "release" THEN [agent |-> e.from, mode |-> e.mode]
     ELSE IF owner[p] # NoOwner /\ owner[p].agent = e.from THEN NoOwner
     ELSE owner[p]]
ApplyLine(owner, n) ==
  IF \E e \in log : e.seq = n THEN ApplyEvent(owner, CHOOSE e \in log : e.seq = n) ELSE owner
ReplayOwnership == FoldLeft(ApplyLine, NoOwners, [i \in 1..(MaxSeq + 1) |-> i - 1])

\* The owner read off the last claim of each path is the one the replay finds.
OwnershipIsReplayed == Ownership(log) = ReplayOwnership

AgentSymmetry == Permutations(Agents)

=============================================================================
