------------------------------ MODULE TaskBoard ------------------------------
(***************************************************************************)
(* What the handoff log (src/core/delegation/handoff.ts) promises to those *)
(* who pass work through it: a job is posted once, however often its       *)
(* dispatch is retried, and a posted job is settled once.                  *)
(***************************************************************************)
EXTENDS Naturals, Sequences, SequencesExt

CONSTANT Jobs   \* what may be posted

VARIABLES
  posted,    \* the jobs, in the order of the log
  settled    \* the numbers of the posted jobs that were settled, in order

BoardInit == posted = <<>> /\ settled = <<>>

Post ==
  /\ posted' # <<>> /\ Front(posted') = posted
  /\ Last(posted') \in Jobs /\ ~Contains(posted, Last(posted'))
  /\ UNCHANGED settled

Settle == \E n \in DOMAIN posted :
  /\ ~Contains(settled, n)
  /\ settled' = Append(settled, n) /\ UNCHANGED posted

BoardSpec == BoardInit /\ [][Post \/ Settle]_<<posted, settled>>
=============================================================================
