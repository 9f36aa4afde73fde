--------------------------- MODULE MCCoordWriters ---------------------------
(***************************************************************************)
(* Instances of CoordWriters, two agents that write the log, and of        *)
(* Sessions, a manager that makes turns of what is in it.  They share      *)
(* nothing; a behaviour is about one of the two.                           *)
(***************************************************************************)
EXTENDS CoordWriters, Sessions

VARIABLE focus

MCInit == focus \in {"writers", "sessions"} /\ Init /\ SessionInit
MCNext ==
  /\ UNCHANGED focus
  /\ \/ focus = "writers" /\ Next /\ UNCHANGED sessionVars
     \/ focus = "sessions" /\ SessionNext /\ UNCHANGED vars
MCSpec == MCInit /\ [][MCNext]_<<focus, vars, sessionVars>>
=============================================================================
