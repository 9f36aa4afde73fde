---------------------------- MODULE BridgeLease ----------------------------
(***************************************************************************)
(* The lease of src/core/coordination/bridge-lease.ts: a file that is      *)
(* created exclusively and names the process of the one bridge, or design  *)
(* room, of a project.  A lease whose process is dead is removed by path,  *)
(* and the file of a process that dies while it writes it names nobody.    *)
(***************************************************************************)
EXTENDS Naturals, FiniteSets

CONSTANT Bridges    \* processes that want the lease

ASSUME BridgeLeaseConstantsOK == Bridges # {}

VARIABLES
  lease,    \* the file: by whom it was created, and whom it names once written
  bridge    \* where every process is, whose lease it found, and its attempt

leaseVars == <<lease, bridge>>

LeaseSteps == {"away", "open", "write", "held", "unlink", "read", "judge", "remove", "dead"}
Attempts == 1..2

LeaseTypeOK ==
  /\ lease \in [by : SUBSET Bridges, names : SUBSET Bridges]
  /\ bridge \in [Bridges -> [pc : LeaseSteps, found : SUBSET Bridges, attempt : Attempts]]

NoLease == [by |-> {}, names |-> {}]
Away == [pc |-> "away", found |-> {}, attempt |-> 1]

LeaseInit == lease = NoLease /\ bridge = [b \in Bridges |-> Away]

InLease(b, pc) == bridge[b].pc = pc
BridgeAt(b, pc) == bridge' = [bridge EXCEPT ![b].pc = pc]
Refused(b) == bridge' = [bridge EXCEPT ![b] = Away]

AcquireBridgeLease(b) == InLease(b, "away") /\ BridgeAt(b, "open") /\ UNCHANGED lease

(* open "wx" creates the file, or finds that there is one. *)
OpenLease(b) ==
  /\ InLease(b, "open")
  /\ \/ lease.by = {} /\ lease' = [by |-> {b}, names |-> {}] /\ BridgeAt(b, "write")
     \/ lease.by # {} /\ UNCHANGED lease /\ BridgeAt(b, "read")

(* The record is written to the file that was opened, wherever it is by then. *)
WriteLease(b) ==
  /\ InLease(b, "write") /\ BridgeAt(b, "held")
  /\ lease' = IF lease.by = {b} THEN [lease EXCEPT !.names = {b}] ELSE lease

(* A lease that cannot be read counts as that of a running bridge. *)
ReadLease(b) ==
  /\ InLease(b, "read") /\ UNCHANGED lease
  /\ \/ lease.names # {} /\ bridge' = [bridge EXCEPT ![b].pc = "judge", ![b].found = lease.names]
     \/ lease.names = {} /\ Refused(b)

(* Mutant: a lease is removed whether its process is alive or not. *)
JudgeByFile(b) ==
  /\ InLease(b, "judge") /\ UNCHANGED lease /\ BridgeAt(b, "remove")
JudgeLease(b) ==
  /\ InLease(b, "judge") /\ UNCHANGED lease
  /\ \/ (\A o \in bridge[b].found : InLease(o, "dead")) /\ BridgeAt(b, "remove")
     \/ (\E o \in bridge[b].found : ~InLease(o, "dead")) /\ Refused(b)

RemoveLease(b) ==
  /\ InLease(b, "remove") /\ lease' = NoLease
  /\ \/ bridge[b].attempt = 1 /\ bridge' = [bridge EXCEPT ![b] = [pc |-> "open", found |-> {}, attempt |-> 2]]
     \/ bridge[b].attempt = 2 /\ Refused(b)

(* release: only the lease of this bridge is removed. *)
ReleaseLease(b) ==
  /\ InLease(b, "held") /\ UNCHANGED lease
  /\ IF lease = [by |-> {b}, names |-> {b}] THEN BridgeAt(b, "unlink") ELSE Refused(b)
UnlinkLease(b) == InLease(b, "unlink") /\ lease' = NoLease /\ Refused(b)

BridgeDies(b) == ~InLease(b, "dead") /\ BridgeAt(b, "dead") /\ UNCHANGED lease

Acquires(b) ==
  OpenLease(b) \/ WriteLease(b) \/ ReadLease(b) \/ JudgeLease(b) \/ RemoveLease(b)

LeaseNext == \E b \in Bridges :
  AcquireBridgeLease(b) \/ Acquires(b) \/ ReleaseLease(b) \/ UnlinkLease(b) \/ BridgeDies(b)

(* A call that was made goes on. *)
LeaseFairness == \A b \in Bridges : WF_leaseVars(Acquires(b))
LeaseSpec == LeaseInit /\ [][LeaseNext]_leaseVars /\ LeaseFairness

-----------------------------------------------------------------------------
(* Properties. *)

(* One bridge per project, as the test of acquireBridgeLease has it. *)
OneBridge == \A a, b \in Bridges : a # b => ~(InLease(a, "held") /\ InLease(b, "held"))

(* It is so until a process dies: from then on two recoverers may remove one *)
(* another's lease.                                                          *)
OneBridgeUntilDeath == (\A b \in Bridges : ~InLease(b, "dead")) => OneBridge

(* Every call ends, with the lease or without it, whatever the others do. *)
AcquireEnds == \A b \in Bridges :
  InLease(b, "open") ~> (InLease(b, "held") \/ InLease(b, "away") \/ InLease(b, "dead"))
=============================================================================
