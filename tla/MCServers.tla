----------------------------- MODULE MCServers -----------------------------
(***************************************************************************)
(* Instances of Daemon and BridgeLease, which share nothing.  A behaviour  *)
(* is about two daemons that start and stop, about one daemon and its      *)
(* clients, or about bridges.                                              *)
(***************************************************************************)
EXTENDS Daemon, BridgeLease

CONSTANTS p1, p2, c1, k1, b1, b2, b3

VARIABLE focus

MCFollows == [c \in {c1} |-> {"all"}]

MCInit == focus \in {"daemons", "clients", "bridges"} /\ DaemonInit /\ LeaseInit
MCNext ==
  /\ UNCHANGED focus
  /\ \/ focus = "daemons" /\ DaemonNext /\ UNCHANGED <<log, client, leaseVars>>
     \/ focus = "clients" /\ DaemonNext /\ daemon'[p2] = daemon[p2] /\ UNCHANGED leaseVars
     \/ focus = "bridges" /\ LeaseNext /\ UNCHANGED daemonVars
MCSpec == MCInit /\ [][MCNext]_<<focus, daemonVars, leaseVars>> /\ DaemonFairness /\ LeaseFairness

\* Nobody waits for ever: an event in the log reaches every client that stays, and
\* every bridge that asks for the lease gets an answer (checkForUpdates, acquireBridgeLease).
ServersAnswer == EveryEventArrives /\ AcquireEnds
=============================================================================
