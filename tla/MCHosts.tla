------------------------------ MODULE MCHosts -------------------------------
(***************************************************************************)
(* Instances of the modules about what Loadout does to its host: runtime   *)
(* tools, daily jobs, configuration entries, the handshake with an MCP     *)
(* server, the context files and bundles of handoffs, the score of an      *)
(* agent's stored evidence, and secrets in the system's store.  They share *)
(* nothing; a behaviour is about one of them.                              *)
(***************************************************************************)
EXTENDS RuntimeTools, Scheduler, HostConfig, Handshake, Outbox, HealthScore, Credentials, TLC

CONSTANTS a1, a2, p1, p2, j1, j2, f1, toml, models, n1, n2, k1, k2, c1, c2

VARIABLE focus

MCReferences ==
  {[service |-> <<"a">>, account |-> <<"b", "c">>], [service |-> <<"a", "b">>, account |-> <<"c">>]}
MCSecrets ==
  {[text |-> "s", size |-> 1, newlines |-> 2], [text |-> "m", size |-> 3, newlines |-> 0],
   [text |-> "", size |-> 0, newlines |-> 2]}
MCMaxAsks == [darwin |-> 2, linux |-> 3, win32 |-> 2]

MCPages == {<<"own">>, <<"start", "old", "end", "own">>}
MCTexts == {[bytes |-> 3, wide |-> TRUE, secret |-> FALSE], [bytes |-> 4, wide |-> FALSE, secret |-> TRUE]}
MCRequests == {<<>>, <<"f">>}
MCTemplateFiles == <<"g">>

MCWords == {"c0", "c1", "next", "t", "edited", "new", "active", "library", "s0", "s1", "s2"}
Here(commit, age) == {[commit |-> commit, licensed |-> TRUE, age |-> age]}
Put(risk, snapshot) ==
  {[commit |-> "c1", text |-> "t", place |-> "active", risk |-> risk, snapshot |-> snapshot]}
Event(a, r) == [agent |-> a, result |-> r]
Facts(catalog, installs, mine, theirs, events) ==
  [catalog |-> catalog, installs |-> installs, skills |-> (Me :> mine) @@ [o \in Others |-> theirs],
   events |-> events, disk |-> [p \in RatedPackages |-> [place |-> "active", text |-> "t"]], torn |-> {}, pending |-> 0]
MCStarts ==
  {Facts([p \in RatedPackages |-> Here("c1", 10)], (p1 :> Put("clear", "s1")) @@ (p2 :> Put("clear", "s2")),
         (n1 :> 1) @@ (n2 :> 2), (n1 :> 1) @@ (n2 :> 0), <<Event(Me, "success"), Event(Me, "success")>>),
   Facts((p1 :> Here("c1", 200)) @@ (p2 :> Here("c0", 400)),
         (p1 :> Put("clear", "s1")) @@ (p2 :> Put("unknown", "s1")), (n1 :> 1) @@ (n2 :> 0),
         (n1 :> 1) @@ (n2 :> 1), <<Event(a2, "success"), Event(Me, "failure"), Event(Me, "activation")>>),
   Facts((p1 :> {}) @@ (p2 :> Here("c1", -1)), (p1 :> {}) @@ (p2 :> Put("blocking", "s1")),
         (n1 :> 0) @@ (n2 :> 0), (n1 :> 1) @@ (n2 :> 0), <<>>)}

MCInit ==
  /\ focus \in {"tools", "jobs", "config", "shake", "outbox", "score", "secrets"}
  /\ ToolInit /\ JobInit /\ HostInit /\ ShakeInit
  /\ focus # "tools" => skill = [a \in ToolAgents |-> "none"]
  /\ focus # "jobs" => platform = "linux"
  /\ OutboxInit /\ HealthInit /\ (focus # "score" => facts.pending = 0 /\ facts.events = <<>>)
  /\ CredentialInit /\ (focus # "secrets" => backend = "linux")
  /\ focus # "outbox" =>
       template = "none" /\ page = [r \in Receivers |-> <<"own">>] /\ \A f \in Sources : ~text[f].secret
MCNext ==
  /\ UNCHANGED focus
  /\ \/ focus = "tools" /\ ToolNext /\ UNCHANGED <<jobVars, hostVars, shakeVars, outboxVars, healthVars, credentialVars>>
     \/ focus = "jobs" /\ JobNext /\ UNCHANGED <<toolVars, hostVars, shakeVars, outboxVars, healthVars, credentialVars>>
     \/ focus = "config" /\ HostNext /\ UNCHANGED <<toolVars, jobVars, shakeVars, outboxVars, healthVars, credentialVars>>
     \/ focus = "shake" /\ ShakeNext /\ UNCHANGED <<toolVars, jobVars, hostVars, outboxVars, healthVars, credentialVars>>
     \/ focus = "outbox" /\ OutboxNext /\ UNCHANGED <<toolVars, jobVars, hostVars, shakeVars, healthVars, credentialVars>>
     \/ /\ focus = "score" /\ (CollectorNext \/ (pass # NoPass /\ FactsNext))
        /\ UNCHANGED <<toolVars, jobVars, hostVars, shakeVars, outboxVars, credentialVars>>
     \/ /\ focus = "secrets" /\ CredentialNext
        /\ UNCHANGED <<toolVars, jobVars, hostVars, shakeVars, outboxVars, healthVars>>
MCSpec ==
  /\ MCInit /\ [][MCNext]_<<focus, toolVars, jobVars, hostVars, shakeVars, outboxVars, healthVars, credentialVars>>
  /\ ShakeFairness

\* What Loadout has recorded of runtime tools and daily jobs is what is there,
\* and what a command says of a secret was so while it ran.
HostsSound ==
  ToolTypeOK /\ JobTypeOK /\ HostTypeOK /\ ShakeTypeOK /\ ToolStateAgrees /\ JobsMatchUnits /\ CredentialsAgree
=============================================================================
