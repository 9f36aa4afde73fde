---------------------------- MODULE MCDesignRoom ----------------------------
(***************************************************************************)
(* Instances of the modules about what a project's agents agree on: a      *)
(* design room with two decisions, one of which mentions a path, and the   *)
(* tasks it sends; the boundaries between agents; and the packages that    *)
(* the project's manifest wants.  They share nothing; a behaviour is about *)
(* one of them.                                                            *)
(***************************************************************************)
EXTENDS DesignRoom, Boundaries, Manifest, TLC

CONSTANTS x1, x2, y1, y2

VARIABLE focus

MCMentions == [cache |-> {"src"}, wait |-> {}]

MCBelow == {<<"w1", "web">>, <<"a1", "api">>, <<"a2", "lib">>}
MCNames == ("./api" :> {"api"}) @@ ("lib/../api" :> {"api"}) @@ ("../web" :> {})
MCOverlaps == {<<"./api", ".">>, <<"lib/../api", "lib">>}
MCContractName == [a1 |-> "n1", a2 |-> "n1", w1 |-> "n2"]
MCImports == {<<"w1", "a1">>, <<"w1", "a2">>, <<"a1", "w1">>}
MCSplits == {<<{"api", "lib"}, {"web"}>>}
Commits(u, v) == [u |-> u, v |-> v]
MCHistories == {[api |-> Commits(3, 2), web |-> Commits(0, 1)], [api |-> Commits(1, 1), web |-> Commits(1, 3)]}
MCAgentOf == [u |-> {"x"}, v |-> {"y"}]
Sole(a) == {[agent |-> a, mode |-> "exclusive"]}
MCEarlier == {[d \in Places |-> {}],
              ("." :> {}) @@ ("api" :> Sole("x")) @@ ("lib" :> Sole("x")) @@ ("web" :> Sole("y"))}

A1 == <<"a", 1>>
A2 == <<"a", 2>>
B1 == <<"b", 1>>
C1 == <<"c", 1>>
Nowhere == <<"d", 1>>
MCShelves ==
  {(A1 :> x[1]) @@ (A2 :> <<>>) @@ (B1 :> x[2]) @@ (C1 :> x[3]) :
     x \in {<<<<>>, <<A1, C1>>, <<A1>>>>, <<<<>>, <<A1, C1>>, <<A2>>>>, <<<<B1>>, <<A1>>, <<>>>>,
            <<<<B1, C1>>, <<C1>>, <<>>>>, <<<<>>, <<Nowhere>>, <<B1>>>>, <<<<B1>>, <<A2>>, <<A1>>>>}}
Entry(id, from, deps, agents, enabled) ==
  [id |-> id, source |-> from, dependsOn |-> deps, agents |-> agents, enabled |-> enabled]
MCEntries ==
  {Entry("a", {A1}, {}, {"x"}, TRUE), Entry("b", {B1}, {}, {"y"}, TRUE),
   Entry("c", {}, {"b"}, {"x"}, TRUE), Entry("c", {C1}, {}, {"x"}, FALSE)}
MCProfiles == {<<Entry("b", {}, {}, {"x", "y"}, TRUE), Entry("c", {}, {}, {"x", "y"}, TRUE)>>}

MCInit ==
  /\ focus \in {"room", "boundaries", "manifest"}
  /\ Init
  /\ ManifestInit
  /\ (focus # "manifest" => shelf = (A1 :> <<>>) @@ (A2 :> <<>>) @@ (B1 :> <<A1, C1>>) @@ (C1 :> <<A1>>))
  /\ BoundaryInit /\ (focus # "boundaries" => \A d \in Places : claims[d] = {})
MCNext ==
  /\ UNCHANGED focus
  /\ \/ focus = "room" /\ Next /\ UNCHANGED <<boundaryVars, manifestVars>>
     \/ focus = "boundaries" /\ BoundaryNext /\ UNCHANGED <<vars, manifestVars>>
     \/ focus = "manifest" /\ ManifestNext /\ UNCHANGED <<vars, boundaryVars>>
MCSpec == MCInit /\ [][MCNext]_<<focus, vars, boundaryVars, manifestVars>> /\ WF_vars(Discuss)
=============================================================================
