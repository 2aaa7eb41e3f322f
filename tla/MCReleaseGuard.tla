---------------------------- MODULE MCReleaseGuard ---------------------------
(***************************************************************************)
(* The same small installation, and a release for it.                      *)
(***************************************************************************)
EXTENDS ReleaseGuard, MCAgentAnalysis

Paths == [red |-> {"automations.yaml"}, yellow |-> {"dashboard"},
          green |-> {"sensor.py"}]
Release(target, proofs, paths) ==
    [from |-> "old", target |-> target, sha |-> "c1",
     ci |-> [c \in RequiredCI |-> proofs], paths |-> paths]
MCDocuments == {Release("new", "c1", {"sensor.py"})}
=============================================================================
