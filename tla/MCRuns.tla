-------------------------------- MODULE MCRuns --------------------------------
(***************************************************************************)
(* Runs of Claude: the slots they compete for, and the upgrade that waits  *)
(* for all of them.  As modelled the two share no state, so a behaviour of *)
(* the bot is an interleaving of theirs and satisfies a property of one of *)
(* them iff that one does: TLC lets one of them move in each behaviour.    *)
(* Once a step has been abandoned, no run loses its entry to another or to *)
(* a reset.                                                                *)
(***************************************************************************)
EXTENDS RunClaude, AutoUpgrade

VARIABLE moving

allVars == <<vars, upVars, moving>>

\* A component that does not move has one initial state.
RunsInit ==
  /\ Init /\ UpInit
  /\ moving \in {"slots", "upgrades"}
  /\ moving # "upgrades" => \A g \in DOMAIN config : config[g]

\* An abandoned step and a run that has lost its entry are looked at one at a time.
OneTrouble == timeouts = 0 \/ ousted = {}

RunsNext ==
  \/ moving = "slots" /\ Next /\ UNCHANGED <<upVars, moving>>
  \/ moving = "upgrades" /\ UpNext /\ OneTrouble' /\ UNCHANGED <<vars, moving>>

\* The fairness of each component, for the one that moves.
RunsSpec ==
  /\ RunsInit /\ [][RunsNext]_allVars
  /\ \A r \in Runs :
       /\ WF_vars(moving = "slots" /\ RunStep(r))
       /\ WF_vars(moving = "slots" /\ EndLeg(r))
  /\ \A p \in Pipelines : WF_upVars(moving = "upgrades" /\ PipelineStep(p))
  /\ WF_upVars(moving = "upgrades" /\ \E c \in commands : CommandEnds(c))

\* Every variable has its type.
RunsTypeOK == TypeOK /\ UpTypeOK
=============================================================================
