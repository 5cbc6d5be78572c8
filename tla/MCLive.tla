-------------------------------- MODULE MCLive --------------------------------
(***************************************************************************)
(* What must happen: the turns of a channel go on, the index that says     *)
(* which channels have sessions follows Discord and the file, and the      *)
(* scheduler runs its tasks.  As modelled the three share no state, so a   *)
(* behaviour of the bot is an interleaving of theirs and satisfies a       *)
(* property of one of them iff that one does: TLC lets one of them move in *)
(* each behaviour.                                                         *)
(***************************************************************************)
EXTENDS MCChannelSession, ChannelRegistry, Scheduler

VARIABLE moving

allVars == <<vars, regVars, schedVars, moving>>

\* A component that does not move has one initial state.
LiveInit ==
  /\ Init /\ RegInit /\ SchedInit
  /\ moving \in {"turns", "registry", "schedule"}
  /\ moving # "registry" =>
       /\ file = [content |-> <<{}, "valid">>, mtime |-> 0]
       /\ guild = CHOOSE g \in [Chans -> [at : Places, there : {FALSE}, new : {TRUE}]] : TRUE
  /\ moving # "schedule" =>
       exec = [e \in Executions |-> [task |-> CHOOSE t \in Tasks : TRUE, at |-> "idle"]]

LiveNext ==
  \/ moving = "turns" /\ Next /\ UNCHANGED <<regVars, schedVars, moving>>
  \/ moving = "registry" /\ RegNext /\ UNCHANGED <<vars, schedVars, moving>>
  \/ moving = "schedule" /\ SchedNext /\ UNCHANGED <<vars, regVars, moving>>

\* The fairness of each component, for the one that moves; Claude finishes its turns.
GoesOnSpec ==
  /\ LiveInit /\ [][LiveNext]_allVars
  /\ \A t \in Turns :
       /\ WF_vars(moving = "turns" /\ TurnStep(t))
       /\ WF_vars(moving = "turns" /\ ProcExit(t))
  /\ \A k \in Cleanups : WF_vars(moving = "turns" /\ CleanupStep(k))
  /\ WF_regVars(moving = "registry" /\ SetUp)
  /\ WF_regVars(moving = "registry" /\ WatcherStep)
  /\ WF_schedVars(moving = "schedule" /\ LoopStep)
  /\ \A t \in Tasks : WF_schedVars(moving = "schedule" /\ BecomesDue(t))
  /\ \A e \in Executions :
       WF_schedVars(moving = "schedule" /\ (ExecStep(e) \/ EndsEarly(e)))
=============================================================================
