---------------------------- MODULE ChannelSession ----------------------------
(***************************************************************************)
(* Channel-as-Session mode: one Discord channel is one Claude session.     *)
(*                                                                         *)
(* A turn is one invocation of ChannelSessionCog.on_message together with  *)
(* ChannelSessionService.handle_message; a cleanup is one invocation of    *)
(* /channel-reset, on_guild_channel_delete or on_guild_channel_update      *)
(* together with ChannelSessionService.cleanup_channel.  All of them are   *)
(* coroutines of one event loop, so a step here is what runs between two   *)
(* awaits, and any other coroutine may run in between.  The state is the   *)
(* channel index (ProjectsConfig), the channel_sessions table, the git     *)
(* worktrees, the service's _active map and the Claude subprocesses.       *)
(***************************************************************************)
EXTENDS Naturals, FiniteSets

CONSTANTS
  Channels,      \* text channels of the registered categories
  Turns,         \* invocations of on_message that pass the bot/type filters
  Cleanups,      \* invocations of the three teardown handlers
  Slugs,         \* the <slug> of a wt-<slug> channel name
  Main,          \* the channel name "main": cwd_mode = repo_root
  ContextTurns,  \* turns whose run carries an extra system prompt
  None

ASSUME NoneAssumption == None \notin Turns \cup Slugs \cup {Main}
ASSUME NamesAssumption == Main \notin Slugs
ASSUME ContextAssumption == ContextTurns \subseteq Turns

VARIABLES
  index,     \* channel -> name it is registered under, or None (_channel_index)
  row,       \* channel -> its channel_sessions row, or Blank
  worktree,  \* slug -> absent | clean | dirty
  active,    \* channel -> the turn in service._active, or None
  turn,      \* turn -> where the handler is and what it has captured
  cleanup,   \* cleanup -> where the handler is and what it has captured
  epoch      \* channel -> how often its row was deleted (history)

vars == <<index, row, worktree, active, turn, cleanup, epoch>>

Names == Slugs \cup {Main}

\* No row.  A row always has a name, so a nameless record stands for none.
Blank == [name |-> None, session |-> None, turns |-> 0, errors |-> 0]

TurnPCs == {"idle", "prompt", "react", "exitwait", "join", "prepare", "ensure",
            "count", "launch", "start", "running", "post",
            "done", "aborted", "cachemiss"}

\* The handler is waiting for an earlier turn of the channel.
Waiting == {"react", "exitwait", "join"}

\* The handler has passed the check for an active turn but has not yet
\* entered itself in _active: another coroutine does not see it.
SettingUp == {"prepare", "ensure", "count", "launch", "start"}

CleanupPCs == {"idle", "confirm", "exitwait", "join", "record", "status",
               "remove", "delete", "final", "dm", "done", "cancelled"}

Kinds == {"reset", "delete", "update"}

\* What a channel_sessions row keeps.  A Claude session is named by the turn
\* whose run created it.
Rows == [name : Names \cup {None}, session : Turns \cup {None}, turns : Nat, errors : Nat]

\* The locals of one on_message/handle_message, and the state of its run.
TurnRecords ==
  [pc : TurnPCs, chan : Channels \cup {None}, name : Names \cup {None},
   session : Turns \cup {None}, wait : Turns \cup {None},
   proc : {"none", "running", "signalled", "exited"},
   out : {"ok", "failed", "raised"}, born : Nat]

\* The locals of one teardown handler and its cleanup_channel.
CleanupRecords ==
  [pc : CleanupPCs, chan : Channels \cup {None}, kind : Kinds, wait : Turns \cup {None},
   name : Names \cup {None}, to : Names \cup {None}, kept : BOOLEAN]

TypeOK ==
  /\ index \in [Channels -> Names \cup {None}]
  /\ row \in [Channels -> Rows]
  /\ worktree \in [Slugs -> {"absent", "clean", "dirty"}]
  /\ active \in [Channels -> Turns \cup {None}]
  /\ turn \in [Turns -> TurnRecords]
  /\ cleanup \in [Cleanups -> CleanupRecords]
  /\ epoch \in [Channels -> Nat]

Init ==
  /\ index = [c \in Channels |-> None]
  /\ row = [c \in Channels |-> Blank]
  /\ worktree = [s \in Slugs |-> "absent"]
  /\ active = [c \in Channels |-> None]
  /\ turn = [t \in Turns |-> [pc |-> "idle", chan |-> None, name |-> None,
                              session |-> None, wait |-> None, proc |-> "none",
                              out |-> "ok", born |-> 0]]
  /\ cleanup = [k \in Cleanups |-> [pc |-> "idle", chan |-> None, kind |-> "reset",
                                    wait |-> None, name |-> None, to |-> None,
                                    kept |-> FALSE]]
  /\ epoch = [c \in Channels |-> 0]

\* Discord sends no further message or event for a channel once it is deleted.
Deleted(c) == \E k \in Cleanups : cleanup[k].kind = "delete" /\ cleanup[k].chan = c

HasRow(c) == row[c].name # None

\* ClaudeRunner.interrupt signals only a subprocess of its own.  The runner in
\* _active has none when run_claude_with_config cloned it to add a system
\* prompt, before the subprocess is spawned, and after it has exited.
Reaches(u) == u \notin ContextTurns /\ turn[u].proc \in {"running", "signalled"}

-----------------------------------------------------------------------------
(***************************************************************************)
(* The channel index.                                                      *)
(***************************************************************************)

\* on_guild_channel_create, startup_scan, or on_guild_channel_update of a
\* channel that was not registered: register_channel with a matching name.
Register(c, n) ==
  /\ index[c] = None
  /\ ~Deleted(c)
  /\ index' = [index EXCEPT ![c] = n]
  /\ UNCHANGED <<row, worktree, active, turn, cleanup, epoch>>

\* Hot reload of a projects.json without the channel's category.
DropCategory(c) ==
  /\ index[c] # None
  /\ index' = [index EXCEPT ![c] = None]
  /\ UNCHANGED <<row, worktree, active, turn, cleanup, epoch>>

-----------------------------------------------------------------------------
(***************************************************************************)
(* A turn.                                                                 *)
(***************************************************************************)
Goto(t, pc) == turn' = [turn EXCEPT ![t].pc = pc]

\* The handler returns and its locals are gone.
Leave(t, pc) == turn' = [turn EXCEPT ![t] = [@ EXCEPT !.pc = pc, !.name = None, !.out = "ok"]]

\* on_message up to its first await: the registration is captured here.
Arrive(t, c) ==
  /\ turn[t].pc = "idle"
  /\ index[c] # None
  /\ ~Deleted(c)
  /\ turn' = [turn EXCEPT ![t] = [@ EXCEPT !.pc = "prompt", !.chan = c, !.name = index[c]]]
  /\ UNCHANGED <<index, row, worktree, active, cleanup, epoch>>

\* Mutant: a message never looks for an active turn.
CheckActiveSkipped(t) ==
  /\ turn[t].pc = "prompt"
  /\ Goto(t, "prepare")
  /\ UNCHANGED <<index, row, worktree, active, cleanup, epoch>>

\* Mutant: a message enters itself in _active as soon as it has looked.
CheckActiveReserves(t) ==
  LET c == turn[t].chan
  IN  /\ turn[t].pc = "prompt"
      /\ turn' = [turn EXCEPT ![t] = [@ EXCEPT !.pc = IF active[c] = None THEN "prepare" ELSE "react",
                                      !.wait = active[c]]]
      /\ active' = [active EXCEPT ![c] = t]
      /\ UNCHANGED <<index, row, worktree, cleanup, epoch>>

\* build_prompt_and_images returned: drop an empty message, else look for an
\* active turn of the channel.  With one, the first thing is a reaction.
CheckActive(t) ==
  /\ turn[t].pc = "prompt"
  /\ \/ Leave(t, "aborted")
     \/ LET u == active[turn[t].chan]
        IN  turn' = [turn EXCEPT ![t] = [@ EXCEPT !.pc = IF u = None THEN "prepare" ELSE "react",
                                 !.wait = u]]
  /\ UNCHANGED <<index, row, worktree, active, cleanup, epoch>>

\* await_active_task reads _active again: its entry may be another turn's.
TurnAwaits(t) ==
  LET u == active[turn[t].chan]
  IN  turn' = [turn EXCEPT ![t] = [@ EXCEPT !.pc = IF u = None THEN "prepare" ELSE "join",
                           !.wait = u]]

\* runner.interrupt() on the runner captured by CheckActive.
Interrupt(t) ==
  /\ turn[t].pc = "react"
  /\ IF Reaches(turn[t].wait)
       THEN turn' = [turn EXCEPT ![t].pc = "exitwait",
                                 ![turn[t].wait].proc = "signalled"]
       ELSE TurnAwaits(t)
  /\ UNCHANGED <<index, row, worktree, active, cleanup, epoch>>

\* interrupt() returns when the subprocess is gone.
Interrupted(t) ==
  /\ turn[t].pc = "exitwait"
  /\ turn[turn[t].wait].proc = "exited"
  /\ TurnAwaits(t)
  /\ UNCHANGED <<index, row, worktree, active, cleanup, epoch>>

Joined(t) ==
  /\ turn[t].pc = "join"
  /\ turn[turn[t].wait].pc # "running"
  /\ turn' = [turn EXCEPT ![t] = [@ EXCEPT !.pc = "prepare", !.wait = None]]
  /\ UNCHANGED <<index, row, worktree, active, cleanup, epoch>>

\* _prepare_cwd: nothing to do in repo_root mode, else ChannelWorktreeManager
\* .ensure creates or reuses the worktree, or fails and the turn is over.
PrepareCwd(t) ==
  LET n == turn[t].name
  IN  /\ turn[t].pc = "prepare"
      /\ \/ /\ n = Main
            /\ Goto(t, "ensure")
            /\ UNCHANGED worktree
         \/ /\ n # Main
            /\ worktree' = [worktree EXCEPT ![n] = IF @ = "absent" THEN "clean" ELSE @]
            /\ Goto(t, "ensure")
         \/ /\ n # Main
            /\ Leave(t, "aborted")
            /\ UNCHANGED worktree
      /\ UNCHANGED <<index, row, active, cleanup, epoch>>

\* Mutant: the row is looked up by the channel's name.
EnsureRowByName(t) ==
  LET c == turn[t].chan
  IN  /\ turn[t].pc = "ensure"
      /\ row' = [row EXCEPT ![c].name = turn[t].name]
      /\ \E d \in Channels :
           /\ row'[d].name = turn[t].name
           /\ turn' = [turn EXCEPT ![t] = [@ EXCEPT !.pc = "count", !.session = row[d].session,
                                           !.born = epoch[c]]]
      /\ UNCHANGED <<index, worktree, active, cleanup, epoch>>

\* Mutant: the turn does not resume the session of its row.
EnsureRowFresh(t) ==
  LET c == turn[t].chan
  IN  /\ turn[t].pc = "ensure"
      /\ row' = [row EXCEPT ![c].name = turn[t].name]
      /\ turn' = [turn EXCEPT ![t] = [@ EXCEPT !.pc = "count", !.born = epoch[c]]]
      /\ UNCHANGED <<index, worktree, active, cleanup, epoch>>

\* ChannelSessionRepository.ensure: upsert that keeps the runtime columns.
\* The session to resume is the one in the row it returns.
EnsureRow(t) ==
  LET c == turn[t].chan
  IN  /\ turn[t].pc = "ensure"
      /\ row' = [row EXCEPT ![c].name = turn[t].name]
      /\ turn' = [turn EXCEPT ![t] = [@ EXCEPT !.pc = "count", !.session = row[c].session,
                              !.born = epoch[c]]]
      /\ UNCHANGED <<index, worktree, active, cleanup, epoch>>

\* increment_turn: an UPDATE, so nothing happens when the row has gone.
CountTurn(t) ==
  LET c == turn[t].chan
  IN  /\ turn[t].pc = "count"
      /\ row' = IF HasRow(c) THEN [row EXCEPT ![c].turns = @ + 1] ELSE row
      /\ Goto(t, "launch")
      /\ UNCHANGED <<index, worktree, active, cleanup, epoch>>

\* runner_cache.get goes through the index: an unregistered channel has no
\* runner.  With one, the runner is cloned and the reaction awaited.
Launch(t) ==
  /\ turn[t].pc = "launch"
  /\ IF index[turn[t].chan] = None THEN Leave(t, "cachemiss") ELSE Goto(t, "start")
  /\ UNCHANGED <<index, row, worktree, active, cleanup, epoch>>

\* create_task(run_claude_with_config) and _active[cid] = (runner, task).
Start(t) ==
  /\ turn[t].pc = "start"
  /\ active' = [active EXCEPT ![turn[t].chan] = t]
  /\ Goto(t, "running")
  /\ UNCHANGED <<index, row, worktree, cleanup, epoch>>

\* create_subprocess_exec needs the working directory to exist.
HasCwd(t) == turn[t].name \in Slugs => worktree[turn[t].name] # "absent"

Spawn(t) ==
  /\ turn[t].pc = "running" /\ turn[t].proc = "none"
  /\ HasCwd(t)
  /\ turn' = [turn EXCEPT ![t].proc = "running"]
  /\ UNCHANGED <<index, row, worktree, active, cleanup, epoch>>

\* The exception is caught by run_claude_with_config and shown to the user.
SpawnFails(t) ==
  /\ turn[t].pc = "running" /\ turn[t].proc = "none"
  /\ turn' = [turn EXCEPT ![t] = [@ EXCEPT !.proc = "exited", !.out = "failed"]]
  /\ UNCHANGED <<index, row, worktree, active, cleanup, epoch>>

\* Mutant: every save of the session counts as a turn.
ReportCounts(t) ==
  LET c == turn[t].chan
      s == IF turn[t].session = None THEN t ELSE turn[t].session
  IN  /\ turn[t].pc = "running" /\ turn[t].proc # "none"
      /\ row[c].session # s
      /\ row' = IF HasRow(c) THEN [row EXCEPT ![c] = [@ EXCEPT !.session = s, !.turns = @ + 1]] ELSE row
      /\ UNCHANGED <<index, worktree, active, turn, cleanup, epoch>>

\* A system or result event: repo.save, an UPDATE of the channel's row.  A
\* resumed session keeps its id, a new one is named by this turn.
Report(t) ==
  LET c == turn[t].chan
      s == IF turn[t].session = None THEN t ELSE turn[t].session
  IN  /\ turn[t].pc = "running" /\ turn[t].proc # "none"
      /\ row' = IF HasRow(c) THEN [row EXCEPT ![c].session = s] ELSE row
      /\ UNCHANGED <<index, worktree, active, turn, cleanup, epoch>>

\* Claude edits or commits files in the worktree it runs in.
EditFiles(t) ==
  LET n == turn[t].name
  IN  /\ turn[t].proc \in {"running", "signalled"}
      /\ n # Main
      /\ worktree[n] # "absent"
      /\ \E w \in {"clean", "dirty"} : worktree' = [worktree EXCEPT ![n] = w]
      /\ UNCHANGED <<index, row, active, turn, cleanup, epoch>>

\* Mutant: interrupt does not escalate, and the CLI ignores SIGINT.
ProcExitUnsignalled(t) ==
  /\ turn[t].proc = "running"
  /\ \E o \in {"ok", "failed"} :
       turn' = [turn EXCEPT ![t] = [@ EXCEPT !.proc = "exited", !.out = o]]
  /\ UNCHANGED <<index, row, worktree, active, cleanup, epoch>>

\* The subprocess exits, on its own or because it was signalled.
ProcExit(t) ==
  /\ turn[t].proc \in {"running", "signalled"}
  /\ \E o \in {"ok", "failed"} :
       turn' = [turn EXCEPT ![t] = [@ EXCEPT !.proc = "exited", !.out = o]]
  /\ UNCHANGED <<index, row, worktree, active, cleanup, epoch>>

\* Mutant: the entry is popped only after a task that did not raise.
TurnEndNoFinally(t) ==
  /\ turn[t].pc = "running" /\ turn[t].proc = "exited"
  /\ \E o \in {turn[t].out, "raised"} :
       /\ turn' = [turn EXCEPT ![t] = [@ EXCEPT !.pc = "post", !.out = o]]
       /\ active' = IF o = "raised" THEN active ELSE [active EXCEPT ![turn[t].chan] = None]
  /\ UNCHANGED <<index, row, worktree, cleanup, epoch>>

\* The task is over and handle_message's finally pops the channel's entry,
\* whichever turn it belongs to.  A failed CLI has been swallowed by then; what
\* escapes the task is an exception raised while collecting an answer.
TurnEnd(t) ==
  /\ turn[t].pc = "running" /\ turn[t].proc = "exited"
  /\ \E o \in {turn[t].out, "raised"} :
       turn' = [turn EXCEPT ![t] = [@ EXCEPT !.pc = "post", !.out = o]]
  /\ active' = [active EXCEPT ![turn[t].chan] = None]
  /\ UNCHANGED <<index, row, worktree, cleanup, epoch>>

\* Mutant: a success takes one error back instead of resetting the counter.
PostTurnDecrements(t) ==
  LET c == turn[t].chan
  IN  /\ turn[t].pc = "post"
      /\ row' = IF HasRow(c)
                  THEN [row EXCEPT ![c].errors = IF turn[t].out = "raised" THEN @ + 1 ELSE @ - 1]
                  ELSE row
      /\ Leave(t, "done")
      /\ UNCHANGED <<index, worktree, active, cleanup, epoch>>

\* increment_error if the task raised, reset_error otherwise.
PostTurn(t) ==
  LET c == turn[t].chan
  IN  /\ turn[t].pc = "post"
      /\ row' = IF HasRow(c)
                  THEN [row EXCEPT ![c].errors = IF turn[t].out = "raised"
                                                   THEN @ + 1 ELSE 0]
                  ELSE row
      /\ Leave(t, "done")
      /\ UNCHANGED <<index, worktree, active, cleanup, epoch>>

-----------------------------------------------------------------------------
(***************************************************************************)
(* A teardown.                                                             *)
(***************************************************************************)
KGoto(k, pc) == cleanup' = [cleanup EXCEPT ![k].pc = pc]

\* Mutant: cleanup_channel signals the active turn and goes on at once.
TeardownNoWait(k, c, kd, n) ==
  LET u == active[c]
  IN  /\ cleanup' = [cleanup EXCEPT ![k] =
                       [pc |-> "record", chan |-> c, kind |-> kd, wait |-> None,
                        name |-> None, to |-> n, kept |-> FALSE]]
      /\ turn' = IF u # None /\ Reaches(u) THEN [turn EXCEPT ![u].proc = "signalled"] ELSE turn
      /\ UNCHANGED <<index, row, worktree, active, epoch>>

\* cleanup_channel up to its first await, from the three handlers: interrupt
\* the turn in _active, if there is one, or go on to read the record.
Teardown(k, c, kd, n) ==
  LET u == active[c]
      hit == u # None /\ Reaches(u)
  IN  /\ cleanup' = [cleanup EXCEPT ![k] =
                       [pc |-> IF u = None THEN "record"
                               ELSE IF hit THEN "exitwait" ELSE "join",
                        chan |-> c, kind |-> kd, wait |-> u,
                        name |-> None, to |-> n, kept |-> FALSE]]
      /\ turn' = IF hit THEN [turn EXCEPT ![u].proc = "signalled"] ELSE turn
      /\ UNCHANGED <<index, row, worktree, active, epoch>>

\* on_guild_channel_delete of a registered channel.
BeginDelete(k, c) ==
  /\ cleanup[k].pc = "idle"
  /\ index[c] # None
  /\ ~Deleted(c)
  /\ Teardown(k, c, "delete", None)

\* on_guild_channel_update of a registered channel: the new name is n, or does
\* not match the naming rules (None); only the category may have changed.
BeginUpdate(k, c, n) ==
  /\ cleanup[k].pc = "idle"
  /\ index[c] # None
  /\ ~Deleted(c)
  /\ Teardown(k, c, "update", n)

\* /channel-reset in a registered channel asks for a confirmation.
BeginReset(k, c) ==
  /\ cleanup[k].pc = "idle"
  /\ index[c] # None
  /\ ~Deleted(c)
  /\ cleanup' = [cleanup EXCEPT ![k] = [@ EXCEPT !.pc = "confirm", !.chan = c, !.kind = "reset"]]
  /\ UNCHANGED <<index, row, worktree, active, turn, epoch>>

Confirm(k) ==
  /\ cleanup[k].pc = "confirm"
  /\ Teardown(k, cleanup[k].chan, "reset", None)

\* The cross reaction, or the 60 s time-out.
Cancel(k) ==
  /\ cleanup[k].pc = "confirm"
  /\ KGoto(k, "cancelled")
  /\ UNCHANGED <<index, row, worktree, active, turn, epoch>>

\* interrupt() returned; await_active_task reads _active again.
KInterrupted(k) ==
  LET u == active[cleanup[k].chan]
  IN  /\ cleanup[k].pc = "exitwait"
      /\ turn[cleanup[k].wait].proc = "exited"
      /\ cleanup' = [cleanup EXCEPT ![k] = [@ EXCEPT !.pc = IF u = None THEN "record" ELSE "join",
                                    !.wait = u]]
      /\ UNCHANGED <<index, row, worktree, active, turn, epoch>>

\* Mutant: await_active_task does not wait for the task.
KJoinedEarly(k) ==
  /\ cleanup[k].pc = "join"
  /\ cleanup' = [cleanup EXCEPT ![k] = [@ EXCEPT !.pc = "record", !.wait = None]]
  /\ UNCHANGED <<index, row, worktree, active, turn, epoch>>

\* Mutant: await_active_task waits for the moment the task ends and may miss it.
KJoinedMissed(k) ==
  /\ cleanup[k].pc = "join"
  /\ turn[cleanup[k].wait].pc = "post"
  /\ cleanup' = [cleanup EXCEPT ![k] = [@ EXCEPT !.pc = "record", !.wait = None]]
  /\ UNCHANGED <<index, row, worktree, active, turn, epoch>>

KJoined(k) ==
  /\ cleanup[k].pc = "join"
  /\ turn[cleanup[k].wait].pc # "running"
  /\ cleanup' = [cleanup EXCEPT ![k] = [@ EXCEPT !.pc = "record", !.wait = None]]
  /\ UNCHANGED <<index, row, worktree, active, turn, epoch>>

\* repo.get: only a record in dedicated_worktree mode has a worktree to remove.
ReadRecord(k) ==
  LET n == row[cleanup[k].chan].name
  IN  /\ cleanup[k].pc = "record"
      /\ cleanup' = [cleanup EXCEPT ![k] = [@ EXCEPT !.name = n,
                                    !.pc = IF n \in Slugs THEN "status" ELSE "delete"]]
      /\ UNCHANGED <<index, row, worktree, active, turn, epoch>>

\* remove_if_clean, first half: git status, never from the cache.  A worktree
\* whose status cannot be determined counts as dirty.
CheckClean(k) ==
  LET w == worktree[cleanup[k].name]
  IN  /\ cleanup[k].pc = "status"
      /\ \E keep \in {w = "dirty", w # "absent"} :
           cleanup' = [cleanup EXCEPT ![k] = [@ EXCEPT !.kept = keep,
                                      !.pc = IF w = "clean" /\ ~keep THEN "remove" ELSE "delete"]]
      /\ UNCHANGED <<index, row, worktree, active, turn, epoch>>

\* Mutant: git worktree remove --force.
RemoveWorktreeForced(k) ==
  /\ cleanup[k].pc = "remove"
  /\ worktree' = [worktree EXCEPT ![cleanup[k].name] = "absent"]
  /\ KGoto(k, "delete")
  /\ UNCHANGED <<index, row, active, turn, epoch>>

\* remove_if_clean, second half: git worktree remove, which refuses a dirty
\* worktree by itself and may fail on a clean one.
RemoveWorktree(k) ==
  /\ cleanup[k].pc = "remove"
  /\ \/ worktree' = [worktree EXCEPT ![cleanup[k].name] = IF @ = "clean" THEN "absent" ELSE @]
     \/ UNCHANGED worktree
  /\ KGoto(k, "delete")
  /\ UNCHANGED <<index, row, active, turn, epoch>>

\* Mutant: the record goes but its session stays.
DeleteRowKeepsSession(k) ==
  LET c == cleanup[k].chan
  IN  /\ cleanup[k].pc = "delete"
      /\ row' = [row EXCEPT ![c] = [Blank EXCEPT !.session = row[c].session]]
      /\ epoch' = [epoch EXCEPT ![c] = @ + 1]
      /\ KGoto(k, IF cleanup[k].kind = "reset" THEN "done" ELSE "final")
      /\ UNCHANGED <<index, worktree, active, turn>>

\* repo.delete; the rebuilt runner template is the same as before.
DeleteRow(k) ==
  LET c == cleanup[k].chan
  IN  /\ cleanup[k].pc = "delete"
      /\ row' = [row EXCEPT ![c] = Blank]
      /\ epoch' = [epoch EXCEPT ![c] = @ + 1]
      /\ KGoto(k, IF cleanup[k].kind = "reset" THEN "done" ELSE "final")
      /\ UNCHANGED <<index, worktree, active, turn>>

\* Back in the handler: unregister the channel.  A rename registers it again
\* under its new name, at once or after the owner was told of a kept worktree.
Unregister(k) ==
  LET c == cleanup[k].chan
      renamed == cleanup[k].kind = "update"
  IN  /\ cleanup[k].pc = "final"
      /\ index' = [index EXCEPT ![c] = IF cleanup[k].kept THEN None ELSE cleanup[k].to]
      /\ KGoto(k, IF renamed /\ cleanup[k].kept THEN "dm" ELSE "done")
      /\ UNCHANGED <<row, worktree, active, turn, epoch>>

Reregister(k) ==
  /\ cleanup[k].pc = "dm"
  /\ index' = IF cleanup[k].to = None THEN index
              ELSE [index EXCEPT ![cleanup[k].chan] = cleanup[k].to]
  /\ KGoto(k, "done")
  /\ UNCHANGED <<row, worktree, active, turn, epoch>>

-----------------------------------------------------------------------------
\* The steps the event loop takes once what they await has happened.
TurnStep(t) ==
  \/ CheckActive(t) \/ Interrupt(t) \/ Interrupted(t) \/ Joined(t)
  \/ PrepareCwd(t) \/ EnsureRow(t) \/ CountTurn(t) \/ Launch(t) \/ Start(t)
  \/ Spawn(t) \/ SpawnFails(t) \/ TurnEnd(t) \/ PostTurn(t)

CleanupStep(k) ==
  \/ Confirm(k) \/ Cancel(k) \/ KInterrupted(k) \/ KJoined(k) \/ ReadRecord(k)
  \/ CheckClean(k) \/ RemoveWorktree(k) \/ DeleteRow(k) \/ Unregister(k)
  \/ Reregister(k)

\* What the Claude subprocess of a turn does.
ClaudeStep(t) == Report(t) \/ EditFiles(t) \/ ProcExit(t)

\* What Discord users and the operator do.
UserStep ==
  \/ \E c \in Channels, n \in Names : Register(c, n)
  \/ \E c \in Channels : DropCategory(c)
  \/ \E t \in Turns, c \in Channels : Arrive(t, c)
  \/ \E k \in Cleanups, c \in Channels :
       \/ BeginDelete(k, c)
       \/ BeginReset(k, c)
       \/ \E n \in Names \cup {None} : BeginUpdate(k, c, n)

Next ==
  \/ UserStep
  \/ \E t \in Turns : TurnStep(t) \/ ClaudeStep(t)
  \/ \E k \in Cleanups : CleanupStep(k)

Spec == Init /\ [][Next]_vars

\* Every await of the bot's own coroutines returns, and a signalled subprocess
\* exits (interrupt escalates to terminate and then to kill).
LoopFairness ==
  /\ \A t \in Turns : WF_vars(TurnStep(t))
  /\ \A t \in Turns : WF_vars(turn[t].proc = "signalled" /\ ProcExit(t))
  /\ \A k \in Cleanups : WF_vars(CleanupStep(k))

FairSpec == Spec /\ LoopFairness

\* In addition, Claude finishes every turn it is given.
ClaudeFinishes == \A t \in Turns : WF_vars(ProcExit(t))

LiveSpec == FairSpec /\ ClaudeFinishes

-----------------------------------------------------------------------------
(***************************************************************************)
(* What holds whatever the messages and events are, and however they       *)
(* interleave.                                                             *)
(***************************************************************************)

\* The entry in _active is always a turn of that channel whose task is still
\* being awaited by its handler, although overlapping turns overwrite and pop
\* each other's entries: no message and no teardown waits for a dead task.
ActiveIsLive ==
  \A c \in Channels : active[c] # None =>
    turn[active[c]].chan = c /\ turn[active[c]].pc = "running"

\* A handler only ever waits for a turn that has got past its own waiting, so
\* messages that replace each other cannot end up waiting in a circle.
WaitsOnStarted ==
  /\ \A t \in Turns : turn[t].pc \in Waiting =>
       turn[t].wait # None /\ turn[turn[t].wait].pc \in {"running", "post", "done"}
  /\ \A k \in Cleanups : cleanup[k].pc \in {"exitwait", "join"} =>
       cleanup[k].wait # None /\ turn[cleanup[k].wait].pc \in {"running", "post", "done"}

\* The session in a channel's row, and the one a turn resumes, was created by a
\* run of that very channel, across resets, renames and overlapping turns: one
\* channel never continues another channel's conversation.
CreatedIn(s, c) == turn[s].chan = c /\ turn[s].proc # "none" /\ turn[s].session = None

SessionIsolation ==
  /\ \A c \in Channels : row[c].session # None => CreatedIn(row[c].session, c)
  /\ \A t \in Turns : turn[t].session # None => CreatedIn(turn[t].session, turn[t].chan)

\* Teardowns race with Claude editing the worktree between git status and git
\* worktree remove; even so a dirty worktree is never removed.
DirtyPreserved ==
  [][\A s \in Slugs : worktree[s] = "dirty" => worktree'[s] # "absent"]_vars

\* Under ClaudeFinishes every message that arrives is dealt with, also when it
\* waits for the turns of several earlier messages.
MessageHandled ==
  \A t \in Turns : turn[t].pc = "prompt" ~> turn[t].pc \in {"done", "aborted", "cachemiss"}

\* A teardown that has begun ends, also when it must wait for a turn.
TeardownEnds ==
  \A k \in Cleanups : cleanup[k].pc \in {"exitwait", "join", "record"} ~> cleanup[k].pc = "done"

-----------------------------------------------------------------------------
(***************************************************************************)
(* What the documentation says.  OneTurnPerChannel, TeardownAlone and      *)
(* ResetForgets hold only in the quieter world of ChannelSessionSerial;    *)
(* the two after them do not hold at all.                                  *)
(***************************************************************************)

\* "Never mutated concurrently because discord.py single-loops the cog": at
\* most one turn of a channel is running.
OneTurnPerChannel ==
  \A t, u \in Turns : turn[t].pc = "running" /\ turn[u].pc = "running"
                      /\ turn[t].chan = turn[u].chan => t = u

\* "Interrupt any active turn before we touch the filesystem": a teardown that
\* is inspecting or removing the worktree has no running turn in its channel.
TeardownAlone ==
  \A k \in Cleanups, t \in Turns :
    cleanup[k].pc \in {"status", "remove"} /\ turn[t].pc = "running" =>
      turn[t].chan # cleanup[k].chan

\* A reset deletes the record, so that the next message starts afresh: the
\* session in the row was created since the row was last deleted.
ResetForgets ==
  \A c \in Channels : row[c].session # None => turn[row[c].session].born = epoch[c]

\* A message that found an active turn interrupts it: it does not wait for as
\* long as Claude cares to go on.
ReplacedTurnYields ==
  \A t \in Turns : turn[t].pc = "react" ~> turn[t].pc = "prepare"
=============================================================================
