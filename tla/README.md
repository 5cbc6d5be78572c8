# Formal models of the Discord bridge for Claude Code

These TLA+ modules model the concurrent core of the bridge: how messages,
channel events and resets of a Discord channel become runs of the Claude CLI,
how those runs share the process-wide session limit, how approvals, questions and
dialogs travel between the CLI and the users, how text and status reach Discord,
how the sessions of threads are interrupted, reset, forked and resumed after a
restart, and what works beside them: the scheduler, the upgrade, hot reload and
the clean-up of worktrees. TLC checks the models on small instances; TLAPS proves
every safety property that the passing runs check, for every number of channels,
messages, teardowns, runs, slots, requests, questions, tools, threads, marks, tasks,
categories and worktrees, and every length of text.

Paths below are relative to the repository. `PROJECT.json` maps every
definition that models code to the lines it models.

## 1. Inventory

The bot is one Python process with one asyncio event loop. Nothing runs in
parallel, but every `await` lets any other coroutine run, and the CLI
subprocesses, git and Discord are outside the loop. A step of a model is
therefore what a coroutine does between two awaits.

### 1.1 The parts that carry the program's logic

**Channel-as-Session** (`cogs/channel_session.py`,
`services/channel_session_service.py`). Keeps `_active`: channel -> runner,
task. Operations: `on_message`/`handle_message`, `await_active_task`,
`cleanup_channel`, `/channel-reset`, the channel create, update and delete
events, the bulk worktree clean-up. Hard: `on_message` looks into `_active`
long before `handle_message` writes it, an interrupted turn is awaited through a
second read of `_active`, `finally` pops whatever entry is there, and a teardown
works through five awaits. Correct when a channel runs one turn at a time, a
teardown works alone, a forgotten session stays forgotten, and nobody waits for
something that will not happen.

**Channel session table** (`database/channel_session_repo.py`). One row per
channel: session, name, counters, context statistics, topic state. `ensure`
creates or renames, `save` runs on every session event, `delete` is the reset.
Correct when the row belongs to the conversation that was held since it was
created, and `turn_count` counts messages.

**Channel index and `projects.json`** (`config/projects_config.py`,
`services/channel_naming.py`, `services/projects_watcher.py`,
`services/runner_cache.py`). Channel -> project under which a message is handled;
rewritten by channel events and by hot reload. Hard: handlers capture a project
before they wait. Correct when a deleted channel is not in the index and a
renamed one is in it under its new name.

**Channel worktrees** (`services/channel_worktree.py`). `ensure`, `is_clean`
(cached for 5 s), `remove_if_clean`, `remove_force`. Hard: `git status` and
`git worktree remove` are two commands. Correct when no uncommitted work is
removed unasked, and no worktree vanishes from under a subprocess.

**Running Claude** (`cogs/_run_helper.py`, `cogs/run_config.py`,
`cogs/event_processor.py`). `run_claude_with_config` is the one way to the CLI:
session registry, session limit, event loop, worktree clean-up, and a recursive
call after a compaction or an answered question. Hard: slots must survive every
way out. Correct when the limit holds, no slot is lost, and reruns and answers
go on in the conversation they belong to.

**Claude subprocess** (`claude_code_core/runner.py`). Spawn, stream,
`interrupt` that escalates to terminate and kill. Hard: `interrupt` only reaches
a subprocess of the same runner object, and runners are cloned.

**Tool approvals** (`mcp/approval_broker.py`, `mcp/permission_server.py`,
`mcp/prefix_allowlist.py`, `discord_ui/approval_view.py`). Listeners per channel,
pending futures, a cache of tools allowed for the session; a view with three
buttons and a timer of its own. Hard: two timers, racing clicks, listeners
replaced by overlapping turns. Correct when a tool is allowed only because
somebody said so, and every request is answered.

**Questions to the user** (`discord_ui/ask_bus.py`, `ask_handler.py`,
`ask_view.py`, `database/ask_repo.py`, `bot.py`). A queue per thread between the
buttons and the run that waits; pending questions survive a restart. Hard:
answers of an old question, two questions of one thread, a restart while one
waits. Correct when an answer reaches the run that asked, once.

**Thread mode** (`cogs/claude_chat.py`, `claude_code_core/session_repo.py`,
`database/resume_repo.py`). One thread is one session: `_active_runners`,
`_active_tasks`, interruption by a new message, `/stop`, `/clear`, resumption
after a restart. Hard: the session to resume is read before the running turn is
awaited; marks for resumption expire. Correct when a thread runs one session
and a marked thread is resumed once.

**Scheduler** (`cogs/scheduler.py`, `database/task_repo.py`). Due tasks are
rescheduled, then spawned; a one-shot task is disabled when it has run.
Hard: the loop works through a list read before its awaits, runs outlast their
interval. Correct when a task never runs twice at once and none is lost.

**Auto upgrade** (`cogs/auto_upgrade.py`, `cogs/webhook_trigger.py`). Approve,
upgrade, drain, mark the sessions to resume, restart, behind one lock. Correct
when a pipeline restarts into what it has built itself, waits for the counted
sessions, and always gives the lock back.

**Streaming and status** (`discord_ui/streaming_manager.py`,
`discord_ui/status.py`, `discord_ui/tool_timer.py`). Delayed tasks that edit a
message or swap a reaction and are cancelled at any await. Correct when no part
of the text is missing, a tool's result stays, and no reaction is left.

**Requests of Claude** (`discord_ui/permission_view.py`, `elicitation_view.py`,
`plan_view.py`). A view whose buttons write the answer to the CLI's stdin. Hard:
acknowledgements that Discord refuses, forms that are dismissed. Correct when
every request is answered.

**Thread worktrees** (`worktree.py`, `cogs/session_manage.py`). Removal at the end
of a session, at start-up and by command. Hard: sweeps run in worker threads
and use a list of active sessions made before. Correct when no active session
loses its worktree and no uncommitted work is removed unasked.

**Topic and warnings** (`services/topic_updater.py`). Rate-limited topic edits
and a context warning with hysteresis (0.80 / 0.65). Correct when each crossing
warns once.

**Dashboard, inbox, session sync, HTTP API, notifications, lounge**
(`discord_ui/thread_dashboard.py`, `database/inbox_repo.py`, `session_sync.py`,
`ext/api_server.py`, `database/notification_repo.py`, `lounge.py`). Mostly
single-step reads and writes of a table; the dashboard edits one message from
several coroutines, the sync imports sessions a second time if asked twice.

### 1.2 The parts without state of interest

The stream parser, prompt builder, embeds, chunker, table renderer, statusline,
the command line, the set-up code, the one-time migration and the example bot
decode, format or wire. They are listed in `PROJECT.json` with the reason each
is left out.

### 1.3 How the parts interact

    Discord events -> cog -> ChannelSessionService -> run_claude_with_config
                       |          |    |                   |        |
                 ProjectsConfig  repo  ChannelWorktree   Semaphore  ClaudeRunner
                                  |                                  | MCP
                            (row, session)  ApprovalView <- ApprovalBroker

`_active`, the index, the table and the worktrees are shared by all handlers of
a channel. The broker's listener is registered and removed by `handle_message`.
The session limit is shared by every mode, and by the scheduler, the webhooks
and the API.

## 2. Modules

| Module | Models | State |
|---|---|---|
| `ChannelSession` | cog, service, table, index, worktrees and subprocesses of Channel-as-Session mode | `index`, `row`, `worktree`, `active`, `turn` (the locals of one `on_message`), `cleanup` (those of one teardown), `epoch` (history) |
| `ChannelSessionSerial` | the same code in a quieter world | the same |
| `Conversation` | abstract: one channel, one session | `holder`, `session`, `served` |
| `ApprovalBroker` | broker, view and MCP call of tool approvals | `listener`, `cache`, `pending`, `answer`, `view`, `click`, `req`, `turn`; `pressed` (history) |
| `RunClaude` | `run_claude_with_config`, `asyncio.Semaphore`, session registry | `free`, `queue`, `run`, `registry`, `spoken` (history) |
| `ThreadSession` | the thread cog, its two dictionaries, `sessions` and `pending_resumes`, restarts | `runner`, `task`, `row`, `call` (the locals of one coroutine), `marks`, `written`, `marking`, `ready` (the locals of each `on_ready` task); `calm` (the users' pace); `given`, `shared`, `doubled` (history) |
| `ChannelRegistry` | `projects.json`, `ProjectsConfig`, `RunnerCache`, `ProjectsWatcher`, the channel events and the start-up scan | `file`, `live`, `registered`, `runners`, `watcher`, `conn`, `guild`, `object`, `pending`, `outdated`, `failed`; `base`, `handed`, `stale` (history) |
| `Scheduler` | `SchedulerCog`, `scheduled_tasks`, the requests that change it | `status`, `due`, `loop`, `batch`, `running`, `exec` |
| `AutoUpgrade` | the upgrade pipelines, their lock and gates, the drain; webhook triggers | `config`, `pc`, `lock`, `gate`, `next`, `commands`, `env`, `entries`, `chats`, `hooks`, `counted`, `snapshot`, `marked`; `ousted`, `drained` (history) |
| `Worktrees` | worktrees on disk and all that removes them beside a channel's teardown | `disk`, `session`, `indexed`, `cached`, `sweep`, `ready`; `spared` (history) |
| `AskAnswers` | `AskAnswerBus`, views, forms, `pending_asks`, restart | `asker`, `waiter`, `inbox`, `asked`, `buttons`, `alive`, `forms`, `callbacks`; `apart`, `late`, `misfits` (history) |
| `RequestDialogs` | permission, plan and elicitation views, the answer through stdin | `stdin`, `dialog`, `chosen`, `injected`; `lapsed` (history) |
| `StreamingText` | deltas of the event processor and `StreamingMessageManager` | `said`, `block`, `from`, `to`, `current`, `posts`, `writer`, `delayed`; `refused` (history) |
| `RunDisplay` | tool messages and timers, status reactions, stop button of one run | `stage`, `handler`, `copies`, `embed`, `timers`, `tracked`, `target`, `emoji`, `shown`, `debounce`, `stall`, `stop`; `severed`, `stuck` (history) |
| `MCSafety`, `MCLive`, `MCDialogs`, `MCRuns` | several components in one run (see 3) | `moving` |
| `MCChannelSession`, `MCChannelSessionSerial`, `MCThreadSession` | symmetry sets for TLC, and which combinations an instance leaves out (§3) | |
| `ChannelSessionProofs`, `ChannelSessionSerialProofs`, `RunClaudeProofs`, `ThreadSessionProofs` | theorems and proofs of the module they are named after | |
| `ViewProofs` | of `AskAnswers`, `StreamingText` and `RunDisplay` | |
| `DialogProofs` | of `ApprovalBroker`, `RequestDialogs` and `MCDialogs` | |
| `ServiceProofs` | of `Scheduler`, `AutoUpgrade`, `ChannelRegistry` and `MCRuns` | |
| `SafetyProofs` | of `Worktrees` and `MCSafety` | |

The modules are linked by what they assume of each other.
`ChannelSession` shows that two turns of one channel may overlap, and
`ApprovalBroker` therefore lets them. `RunClaude` shows that every call ends or
asks, which is what `ClaudeFinishes` in `ChannelSession` and the one step
`CallEnd` in `ThreadSession` take for granted. `AskAnswers` is what
`RunClaude` calls `Answered` and `Unanswered`; `RunDisplay` and `StreamingText`
are inside its legs; `Scheduler` and `AutoUpgrade` use a run as one step that
ends. `ChannelRegistry` and `ChannelSession` both have the index: the one
with everything that changes it and a teardown as one wait, the other with every
await of the teardown and registration as one step.

### 2.1 `ChannelSession`

A turn walks through the program counters of `on_message` and `handle_message`;
each stands for the code between two awaits:

| `pc` | the coroutine awaits | next action |
|---|---|---|
| `prompt` | `build_prompt_and_images` | `CheckActive` reads `_active` |
| `react` | the reaction that announces the interruption | `Interrupt` |
| `exitwait` | the end of the interrupted subprocess | `Interrupted` reads `_active` again |
| `join` | the task of the turn it replaces | `Joined` |
| `prepare` | `ChannelWorktreeManager.ensure` | `PrepareCwd` |
| `ensure`, `count` | the two table writes | `EnsureRow`, `CountTurn` |
| `launch`, `start` | notices and the status reaction | `Launch`, `Start` (enters `_active`) |
| `running` | its run: `Spawn`, `Report`, `EditFiles`, `ProcExit` | `TurnEnd` (the `finally`) |
| `post` | the counters after the run | `PostTurn` |

A teardown does the same for `/channel-reset` (which waits for its
confirmation), a deletion and a rename or move: `KInterrupted`, `KJoined`,
`ReadRecord`, `CheckClean`, `RemoveWorktree`, `DeleteRow`, `Unregister`,
`Reregister`. Users and the operator may send a message, register, rename or
delete a channel, or drop its category at any step.

Abstractions: one project with one repository, so that a worktree is its slug;
a session is named by the turn that created it, and `--resume` keeps it; the
end of a task and the handler's `finally` are one step; waiting for a slot is
part of the time before `Spawn`; reruns and questions, which stay inside one
`running`, are in `RunClaude`; the wording of notices, topics and the context
statistics are left out. A turn in `ContextTurns` has a system context, for
which `run_claude_with_config` clones the runner: `Reaches` is false for it.
There is no restart in this module: `_active`, turns and subprocesses die with
the process and `startup_scan` is `Register`.

### 2.2 `ChannelSessionSerial` and `Conversation`

`Conversation` is the promise of `docs/channel_as_session.md`: a channel runs one
turn at a time, every turn goes on with the session the ones before it left, and
a reset forgets it, never under a running turn. The code does not keep it in
general (run `two_turns`), because a handler is invisible between its check and
its entry in `_active`. `ChannelSessionSerial` adds the one assumption that is
missing: a message, an event or a confirmation arrives while no other handler of
that channel is in this window (`Quiet`). It may arrive while a turn runs, and
interrupt and replace it. Then the code implements `Conversation`, with
`_active` as `holder` and the session column as `session`.

A second assumption is about worktrees, which belong to names and not to
channels: a channel gets a `wt-` name only if no other channel has it, nor has a
teardown of another channel it in hand (`Free`). Without it, `WorktreeUnderTurn`
fails with two channels.

### 2.3 `ApprovalBroker`

A request is one call of `submit`: `Submit` (policy, cache, or a new future),
`Posted`, then `Wake`, `Timeout` or `Cancel`. A button is two steps, `Click` and
`Handle`, because the acknowledgement is awaited in between; `DeferFails` ends
it early. `ViewTimeout` is the view's own timer. Turns register and unregister
the listener, also those of an overlapping turn. The allowlist's verdict is a
free choice, the two timers are unordered (the code orders them only for one
setting, and the view's starts anew at each click), and requests come from
running turns.

### 2.4 `RunClaude`

A run is one call from outside; its legs are the recursive calls. `Call` is the
code from the start of a call to its first await, with the arguments of the leg
as a record: it registers the thread and takes a slot or announces the wait.
`Acquire` and `Release` are `asyncio.Semaphore`, which hands a slot to the first
waiter. `FindCompact` and `FindAsk` are what the event processor discovers,
`EndLeg` is the end of the `async with` and the `finally`, `Rerun`, `AskUser`,
`Answered` and `Unanswered` what follows. A session is named by the run, prompt and
kind of leg that started it, so that a lost conversation shows as a second
session in `spoken`. The end of a leg, `finalize` included, is one step; that
`finalize` may itself raise, which ends the call with the slot given back, is left
out.

### 2.5 `ThreadSession`

A call is one coroutine that acts on a thread, whatever started it. Its program
counters stand for the code between two awaits:

| `pc` | the coroutine awaits | next action |
|---|---|---|
| `lookup` | the session row | `Lookup` captures its session |
| `prompt` | prompt, attachments, inbox | `CheckRunner` reads `_active_runners` and `_active_tasks` |
| `notice`, `exitwait`, `join` | the notice, the signalled process, the task of the run it replaces | `Interrupt`, `Interrupted`, `Joined` |
| `begin` | the start of its own task | `BeginRun` enters `_active_tasks` |
| `setup`, `start` | dashboard, settings, status; the stop button | `Install` enters `_active_runners`; `Launch`, `SetupFails` |
| `running` | its run: `Report`, `ProcExit` | `CallEnd` (the `finally`) |
| `menu`, `killwait`, `delete` | the choice of a turn, the killed process, the row's deletion | `PopRunner`, `Killed`, `DeleteRow` |

`Arrive` starts a reply, `/compact` or `/rewind`; `Clear` is `/clear`; `Spawn` a
new conversation, `/api/spawn`, a `/skill` outside the threads or the resume menu,
and `Fork` is `/fork`. `Skill` is `/skill` in a thread: it captures the row's
session and runs Claude (`SkillStarts`, `SkillEnds`) without an interrupt and
without an entry in the two dictionaries, beside whatever runs there.
`MarkBegins`, `MarkReads`, `MarkWrites` and `MarkFails` are the loop that
`cog_unload`, the auto upgrade and `/api/mark-resume` share, one of them at a
time. `Restart` may come at any step and leaves only the two tables.

`on_ready` is a task of its own at every connection of the gateway, so that the
tasks of two connections overlap and either may begin next to running threads:
`Handlers` are those under way at once, and `OnReady`, `ReadyDelete`,
`ReadyFails`, `ReadySkip` and `Resume` are what one does. Two of them may have read
the same row before either deleted it; the row is then in `shared`. A thread that
is resumed beside a call of it, at which `on_ready` does not look, is in `doubled`
until the next restart.

`calm` is chosen in the initial state. If it is false, anything may arrive at any
time. If it is true, `Quiet` and `Idle` hold users back while a handler of their
thread is invisible to others, and from resetting a session that is being run; they
may still interrupt runs with replies. The gateway, restarts and marks keep no pace
in either world. All properties but `OneRun` and `ReplyContinues` are about both.
`SingleFire` is about the rows that are not in `shared` and `OneRun` about the
threads not in `doubled`, since of the others the code makes the opposite true
(see 6); `OneRun` does not count the runs of skills.

Abstractions: a session is named by the call whose run created it; rows expire
as any subset of `pending_resumes`; `/stop` and the stop button make `ProcExit`
happen, which may happen anyway; reruns, questions and the slots are inside
`running` (see `RunClaude`); the history file that
`/rewind` truncates is the CLI's; an explicit session id in `/api/mark-resume` is
left out.

### 2.6 `ChannelRegistry`

`SetUp` is the part of `setup_bridge` that loads the file; `WatcherStarts`,
`Stat`, `LoadFails` and `LoadAndApply` are the watcher's loop, one action per
await, the file being whatever it is by then: a content (a set of categories, or
one of three ways to be unreadable) and an mtime. `LoadAndApply` contains
`_on_projects_change`, error included (see 6). `ChannelCreated`,
`ChannelChanged` and `ChannelDeleted` are the events up to the teardown,
`UpdateTornDown`, `DeleteTornDown` and `TearDownRaises` what comes after it;
handlers of one channel overlap. An event is lost when `conn` is not `"ready"`;
`OnReady` is the scan. A handler registers what the channel object it was given says
by then (`object`), and discord.py keeps that object up to date while the connection
lasts. A new connection (`Identified`) makes new objects, and the handlers that are
still tearing down keep the old ones (`outdated`), of which no later event speaks:
what they register is the place from before the connection (`OutdatedTornDown`).
`stale` are the channels that such a handler was the last to register;
`NoDeafChannel` is about the others. A category is a set element, a name is good
or unresolved.

### 2.7 `Scheduler`

`WakeUp`, `TakeNext`, `Advance`, `StartRun` and `BatchDone` are the master loop,
cut at `get_due` and `update_next_run`. `get_due` orders by `next_run_at`, which is
abstracted to whether it has passed (`due`): any order is possible. `StartRun` is
the creation of the task and its first step up to its first await, between which
the loop does not look at that task again. `ThreadReady`, `ClaudeEnds`,
`DisableOneShot` and `EndsEarly` are `_run_task`. `CreateTask`, `DeleteTask`,
`SetEnabled`, `Postpone` are REST requests, also between two steps of the loop.
`LoopDies` is an exception that ends a `discord.ext.tasks` loop, `BotDies` a
crash with restart.

### 2.8 `AutoUpgrade`

A pipeline waits in one of `PipelinePCs`. `WebhookTriggers` takes the lock without
an await after looking at it, `CommandChecks` and `CommandEnters` with one. The
gate is a view and a reaction watcher with one event; a press is acknowledged
before it counts (`Press`, `Acknowledged`). `Begin`, `CommandEnds` and
`StepTimesOut` run the commands; one that times out is not killed, and keeps
changing `env` for `Nobody`. `Snapshot`, `DrainPoll`, `DrainTimesOut`, `Mark`,
`Restart` follow. `Fails` is any notice that Discord refuses. Of the cogs the drain
asks, the webhook cog counts up and down (`HookFires` to `HookEnds`) and the thread
cog answers with the length of `_active_runners` (`entries`). Whether a Claude runs
in a thread is another matter (`chats`, at most `MaxBeside` at a time): a run enters
as it starts (`ChatStarts`, perhaps without ever getting to Claude), every run pops
the thread's entry as it ends (`ChatEnds`), whoever made it, and `/clear` or
`/rewind` drop it while a cloned run goes on (`ChatReset`). `ousted` are the threads
where one of these may have taken a running Claude's entry; `DrainRespected` is
about the others, and about the webhooks.

### 2.9 `Worktrees`

`disk` says whether a worktree exists and what `git status` says of it; Claude and
users edit and commit at any time (`Edited`). `EndChecks`/`EndRemoves` are the end
of a thread's session. A sweep is a coroutine with its worker thread: the one of
`on_ready`, `/worktree-cleanup`, `/ch-worktree-cleanup` and its forced form; it
lists, checks and removes one worktree at a time (`Scans`, `Checks`,
`SweepRemoves`). `git worktree remove` without `--force` refuses a dirty
worktree (`Removes`). `cached` is the 5 s cache, whose age is a free choice.

### 2.10 `AskAnswers` and `RequestDialogs`

A call of `collect_ask_answers` goes through `SaveQuestion`, `ShowView`,
`TakeAnswer` or `QuestionExpires`, `RowDropped`, `MadeInert` for each question.
`PressView`, `OpenForm` and `SubmitForm` are what users do with any view that is
`alive`, `Acknowledge` and `DropStale` the rest of the callback, after its await.
Discord may refuse it: after a press the exception skips `self.stop()`, and buttons
and view of the answered question stay alive; after a form it is forgiven. The bus
knows the thread only; so does the model: one `waiter`. `Reboot` and `RestoreViews`
are the restart. `AnswerFits` lets users press and submit what they like, twice, late
and on views that should be dead. It says that an answer given while its own question
waits is taken for that question; it assumes that no two calls of the thread have
overlapped (`apart`), and an answer given when its question no longer waits (`late`)
may be taken by the next one, as the code does (see 6).

In `RequestDialogs` a request is a view with two buttons; a press defers
(`Choose`, `DeferRaises`), answers (`ChoiceMade`), and edits. Elicitations in
form mode (`Forms`) open a modal instead (`FormOpens`), whose view has stopped by
then. It is submitted (`FormSubmitted`) or left (`FormLapses`), and the submission may be
refused as a press may be (`SubmitRaises`): nothing has been answered then, and the
form can only be submitted again. `Skippable` requests are those for
permissions, which a run with skipped permissions grants at once.

### 2.11 `StreamingText` and `RunDisplay`

The text of one block is the interval `1 .. said`; the buffer and each message
show intervals of it. `PartialText`, `CompleteText` and `WholeText` are the three
ways text comes in, `Overflow`, `Cut`, `FlushNow`, `FlushLater` and `Flushed`
are `append`, `Finalize` and `Rest` are `finalize`, `DelayedFlush` and
`DelayedFlushed` the delayed task. A request is two steps, made and answered,
and may be refused.

`RunDisplay` has the event handlers of one run as far as they show something, in
the order of their awaits, the tool timers, the debounced task of the status
with its two requests, the stall monitor and the stop button that moves down. A tool
use may be announced again by a partial message (`copies`, at most `MaxCopies`): it
gets a second embed and a second timer, which replaces the first in
`active_timers` (`tracked`), so that nothing cancels the first one. Discord may refuse
to add or to remove a reaction (`Add`, `Remove`), and the bot goes on as if it had not:
`stuck` are the reactions that are left by it. `DisplaySettles` is about the last
message of each tool use and the reactions that are not stuck.

## 3. Runs

| Run | Checks | Shows | Instance, distinct states |
|---|---|---|---|
| `channel` (`MCSafety`) | `SafetyTypeOK`, `ActiveIsLive`, `WaitsOnStarted`, `SessionIsolation`, `DirtyPreserved`; `ManualSparesActive`, `DirtyOnlyForced`; `WaiterListens`, `AnswerFits`; `TextShown`; `DisplaySettles` | whatever overlaps, `_active` points at a live task, waits form no circle, no channel continues another's conversation; sweeps spare active sessions and uncommitted work; an answer given while its question waits is taken for it; text and results are shown, no reaction is left but the refused ones | 2 messages, 1 teardown, 1 channel with 1 worktree or 2 channels; 2 worktrees, 1 sweep; 2 askers, 1 of them with 2 questions, 1 restart; text of 8 in messages of 2; 1 tool use announced twice, 1 rerun; 1.9 M |
| `live` (`MCLive`) | `MessageHandled`, `TeardownEnds`; `NoDeafChannel`, `EditDispatched`; `OneExecutionPerTask`, `EnabledTaskRuns` | messages and teardowns end; no channel is deaf unless an outdated handler was the last to register it, edits are dispatched; tasks run, once at a time | 2 messages, one of them with a cloned runner, 1 teardown; 1 channel, 2 categories, 2 edits, 3 changes; 2 tasks, one of them one-shot, 2 executions, 1 death; 418 k |
| `serial` | `OneTurnPerChannel`, `TeardownAlone`, `ResetForgets`, `TurnCountExact`, `WorktreeUnderTurn`, `OneChannelOneSession` | in the quieter world the documented promises hold | 3 messages, 1 teardown, 1 worktree; 1.8 M |
| `approval` (`MCDialogs`) | `DialogsTypeOK`, `AllowJustified`, `PressReaches`, `RequestAnswered`; `RequestSettled` | nothing is allowed unasked, no decision is lost, every request is answered, unless a form is left or refused and not sent again | 2 turns, 2 requests, 2 tools; 1 dialog with buttons, 1 with a form, 2 refusals; 526 k |
| `slots` (`MCRuns`) | `RunsTypeOK`, `SlotsConserved`, `CompactKeepsSession`, `RunEnds`; `RestartsWhatItBuilt`, `DrainRespected`, `TriggerEnds` | the limit holds, no slot is lost, compaction keeps the conversation, runs end; an upgrade restarts into its own build, waits for every Claude whose entry nothing took, and ends | 3 runs, 2 slots, 2 prompts each; 1 webhook, 1 command, 1 thread with 2 runs at a time, 1 prefix, 1 time-out; 410 k |
| `threads` | `SessionOrigin`, `SingleFire`, `CountsLive`, `WaitsOnBegun`, `OneRun` | sessions stay in their thread, a mark that one `on_ready` task reads resumes once, `active_count` counts no run that ended regularly, waits form no circle, calm users get one run at a time | 2 threads, 3 calls, two of them with a cloned runner, the third perhaps a `/skill`, 1 mark, 2 `on_ready` tasks; 1.6 M |
| `two_turns` | `OneTurnPerChannel` | violated: two messages run side by side | 2 messages |
| `replaced_yields` | `ReplacedTurnYields` | violated: the old turn is not interrupted | 2 messages, one with a cloned runner |
| `hot_reload` | `HotReload` | violated: an edit is never applied | 2 categories, 1 edit |
| `reply_continues` | `ReplyContinues` | violated: a reply to a thread's first run starts another session | 2 threads, 2 calls |
| `fork_independent` | `ForkIndependent` | violated: a fork continues the session of its source | 2 threads, 2 calls |
| `answer_resumes` | `AnswerResumes` | violated: an answer starts a new session | 1 run |

The four `MC` modules with a variable `moving` check several components in one run.
As modelled these components share no state, so a behaviour of the bot is an
interleaving of behaviours of theirs, and a property of one component holds of it
iff it holds of that component's part. TLC therefore lets one component move in
each behaviour, chosen by `moving` in the initial state; the others have one
initial state and stay there, and their fairness is about the one that moves.
Nothing that two components do to each other is lost by this, because such effects
are inside the components (an overlapping turn in `ApprovalBroker`, a session that
ends at any time in `AutoUpgrade` and `Worktrees`).

The bounds are the sizes of the sets and the constants named `Max...`, each a
guard of the actions that count: `MaxPrompts` of a run, `MaxMarks` in
`pending_resumes`, `MaxEdits` of the file, `MaxChanges` of channels and
connection, `MaxDeaths` and `MaxReboots` of the bot, `MaxPostpones`, `MaxTimeouts`
of steps, `MaxRefusals` by Discord, `MaxQuestions` of a call, `MaxPresses` that
are open at a time, `MaxCopies` of a tool use, `MaxBeside` runs of a thread at a time,
`MaxText` and `MaxReruns`; and the sets `SkillCalls` and `Handlers`. Two messages and one
teardown are what every race of this code needs: a handler in its window, one that does not see it, and
an event between them. A third message is in `serial`, where a message replaces
a turn that replaced another. Three runs for two slots make a run queue behind
another, and two prompts make a run call itself after a question. Three
calls in two threads are a run, a reply and a reset, fork, skill or resumption; one
mark meets any number of restarts and reconnections, and two `on_ready` tasks are
what it takes to read one row twice. Three changes of one channel are a rename and a
deletion whose handlers overlap after a reconnection, or two renames on either
side of one; two edits are one that
breaks the file and one that repairs it. Two executions of two tasks are one that
outlasts its interval and one of the other task; an execution that is over stands
for a new one. Two pipelines are one that holds the lock and one that has looked
at it. Text of 8 in messages of 2 is cut more than once while a delayed flush is
on its way. Two questions of one call and one of another are a question that is
replaced, and one that follows.

No cfg has a state constraint. Some of the `MC` modules strengthen the
next-state relation instead, each in one named or commented conjunct, where two
complications do not need each other for any property of the run. The theorems are
about the modules without these conjuncts, so what is proved covers the
combinations too; only for the properties that are not proved (§5) is the
restricted instance all there is.

- `MCSafety`: turns move in two instances. With every name there is one channel at a time,
  and no task raises; without worktrees there are two channels and tasks raise as they
  like. While several `AskUserQuestion` calls are open there is at most one press
  under way, and with calls one after the other as many as `MaxPresses`. A run
  whose status display was severed from its message is not followed further.
- `MCThreadSession` (`MCSpec`): with calm users, and while two `on_ready` tasks are
  busy, only one of the two threads is used: `OneRun` and `SingleFire` are about one
  thread. In all other states both are used.
- `MCRuns` (`OneTrouble`): once a step has been abandoned (`MaxTimeouts`), no run
  loses its entry in `_active_runners` to another or to a reset. `RestartsWhatItBuilt`
  is only about upgrades without such a step, and `DrainRespected` says nothing of
  abandoned steps.

Deadlock is not checked, since every model comes to rest when its messages,
requests or runs are used up. What must not wait for ever is said by the
liveness properties instead.

Each property has a mutant, a variant of one action with a plausible bug, that
violates it under the same configuration. The variants stand next to their
action, are marked `Mutant:` and belong to no specification.

## 4. Fairness

`LoopFairness`: asyncio runs every coroutine whose await is over, Discord and
SQLite calls return or raise, and a signalled subprocess exits, because
`interrupt` escalates to terminate and kill. A turn's steps get one weak fairness
condition together, since at any time a coroutine awaits one thing.

`ClaudeFinishes` is an assumption about the CLI, made by `LiveSpec` only: the
code has no time-out that would guarantee it (`readline` in
`claude_code_core/runner.py:405` waits as long as the CLI is silent).

`RunClaude!LiveSpec` assumes the event loop and that each process ends; it does
not assume that a user answers. `ApprovalBroker!FairSpec` assumes that sending
returns and the broker's timer goes off; it does not assume a click, nor the
view's timer. `ThreadSession!FairSpec` assumes the event loop and that each
process ends; only `reply_continues` uses it.

`RegFairness`: the bot is started when the file is valid, and the watcher's loop
goes on; nobody has to edit, rename or connect. `SchedFairness`: the loop goes on
while it lives, time passes `next_run_at`, and an execution makes its next step or
ends early. `UpFairness`: the pipelines go on and a package command ends by itself
(after `step_timeout` nobody waits for it); no approval is assumed, and no session
has to end, since the drain times out. `DlgFairness`: callbacks go on, a deadline
passes, an opened form is submitted or left, when Discord has done
with refusing. The `MC` modules state the same for the
component that moves.

## 5. Proofs

All theorems are about the specifications above with arbitrary constants; the
assumptions are the named `ASSUME`s: `None` is none of the values, `Main` is no
slug, `ContextTurns` are turns, there are finitely many runs and at least one
slot; an unresolved name is no good one; tasks, worktrees and webhook prefixes are
finite sets, since rows, directories and settings are listed; no pipeline is
started by webhook and command both; threads and webhook prefixes are different things;
bounds are natural numbers.

**`ChannelSessionProofs`** (`Spec`). `Inv` is `TypeOK`, `ActiveIsLive`,
`WaitsOnStarted` and `SessionIsolation` together with what a handler knows at
each `pc`: its channel (`Placed`), and when in its life a turn has a subprocess
and a session to resume (`Lifecycle`). None of the parts is inductive alone:
`WaitsOnStarted` needs `ActiveIsLive`, because what a handler waits for is read
from `_active`, and `SessionIsolation` needs to know that a turn reports only
while it runs and in its own channel. `UserInv`, `TurnStepInv`, `ClaudeStepInv`
and `CleanupStepInv` go through the actions. Theorems: `TypeCorrect`,
`ActiveIsLiveAlways`, `NoCircularWait`, `SessionsStayApart`, and
`DirtyNeverRemoved`, an action property from the guards of every step that
removes a worktree.

**`ChannelSessionSerialProofs`** (`SerialSpec`). `SerialInv` adds `OneHandler`
(a channel has one handler between check and entry), `Tracked` (so `_active`
names the running turn, and a handler past its waiting finds it empty) and
`Carries` (so the row a turn read is still there, in the same epoch, with the
session the turn resumes). From it follow `OneTurn`, `TeardownUndisturbed`,
`ResetIsFinal` and `ImplementsConversation`: initial states map to initial
states, and every step is a step of `Conversation` or leaves its variables alone.

`HouseInv` adds `Counts` (the counter is the number of turns counted in this epoch, and no
turn is ahead of its channel's epoch, so that a new row starts at nought),
`Apart` (what the index, the table and the handlers of two channels name has no
worktree in common) and `Housed` (a turn past `PrepareCwd` has its working
directory); from these follow `CountsAreExact` and `WorktreeStays`, for two
channels as for any number.

**`DialogProofs`** (`Spec` of `ApprovalBroker`, `DlgSpec`). `IInv` adds `RequestInv`
(view, future and `_pending` of a request fit its `pc`), `ResultInv` (what an allow
rests on) and `CacheInv` (a cached tool was put there by a button of that channel and
tool). Theorems `TypeCorrect`, `AllowsAreJustified`, `PressesReach`. For `DlgSpec`,
`DlgInv` has `FormsOnly` (only a form in form mode opens) and `ClosedIsAnswered`:
what a dialog looks like and what Claude has been told change in one step, so that
no view is stopped without an answer and none that has answered stays up, but for
turns that are over and forms that brought no answer. Theorem `NoSilentClose`.

**`ViewProofs`** (`AskSpec`, `TextSpec`, `DispSpec`). `AskInv` adds `Numbered` (only a
call that may ask further questions comes to its second) to `WaiterListens`, which is
inductive since a call leaves a question by way of `unregister` and whoever registers
replaces the waiter: `WaitersListen`. `FitInv` is what makes `AnswersFit` inductive: as
long as no two calls of the thread have overlapped (`apart`), one call at a time asks, and
the bus knows it by the question it is at (`InTurn`, of `ApartInv`); therefore an
answer to a question that waits enters the queue of that very question, and what is at
the head of a queue is an answer to it or one that came `late` (`OwnAnswers`). Which
views are alive, which forms are open and who presses what does not matter, so
the theorem holds with refused edits and restored views.

`TextInv` is about intervals of one block. `Kept`: everything before the buffer is in
messages other than those that a request on its way or a later edit may overwrite;
`CutShown`: what a cut is about to leave behind is in such a message already;
`Handles`: a message whose handle a coroutine has not stored yet is nobody else's;
`Phases`: where buffer and phases of the block are. What is in a message changes only
where `Kept` does not count, so `TextIsShown` follows when the last request is done.
`DispInv` has `TimersKnown` (a timer that is alive is known to the processor that
cancels it or its message is not the last of its tool use, and handlers run only during
the events), `ReactionsKnown` (which reactions can be on the message at each await of a
change, besides the `stuck` ones) and `StatusEnds` (after the result nothing starts a
change). Theorems `ResultsAreFinal`, `StatusIsFinal`.

**`RunClaudeProofs`** (`Spec`). `SlotInv` adds `QueueInv`: who is queued waits,
once. Without it a hand-over might give a slot to a run that holds one.
`SessionInv` says which sessions a run can have heard of, and that a leg with
the guardrail always resumes one. Theorems `TypeCorrect`, `SlotsNeverLost`,
`OneSessionPerPrompt`; the counting of slots and sessions rests on the library's
facts on finite cardinalities. `Remembered` is the converse of `QueueInv`: a run that
waits is in the queue, whoever enters and leaves it; with `SlotsConserved` it is
`NobodyIsForgotten`, the part of `RunEnds` that no fairness is needed for.

**`ThreadSessionProofs`** (`Spec`). `FiresOnce` rests on where the id of a row can
be (`Fire`): with the table and one `on_ready` task's list, with the entry the task acts
on, once the row is deleted, or with the call it started; if it is with two tasks it is in
`shared`, and fresh ids are larger than all of these. `SessionsStay` needs the
places a session passes through (`Origin`): the row, a captured session, the local of
the marking loop, the marks and what the `on_ready` tasks have read. `Entries` says that
the dictionaries, and what a waiting handler has captured from them, point at calls past
their own waiting, and never at a skill; since a begun call never waits again, no
circle can form. These hold whatever the users do. For calm users `Calm` adds what makes
`OneRun` inductive, for the threads that `on_ready` has not resumed beside a call
(`Plain`): a thread has one handler setting up (`OneHandler`), the dictionaries
hold the run on its way (`Tracked`), a handler past its waiting has no run beside it
(`Alone`), and one that still waits does so for the right run (`Awaits`). The two
invariants are proved from one description of how each step moves its call (`Moves`,
`Appears`). Theorems `TypeCorrect`, `FiresOnce`,
`SessionsStay`, `CountIsLive`, `NoCircularWait`, `OneAtATime`.

**`ServiceProofs`** (`SchedSpec`, `UpSpec`, `RegSpec`, `RunsSpec`). `SchedInv` adds
`Entered` (an execution on its way has its task in `_running`) and `NextIsFree` (the row
the loop is about to advance or spawn is not in `_running`): the guard of `TakeNext` is
looked at two awaits before the run starts, and what keeps it true is that only
the loop itself adds to `_running`. Theorems `SchedTypeCorrect`, `NeverTwiceAtOnce`, and
`NothingStaysRunning`: a task is in `_running` only while somebody executes it
(`Executed`), however executions end, since one that leaves was the only one of its task.

For `UpSpec`, `UpInv` adds `Holds` (past its waiting a pipeline holds the lock, so
there is one), `Owned` (without time-outs a package command belongs to the
pipeline that is at its step), `Behind` and `Built` (what has been installed by
the time a gate or the drain is reached), `CountIsExact` (the count of the triggers is the
number of those that run, whichever way they end) and `HasEntry` (a thread where Claude runs
has its entry, unless it is `ousted`, as is every thread with two runs). Theorems
`UpTypeCorrect`, `OwnBuild`, `DrainsToTheEnd`, and `LockIsFair`: who waits for the lock is
in its queue, once (`InLine`), which needs `Behind` and `Owned`, because gates and
commands say where a pipeline goes on.

For `RegSpec`, `RegInv` adds `RunnersFollow` (the runners are those of the live
categories, and a registered channel is in one of them), `SetUpFirst` (nothing is
registered before the set-up), `Gone` (a channel whose deletion is being handled
does not come back, and a new one has no handlers) and `ObjectsFollow` (while the bot is
connected, discord.py's objects say what Discord has). Theorems `RegTypeCorrect`,
`RunnerAlwaysThere` (for `RunnerForRegistered`, which `runner_cache.py:147`
relies on; no run checks it) and `NobodyDeaf`.

**`SafetyProofs`** (`WtSpec`, `SafetySpec`). `WtInv` adds `Manual` (a manual sweep works
on worktrees of threads, its list of active sessions contains those registered without
a break since it began, and what it has checked is not in that list).
Theorems `WtTypeCorrect`, `ActiveSpared`, and `DirtyStays`, an action property.

**The modules with several components.** `MCSafety`, `MCDialogs` and `MCRuns` let one
component move in each behaviour, so the theorems of the components carry over:
`SafetyImplements`, `DialogsImplement` and `RunsImplement` say that the whole implements
each component, every step of it being a step or a stutter of each. `SafetyTypeCorrect`,
`DisplayIsSettled`, `DialogsTypeCorrect`, `RunsTypeCorrect` and `BotIsSafe`, which has all
that the run `channel` checks besides the types, follow from these. `MCLive` has no
theorem of its own: its two invariants are theorems about `SchedSpec` and `RegSpec`.

So every invariant and every action property of a passing run is a theorem. Only
model-checked are

- the liveness properties `MessageHandled`, `TeardownEnds`, `EditDispatched`,
  `EnabledTaskRuns`, `RequestAnswered`, `RequestSettled`, `RunEnds` and `TriggerEnds`, since
  liveness under fairness is beyond the prover. Of six of them the part that is about
  safety is proved: what is waited for has not been lost (`NoCircularWait` for messages
  and teardowns, `NothingStaysRunning`, `NoSilentClose`, `NobodyIsForgotten`,
  `LockIsFair`);
- the violations, of which a counterexample is all there is to know.

## 6. What the code does otherwise

The violating runs, with the lines they contradict, are `findings` in
`PROJECT.json`. In short:

- Two messages that arrive within each other's set-up run side by side
  (`two_turns`); the same window lets a turn start under a teardown, and lets a
  session come back that a reset forgot. `serial` shows the window is the cause.
- The runner in `_active` is the one passed in, not the clone that runs when a
  system context is added, so interrupting it does nothing (`replaced_yields`).
- The answer to a question in a new session starts a further session
  (`answer_resumes`).
- The clone made for the system context forgets `fork_session`, so a fork goes on
  in the session of its source (`fork_independent`).
- An edit of `projects.json` is detected, and its application raises, because
  `dict` is applied to a list of categories; nothing is reloaded until a restart
  (`hot_reload`).
- A reply reads the session before it interrupts the running turn; if that is the
  first one and has not reported its session, the reply starts another
  (`reply_continues`).

Seen while modelling, without a run of their own:

- An exception of the CLI never reaches the service's error counter, which counts
  a success (`cogs/_run_helper.py:249`).
- Tools allowed "for the session" stay allowed after a reset
  (`mcp/approval_broker.py:150`: nothing removes an entry).
- A notice that fails with anything but an `HTTPException` leaves the thread
  registered as active (`cogs/_run_helper.py:235`).
- The view's timer can be later than the broker's, so that buttons stay enabled
  for a request that timed out.
- A rename handled while its channel is deleted registers the channel again.
- A rename whose teardown outlasts a new connection registers the channel as it was in
  the old one (`cogs/channel_session.py:216`, `after` being an object that the new
  connection has replaced), over what the scan of `on_ready` has found: the channel is
  known under a name or category it no longer has, until the next event or scan.
- In thread mode the clone hides the process from `/stop`, `/clear`, `/rewind` and
  the interruption by a reply; a `/clear` during such a run does not forget the
  session, which the run saves again.
- A run whose stop button could not be posted stays in `_active_runners`, and
  drains wait for it (`cogs/claude_chat.py:1066` is outside the `try`). The
  `finally` of one run pops the entries of a later one.
- `/clear` deletes the runner's entry after waiting for the process and raises
  `KeyError` if the run's `finally` was faster (`cogs/claude_chat.py:501`).
- `on_ready` starts a marked thread without a look at what runs in it, and it runs
  at every reconnect: a thread that was marked by the API or a failed upgrade and is
  still running gets a second run (`cogs/claude_chat.py:816`).
- Two `on_ready` tasks of one process that have read the same row both resume it,
  although `resume_repo.py:11` calls a row "Single-fire" and `claude_chat.py:824` says
  that deleting first prevents a double resume: the deletion of a row that is gone
  succeeds.
- `/skill` in a thread runs beside the thread's run and in its session
  (`cogs/skill_command.py:254`), and a message does not see it, whereas
  `_handle_thread_reply` means to prevent two Claude processes in one thread.
- The thread cog's channels are fixed at start-up without the session channels
  (`setup.py:218`), but the index is empty until the scan of `on_ready`, so nothing
  is ever excluded; a channel that is configured for both is answered by
  both cogs.
- A text file with broken encoding ends the watcher, and an error of the repository
  ends the scheduler's loop, for good and without a restart.
- A one-shot task whose disabling fails, or whose bot dies first, runs again
  (`cogs/scheduler.py:162`).
- A drain may pass while Claude runs in a thread: the entry that stood for it is popped
  by the `finally` of an earlier run (`cogs/claude_chat.py:1094`), or dropped by `/clear`
  (`:501`), `/rewind` without a history (`:563`) or its menu (`discord_ui/views.py:247`),
  whose kill does not reach a cloned runner.
- Only the thread cog and the webhook triggers tell the drain what they run; an
  upgrade does not wait for turns of channels, skills or scheduled
  tasks, and marks none of them. A thread that starts during a drain that times out is not
  marked either.
- A package command that timed out is not killed and may change the environment
  that a later pipeline restarts into (`cogs/auto_upgrade.py:590`).
- A press on the wrong moment of a gate is lost: when showing the pressed button
  fails, the event is not set (`cogs/auto_upgrade.py:95`).
- Two channels of one category may have the same `wt-` name, at a time or one after
  the other, and share a worktree (`config/projects_config.py:272`): a teardown of
  one removes the clean worktree from under the other's turn.
- `bot.py:93` says there are no active sessions at start-up, but `on_ready` also
  runs at a reconnection, when the sweep removes clean worktrees under them.
- The bulk clean-up iterates over the live index across awaits and ends with an
  error when a channel is registered or dropped meanwhile.
- An old form, or a second press on a question that was answered, is delivered to
  whatever question of the thread waits now (`ask_view.py:152`); a restored button
  answers the thread's next question (`bot.py:146`).
- When Discord refuses the edit that acknowledges a press (`ask_view.py:136`),
  `self.stop()` is skipped: the answered question keeps its buttons and its view, and a
  press on it answers the next question. `AnswerFits` is about answers given in time.
- A press that finds nobody waiting says that the bot was restarted
  (`ask_view.py:41`), also when the question just expired.
- When the view of a question cannot be sent, its waiter stays in the bus.
- A form that is opened and dismissed stops the view without an answer
  (`elicitation_view.py:141`); Claude waits as long as the turn lasts. So it does when
  Discord refuses the `defer` of the submitted form (`elicitation_view.py:117`), unless the
  user submits it again.
- The delayed flush and an immediate one may both send the first message: a text
  is posted twice. A flush that Discord refuses is only logged; if a cut follows,
  what the message should have shown is lost (`streaming_manager.py:136`).
- A reaction added by a change that is cancelled in mid-request is recorded
  nowhere and stays. So does one whose removal Discord refuses, since the refusal is
  suppressed and the reaction forgotten (`status.py:121`, `:146`).
- A tool use that is announced again gets a second embed, and its timer overwrites the
  first one's in `active_timers` (`event_processor.py:299`, `:565`): nothing cancels the
  first timer, which goes on editing the first embed after the run is over, for as
  long as the bot lives.
- A run that ends without a result event leaves its stall monitor running.
- The stop button pressed while it is moved down leaves a copy that does nothing.

## 7. Not modelled, and the plan

Modelled: the components of the table in 2. Of the ones modelled partly, what is
left out has no behaviour over time that another component depends on (texts,
statistics, queries), with these exceptions, which are the next steps:

1. Topic updates and context warnings (hysteresis, rate limit), the dashboard,
   the session sync and the notifications: small modules that can join
   `MCSafety` or `MCLive`.
2. The chunker as a pure algorithm against a reference definition.

Not planned: parsing, layout and wiring, which have no behaviour over time, the
one-time migration, and the example bot. Real time is not modelled: timers are
events that may come at any moment after they were set.
