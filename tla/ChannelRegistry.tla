--------------------------- MODULE ChannelRegistry ----------------------------
(***************************************************************************)
(* Which channels are session channels: ProjectsConfig with its categories *)
(* and its channel index, the template runners of RunnerCache, the watcher *)
(* of projects.json, the channel events of ChannelSessionCog with its      *)
(* start-up scan.  Discord renames, moves and deletes channels, connected  *)
(* or not, and an operator edits the file at any moment.                   *)
(***************************************************************************)
EXTENDS Naturals, FiniteSets

CONSTANTS
  Chans,        \* ids of text channels
  Cats,         \* ids of categories
  GoodNames,    \* channel names that resolve_channel_name accepts
  Unresolved,   \* a channel name that it does not accept
  NoReg,        \* no entry in the channel index
  MaxEdits,     \* bound on the edits of projects.json
  MaxChanges    \* bound on what happens to channels and to the connection

ASSUME RegistryAssumption ==
  /\ Unresolved \notin GoodNames
  /\ MaxEdits \in Nat /\ MaxChanges \in Nat

VARIABLES
  file,      \* projects.json: its content and its mtime
  live,      \* ProjectsConfig._categories
  registered, \* ProjectsConfig._channel_index
  runners,   \* RunnerCache._runners: the categories that have one
  watcher,   \* ProjectsWatcher: what it awaits, _last_mtime, the mtime it has read
  base,      \* history: the mtime at the start of the watcher
  handed,    \* history: the mtime of the last file given to on_change
  conn,      \* set-up, not connected, or connected and scanned
  guild,     \* Discord's channels
  object,    \* channel -> the place that discord.py's present object of it has
  pending,   \* channel -> handlers that await the tear-down of its state
  outdated,  \* channel -> of such, those with an object of an earlier connection,
             \* by the place that it has
  failed,    \* channels of which a handler has raised
  stale,     \* history: channels that an outdated handler was the last to register
  changes    \* number of changes

regVars == <<file, live, registered, runners, watcher, base, handed, conn,
             guild, object, pending, outdated, failed, stale, changes>>

Broken == {"missing", "invalid", "undecodable"}
Contents == (SUBSET Cats) \X {"valid"} \cup {{}} \X Broken
ChanNames == GoodNames \cup {Unresolved}
Places == [name : ChanNames, cat : Cats]
Entries == [name : GoodNames, cat : Cats]

RegTypeOK ==
  /\ file \in [content : Contents, mtime : 0 .. MaxEdits]
  /\ live \subseteq Cats /\ runners \subseteq Cats
  /\ registered \in [Chans -> Entries \cup {NoReg}]
  /\ watcher \in [at : {"off", "sleep", "load", "dead"}, last : 0 .. MaxEdits, seen : 0 .. MaxEdits]
  /\ base \in 0 .. MaxEdits /\ handed \in 0 .. MaxEdits
  /\ conn \in {"setup", "away", "ready"}
  /\ guild \in [Chans -> [at : Places, there : BOOLEAN, new : BOOLEAN]]
  /\ object \in [Chans -> Places]
  /\ pending \in [Chans -> [update : 0 .. 2, delete : 0 .. 1]]
  /\ outdated \in [Chans -> [Places -> Nat]]
  /\ failed \subseteq Chans /\ stale \subseteq Chans
  /\ changes \in 0 .. MaxChanges

Valid == file.content[2] = "valid"
Listed == file.content[1]

RegInit ==
  /\ \E cats \in SUBSET Cats : file = [content |-> <<cats, "valid">>, mtime |-> 0]
  /\ live = {} /\ runners = {}
  /\ registered = [c \in Chans |-> NoReg]
  /\ watcher = [at |-> "off", last |-> 0, seen |-> 0] /\ base = 0 /\ handed = 0
  /\ conn = "setup"
  /\ \E p \in Places :
       guild \in [Chans -> {[at |-> p, there |-> TRUE, new |-> FALSE],
                            [at |-> p, there |-> FALSE, new |-> TRUE]}]
  /\ object = [c \in Chans |-> guild[c].at]
  /\ pending = [c \in Chans |-> [update |-> 0, delete |-> 0]]
  /\ outdated = [c \in Chans |-> [p \in Places |-> 0]]
  /\ failed = {} /\ stale = {} /\ changes = 0

watchVars == <<watcher, base, handed>>
places == <<guild, object>>
handlers == <<pending, outdated>>
chanVars == <<conn, places, handlers, failed, stale, changes>>
tables == <<live, registered, runners>>

-----------------------------------------------------------------------------
(***************************************************************************)
(* projects.json and its watcher.                                          *)
(***************************************************************************)
EditFile ==
  /\ file.mtime < MaxEdits
  /\ \E content \in Contents :
       file' = [content |-> content, mtime |-> file.mtime + 1]
  /\ UNCHANGED <<tables, watchVars, chanVars>>

\* setup_bridge up to the cogs: load, and a RunnerCache.
SetUp ==
  /\ conn = "setup" /\ Valid
  /\ live' = Listed
  /\ runners' = Listed
  /\ conn' = "away"
  /\ UNCHANGED <<file, registered, watchVars, places, handlers, failed, stale, changes>>

\* start, and the first mtime, which is not dispatched.
WatcherStarts ==
  /\ conn # "setup" /\ watcher.at = "off"
  /\ watcher' = [at |-> "sleep", last |-> file.mtime, seen |-> file.mtime]
  /\ base' = file.mtime /\ handed' = file.mtime
  /\ UNCHANGED <<file, tables, chanVars>>

Stat ==
  /\ watcher.at = "sleep" /\ file.content[2] # "missing"
  /\ file.mtime # watcher.last
  /\ watcher' = [watcher EXCEPT !.at = "load", !.seen = file.mtime]
  /\ UNCHANGED <<file, tables, base, handed, chanVars>>

\* A ConfigError is logged; text that is no UTF-8 raises past it.
LoadFails ==
  /\ watcher.at = "load" /\ ~Valid
  /\ watcher' = [watcher EXCEPT
       !.at = IF file.content[2] = "undecodable" THEN "dead" ELSE "sleep"]
  /\ UNCHANGED <<file, tables, base, handed, chanVars>>

\* Mutant: an exception of on_change ends the loop.
LoadAndApplyDies ==
  /\ watcher.at = "load" /\ Valid
  /\ watcher' = [watcher EXCEPT !.at = IF Listed = {} THEN "sleep" ELSE "dead",
                                !.last = watcher.seen]
  /\ handed' = file.mtime
  /\ UNCHANGED <<file, tables, base, chanVars>>

\* The content is read after the mtime: it may be a newer one.  on_change makes a
\* dict of the category objects, which raises unless there are none; then
\* replace_categories drops every channel and the runners are rebuilt.
LoadAndApply ==
  /\ watcher.at = "load" /\ Valid
  /\ watcher' = [watcher EXCEPT !.at = "sleep", !.last = watcher.seen]
  /\ handed' = file.mtime
  /\ IF Listed = {}
     THEN /\ live' = {} /\ runners' = {}
          /\ registered' = [c \in Chans |-> NoReg]
     ELSE UNCHANGED <<live, runners, registered>>
  /\ UNCHANGED <<file, base, chanVars>>

WatcherStep == WatcherStarts \/ Stat \/ LoadFails \/ LoadAndApply

-----------------------------------------------------------------------------
(***************************************************************************)
(* Channels.                                                               *)
(***************************************************************************)
\* register_channel
Registered(place) ==
  IF place.cat \in live /\ place.name \in GoodNames THEN place ELSE NoReg

Change == changes < MaxChanges /\ changes' = changes + 1

\* A new entry, or the old one when there is nothing to register.
RegisterIn(c, place) ==
  registered' = [registered EXCEPT ![c] = IF Registered(place) = NoReg THEN @ ELSE Registered(place)]

\* A channel is created; without a connection its event is lost.
ChannelCreated(c) ==
  /\ Change
  /\ guild[c].new
  /\ \E place \in Places :
       /\ guild' = [guild EXCEPT ![c] = [at |-> place, there |-> TRUE, new |-> FALSE]]
       /\ IF conn = "ready"
          THEN RegisterIn(c, place) /\ object' = [object EXCEPT ![c] = place]
          ELSE UNCHANGED <<registered, object>>
  /\ UNCHANGED <<file, live, runners, watchVars, conn, handlers, failed, stale>>

\* on_guild_channel_update up to the tear-down, which an unregistered one skips.
\* While the connection lasts, discord.py brings the object of the channel up to date.
ChannelChanged(c) ==
  /\ Change
  /\ guild[c].there /\ pending[c].update < 2
  /\ \E place \in Places \ {guild[c].at} :
       /\ guild' = [guild EXCEPT ![c].at = place]
       /\ object' = IF conn = "ready" THEN [object EXCEPT ![c] = place] ELSE object
       /\ IF conn = "ready" /\ registered[c] = NoReg
          THEN RegisterIn(c, place) /\ stale' = stale \ {c}
          ELSE UNCHANGED <<registered, stale>>
  /\ pending' = IF conn = "ready" /\ registered[c] # NoReg
                THEN [pending EXCEPT ![c].update = @ + 1] ELSE pending
  /\ UNCHANGED <<file, live, runners, watchVars, conn, outdated, failed>>

ChannelDeleted(c) ==
  /\ Change
  /\ guild[c].there
  /\ guild' = [guild EXCEPT ![c].there = FALSE]
  /\ pending' = IF conn = "ready" /\ registered[c] # NoReg
                THEN [pending EXCEPT ![c].delete = 1] ELSE pending
  /\ UNCHANGED <<file, tables, watchVars, conn, object, outdated, failed, stale>>

\* unregister_channel, and register_channel for what the handler's object of the
\* channel says by now, after a deletion as well.
UpdateTornDown(c) ==
  /\ pending[c].update > 0
  /\ pending' = [pending EXCEPT ![c].update = @ - 1]
  /\ registered' = [registered EXCEPT ![c] = Registered(object[c])]
  /\ stale' = stale \ {c}
  /\ UNCHANGED <<file, live, runners, watchVars, conn, places, outdated, failed, changes>>

\* The same, with an object that a new connection has replaced.
OutdatedTornDown(c, place) ==
  /\ outdated[c][place] > 0
  /\ outdated' = [outdated EXCEPT ![c][place] = @ - 1]
  /\ registered' = [registered EXCEPT ![c] = Registered(place)]
  /\ stale' = stale \cup {c}
  /\ UNCHANGED <<file, live, runners, watchVars, conn, places, pending, failed, changes>>

DeleteTornDown(c) ==
  /\ pending[c].delete > 0
  /\ pending' = [pending EXCEPT ![c].delete = 0]
  /\ registered' = [registered EXCEPT ![c] = NoReg]
  /\ UNCHANGED <<file, live, runners, watchVars, conn, places, outdated, failed, stale, changes>>

\* git hangs or the database refuses: the index stays as it is.
TearDownRaises(c) ==
  /\ \/ /\ \E h \in {"update", "delete"} :
             /\ pending[c][h] > 0
             /\ pending' = [pending EXCEPT ![c][h] = @ - 1]
        /\ failed' = failed \cup {c}
        /\ UNCHANGED outdated
     \/ /\ \E place \in Places :
             /\ outdated[c][place] > 0
             /\ outdated' = [outdated EXCEPT ![c][place] = @ - 1]
        /\ UNCHANGED <<pending, failed>>
  /\ UNCHANGED <<file, tables, watchVars, conn, places, stale, changes>>

\* /channel-reset: the template is dropped and built again.
Invalidate(c) ==
  /\ registered[c] # NoReg
  /\ runners' = IF registered[c].cat \in live THEN runners \cup {registered[c].cat}
                ELSE runners \ {registered[c].cat}
  /\ UNCHANGED <<file, live, registered, watchVars, chanVars>>

Disconnected ==
  /\ Change
  /\ conn = "ready"
  /\ conn' = "away"
  /\ UNCHANGED <<file, tables, watchVars, places, handlers, failed, stale>>

\* READY: the cache is made anew, and the handlers keep the objects they had.
Identified ==
  /\ conn = "away"
  /\ conn' = "ready"
  /\ object' = [c \in Chans |-> guild[c].at]
  /\ pending' = [c \in Chans |-> [pending[c] EXCEPT !.update = 0]]
  /\ outdated' = [c \in Chans |->
       [outdated[c] EXCEPT ![object[c]] = @ + pending[c].update]]
  /\ UNCHANGED <<file, live, runners, watchVars, guild, failed, changes>>

\* Mutant: the scan is only for the first time.
OnReadyOnce ==
  /\ Identified
  /\ registered' = IF \E c \in Chans : registered[c] # NoReg THEN registered
              ELSE [c \in Chans |->
                      IF guild[c].there THEN Registered(guild[c].at) ELSE NoReg]
  /\ stale' = {}

\* on_ready with startup_scan, which only adds.
OnReady ==
  /\ Identified
  /\ registered' = [c \in Chans |->
       IF guild[c].there /\ Registered(guild[c].at) # NoReg
       THEN Registered(guild[c].at) ELSE registered[c]]
  /\ stale' = {}

RegNext ==
  \/ EditFile \/ SetUp \/ WatcherStep \/ Disconnected \/ OnReady
  \/ \E c \in Chans :
       \/ ChannelCreated(c) \/ ChannelChanged(c) \/ ChannelDeleted(c)
       \/ UpdateTornDown(c) \/ (\E place \in Places : OutdatedTornDown(c, place))
       \/ DeleteTornDown(c) \/ TearDownRaises(c) \/ Invalidate(c)

RegSpec == RegInit /\ [][RegNext]_regVars

\* The watcher's loop goes on; nobody has to edit, rename or connect.
RegFairness == WF_regVars(SetUp) /\ WF_regVars(WatcherStep)

RegFairSpec == RegSpec /\ RegFairness

-----------------------------------------------------------------------------
\* A message of a registered channel always finds a template runner, whatever is
\* renamed, reloaded and reset meanwhile (runner_cache.py:147, "should never
\* happen").
RunnerForRegistered ==
  \A c \in Chans : registered[c] # NoReg => registered[c].cat \in runners \cap live

\* No session channel is deaf: one that exists under a good name in a category of
\* the configuration is registered as what it is, in the end, although events are
\* lost while the bot is away and handlers of one channel overlap; unless a handler
\* of an earlier connection was the last to register it, with the object it had from
\* there (channel_session.py:216), for which nothing looks again.
NoDeafChannel ==
  \A c \in Chans :
    /\ conn = "ready" /\ guild[c].there /\ c \notin failed \cup stale
    /\ pending[c] = [update |-> 0, delete |-> 0]
    /\ Registered(guild[c].at) # NoReg
    => registered[c] = guild[c].at

\* Every edit that the watcher has not taken for its baseline reaches on_change, or
\* is overtaken by a later one, whatever was wrong with earlier ones and although
\* on_change raises (projects_watcher.py:38, "the loop is durable"); only a file
\* that cannot be decoded ends the watcher.
EditDispatched ==
  [](file.content[2] # "undecodable") =>
    \A m \in 1 .. MaxEdits :
      watcher.at # "off" /\ base < m /\ file.mtime = m /\ Valid ~>
        handed >= m \/ file.mtime # m

\* What docs/channel_as_session.md:15 says of an edit of projects.json: it is
\* reloaded in 15 seconds, and the bot need not be restarted.
HotReload ==
  [](file.content[2] # "undecodable") =>
    \A m \in 1 .. MaxEdits :
      watcher.at # "off" /\ base < m /\ file.mtime = m /\ Valid ~>
        live = Listed \/ file.mtime # m

=============================================================================
