# Seraphbot in TLA+

A model of seraphbot, a Twitch bot in C++23: TLA+ modules translated from the
source, TLC configurations that check them on small instances, and TLAPS proofs
of what matters most. Source paths are relative to `src/` (`src/core/...` is
`src/src/core/...` in this tree).

## 1. The system

| Part | Source | State | Operations |
| --- | --- | --- | --- |
| Twitch service | `core/twitch_service` | `m_state`, the chat services, credentials, current user | `startLogin`, `connectToChat`, `sendMessage`, `disconnect`, `handleEventSubMessage` |
| EventSub | `tw/eventsub`, `tw/chat/read` | websocket, session id, callback, buffer | `connect`, `start`, `subscribe`, `doRead` (`reconnect`, `shutdown` unused) |
| Chat send | `tw/chat/send` | copy of the configuration | `message` |
| Queue | `core/app_state` | pending messages (mutex), chat log | `pushChatMessage`, `processPendingMessages` |
| UI frames | `ui/imgui_manager`, `viewmodels/` | copied state, input buffers | `manageAuth`, `manageChat`, `manageDiscord` |
| Command parser | `core/command_parser` | handlers by lower-case name | `registerCommand`, `parseAndExecute`, `tokenize` |
| Lua engine | `core/lua_command_engine` | file and metadata maps, Lua state | load, register, reload, list, execute |
| Cooldown tracker | `core/lua_command_engine` | time stamps and use counts | `isOnCooldown`, `recordUsage` (`resetStreamCounters` unused) |
| Application, entry point | `application`, `main` | owns everything | construction, native commands, frame loop, destruction |
| Auth | `tw/auth` | tokens, OAuth state | poll loop of `loginAsync`, `fetchUserInfoAsync` |
| HTTP helpers | `tw/config` | none | GET and POST |
| Connection manager | `core/connection_manager` | io_context, threads, shared owners | start, stop and join |
| Discord | `discord/notifications` | webhook URL | `setWebhookUrl`, `sendMessage` |
| Logger | `core/logging` | shared context stack | push, pop, log |
| Audio | `core/audio_system`, `core/miniaudio_player` | engine, volume, sounds directory | list, find, play |
| Scripts | `commands/*.lua` | none | command bodies, the pages of `sfx` |
| OBS | `obs/obsservice.hpp` | never used | |

**How they interact.** The main thread constructs the objects, runs frames and
destroys the objects. A frame's `manageAuth` copies `m_state` and offers the
buttons for that copy, `manageChat` drains the queue and sends what the user
typed, `manageDiscord` sets the webhook and sends tests. Three threads of the
connection manager run the io_context: logins, `connectToChat`, the read loop,
subscriptions, sends and notifications are coroutines on it. The read loop calls
`handleEventSubMessage`, which queues the message and hands it to the parser,
whose handlers run Lua functions and reply with sends. Only the queue and the
logger's stack are locked.

**What is hard here.** Buttons chosen from an old copy of the state; tests and
assignments of `m_state` on different threads; objects destroyed by the UI, or by
the end of the program, under suspended coroutines; a callback installed by a
coroutine that races the read loop; requests built from values that change;
cooldowns checked before and recorded after a script runs; reloads that pair
captured functions with rules looked up by name; failures of detached coroutines;
requests without deadline; a destructor that joins threads, on any thread; a log
context held across a suspension; three readings of a sound's name; pages counted
in two ways. `PROJECT.json` lists each at its line under `hazards`.

**What it should guarantee.** Commands respect their cooldowns and limits and
are refused only with cause; what runs is governed by its own rules; the list of
commands is the truth; a session shown as connected is complete and of one
account; chat is shown once and in order; a message is posted by and to one
account; a line is split into its words and answered once; a sound that is listed
plays; busy states end; the program can be closed. Where the code falls short of
one of these, the property says how far it holds.

## 2. Modules

| Module | Models | Reads as |
| --- | --- | --- |
| `CooldownTracker` | `CooldownTracker`, badge predicates, `hasPermission`, the handler's checks in their order | operators over a tick clock |
| `LuaCommandEngine` | engine, parser registry, natives | state machine |
| `TwitchService` | service, EventSub, send, queue, UI frames | state machine |
| `Login` | what a login promises | abstract specification |
| `Auth` | `tw/auth`, `startLogin` | state machine, refines `Login` |
| `CommandParser` | `tokenize`, `parseAndExecute` | actions, one per character |
| `Sfx` | `sfx.lua`, `AudioSystem`, `MiniaudioPlayer` | actions, one per call and per turn of the loop |
| `ChatCommands` | a chat line from the parser through the handler's checks to the sound command | composition of the two with `CooldownTracker` |
| `Logger` | `Logger`, `LogContext` | state machine |
| `ConnectionManager` | io_context, threads, shared ownership | actions |
| `Notifications` | `Notifications`, `DiscordVM`, lifetime of requests | actions on `ConnectionManager` |
| `Application` | construction, frames, destruction, `main` | composition of the two |
| `MC...` | small sets of names, scripts, disks, lines; symmetry, constraint and view of `session` | instances |
| `..._proofs` | theorems | TLAPS |

Definitions whose comment says *faulty variant* are not part of any
specification. Each is a plausible mistake in the definition that follows it,
kept to show that a property would catch the mistake.

### LuaCommandEngine

`loop` says what the message loop is doing: `scanning` and `starting` are
`loadCommandsFromDirectory` and `registerWithParser` at start-up, `reloading`
and `reregistering` the same for `!reload`, `executing` a Lua function. `todo`
is what the current C++ loop has left; directories and unordered maps have no
order, so any entry may be next. A map is a function with an absent value
(`NoFile`, `NoMetadata`, `NoHandler`, `Never`). A script is its metadata and an
opaque function; `Missing` and `Broken` stand for a file that is gone and for
every way a file fails to be a command. Each file is read when the code reads
it: once for the metadata, again for the function.

`Tick`, `EditFile` and `StreamOnline` are the environment. One handler takes two
steps, `StartCommand` (the checks, one clock reading) and `FinishCommand`
(`recordUsage`, a later reading), so that the clock and edits come in between.
`runs`, `stream_first`, `edits` and `streams` are history and bounds.

`EditWhileLoading` lets files change while the directory is being read. A
reload reads a file twice, so an edit in between pairs one version's function
with the other's rules: with `EditWhileLoading = TRUE` TLC violates
`RunsUnderOwnRules`. The run `reload` therefore edits files only between
reloads, and `limits` checks what survives such an edit.

The clock has `TicksPerSecond` ticks: cooldowns are whole seconds and elapsed
time is truncated, as `duration_cast` does. Cooldowns and use limits are kept for
the name a command is called by, so an alias has its own, as in the code.

### TwitchService

A step is what a coroutine does between two suspensions. The k-th
`connectToChat` and the EventSub it makes are both called k. `conn`, `reader`,
`starter`, `subs` and `sends` are the coroutines, each with its stage and the
EventSub it works on; `obj` is the objects with their websockets. `m_chat_read`,
`m_chat_send` and `m_eventsub` are made and dropped together, so one variable
stands for the three. A coroutine that uses an object that is gone either
crashes the process or goes on (`Touch`), and the use is recorded in `dangling`;
a null pointer crashes it (`Crash`).

A login is one exchange that yields an account or fails; `Auth` opens it up. Of a
message only its number is kept; message 0 is anything but a chat message. A chat
message may be a command that replies. System messages (ad break, chat cleared)
take the path of a chat message and are not told apart.

**Races on the state.** From its test of `m_state` to its end, `connectToChat`
takes the state to be its own; no lock makes it so. `overtaken` records that
somebody else has changed the state under a call at work (`Overtaking`). That
happens: the pool runs a coroutine when it has a thread, any number of frames
later. `StateFollowsEdges` says by which steps, and that there are no others: a
Logout clicked in a frame that read LoggedIn before the call set the state, and a
second call whose test passed as well. What follows such a step is out of hand
(the call goes on and writes the state of a session the user has ended, or two
calls work on one EventSub), and the other properties of a session end there:
`ConnectedSessionIsComplete`, `PostedAsTyped` and `ImplementsLogin` are stated up
to the first overtaking. They hold however late coroutines are run otherwise: a
message can be posted in the session of the next login, and then from and to that
login's account. A message whose coroutine finds no session crashes (`Crash`).

The one assumption on time is in `ConnectWaited`: the 500 ms that `connectToChat`
waits are enough for the two coroutines it has spawned to get a thread. The code
has no other protection against a subscription that is accepted before the
callback is there; without the wait `ConnectedSessionIsComplete` is violated (the
faulty variant `ConnectDoesNotWait`).

### Login and Auth

`Auth` is the login coroutine of `startLogin` with everything it awaits: `pc` is
the request or the timer it waits for. Each request yields an answer or an
exception (`getHttpAsync`); the token request can also yield half an answer,
because the access token is stored before the refresh token is looked up. An
OAuth state, and the tokens issued for it, are named by the number of the login
that generated it (16 random characters: taken to be fresh). The browser is the
environment: a page, once opened, can be authorized at any later time, also
after its login gave up. The OAuth server is not in the repository; it is taken
to bind a state to the first account that authorizes it, and to answer with a
user that has an id.

`Login` says what the rest of the service may rely on: one login at a time, and
its end either changes nothing or installs one account as a whole. `Auth`
implements it (a login takes effect when `startLogin` has written its result;
`setState`, which announces it, is a stuttering step), and so does
`TwitchService`, where the login is one step. That is the composition of the two
modules: each refines the same promise.

### CommandParser, Sfx and ChatCommands

`ChatCommands` follows a chat line to the loudspeaker. `CommandParser` keeps the
locals of `tokenize` as variables and handles one character per step; characters
are the ones the loop tells apart. The words of the line are defined a second
time without a loop (`Escaped`, `Quoted`, `Separators`), as the reference for
`TokensAreWords`.

`Sfx` is the Lua function of `sfx.lua`, with the calls it makes into
`AudioSystem` and the player. `stage` says which call comes next. Names are
sequences of characters, since lengths, case and spaces are what the pages, the
lookup and the tokenizer disagree about. The owner of the bot adds and removes
files between any two calls (`EditSounds`), the directory and the files can be
unreadable (`IOErrors`: a listing that breaks off is partial and unsorted), the
audio engine may not have started. Page numbers and volumes are decimal numerals
without sign or fraction. The file system is case-sensitive.

Between the two is the handler that `registerWithParser` made: `Dispatch` looks
the name up and takes the verdict of `Checks` with the user and the badges of the
line, at the clock's time; a refusal is the answer, and a command that is not
enabled gives none. `ReturnToLoop` records the use, at a later time, whether or
not the script did anything. The rules are those of `sfx.lua`: a cooldown of 1 per
name and of 3 per name and user (`RulesAssumption` keeps the numbers open). Files
and rules do not change here; that is `LuaCommandEngine`'s subject.

### Logger

An actor is a thread or a coroutine with the `LogContext` objects it has alive
(`scopes`); the stack is one for all. `written` is the last message with the
contexts it carried and those it was written in.

### ConnectionManager, Notifications and Application

`ConnectionManager` has the io_context (`ready` is its queue, `outstanding` the
coroutines not finished), the threads with the coroutine each is in the middle of,
and the holders of a `shared_ptr` to the manager. Whoever drops the last reference
runs the destructor: stop, one join after the other, members. A thread that joins
itself throws out of a destructor (`crash = "self join"`).

`Notifications` adds `sendMessage` from wait to wait. The frame of a request owns
the manager and is destroyed when the coroutine is resumed. The assignment of the
webhook's URL takes two steps, between which a thread of the pool reads the old
one, the new one or neither (`Torn`). `expected` is history: the URLs a click on
"Test" can be posted to, which are the one in force, and after it those of every
"Apply" until the post, whole or torn.

`Application` constructs the members in the order of `initialize()`, lets any
constructor throw, runs frames, and destroys the members in the reverse of the
order of their declaration. Coroutines of the Twitch service appear only as users
of it (`Background`). `RefersTo` has the references of the objects and those that
callbacks and handlers capture. A thread that continues in a destroyed object
crashes. The engine is destroyed before the parser, whose handlers hold functions
of its Lua state; releasing them then is undefined (`FunctionsDangle`), and
`Destroy` either goes on or ends with `crash = "lua state"`. That is the one
reference to outlive its object (`ReferencesAreLive`), and it happens on every
exit after the start. `ExitFaults` lists the three ways in which the process can
break off, and for each what must have been under way when the window was closed;
it does not say that an exit is clean.

## 3. Runs

| Run | Module, instance | Checks |
| --- | --- | --- |
| `login` | Auth, 2 accounts, 3 logins | `TypeOK`, `CredentialsAreOfThisLogin`, `PollSchedule`, `LoginEnds`, `ImplementsLogin` |
| `limits` | engine, 1 file with 2 versions and an alias, 2 users, 2 ticks/s, 3 runs, 4 ticks, an edit while files are read | `TypeOK`, `CooldownsKept`, `CooldownJustified`, `UseLimitKept` |
| `reload` | engine, 2 files, 3 scripts, 2 edits, 1 run | `RunsUnderOwnRules`, `AlwaysConfigured`, `ListedCommandsAnswer`, `ReloadEnds` |
| `session` | service, 2 accounts, 2 logins, 2 connections, 1 message each, 1 send | `TypeOK`, `ConnectedSessionIsComplete`, `PostedAsTyped`, `StateFollowsEdges`, `ImplementsLogin` |
| `chat` | service, 1 session, 2 messages, 1 detached subscription, 1 send | `ChatInOrder`, `BusyStatesEnd`, `QueueIsDrained` |
| `sfx` | chat commands, 2 lines of 2 chatters, 3 ticks, 1 edit, unreadable files | `TokensAreWords`, `PageIsFull`, `PlayedAsAnswered`, `ListedSoundPlays`, `EveryRequestAnswered` |
| `application` | 2 threads, 2 tests, 1 other coroutine | `NoThreadOutlivesManager`, `ManagerOutlivesOwners`, `PostedToCurrentUrl`, `ReferencesAreLive`, `ExitFaults`, `ExitEnds`, `EveryTestPosts` |

All seven pass. Five more are violated, each by what the code does against what
the repository says of it (`findings` in `PROJECT.json` quotes both):

| Run | Property | Shows |
| --- | --- | --- |
| `limit_per_stream` | `LimitPerStream` | use counts are never reset for a new stream |
| `dangling` | `NoDangling` | disconnect destroys an EventSub that coroutines are suspended in |
| `lost_subscription` | `FailedSubscriptionIsNoticed` | a failed detached subscription is logged, and the session stays connected |
| `log_context` | `ScopedContext` | leaving a scope removes the context another thread pushed |
| `sfx_pages` | `LastPageEndsTheList` | the page that calls itself the last is not the end of the list |

**Why the bounds are enough.** `limits` needs two runs to break a cooldown and
three to break a limit of two; four ticks of half a second reach the end of the
longest cooldown, two seconds. One version of the command may be used once and
the other twice but with longer cooldowns, so that each rule is what refuses some
second run, and one edit, at any moment, pairs the function of one version with
the rules of the other. `reload` needs one edit to make two versions differ and
one more to break or restore the file; its scripts contest a name, differ by
case, give up an alias and claim a native name. (After a reload such a script
owns the native name, as the code has it: the natives are registered after the
scripts at start-up and never again.)

In `login` the loop runs to its real bound of ten attempts, and the third login
finds tokens and open pages of two earlier ones, one of which may have failed
half-way; the run stops when the logins are used up, so deadlock is not an error
there. In `session` two logins as two accounts are what mixing them takes, and a
second connection is what a stale coroutine of the first can hit, or overtake it;
the message on the wire is there for the reply it may lead to. States after an
overtaking are not explored (`NotOvertaken`), because no property speaks of them;
the step itself is checked. The view leaves out the chat window and `dangling`,
which decide no step, and accounts are symmetric: all properties of this run are
invariants and action properties. `chat` has two messages of one session, the
least that can be out of order; its liveness properties are checked without
constraint, view or symmetry, and beyond an overtaking.

In `sfx` the first lines are all that begin with `!s` followed by up to four of
space, quote, backslash and a letter, and those that reach the other branches; the
second line is one of the latter, by the same chatter or another. Two lines let a
listed sound be asked for, let a request that fails follow one that plays, and let
a cooldown of either kind refuse; three ticks of a second reach the end of the
longer one. The clock starts with the first line, which has no earlier one to be
compared with. A page holds ten characters and pages begin every two sounds, so that three
short names already overflow, overlap and fall short. `sfx_pages` has the
script's own numbers (18, 450, 15) and sixty sounds. The runs stop when the lines
are used up. `application` has a second thread so that one can be in the
destructor while the other runs, a second test so that the last reference can be
a request's, and one URL besides the empty one; it stops when `main` has returned
or the process has crashed.

**Fairness.** The engine's loading and registering loops, and a command that was
started, go on (one thread, nothing blocks; scripts are assumed to return); so
does the handling of a chat line in `ChatCommands`. In the service, frames follow
each other and coroutines that are ready are resumed. Twitch owes nothing.
`BusyStatesEnd` is therefore stated under the assumption `TwitchAnswers`:
requests have no deadline, and without an answer the busy states do not end.
`LoginEnds` of `Auth` has the same form (`ServerAnswers`) and is what justifies
taking a login as one exchange that ends: the coroutine's own timers and paths
always lead out. In `Application` main's construction and destruction go on, each
thread of the pool runs what is ready, and the requests of a notification end,
well or badly. `ExitEnds` does not depend on the last of these for coroutines of
the Twitch service, which may wait for ever: the io_context is stopped, and a
stopped one runs nothing more.

## 4. Proofs

Every theorem is for all values of the constants; the assumptions named here are
`ASSUME`s of the modules, or hypotheses of the theorem.

**`LuaCommandEngine_proofs`**, from `TicksAssumption` (a second has at least one
tick) and `EngineAssumption` (the constants have their types and absent values are
not values):

* `TypeCorrect`: `Spec => []TypeOK`.
* `CooldownsAreKept`: `Spec => []CooldownsKept`.
* `UseLimitsAreKept`: `Spec => []UseLimitKept`.
* `RefusalsAreJustified`: `Spec => []CooldownJustified`.
* `CommandsAreConfigured`: `Spec => []AlwaysConfigured`.
* `ListsOnlyWhatAnswers`: `Spec => []ListedCommandsAnswer`, if
  `EditWhileLoading = FALSE`.
* `RulesAreOwn`: `Spec => []RunsUnderOwnRules`, if `EditWhileLoading = FALSE`.

Cooldowns and limits speak of the history of runs and are not inductive.
`LimitInv` adds that the tracker covers the history (`Recorded`: every run ended
no later than the stamps that count it, and no stamp is in the future; `Counted`:
counts equal the number of runs) and that what was checked when a command was
admitted still holds while it executes (`AdmittedRight`), because nothing else
records a use until it ends. `NotWithin` carries truncated seconds to ticks,
`AdmittedIsSpaced` turns a passed cooldown check into distance from every earlier
run, and `LimitFinish` extends the history by the run that ends.

A refusal needs the converse. `Sourced` says that every stamp of the tracker is
the end of some run of the history, of that command and user where the stamp has
them; `RefusalInv` adds it to `LimitInv`. `Recorded` alone would allow stamps
nobody made, which refuse a command without cause. A global stamp of 0 is the
exception: the code starts with it, so a global cooldown also refuses while the
clock is younger than the cooldown.

The other three are about the maps during a reload. `Configured` extends
`AlwaysConfigured` to names that are listed or wait to be registered, which is
what makes registering one safe. `Catalogue` adds that what has been listed while
the directory is read can be evaluated, and that a listed name has a handler or
still waits for one; the name list is only given between reloads, when nothing
waits. `Ownership` pairs every handler's function with the rules of its name
(`Owned`) unless the name is about to be registered anew (`Renewed`), and ties the
rules just read to the version on the disk (`ReadAs`), which holds only if no file
changes in between: hence the hypothesis.

**`Auth_proofs`**, from `AuthAssumption` (absence of an account is not an account,
the bound is a number):

* `LoginIsAuthorized`: `Spec => []CredentialsAreOfThisLogin`.
* `PollingIsBounded`: `Spec => []PollSchedule`.
* `AuthImplementsLogin`: `Spec => ImplementsLogin`.
* `AuthTypeCorrect`: `Spec => []TypeOK`.

`AuthInv` says for each stage of the coroutine which OAuth state it works for and
which tokens it holds (`Stage`), what has been written but not announced
(`Written`), that `m_config` never mixes accounts (`OneAccount`) and how long the
loop has waited (`OnSchedule`, a table of its delays: no closed form is in the
code). The credentials argument rests on `AuthorizedStays`: an authorization is
final. For the refinement, every step is a start, a success, a failure or a
logout of `Login`, or leaves the mapped variables alone.

**`Application_proofs`**, for any number of threads, requests and coroutines, from
`ManagerAssumption` and `ApplicationAssumption` (requests, coroutines and members
are different things):

* `ThreadsAreJoined`: `Spec => []NoThreadOutlivesManager`.
* `ManagerIsShared`: `Spec => []ManagerOutlivesOwners`.
* `ExitFaultsAreThese`: `Spec => []ExitFaults`.
* `ReferencesStayLive`: `Spec => []ReferencesAreLive`.
* `TestsPostToCurrentUrl`: `Spec => PostedToCurrentUrl`, an action property.

`ApplicationInv` has four parts: which threads have left `run` and been joined
(`ThreadInv`); that a coroutine is in the queue or on a thread at most once, and a
request owns the manager only while its coroutine waits (`OperationInv`); which
members exist in which phase and that they are the other owners (`MainInv`); and
that what is outstanding after the window was closed was so before, and a thread
of the pool is the destroyer only if a test message has outlived all members
(`CloseInv`). The parts need each other: that main drops the last reference
follows from the owners being members and outstanding requests. `CrashInv` has a
clause for each way to break off, and a step that does so is one of three.
`ReferencesInv` goes through the two orders of the members. For the webhook,
`PostInv` says that nothing is posted before `sendMessage` has come to its post,
and that all a read of the URL can yield now is expected by every click whose post
is still to come.

**`TwitchService_proofs`** and **`TwitchService_session_proofs`**, for any number of
accounts, logins, connections, messages and sends, from `ServiceAssumption` (no
account is absent, bounds are numbers):

* `ServiceTypeCorrect`: `Spec => []TypeOK`.
* `StateMovesAlongEdges`: `Spec => StateFollowsEdges`, an action property.
* `ServiceImplementsLogin`: `Spec => ImplementsLogin`.
* `ConnectedSessionsAreComplete`: `Spec => []ConnectedSessionIsComplete`.
* `TypedMessagesAreOwn`: `Spec => []PostedAsTyped`.
* `ChatIsShownInOrder`: `Spec => [](overtaken \/ ChatInOrder)`.

`TypeInv` is `TypeOK` in groups of variables, so that a step is asked only about
the groups it writes. The other invariants hold until a call is overtaken.
`StateInv` is the core: at most one login is at work, and it has the state at
LoggingIn; a call of `connectToChat` past its test has it at LoggedIn or
ConnectingToChat; and what a frame read when it began still holds when its button
is handled, except that from LoggedIn a call may have gone on. It alone gives the
edges (`StateChange`: who can change the state, and from where) and the refinement
of `Login`, where a step of the service is a start, a success, a failure or a
logout, or leaves the mapped variables alone. `AccountInv` follows
the credentials from the login to the EventSub. `SetupInv` follows the callback
and the read loop: each is started for the EventSub of its own call and before the
first subscription is asked for. `OutboxInv` says that a message waiting to be
sent is in the name of the account of the EventSub it was meant for, which never
changes once that EventSub has been created. `OrderInv` says where the messages of a session are:
numbered without gap from those shown, over the one its read loop handles, to
those still on the wire (`InTransit`). Only a subscribed EventSub receives any,
and by `SetupInv` its callback is there by then, so none is dropped half-way.

**`CommandParser_proofs`** and **`ChatCommands_proofs`**, for any directory, lines,
edits and failures of reading, from `CharAssumption` (the special characters are
different), `SfxAssumption`, `FilesAssumption` (a stem is not empty, as
`std::filesystem` has it), `LinesAssumption` (the script's names are words, and
lower case is a map of characters), `TicksAssumption` and `RulesAssumption` (the
script asks for cooldowns per name and per user, of any length, and for nothing
else):

* `LinesAreSplitIntoWords`: `Spec => []TokensAreWords`.
* `AnswersTellWhatPlays`: `Spec => []PlayedAsAnswered`.
* `PagesAreFull`: `Spec => []PageIsFull`.
* `ListedSoundsPlay`: `Spec => []ListedSoundPlays`.

`LoopInv` (in `TokenInv`) ties the flags of `tokenize` to the reference: at each
position they say whether the character is `Escaped` or `Quoted`, and the tokens so
far are the words as far as they begin before it (`Scanned`). The loop does the
induction: lemmas say how each notion of the reference goes from a position to the
next (`RunNext`, `QuotedNext`, `ScanLiteral`, `ScanMark`, `ScanSeparator`).

`PlayInv` adds that there is no answer before the request is over and that the
file found has the name that was asked for (`FoundByName`, about `findAudioFile`).
`PageInv` says what the loop of `sfx list` has on the page after each turn
(`PageSoFar`): the names from the page's first on, and their length with the
separators, none of which went over the limit. Where a sorted listing or a lookup
is defined by places and their number, the proofs argue from a least element
(`Least`), as the library's induction theorems cannot be used here. `ListedInv`
says that a name a page has shown is that of an audio file in the directory, until
the owner edits it.
`RequestInv` follows a line that asks for such a name in quotes through the three
readings: the tokenizer is inside the name or past it (`QuotedScan`), the tokens
are the command and the name, the handler runs the script or refuses, the lookup
finds the file (`PlainIsFound`) and the player plays it (`Served`). `ClockInv`
says that no recorded use is in the future, which makes a check that did not pass
mean what it says (`VerdictMeans`): by `RulesAssumption` the refusal is for a
cooldown, and a use was recorded less than the cooldown ago (`TurnedDown`). `ListedSoundPlays` is about names the script can be
asked for: lower case, without quote or backslash, not `list` or `random`; and
about requests that are not `disturbed`, which says that a file was unreadable or
was edited while the request was served.

**`Logger_proofs`**, for any actors and depth of nesting, if `Main \in Actors`:
`StackStaysBalanced`, the stack has as many entries as scopes are open. So
`popContext` never meets an empty stack, although it may remove the wrong entry.
The invariant adds the types, what there is before `Logger::init`, and that the
open scopes are a finite set, which counting them needs.

**Only model-checked.** Liveness (`ReloadEnds`, `LoginEnds`, `BusyStatesEnd`,
`QueueIsDrained`, `EveryRequestAnswered`, `ExitEnds`, `EveryTestPosts`), which the
prover does not handle. Every invariant and action property of a run that passes
is also proved.

## 5. Findings

Each is a run of section 3.

* Uses are counted over the life of the process. `resetStreamCounters` has no
  caller and `stream.online` no handler; `commands/limited.lua` says "Only 10 uses
  total per stream".
* `disconnect()` drops the last owners of the EventSub while `doRead` and
  `subscribe` are suspended in it; they go on in a destroyed object.
* All subscriptions but the first are detached, and what they rethrow "to prevent
  silent failure" is discarded: a failure is in the log, and neither the state nor
  the window shows it.
* A `LogContext` held across a suspension, as in `loginAsync`, removes the top of
  a stack that other threads have pushed on.
* The pages of `!sfx list` begin every 15 sounds and hold as many as fit; the
  number of pages is computed from how many fitted on this one.

Other things the models show. Each name of a command has cooldowns and limits of
its own, so that a command with two aliases has three times its limit;
`commands/dice.lua:8` says "Only 50 uses per stream" of such a command. On the rest
the repository is silent: a script edited while it is loaded can run under the
rules of the other version; a script takes over the name of a native command at
the first reload; a closed websocket leaves the state at ChatConnected, with no way
on but to disconnect and log in again; a stale Logout button or a second click on
Connect can take the state away from a connection that is being set up, and a
message can be sent in the session after the one it was typed in; an answer that
never comes leaves the service in a busy state, without a button; a coroutine under
way when the window is closed can meet a destroyed service, or join its own thread;
the parser's handlers are released after the Lua state. The hazards of
`PROJECT.json` say which property comes closest to each.

## 6. Not modelled

* **Two read loops in one engine.** A slow command of an ended session and the
  first of the next can run on two threads in one Lua state. That is undefined
  behaviour in a library, with every outcome possible, so `LuaCommandEngine` has
  one message loop; `TwitchService` reaches the situation and says nothing of the
  engine.
* **Code without a caller**: `setPrefix`, `resetStreamCounters`,
  `getCommandMetadata`, `reconnect` and `shutdown` of the EventSub,
  `Application::shutdown`, `setMasterVolume`, `stopAllSounds`, `Logger::flush`
  and `withContext`, `isLoggedIn`, `pendingMessageCount`, and the OBS service.
* **The whitelist of `AudioSystem`**: the one directory that scripts pass is
  always on it.
* **HTTP**: resolving, handshakes, writing and reading are one wait that ends
  well, badly or never. Formatting of requests and messages is left out.
* **The other scripts** reply and hold no state.
* **Drawing**, docking, fonts and window handling. The header with the font,
  `firasans_font.hpp`, is generated data and makes up 36,752 of about 41,000 lines
  of the source tree, so any share of lines covered by the model should be taken
  of the remaining 4,500 or so.
* **Libraries**: Boost.Asio, sol2, spdlog and miniaudio are modelled only as far
  as the code relies on them.
