# Formal models of the GoodVibes integration for Home Assistant

This directory holds TLA+ models of `custom_components/goodvibes`, the TLC
configurations that model-check them, and theorems about them checked by TLAPS.
The integration is a thin asynchronous client of a GoodVibes daemon, run inside
Home Assistant on one asyncio event loop. What is hard in it is what happens
*between* awaits: refreshes that overlap, retries that outlive their reason,
responses that arrive after the events they were to announce, files rewritten by
several owners, calls cancelled half way.

Modelling convention: the code between two awaits is one action, because nothing
else runs on the loop meanwhile; what may happen during an await is an
interleaving of other actions. Payload contents, wording and logging are
abstracted; every state change, guard, early return and error path is kept.

## 1. The system

| Part | Code | State it keeps | Operations | Interacts with |
| --- | --- | --- | --- | --- |
| Daemon connection | `data.py` (refresh, `_async_mark_*`, reconnect), `coordinator.py`, `version_check.py` | `daemon_connected`, `status`, `reconnect_unsub`, `reconnect_delay`, `_refresh_task`, three `daemon_*` repair issues | refresh (coalesced), contract check, mark reachable / not ready / unreachable, reconnect attempt | client; entry lifecycle; Home Graph and mail probes inside a refresh |
| Entry lifecycle | `__init__.py` | `hass.data[DOMAIN]`, listeners, managers | setup, reload, unload, reconnect hook, startup sync | every part |
| Active turn | `data.py` (`async_handle_event` .. `async_apply_conversation_error`), `conversation.py`, `services.py` (prompt, run_agent, cancel) | `active_*_id`, `status`, `last_reply`, `last_error` | start a turn, apply its response or error, apply a submission response, handle a bus event, cancel | the daemon's event posts and its HTTP responses, which race |
| Answer streaming | `streaming.py`, `client.conversation_stream`, `_iter_sse_frames` | parse buffer, started flag, final holder | SSE frames to chat-log deltas | conversation entity |
| Causal provenance | `provenance.py`, `services.async_causal_chain` | causes (ordered, bounded), change rings per entity, change order | record automation / script / service call / change, prune, resolve | Home Assistant bus; Home Graph snapshot |
| Habit mining | `habits.py` (store, detection, miner), `services.py` (habit services) | observations, `habit_proposals`, one repair issue | record, prune, analyse, propose, accept | automation store |
| Automation store | `habits.py` (`_automations_yaml_lock`, `_atomic_save_yaml`, `async_create_automation_from_config`) | `automations.yaml`, the per-hass lock | accept a proposal: read, check, append, swap, reload | Home Assistant's own editor of the same file |
| Home Graph | `home_graph.py`, `home_graph_watch.py`, `data.py` (graph refresh, response), services | `home_graph_*`, two repair issues, debounce timer | snapshot, sync, refresh, registry watch | provenance (snapshot enrichment), daemon |
| Mail and calendar | `mail_calendar.py`, `calendar.py`, services | `mail_calendar` state, events | probe, classify an error, apply an error, list / create events | refresh |
| Perception | `perception.py` | per-entity rate limit, bounded session tasks | on a watched state change, open an attributed session | daemon |
| Frontend backend | `frontend.py` | panel registration, temporary files of uploads | panel actions, upload | Home Graph services, entry lifecycle |
| Frontend panel | `frontend/src/goodvibes-home-panel.js` | the lists shown, triage queue | refresh, triage, review | frontend backend |
| Client | `client.py`, `generated_client.py`, `const.py` | none (one request at a time) | one method per daemon route, error typing | every part |
| Update entity | `update.py` | latest release, install in progress | look up, download, verify, install | GitHub |
| Config flow, schemas, sensors | `config_flow.py`, `schemas.py`, `sensor.py`, `daemon_payloads.py` | none beyond what they show | validation, display, payload building | Home Assistant |

### What makes each part correct, and what is hard about it

* **Daemon connection.** Only one refresh writes the runtime; from its
  first verdict on, entities are available exactly when no repair issue says otherwise; an entry that is down is
  always going to probe again; a drop is followed by a recovery that
  redoes the device registration and the graph sync; nothing survives an unload.
  Hard: the refresh is shared by setup, services and reconnect attempts; its
  verdict comes before its end; cancelling one caller cancels all; the issues outlive the
  entry's reload.
* **Active turn.** The active ids name work in progress: the end of a turn clears
  its own id and nobody else's. Hard: HTTP responses, bus events and cancel calls
  arrive in any order, and several turns run at once.
* **Automation store.** No accepted automation is lost, no proposal is created
  twice, the file is never partial, and what an accept call reports as created is
  running. Hard: executor threads outlive cancelled awaits; another owner writes
  the same file; a crash between any two steps.
* **Causal provenance.** What is retained is a prefix of the true history, newest
  first, within the bounds; an attribution names a recorded ancestor. Hard: a context remembers only
  its last event; two
  bounded structures pruned independently and expected to agree.
* **Entry lifecycle.** What an entry leaves on the bus can always be stopped by its
  unload; a loaded entry runs what its options ask for; the one panel reaches its
  runtime while that is alone, and is refused while there are several. Hard: setup is cut at four awaits, entries interleave, Home
  Assistant does not unload what failed to set up, and options change meanwhile.
* **Home Graph.** The two issues exclude each other; what was done is not reported as
  failed; an upload's file is whole while it is sent and gone afterwards; a burst of
  registry changes reaches the daemon. Hard: some fifty
  kinds of call, the entry's own syncs and the poll write the same fields in any order.
  A snapshot must be closed although the home changes while it is built.
* **Habit mining.** What is proposed was seen often enough, each proposal can be named,
  pruning keeps to the window. Hard: bounds, midnights, weekends, a clock set back.
* **Mail and calendar.** The state shown is the verdict of one answer, never a mixture, and
  each caller is told its own. Hard: a probe inside a refresh overwrites what calls record and vice versa.
* **Perception.** One session per entity and interval, and none about what is hidden. Hard: the limit is noted before a session that may fail.
* **Answer streaming.** However bytes are cut, the user hears the answer once and whole,
  and no failed turn looks finished. Hard: three layers, each keeping a half of something.
* **Update entity.** An install that says so left the whole release. Hard: file by file
  over the installed ones, threads that outlive cancelled calls, restarts, and one
  directory for every entry.
* **Frontend panel.** At most one triage, and it comes to rest. Hard: four asynchronous
  functions share two flags, one list and a timeout.

## 2. The modules, and how they correspond to the code

Each component has a module of its own, an `MC` module that instantiates it for
TLC and one `.cfg` per question asked of it. The proofs are in eight modules:
`Connection_proofs`, `Turns_proofs`, `AutomationStore_proofs` and `Provenance_proofs` for
the components they are named for, `HomeGraph_proofs` for `HomeGraph` and `PanelTriage`,
`Observers_proofs` for `Perception` and `HabitMining`, `AnswerStream_proofs`, and
`Parts_proofs` for `EntryLifecycle`, `MailCalendar`, `Snapshot`, `UpdateInstall` and the
types of everything in `MCParts`. `MCParts` instantiates seven modules that share no state: a behaviour
picks one of them and the others stay as they are, so one run asks all their questions
without multiplying their states. `MCReview` does the same with the store and the panel.
Definitions
whose comment begins with "Mutant:" are plausible bugs of the definition that
follows them; no specification uses them, they exist to show that the properties
tell the difference.

### Connection and ConnectionReport

| Code | Model |
| --- | --- |
| `daemon_connected`, the three `daemon_*` issues, `status` | `connected`, `issues`, `status` |
| `reconnect_unsub`, `reconnect_delay` | `timer` (the delay it was scheduled with; 0 is `None`), `delay`; `revoked` after unload, which cancels the timer but keeps the field |
| `_refresh_task`, the tasks and who awaits them | `current`, `phase`, `pc`, `awaits`: a task is named by the caller that created it |
| the four gathered reads | `seen`: everything the daemon was while they were out, so that each may answer for another moment |
| the daemon | `daemon`: refuses, answers with an error, or with payloads that may carry faults |

`async_refresh` is `EnterRefresh` (create or join), `_async_do_refresh` is
`ReadsFail`, `ReadsAnswered` and `GraphRefreshed`, the verdicts are
`MarkDaemonUnreachable` and `RecordContract`, which contain the scheduling of the
retry as in the code. `TimerFires`, `AttemptDecides` and `HookReturns` are
`_async_reconnect_attempt` cut at its awaits. `CancelCaller` and
`CancellationSpreads` are a service call whose script is stopped. Two ghosts: `owed`,
the connection has dropped and the hook has not run since; `judged`, a probe of this
setup has given a verdict. `Init` leaves open which issues stand: neither an unload nor
a setup clears them, so a reload during an outage begins available (`data.py:112`)
under the issue of the setup before it.

`ConnectionReport` is the promise: available or down with a reason and watched,
dropped, restored, withdrawn; until the first verdict (`Wait`) the reasons of an earlier
setup may stand. `Connection!Report` maps to it: `available` is
`connected`, `reasons` the issues, `watched` whether a retry is scheduled or an
attempt has not had its verdict.

### Turns

| Code | Model |
| --- | --- |
| `active_message_id`, `active_session_id`, `active_agent_id`, `active_run_id` | `active`, by field |
| `status` | `status` (statuses with the same effect stand for each other) |
| coroutines of turns, submissions, cancel calls | `pc` |
| the daemon's posts, not yet handled | `events`, a set: they may be handled in any order |

`StartTurn`, `TurnAnswered`, `TurnUnanswered`, `TurnFails` and `TurnAbandoned` are
an Assist turn from `async_start_conversation_turn` to whichever way its stream
ends; `Submit`, `SubmissionAnswered`, `SubmissionFails` are `goodvibes.prompt` and
`goodvibes.run_agent`; `HandleEvent` is `async_handle_event`; `SendCancel`,
`CancelReturns`, `CancelFails` are `goodvibes.cancel`, before and after its await.
A cancel asks for the ids its caller gives (`CallerIds`), or else for the active ones
(`ActiveTarget`); `asked` keeps what it asked for until it returns.
The constants say what is assumed of the environment: whether turns overlap,
whether the daemon names the message in a final frame (`NamesTurn`) or always
sends one (`NoFinal`), whether its reports follow its responses (`InOrder`),
whether pipelines are cancelled (`Abandons`). What the daemon reports of a job is
external (`DaemonReports`).

### AutomationStore and AtomicStore

| Code | Model |
| --- | --- |
| `automations.yaml`, the automations running | `file`, `loaded`: sets of ids |
| `_automations_yaml_lock` | `lock` |
| the accept coroutine, its executor job | `pc`, `job` |
| the list `_read_and_write` holds | `list` |
| `runtime.habit_proposals` | `proposals` |
| the list Home Assistant's editor holds | `draft` (external) |

`Accept` is the service up to the lock, with all its refusals. The job is
`Load`, `SaveTemp`, `Swap` or `JobFails` at any point; it goes on when its
coroutine is cancelled, because a thread cannot be stopped. `Restart` may come
between any two steps. `AtomicStore` is the promise: one step per accepted call,
nothing lost. `Store` maps the file to its store and ended jobs to its answers.

### Provenance

| Code | Model |
| --- | --- |
| `_causes` | `causes`, positions in `heard`, a log the code does not keep |
| `_changes[e]`, `_change_order` | `changes[e]`, `order`, positions in `log` |
| listeners subscribed | `running` |

All three containers of the code are kept in order of arrival, so a set of
positions says what an ordered dictionary or a deque says, and "the oldest" is its
least element. `Remember` is `_remember_cause`; `RecordChange` contains the ring's
`maxlen` and `_prune_changes`. `Walk`, `Chain` and `PrimaryCause` are `resolve` and
`_primary_cause` as functions of the index. Attribute-only updates and unknown
states return early in the code and change nothing, so they have no action.
`Fires` says which events carry which context, which is Home Assistant's part: in the run
an automation's trigger and the service call it makes carry one context, as in Home
Assistant, and so do a script's.

### EntryLifecycle

| Code | Model |
| --- | --- |
| `ConfigEntryState` and the await a setup is at | `state` |
| `hass.data[DOMAIN][entry_id]` | `runtime`, the number of the setup that made it |
| listeners, managers and tasks that exist | `live`: entry, setup, kind |
| the options, reloads waiting for the setup lock | `options`, `reloads`, `again` |
| `frontend_registered`, the panel's `configEntryId` | `registered`, `panel` |
| `_runtime_from_data`: whom a request of the panel reaches | `Resolved` |

`async_setup_entry` is `BeginSetup`, `FrontendRegistered`, `Connected` and `SetupEnds`,
cut at the static paths, the manifest and first refresh, and the platforms; `SetupFails`
is any of them raising. `async_unload_entry` is `BeginUnload` or `BeginReload`, then
`UnloadEnds` or `UnloadFails`. What is called by Home Assistant's lock and state machine
(a reload refused, no unload after a failed setup, tasks cancelled with their entry) is
modelled from what `__init__.py` relies on. The reconnect timer of an entry is in
`Connection`, its tracker in `Provenance`.

### HomeGraph and Snapshot

A call is an actor that runs an `Effect`: what its handler does before its own request
(a sync, or one if there was none), whether the answer is applied, what is read again
after, and how it ends (`refresh` or `regenerate` or nothing). `Offered` says which
operations each surface has, `AdminsOnly` and `NeedsEnabled` are the first lines of the
handlers. The actions are the returns of each of these awaits; `Refreshed`, `Apply` and
`Synced` are what `data.py` writes at a return. `raised` are the two repair issues,
`failing` and `synced` are `home_graph_last_error` and `home_graph_last_sync_at`, `files`
the temporary files of uploads. `Startup` and `Watch` are the entry's own syncs, the second
run by Home Assistant's `Debouncer`, whose timer (`armed`, `cooling`) is external.
`home` is a version number here; what a snapshot of it contains is `Snapshot`, where
`Cut` is everything read from the registries without an await, and `SnapshotSent` comes
after the metadata of the integrations. Its exposed entities, their devices and areas
are `Included`, `IncludedDevices` and `IncludedAreas`.

### HabitMining

`store` is the deque of observations, `Pruned` and `Appended` its methods; `Groups`,
`DistinctDays`, `Rounded` and `Proposal` are `detect_habits` as operators on it;
`AnalyseHabits` prunes, detects, replaces the proposals and sets the issue in one step,
as the code does without an await. A moment is one number, so days, weekends and times
of day are computed, not chosen. `recorded` is a ghost: all the miner ever saw.

### MailCalendar

`Outcomes` are what a request may meet and `DaemonAnswer`, external, the answer that each
stands for; any request may meet any of them, but only a call that reads one message or
event can find it missing (`Met`). `ErrorType` is the
typing in `client.py`, `Classified` is `classify_error`, `MailAfterError` and `Probed`
are the two writers of `runtime.mail_calendar`, `Told` the state behind the error raised. `Meaning`
is the table of `mail_calendar.py:13-23`, `Called` the code's departures from it.
A request is `MailSent`, `DaemonReplies` (at some moment between) and one of
`ProbeAnswered`, `CallFails`, `CallReturns`.

### Perception

`ValueChanges` is the listener with all its early returns: `Observed` up to the rate
limit, `TooSoon` the limit, `Opens` what a change that passes does. `PerceptionStops` and
`EntryUnloaded` are the two steps of an unload.

### AnswerStream

The response is a sequence of frames (`Frames`), each written as lines (`Framed`, `Lines`),
each line in two halves (`Halves`), delivered in chunks of any size.
`ReadLine` is the loop body of `_iter_sse_frames`, `Parsed` its `_parse`; `PassOn` is the
loop body of `assistant_delta_stream`, `DeltaText` and `FinalText` its helpers. What the
daemon may send (`Bodies`) is external: deltas then an end, with a comment before it, data
in one line or two, with or without the last blank line and newline.

### UpdateInstall

`disk` says of which release each installed file is. `Downloaded`, `FileWritten` and
`InstallNotifies` are `async_install` and `_install_release_zip`, which writes one file at
a time over what is there; `InstallFails` may come at any of them, `InstallCancelled`
leaves the executor's thread (`orphaned`) writing. `UpdateRestart` loads whatever
`const.py` now says. `alone` is a ghost: nobody else wrote since this install began to.

### PanelTriage

`_refreshAll` is `RefreshBegins`, `StatusReturns`, `IssuesReturn`, `RefreshEnds`;
`_queueAutoTriage` is `QueuedAfterRefresh` or, at the end of a batch,
`QueuedAfterBatch`; `_autoTriageReviewQueue` is `TriageBegins`, `TriageReturns`,
`RereadReturned`, `BrowseReturned` and `TriageEnds`, its `finally`. The fields have the
names of the page's without their underscores (`listed` is `_issues`, `seenIds` is
`_triageSeenIssueIds`). The daemon answers a read at once (`saw`) and the answer may
arrive after that of a later read.

## 3. The runs

Passing runs, with the bounds and why they are enough:

| Run | Shows | Bounds |
| --- | --- | --- |
| `connection_report` | one refresh at a time; availability, status and issues consistent from the first verdict on | setup under any issues left over, one cancellable status call, two attempts at once; every kind of answer and a version fault; delays 1 and 2. Two attempts are the least for one to join the other's refresh. |
| `connection_watchdog` | the watchdog never gives up, the entry recovers and resyncs, what an unload leaves in flight ends, `ConnectionReport` is implemented | a daemon that refuses or is healthy (a surface fault changes status only), delays 1, 2, 4: first, middle and capped |
| `turns_isolation` | a turn's end clears its own id only | two turns, an agent run, a cancel: all four writers of the fields; streams without a final frame, cancelled pipelines, events in any order |
| `turns_settle` | nothing finished is left active; "processing" is a turn that streams | two turns, both kinds of submission, a cancel; reports in order, no pipeline cancelled |
| `store_accepts` | one writer, atomic accepts, created means running, every waiter answered; the panel's triages are one at a time and come to rest | three calls, two for one proposal; failures and restarts anywhere. Two issues, one of them found again, a refresh whose list and the triage's overtake each other, batches of one, one manual triage: a batch leaves something for the next, and the button meets the timeout. `PanelSpec` alone, with two refreshes that overlap each other, passes too (895,931 states) |
| `store_consent` | nothing gets in without an admin's confirmation | an unconfirmed and a confirmed call for one proposal, a cancellable call, the editor |
| `provenance_index` | rings and order agree; eviction keeps the contexts heard last; a change is put down to the most meaningful of the last events above it | two entities, ring of 2, order of 3, six changes: the order wraps twice, rings overflow and run empty. A lineage of three contexts and an unrelated one; two of them carry an automation's or a script's own service calls beside its trigger. Two causes kept, four events: a context is evicted, heard again, and evicts another |
| `home_graph` | the two issues exclude each other; what was carried out is answered; uploads and their file; a burst of changes is sent | one call of every kind on every surface beside both syncs and the poll, every outcome of every request, two changes of the home: the second falls into the timer, the resync or the rest of the first. Calls meet each other only through the fields that the syncs and the poll write too |
| `parts` | *entries*: leaks, options, panel; *stream*: the answer once and whole, honest ends; *perception*: one session per interval, about what is exposed; *mail*: reasons; *habits*: proposals, ids, pruning; *snapshot*: closed and only for the exposed; *update*: whole installs, one per entity | two entries, one of which may fail, each set up twice, two changes of options; answers of two pieces, every chunking; two entities, interval 2; a refresh, a call that probes after it, a read of one message, and a call for administrators made by nobody who is one, ten outcomes of each; days of four minutes in two buckets, so that a habit needs two days and a weekend intervenes; two entities, a device, two areas, one edit in between; two users' installs of three releases that add and drop a file, a restart |

Runs that are expected to find a violation, each a disagreement between the code
and what its own text says (`findings` in `PROJECT.json` quotes both):

| Run | What happens |
| --- | --- |
| `connection_error` | one probe answered with an HTTP error ends the watchdog |
| `turns_cancel` | a turn is cancelled and ends, the next one starts, and the return of the cancel unmarks it |
| `store_cancel` | an automation is lost to a job whose lock was given back |

The same properties fail in other environments too, for reasons of their own. These
were met while modelling and have no run; where a constant of the module selects one, it
is named:

* `Connection`, `WatchdogArmed`: with `Faults = {"version"}`, a retry joins the refresh
  that scheduled it (the graph reads outlast the first delay) and nothing re-arms
  (`data.py:242`); with a cancellable service call, a stopped script cancels
  everybody's refresh, the reconnect attempt that joined it included (`data.py:247`).
* `Connection`, not stated as a property: an entry set up anew during an outage is available
  under the issue its earlier setup raised, until its first verdict, and an HTTP error
  answer to setup's probe gives none (`data.py:281-286`), against `data.py:108-111`, where
  availability is the probe's. `HonestReport` says what holds instead.
* `Connection`, not stated as a property: an error answer leaves the unreachable issue
  standing (`data.py:284`, against `const.py:48-51`); a connection restored by a status
  call leaves the pending retry, whose long delay the next drop reuses (`data.py:487`,
  against `data.py:483-486`).
* `Turns`, `TurnIsMarked`: with `Overlapping`, the end of the newer turn unmarks the
  older (`data.py:638`); an agent's event that names no message unmarks the turn in
  progress (`data.py:583`); with `CallerIds`, the return of a cancel that named other work
  unmarks the turn in progress (`services.py:516-527`, `550`). `Settled` without `InOrder`: a response handled after the
  terminal event marks finished work active (`data.py:612`). `ProcessingIsATurn` with
  `Abandons`: a cancelled pipeline stays "processing" (`conversation.py:139`).
* `AutomationStore`, `NothingLost`: with `EditedIds`, interleaved read-modify-writes of
  the editor and the integration lose an automation (`habits.py:409`).
* `Connection`, not stated as a property: unload cancels the pending timer, but not an
  attempt, a refresh or the reconnect hook in flight (`__init__.py:310`); it goes on beside
  the next setup, against `__init__.py:137-139`, which cares that no "running sync" should
  "leak ... past the entry's lifetime". `LeftoversEnd` shows that it ends.
* `Provenance`: a context remembers one cause, so a service call
  an automation makes in its own context, as Home Assistant's automations do, replaces the
  automation (`provenance.py:168`), and
  the change is a `service_call`, though `docs/causal-provenance.md:24` says of that "no
  automation/script/scene was above it". The run contains this ordinary case and
  `AttributedByLatest` states what the code does in it: precedence among the *last* events
  of the contexts, not among all. Not stated as properties: an automation evicted before the call it made
  leaves a broken chain that is attributed to the call (`provenance.py:171`); a busy
  entity's forgotten changes keep their place in the order and push other entities'
  records out below the bound (`provenance.py:249`).
* `AnswerStream`, `SaysTheAnswer` with `EmptyDeltas`: `_delta_text` takes the first field
  that is not empty, so a delta frame that adds nothing speaks the running `text`, the
  answer so far, again (`streaming.py:61-65`).
* `PanelTriage`, `TriageRests` with `NamesBatch` false: what a batch has seen is known only
  from `processedIssueIds`; a daemon that counts but does not name them is asked about the
  same issues for ever (`goodvibes-home-panel.js:1383-1386`, `1405-1408`). The run has
  `NamesBatch` true; the one triage reply in this repository,
  `tests/test_frontend_triage.py:88-99`, names none. Not stated as a
  property: "Re-run triage" sends everything seen so far as `skipIssueIds`
  (`goodvibes-home-panel.js:1367`), though `docs/home-graph.md:327` calls it "a fresh
  classification"; a triage in the background clears the error the user was reading
  (`goodvibes-home-panel.js:193`).

What the code does and no property says otherwise:

* Entries: repair issues carry no entry, so with two entries each clears what the other
  raised (`data.py:694`). With two runtimes the panel names none, and each of its calls is
  refused with "config_entry_id is required" (`frontend.py:800`) until one is left;
  `PanelResolves` says so.
* Home Graph: the debouncer drops a change of the home made while it runs the resync of an
  earlier one (`home_graph_watch.py:81`), though `__init__.py:152` wants the daemon's graph
  kept "up-to-date"; `ChangeIsSent` is about the changes it takes. `last_sync_at` is set
  though the answer was `ok: false` (`data.py:679`). The service that lists issues stores
  what its filter left as the runtime's issues (`services.py:777`). An upload with a second
  file, or an error while later fields are read, leaves the first one's temporary file
  behind (`frontend.py:826`, against "cleaning up on error" in `frontend.py:810-811`). A
  snapshot's `viaDeviceId` may name a device that is not in it, and `generatedAt` is stamped
  after the awaits (`home_graph.py:185`).
* Perception: `perception.py:117-118` ignores "transitions into/out of unknown/unavailable",
  the code only those into it (`perception.py:124`): a door that comes back from `unavailable`
  opens a session. `OneSessionPerInterval` bounds such sessions and asks for none. A reload
  forgets the rate limit.
* Mail and calendar: a refused token (401) is `ready`, though `mail_calendar.py:21-22` has
  "the URL and token are right" under `unavailable`; a 404 about one message or event that is
  gone makes the whole surface `unsupported` and clears the events (`client.py:805-811`), though
  `docs/mail-calendar.md:77` has that for a daemon that "does not serve the routes at all".
  Both are outcomes of the model, and `ReasonIsTrue` states the code's names for them. The wording decides also when a code
  is present (`mail_calendar.py:98-100`); a call that succeeds leaves an earlier reason.
* Streaming: a body that is cut cleanly before its final or error frame ends as a finished
  answer with what was said so far (`streaming.py:108`); `Bodies` always ends in one of the
  two, so `SaysTheAnswer` says nothing of it.
* Habits: one more observation moves the average, and with it the proposal's id
  (`habits.py:227`), so that one habit may be accepted twice; observations of an entity
  hidden since are still proposed (`habits.py:363`); the issue outlives a miner that was
  switched off (`services.py:1049`).
* Update: files the new release does not have stay; two installs at once, or a cancelled
  one's thread, leave a mixture though each may notify success; if `const.py` was written
  before a failure, no update is offered after a restart and the mixture is never repaired
  (`update.py:336`).

The type invariants of all modules are proved (section 5). Those of `Connection`,
`AutomationStore`, `Turns`, `Provenance` and `PanelTriage` are not run again; those of the
other modules are in `home_graph` and, together, in `parts` (`PartsTypeOK`).

Deadlock is checked except in the `connection` runs, where a healthy or unloaded
entry has nothing left to do until the environment acts, and in `parts`, where a stream
or a day ends.

## 4. Fairness

* `Connection`: the client gives every request a timeout and asyncio queues every
  wake-up, so a task or coroutine that can go on does (weak fairness of each). The
  loop runs an expired timer in its next round; other refreshes may begin and end
  in between, so the timer's firing is strongly fair. Nothing is assumed of the
  daemon, the services or the user. `Recovers` and `Resyncs` are stated for a daemon
  that is healthy from some time on.
* `AutomationStore`: the executor runs its jobs, coroutines are resumed, and
  `asyncio.Lock` serves its waiters (weak fairness of each).
* `EntryLifecycle`: platforms, the daemon's requests (all with timeouts) and the waiters of
  Home Assistant's setup lock go on, so an entry that can do something by itself does (weak
  fairness per entry). Nothing is assumed of Home Assistant's start, the user's changes or
  the startup sync.
* `HomeGraph`: the requests of the two syncs end and the debouncer's timer fires. Nothing is
  assumed of calls.
* `PanelTriage`: the requests of a triage end, with an answer or an error, and a timeout of
  0 ms fires. Nothing is assumed of refreshes, so `TriageRests` does not rest on the list
  being read again.
* In `parts` and `store_accepts` the fairness of a component that was not picked asks for
  nothing: none of its fair actions is enabled in its initial state.
* The other modules state no liveness: their action properties and invariants say what a
  step may do.

## 5. What is proved

TLAPS checks these theorems for every value of the constants that satisfies the
named assumptions of the modules.

* **Connection_proofs.** `TypeCorrect`; `RefreshIsSingleFlight` and `ReportIsHonest`
  for every daemon, callers and issues left by an earlier setup, as far as this entry's runtime
  is the issues' only writer. What ties availability to the issues begins with the
  first verdict: until then both are as they were at the start (`UnjudgedStep`). The first needs `TaskInv`: a task that can still write is the
  current one, is awaited by its creator, and only its end clears `_refresh_task`.
  `WatchdogNeverGivesUp` and `ConnectionImplementsReport` assume a daemon that is
  only ever unreachable or compatible and callers that are not cancelled; section 3
  says how the watchdog fails without each of them. Their invariant `WatchdogInv`
  adds that an attempt in a refresh awaits one whose verdict is still to come, or
  that the verdict has re-armed the timer.
* **Turns_proofs.** `TypeCorrect`; `ProcessingIsHonest` if no pipeline is cancelled
  (inductive as it stands with the type invariant), also for final frames that name no
  message (`NamesTurn` false), which no run takes; `WorkIsIsolated`, an action
  property, if the daemon names the message it answers or reports on and names are
  distinct. `NothingOverIsActive` is `Settled` in the environment of `turns_settle`, for
  any number of turns and jobs: `SettledInv` says that a turn's message is active only
  while it streams (`MarksInv`), and that a job's ids outlive its end only while the event
  that ends it waits to be handled, which is after everything else posted of the job
  (`OrderInv`).
* **AutomationStore_proofs.** `ConsentIsAsked` needs `ConsentInv`: what any list in
  memory or on disk contains is accounted for, so that no swap can bring in what
  nobody confirmed, with restarts, cancellations and the editor. Without cancellation
  and without another writer, `LockInv` (a job runs only for the call that waits for
  it holding the lock) and `ListInv` (the list in memory is the file plus its own
  automation) give `OneWriterAtATime`, `ReportedStaysRunning` and `AcceptingIsAtomic`,
  the refinement of `AtomicStore`.
* **Provenance_proofs.** `RetentionIsSound`: that each ring is an unbroken run of the
  newest changes *and* lies within the order is inductive; when the order drops a
  change, either its entity's ring holds it, and it is the ring's oldest, or the ring
  loses a younger one. The total bound follows from the order's. `CausesAreLastHeard`:
  an event of a remembered context replaces its record, any other evicts the oldest,
  so what is kept stays the newest contexts. Both rest on `OldestIsLeast` and
  `BoundedDropsOldest`.
  `AttributionIsByLatest` is about `PrimaryCause`, a walk from parent to parent over the
  index, and holds in every state of every behaviour: a change whose ancestors are all
  remembered, within the walk's depth, is put down to the first kind, in the documented
  order, among the *last* events of the contexts above it. Its lemmas are about the walk as
  a recursive function: lineages are finite because chains of parents end
  (`LineageIsFinite`), the walk visits each context of a lineage once
  (`WalkFindsLineage`), and it ends within its depth by the pigeonhole principle.
  `AttributedByLatest`, the property the run checks, is that statement.
* **HomeGraph_proofs.** `OneIssueStands`: every write of the two issues leaves at most one.
  `CarriedOutIsAnswered` needs `CarriedInv`: a call that the daemon carried out is past its
  request, and reads again, the one await after which it can still fail, only if it is a
  refinement. `UploadKeepsItsFile` needs `UploadInv`, where in its handler an upload may be
  while it has a file. All three for any set of calls, on any surface, with any effects
  the handlers have. `TypeCorrect` and `PanelTypeCorrect` are their types; the second
  bounds what is counted of a batch by the issues there are. `TriageIsSingle` is inductive
  with it: whoever ends a run clears the flag, and nobody begins one while it is set.
* **Observers_proofs.** `OneSessionEachInterval`, an action property about changes between two
  observations, and a bound for all others, needs `PerceptionInv`:
  the manager's notes are those of the ghost, and no session is younger than its
  entity's note. For habits, `StoreInv` says that what is kept is the newest part of what was
  recorded, and that dates are in order but for the skew. `PruningKeepsTheWindow`: the code
  prunes from the left up to the first young record, so behind it an older one may stay,
  but by no more than twice what the clock may be set back. `EachHasItsId`: `SumBounded` and
  `RoundedWithin` keep the rounded mean of a group's minutes in the group's bucket, so two
  groups have two ids. `ProposedWasSeen`: whatever the bounds dropped, what is left of
  a group that is proposed was recorded, on as many days as the thresholds ask.
* **AnswerStream_proofs.** `AnswerIsSaid`: for any answer, any number of pieces of it that
  were streamed and any chunks, the chat log holds a beginning of the answer, and all of it
  with the result when the stream ends without an error; if no delta frame is empty
  (`EmptyDeltas`; section 3 says how it fails otherwise). The invariant is that some number
  k of lines has been read: the buffer holds what has arrived after those lines, less than
  a line or the last one without its newline; the fields are those of the frame that line
  k + 1 belongs to; and the chat log has heard exactly the frames that ended in the first
  k lines (`Talk`). The lemmas follow the layers: the halves of a chunk complete whole
  lines (`WholeLines`), one line takes a frame one line further (`LineStep`), one frame the
  chat log one frame further (`FrameStep`), and `LinesInTurn` and `FramesInTurn` unfold the
  two folds of the model into such steps. `StreamTypeCorrect` bounds the buffer.
* **Parts_proofs.** Of entries, `RuntimeInv`: `hass.data` holds the runtime of the last
  setup unless the entry is unloaded, also after a setup that failed. From it
  `LeaksAreFailedSetups`: a later setup hides an earlier runtime only if that one failed.
  `OptionsAreRun` adds `ManagersInv`: a setup that has not ended started no manager, and a
  loaded entry hears of a change of its options, so a change at any await is followed by a
  reload. `PanelAlwaysResolves` adds what the panel names (`PanelHolds`): it is there only after its
  registration, and names an entry only while that one's runtime is the only one; so a request
  reaches the one runtime there is, and is refused among several.
  Of mail and calendar, `ClassifiedAsCalled`: what the error's type, code and wording
  are classified as is `Called`, the documented name but for two outcomes; it is the one fact
  about the data. `ReasonStaysTrue` and `EachToldItsOwn` (a caller that was told is done, and
  its own answer is what it was told of) follow for any number of overlapping probes and
  calls.
  Of snapshots, `CutIsClosed`: what is cut out of closed registries is closed, and leads to
  what is exposed; with `HomeHolds`, that Home Assistant's edits keep the registries closed
  and the snapshot under way is of one moment, `SentIsClosed`, for any home.
  Of update entities, `WrittenInv`: what an install has written, and nobody else wrote
  beside it, is on the disk; `DoneInv`: one that notifies has written all. Together
  `NotifiedIsWhole`, for any archives, whatever mixture there was before. `BusyIsHonest`
  says that no entity has two installs under way.
  `PartsTypeCorrect` puts the types of the seven parts together: a step of `MCParts` is a
  step or a stutter of each of them, so each keeps what it keeps alone.

The sums, folds and walks of these theorems are recursive functions. No induction theorem of
the library is used for them, as those take an operator as a parameter; instead a set of
numbers that holds 0 and with every n also n + 1 is all of `Nat` (`SetInduction`), since a
set of numbers that is not empty has a least one (`HasLeast`, from the well-foundedness of
strict inclusion among finite sets). The definition by `CHOOSE` of a recursive function is
shown to have a value by building the function's tables for sets of size n one after the
other (`FoldTable`, `SumTable`).

Every safety property of the passing runs, invariant or action property, is stated by one of
these theorems. Only model-checked are the liveness properties (`Recovers`, `Resyncs`,
`LeftoversEnd`, `Answered`, `OptionsTakeEffect`, `ChangeIsSent`, `TriageRests`), since
fairness and ENABLED are out of the prover's reach. Some theorems assume something of the
environment (`WatchdogNeverGivesUp`, `ConnectionImplementsReport`,
`OneWriterAtATime`, `ReportedStaysRunning`, `AcceptingIsAtomic`, `ProcessingIsHonest`,
`WorkIsIsolated`, `NothingOverIsActive`, `AnswerIsSaid`): the
assumption is what the constants of the property's run say, for any number of actors, and a
hypothesis of the theorem, not of the module; section 3 tells what happens without it.

## 6. Plan

Done, in the order of what matters most to the program: the connection, turns, the
automation store and provenance with their proofs; then the entry lifecycle, the Home
Graph and its snapshot, habit mining, streaming, mail and calendar, perception, uploads,
the update entity and the panel's triage, with proofs of all their safety properties.

Left, in this order:

1. Proofs in wider environments: the connection's refinement with cancellable callers up to
   the step that breaks it, the settled turns without the order of reports.
2. The panel's review forms: each decision is one call, and what the form shows of an
   issue that another refresh has replaced.
3. `Connection` and `EntryLifecycle` composed: an attempt that outlives its entry meets
   the next setup.

## 7. What is not modelled

Rendering, translations, form schemas, payload wording, the typed client methods
(each is one request without state), build and release tooling. Of the panel, everything
but the review queue: ingest, map, pages and reviews are each one call and a redraw. Of an
upload, its form fields and the path by which its temporary file is lost. The comparison
of versions is a pure function of two strings. Repair issues shared by two entries are
described in section 3 and not modelled. The daemon, GitHub, Home Assistant's editor, its
bus, its config entries, its `Debouncer` and its restarts are modelled from how this code
uses them and marked external. Payload contents are reduced to what the control flow
tells apart; times are reduced to order, except the backoff's delays, perception's
interval and the times of habits.
