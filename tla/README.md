# A verification project for the ESP-Claw firmware

This directory holds TLA+ models of the concurrent core of ESP-Claw, the agent
framework under `src/esp-claw/` that the LAFVIN ESP32-S3 board runs, the TLC
configurations that check them on small instances, and proofs, for all values of the
constants, of every safety property and refinement that those runs check. Every definition is translated from
the C code; `PROJECT.json` names the lines of each.

Paths below are relative to `src/esp-claw/components/`:

| short | path |
|---|---|
| core | `claw_modules/claw_core/src/` |
| router | `claw_modules/claw_event_router/src/claw_event_router.c` |
| cap | `claw_modules/claw_cap/src/claw_cap.c` |
| lua | `claw_capabilities/cap_lua/src/cap_lua_async.c` |
| sync | `lua_modules/lua_module_thread/src/thread_sync.c` |
| http | `common/http_reuse/esp_http_client_reuse.c` |
| sched | `claw_capabilities/cap_scheduler/src/cap_scheduler*.c` |
| tg | `claw_capabilities/cap_im_platform/src/cap_im_tg.c` |
| arbiter | `common/display_arbiter/display_arbiter.c`, with its users in `lua_modules/lua_module_display/src/` and `common/emote/emote.c` |
| wifi | `common/wifi_manager/wifi_manager.c` |

## 1. Inventory of the system

ESP-Claw is C on FreeRTOS with two cores: tasks, queues, mutexes, semaphores, one
address space. What is hard in it is not any one algorithm but who does what
between two regions under a lock, and what happens when a bounded queue, table or
slot is full.

| component | state | operations | talks to |
|---|---|---|---|
| agent core (`core/*.c`) | request queue, response queue, insert queue, the request in flight with its phase and abort flag, the lists of observers and providers | create, start, stop, submit, cancel_request, receive(_for), the agent loop | LLM over HTTP, capabilities, session history, observers |
| event router (`router`) | event queue, table of pending events, rules in memory and in a file, last result | publish, cancel_event, purge_queue, reload and add/update/delete rule, the router task | agent core, capabilities, Lua jobs, itself |
| capability registry (`cap`) | groups, descriptors with their counts of active calls, `started` | register, enable, disable, unregister a group, start_all, call, list | the capabilities' hooks and `execute` functions |
| Lua jobs (`lua`) | table of jobs, one binary semaphore per slot, count of running jobs | submit, run_and_wait, stop_job, stop_all_jobs, list | Lua runtime, one task per job |
| Lua thread module (`sync`) | registry of named locks, semaphores, queues | create, send, receive, give, take, lock, unlock, delete | Lua jobs |
| display arbiter (`arbiter`) | owner of the display, depth of Lua's claims, callback | acquire, release, query | emote, Lua display module |
| HTTP connection reuse (`http`) | pool of clients, list of leases | the wrapped init, perform and cleanup of a client; the reaper | LLM transport, IM clients |
| agent and session managers (`claw_modules/claw_manager`) | agents, sessions and their files | create, switch, compact, delete | agent core, memory |
| memory, skills | files, indices, an extraction task | append, recall, extract, activate | agent core (observer, context providers) |
| scheduler (`sched`) | entries, a file of definitions, an NVS blob of their state, a task | add, update, remove, enable, pause, resume, trigger, reload, tick | event router |
| chat platforms (`cap_im_*`) | connections, offsets, caches of what was seen | receive, send, start, stop | event router |
| Wi-Fi manager (`wifi`) | configuration, retries, mode of the radio | start, apply a configuration, scan, event handlers, timer | the Wi-Fi stack, console, captive portal |
| settings, captive DNS, mDNS, painter, emote | NVS, sockets, buffers | thin layers | applications |
| applications, console (`app_claw`, `edge_agent`) | start-up order | wiring | all of the above |
| Arduino examples, drivers, fonts | none of the agent's | demonstrations | hardware |

How a message flows: a chat client *publishes* an event; the *router task* takes it
off its queue, walks the rules under the router's recursive mutex and runs their
actions; one of them *submits* a request to the *agent core*, whose task calls the
LLM, runs tools as *capability calls* (some of which are *Lua jobs*), and pushes the
answer to the response queue or, through a completion observer, publishes it as an
event again. Meanwhile other tasks submit user interrupts, cancel, reload rules,
disable groups and stop jobs.

What makes each modelled part hard, and what makes it correct:

* **Agent core.** Clients look at the request in flight and change its abort flag
  while the loop is between any two of its steps. Correct means: no accepted
  request is lost or served twice; an interrupt joins only its own session; an
  abort is never applied to a call nobody interrupted, a cancel is neither lost nor
  leaked into the next request; the session's record is closed whatever way a
  request ends; a stop ends.
* **Response queue.** Several clients read one queue, each wanting its own answer;
  what they read for others goes to a list. Correct means: nobody waits for an
  answer that is in the list, an answer is given once and in order, timeouts hold.
* **Event router.** An event exists in the queue and in the table, which change at
  different moments in different tasks; the router is also one of its publishers,
  and waits for scripts that are publishers too. Correct means: a confirmed
  cancellation holds, slots follow their events, rules in use are not freed, and no
  circle of waits lasts.
* **Capability registry.** Lifecycle hooks and calls run without the mutex.
  Correct means: no unload under a call, hooks alternate, what is listed as
  started has been started.
* **Lua jobs.** A slot changes hands as soon as its job has ended, while its task,
  its submitter, a waiter or a stopper may still look at it. Correct means: the
  count is exact, names have one holder, results and stop flags belong to the job
  they are read for, calls return.
* **File of rules.** A change reads the file, writes a second one, removes the first
  and renames, and only then replaces the rules in memory; the device may be reset
  at any point. Correct means: what a caller was told is stored is not lost, and the
  router runs the rules of the file.
* **Scheduler.** What fires and what is remembered of it are two stores, written one
  after the other after the event was published; a reset may come in between, either
  write may fail, and the clock may be wrong until it is set. Correct means: an entry
  of kind once fires once, a pause lasts, what was stored is loaded.
* **Telegram gateway.** The offset of the next poll makes the server forget. Correct
  means: nothing is forgotten that was not handled, nothing is handled twice, and the
  queue between its two tasks outlives them both.
* **HTTP connections.** A client changes hands between tasks and the pool, and may be
  closed by a third. Correct means: one owner at any time, none closed in use, none
  left over.
* **thread.sync.** Objects are looked up under a lock and used without it. Correct
  means: no object is freed while a job uses it, and a lock's recorded owner holds it.
* **Display.** Two users, a counted claim, a callback that comes after the lock, and
  a clean-up that runs at the end of scripts that never used the display. Correct
  means: the display always comes back to emote, and is painted again.
* **Wi-Fi.** Three tasks change the same variables without a lock, and events are
  handled after the state they speak of has changed. Correct means: whatever fails,
  the device ends connected or with its access point open, and says which.

## 2. Modules

| module | models | abstract specification |
|---|---|---|
| `ClawCore` | `core/claw_core.c`, `claw_core_agent_loop.c`, `claw_core_messages.c`, `claw_core_control.c`, abort path of `claw_core_llm*.c` | `AgentService` |
| `ResponseQueue` | the response half of `claw_core_messages.c` | |
| `EventRouter` | `router` | `EventBus` |
| `CapRegistry` | `cap` | |
| `LuaJobs` | `lua` | |
| `RuleStore` | the operations of `router` that change and store rules | |
| `Scheduler` | `sched` | |
| `TelegramLink` | the gateway of `tg` | |
| `HttpReuse` | `http` | |
| `ThreadSync` | `sync` | |
| `DisplayArbiter` | `arbiter` | |
| `WifiManager` | `wifi` | |
| `ClawCore_proofs`, `ResponseQueue_proofs`, `EventRouter_proofs`, `LuaJobs_proofs`, `CapRegistry_proofs`, `HttpReuse_proofs`, `ThreadSync_proofs` | theorems about the module of that name | |
| `Device_proofs` | theorems about `RuleStore`, `DisplayArbiter`, `TelegramLink`, `Scheduler` and `WifiManager` | |
| `MCClawCore`, `MCEventRouter`, `MCLuaJobs`, `MCScheduler` | instances for TLC | |
| `MCRestarts` | `Scheduler`, `RuleStore` and `TelegramLink`: what goes on after a reset | |
| `MCShared` | `ResponseQueue`, `CapRegistry`, `HttpReuse`, `ThreadSync`, `DisplayArbiter`, `WifiManager`: what several tasks share | |

`MCRestarts` and `MCShared` each put modules side by side that share no state in the
code either: a behaviour chooses one of them at the start, and the others rest in
their first state. They add nothing to the modules but that choice.

One action is one step that no other task can see half done: a region under a lock
that neither blocks nor calls out, one queue or semaphore operation, one access to
an unlocked flag. Names of operators and states follow the functions and fields.
Variables marked *history* are not in the code; they record what has happened to
each request or event, for the properties.

### ClawCore
`worker` is the program counter of `claw_core_agent_loop_task`; `cur`, `texts`,
`iteration`, `err`, `result` are its locals. `inflightId`, `inflightSession`,
`phase`, `abort`, `reason`, `insertQueue` are the fields under `inflight_lock`.
A client's submission is `SubmitCheck` (the test of `started`, the clone), then
`TryInsert` for interrupts, then `SubmitSend` or `SubmitTimeout`. `Cancel` is
`claw_core_control_cancel_request`; `StopFlag`, `StopCancel`, `StopWake`, `StopWait`
are the steps of `claw_core_stop`. The loop's actions are in the order of the code;
`Drain`, `ClearAbort`, `Absorb` are `handle_pending_user_interrupts`, `Release` is
the locked region of `finish_request`. The LLM, tools, providers, gate, session
store and allocations are outside and may succeed or fail at each use; an LLM call
returns an answer only when the abort flag is clear, as the transport's poll has it.
A full insert queue, a full request queue and a full response queue are reached in
`core_safety`. `AgentService` says what clients may rely on without queues or phases;
`ImplementsPromise` is the refinement.

### ResponseQueue
`Push` is the agent task's; `Call`, `Enter`, `Take`, `Stash`, `Timeout` are the
steps of `claw_core_receive_for`: the mutex with the look through the list, then
the waits on the queue with the mutex held. `ClawCore` has the response queue with a
reader that takes whatever is first (`Consume`); this module has the readers.

### EventRouter
`queue` is the event queue, `pending` the table. A publication is `Track`, `Send` or
`SendTimeout`, `Untrack`. The router task is `Receive`, `Take` (which ends the
event's claim on its slot and learns whether it was cancelled), `Begin`, `Enter`, the
walk (`TryRule`, the actions, `ActionsDone`, `RulesDone`), `Finish`, `Fallback`. The
walk alone holds the mutex from step to step. An action is one of five kinds: a call
that does not come back to the router, a script, an emit, a drop, a call that
replaces the rules; each can fail, and `open` is its `fail_open`. Events are model
values; which rules match is part of the rules; ids are a function of events so
that two events can share one, and `Distinct` are the events that do not. `gen` counts reloads, each of which frees the array
of rules before. `EventBus` is what publishers may rely on.

### CapRegistry
A slot stands for a group with its descriptors, whose states change together and
whose counts of calls are added up. A manager's operation has one action per stretch
under the mutex and one per run of a group's hooks. `live` is what the hooks last
did.

### LuaJobs
`jobs` is the table, `sem` the semaphores, `call` the locals of each caller, `task`
each job's task. `Check` and `Commit` are the two looks of a submission with the
lock released in between, `Spawn`/`Unspawn`/`Mark` what follows; `Finish` and
`Signal` the end of a job; `RequestStop`, `Peek`, `Woken`, `Expire`, `Verify` the wait
that replacement, stop and run_and_wait share; `Locate`, `Collect`, `Clear`,
`Release` the rest of run_and_wait.

### RuleStore
`file` and `tmp` are the two files, as the rules they hold, `Missing` or `Torn`;
`editor` is where each task is in a change. `AddRule`, `UpdateRule`, `DeleteRule` and
`ReloadRules` read the file; `OpenTmp`, `FillTmp`, `RemoveFile`, `RenameTmp`,
`SwapRules` are the calls of the file system and the last step, under the router's
lock; `WriteFails` and `RenameFails` the ways out; `ResetRules` and `BootRules` a
reset and the reading of the file after it. Nothing in the code keeps two changes
apart, nor does the module: what two tasks do to one open file is left undefined.
`clean` records that changes did not overlap, no rename failed and no reset came
between a remove and its rename.

### Scheduler
An operation changes `entries` and leaves in `writes` what it has still to store;
`SaveItems`, `SaveState` and their failing forms are those stores, all under the
module's mutex. `defs` is the file, rewritten in place and so torn by a reset in the
middle or by a write that fails (`MayTear`), also unnoticed, because the result of
`fclose` is not looked at (`SaveItemsCutShort`). `state` is the NVS blob, replaced as a
whole: a save of it that fails leaves the old blob, none, when the new one did not read
back and was erased, or the new one, when its commit, or the read and the erasure after
it, failed (`SaveStateFails`). `FireDue` is a tick of the task. `Load` reads both stores,
on `Boot` and on `Reload`: a file that cannot be read or parsed ends init and leaves a
reload without effect; a blob that cannot be read or parsed is taken for none, the
entries begin anew from their definitions (`Fresh`), and the save at the end of the load
makes it so. `SetClock` is the SNTP service, followed by `HandleTimeSync`; `Reset` loses
the clock or keeps it. `lost` records that a save of the blob failed or was cut off,
`astray` that an entry was triggered by hand while the clock was behind the time, `held`
the pauses that were confirmed and have been neither taken back nor forgotten by a load
or an erasure of the blob. The conditions under which an entry is `Ready` or `Missed`,
and `NextFire`, are the code's.

One thing is coarser than the code: add, update, enable and resume read the clock just
before they take the mutex (`cap_scheduler.c:869`, `915`, `997`, `1056`), and the model
with it. A plan made from the older reading can be due when it is made; where a tick of
the task had the mutex meanwhile and fired the entry, it is a plan for what has just
been fired. The next tick comes a full `tick_ms` after that one has published and saved,
and passes over an entry that is more than `tick_ms` late (line 542), so that it counts
such a plan as missed. `OnceFiresOnce` rests on that margin here, and not on the model.

### TelegramLink
`poll` is the poll task with its request and answer, `offset` and `seen` what it
remembers, `jobs` and `savers` the queue of attachments and the tasks that empty it.
`kept` is the server's: the updates it has not been told to forget. `Start`,
`StartPoll`, `UndoStart`, `Stop`, `StopTimesOut`, `Stopped` are the gateway's, one at a
time; `SetToken` comes at any moment.

### HttpReuse
`pool` and `leases` are the two lists. An init is `InitDirect`, or `InitTake` and
`InitReset`, or `InitNew` and `InitTrack`; a request `Perform`, `Send`, and `Retry` with
`Resend` when a connection from the pool fails; `Cleanup`, `Insert` and `FreeClient` are
the wrapped cleanup, `Reap` the timer's. Each takes the mutex once.

### ThreadSync
`objects` is the registry, `cell` the memory an object lives in, which may be used
again when it is freed. An operation is `Begin` (look up, count as a waiter), one
use of the FreeRTOS object, and `Release`; locking has `Own` in between, unlocking
`Disown` before. `holder` records who has the mutex that a lock is made of, so that
the property can compare it with the owner the code writes down.

### DisplayArbiter
`step` is where each script is. `InitAcquires` and `InitCreates` are `display.init`,
`Deinit` and `GiveBack` are `display.deinit`; `ScriptEnds`, `Destroy`, `GiveBack` are the
clean-up that cap_lua runs when a script ends. A drawing is two steps, the look at
the owner under the HAL's lock (`Presents`) and the drawing (`Drawn`); emote's flush is
two steps under no lock at all. `Tell` is the callback, after the arbiter's lock.

### WifiManager
One action is what a task does up to and with a call of the Wi-Fi stack. `events` is
the queue of the event loop, `handler` the call that a handler has still to make,
`console` how far the console is with applying a configuration. The stack's steps
(`LinkComesUp`, `LinkFails`, `LinkIsLost`) and the retry timer wait until the events of
the station are handled: an attempt or a delay takes a second, a handler does not.

## 3. Runs

Bounds are named CONSTANTS. They are chosen as the least with which every action
fires and every queue, table and slot can be full while somebody wants it.

| run | instance | shows |
|---|---|---|
| `core_safety` | 3 requests, 2 of them interrupts, 2 sessions, queues of 1, 2 tool rounds, 1 cancel, a stop; 848 000 states | types; an interrupt's abort never outlives it (`AbortHasWork`); the in-flight fields match the loop; cancels stick; records are closed; observers see what is answered; requests are in one place; the core implements `AgentService` |
| `core_liveness` | 2 requests of a session, 1 an interrupt; 109 000 states | requests in flight end, interrupts are settled, a stop succeeds unless nobody reads the responses |
| `router` | 2 publishing tasks, the router's own emit and a script's publish, 5 events of which 2 share an id, a queue of 1, a table of 2, cancels, purges, a reload; rules that emit, drop and call, or a rule that runs a script, emits and reloads; 165 000 states | slots follow events, confirmed cancellations hold, the router implements `EventBus`; publications return and accepted events are settled, in spite of both circles of waits |
| `lua` | 3 submissions, 2 of one name, of which 1 replaces and 1 waits, a stopper, 2 slots, scripts that need not end; 276 000 states | the count is exact, names have one holder, slots, stop flags and results belong to their job, slots come back, every call returns |
| `shared` | 3 answers, 2 receivers, a response queue of 2; 2 groups, 2 slots, 1 manager, 2 callers; 2 tasks, 4 HTTP clients, 2 endpoints, a pool of 2; 3 jobs, 2 names, 2 addresses; 3 scripts and emote; 2 retries, 3 queued Wi-Fi events; 175 000 states | answers are not overlooked and come in order, receives return; no unload under a call, started groups are up and not started twice; clients have one owner; objects in use are registered, owners hold their locks; the display comes back (`EmoteComesBack`); the device stays reachable (`SettlesReachable`) |
| `restarts` | 1 entry of three kinds over 3 ticks, 1 fault; 2 editors, 2 rules, resets anywhere; 2 bots with 2 updates each, a cache and a queue of 1, 1 reset; 4 900 000 states | a once entry fires once, a pause lasts unless its blob cannot be read or is erased, what was stored is loaded unless its file was cut short; rules are kept; forgotten updates were handled, none is published twice, the queue outlives its task |
| `core_interrupt_lost` | violation | see findings |
| `core_observers` | violation | see findings |
| `router_self_reload` | violation | see findings |
| `lua_stale_signal` | violation | see findings |
| `scheduler_resume` | violation | see findings |
| `scheduler_torn` | 2 entries; violation | see findings |

Two or three requests suffice for the core because one is served at a time: a second
client's request is needed for interrupts, cancels that come late and full queues, a
third for a second session. A queue of one is full whenever it is not empty, so that
every wait for room happens; a queue of two is used where order within the queue is
the question. Two slots suffice for jobs and groups because the properties relate a
slot to its own job, or two slots to each other. A pool of two with four clients is
full while a third is returned and a fourth is in use; two endpoints make an eviction
hit the other's connection. Three scripts are a script with the display, one that
takes it over, and one that ends without having used it. One entry suffices for the
properties of the scheduler that hold, because entries meet only in the two stores,
which are written whole: what the change of one can do to another is to tear the file,
and that is in a load of its own too. What the torn file does to an entry that nobody
was changing is the question of `scheduler_torn`, which has two. One
fault suffices because each property is about what a single failed write, failed read or
reset leaves, and three ticks see an entry due, late and due again; the proofs have any
number. Two updates of which one carries a
file fill a cache and a queue of one, and a second bot is needed for the change of
token. The router's queue and table are
the same length in the product (6); the instance has a table one larger than its
queue so that eviction needs a third event in flight and cancellation also happens
without it. Two of the instances bound what goes on at a time, to stay small: in `lua`
the third submitter and the stopper are not in a call together (`OneOfTwo`), and in
`router` the rule with the script does without the event that shares its id
(`OneKindOfRules`). Both bounds are on steps that nobody has to take, so that what
fairness asks for is never cut off.

`CHECK_DEADLOCK FALSE` stands where the instance ends: a request, event or job is
submitted once, so that when all are settled nothing is left to do; in `restarts` the
clock stops at `MaxTime` and the updates at `MaxId`. In `shared` TLC does look for
deadlocks.

### Fairness and why the code justifies it
* `ClawCore!FairSpec`: the agent task is scheduled, and its calls return: the HTTP
  client and the tools have timeouts. `claw_core_stop`, once begun, takes its steps.
  No client has to submit, cancel or read responses; `StopEnds` says what follows
  from that.
* `MCShared!SharedSpec` takes the fairness of `ResponseQueue` only: a receiver that holds `response_lock` goes on, its
  timeout passes. Strong fairness for taking the lock: the FreeRTOS mutex is handed
  to a waiting task when it is given. The property is claimed for receivers all of
  which have timeouts; one that passes `UINT32_MAX` can keep the others out forever.
* `MCEventRouter!MCSpec`, as `EventRouter!FairSpec`: the router task and a publisher that has begun go on; their
  waits have timeouts. Scripts need not end, nobody has to publish.
* `MCLuaJobs!MCSpec`, as `LuaJobs!FairSpec`: callers go on, waits expire. Scripts need not end.

## 4. Findings

Where a document or a comment says something the code does not do:

1. `core_interrupt_lost`: a user interrupt accepted with ESP_OK is freed, neither
   started nor merged nor answered, when the request in flight ends before draining
   it (`claw_core_agent_loop.c:457`; `claw-core.mdx:35`).
2. `router_self_reload`: an action that reloads, adds, updates or deletes rules frees
   the array its own walk points into, because the mutex is recursive
   (`claw_event_router.c:2432`). The model goes on with what the memory held, which
   is one of the outcomes a read of freed memory has, and checks `RuleInUseIsLive`.
3. `lua_stale_signal`: the semaphore of a slot is given after the lock is released
   and can wake the waiter of the slot's next job, which is then reported timed out
   and stopped (`cap_lua_async.c:387`).
4. `scheduler_resume`: resuming a paused entry leaves it paused and answers
   "scheduled", because the entry is refreshed while its status is still paused
   (`cap_scheduler.c:354`, `1066`; `cap-scheduler.mdx:50`).
5. `core_observers`: completion observers are called only for requests that end with the
   model's text (`claw_core_agent_loop.c:419`), not "after each request"
   (`claw-core.mdx:115`): one that fails, is cancelled or reaches the limit of tool
   rounds is answered and they are not told. `ObserversSeeAnswers` states what the code
   does instead.
6. `scheduler_torn`: the file of definitions is rewritten in place, on every change and
   on every load (`cap_scheduler_store.c:361`). A reset in the middle leaves a file that
   does not parse; `init` then fails (`cap_scheduler.c:800`), which ends the
   application's start, and every entry that was confirmed is lost, against "without
   losing or repeating tasks" (`cap-scheduler.mdx:34`). In the run it is an entry that
   nobody was changing. A write that `fclose` fails to finish does the same without a
   reset. `StoredIsLoaded` states what does hold.

Seen while modelling, and described here only:

* `purge_queue` counts an event as cancelled that can still lose its slot, and with
  it the mark, to an event that has not entered the queue yet
  (`claw_event_router.c:308`); and a table as long as the queue does not cover it,
  against the static assertion at line 48, because events are tracked before they
  are queued. `RevocationHolds` and `TrackedOrEvicted` except evicted events.
* Ids are milliseconds: tracking a second event of the same id clears the
  cancellation of the first, which is then processed, and taking either of the two
  ends the tracking of both (`claw_event_router.c:333`, against
  `dataflow-and-automation.mdx:183`). `RevocationHolds` and `TrackedOrEvicted` are
  about the events whose id no other has (`Distinct`); the run has two that share
  one, which the others must not suffer from.
* The acknowledgement "matched:..." is written only if the one built so far is empty,
  which "processing" never is (`claw_event_router.c:2115`, against
  `dataflow-and-automation.mdx:309`).
* The wait of `stop_job` asks about the slot, not the job: a stop can be reported as
  not effective because the slot has another job by then (`cap_lua_async.c:519`).
* With two managers, a disable between the hooks of an enable and its last step
  leaves a stopped group listed as started (`claw_cap.c:1527`). Only the console
  manages groups in the product, so the instance has one manager, and the theorems
  say so by their hypothesis `OneManager`.
* Rules: two changes that overlap lose one of them, or, through the one name of the
  second file, leave a file that does not parse (`claw_event_router.c:1070`, `2665`); a
  failed rename removes the only good copy (line 1092); a reset between remove and
  rename leaves no rules, and the second file is not looked at (line 1086).
* A start hook that fails in the middle of an enable leaves the hooks before it run; the
  next enable runs them again (`claw_cap.c:1518`). `StartedIsUp` says that the group is
  not listed as started; `NeverStartedTwice` is about groups that are wholly up.
* Scheduler: a runtime state that is there and cannot be read, for an error of NVS, for
  want of memory, or because it does not parse, is taken for none
  (`cap_scheduler.c:331`): the log says that the state is rebuilt, entries that were
  paused are scheduled, counts of runs begin at 0, and the load then saves that over
  the blob (line 641). So a reload in a moment without memory forgets every pause. A save that
  does not read back erases the blob (`cap_scheduler_store.c:463`), which forgets the
  pauses at the next load. `PausedStaysQuiet` excepts both, by `held`.
* Scheduler: `trigger_now` runs
  an entry that is paused, disabled or beyond `max_runs`, and takes the pause back; an
  entry of kind once fires again when the save of the fact was lost.
  It also fires again after this: it fired; a reset loses the clock; it is triggered
  by hand before the clock is set, so that its last time lies before its start
  (`cap_scheduler.c:1094`); the clock is set, a reload plans its start again, which has
  passed, and a pause stores that plan; a reset loses the clock once more, so that the
  start lies ahead; and a trigger that the router refuses takes the pause back and
  keeps the plan. It takes two resets and two triggers, more than the bounds of the
  run, and was found when `OnceFiresOnce` had no inductive invariant without `astray`;
  `astray` excepts it.
* Telegram: a start that follows a stop which timed out answers ESP_OK and leaves two
  attachment tasks on one handle (`cap_im_tg.c:1223`); a token set during a poll has
  its offset moved by the answer to the old bot (line 629), so that the server forgets
  messages nobody handled; a text the router refuses is not asked for again.
* thread.sync: a job that ends with a lock keeps it for good, unless its task handle
  comes back and a later job unlocks it by accident (`thread_sync.c:630`).
* http_reuse: a client from the pool still has the headers of its last lease.
* Display: `lua_display_exit_cleanup` asks whether Lua owns the display, not whether
  this script does (`lua_module_display.c:159`). So the end of any script, of one that
  only blinks a light, destroys the HAL under the script that has the display and
  gives the display to emote, against "the display arbiter automatically grants Lua
  foreground ownership for the lifetime of the display session"
  (`lua_module_display/README.md:30`). A frame whose owner check came before is then
  drawn over emote's picture and stays (`display_hal.c:764`); `EmoteComesBack` excepts
  it by `overdrawn`. A script that initialises the display twice and ends leaves a
  depth of 1, and the display to Lua; so does a HAL that cannot be destroyed because
  a flush never ends.
* Wi-Fi: a `got_ip` event that is handled after a configuration without a station was
  applied, or after the fallback, closes the access point if the settings say so
  (`wifi_manager.c:390`): the device then has neither. It takes an event and the
  console, or a late attempt, within the same moment; `SettlesReachable` is about
  configurations applied with no event of the station pending (`crossed`).
* Wi-Fi: the retries take 1+2+4+8+16 s, longer than the 30 s `main.c` waits, so that the
  answer for exhausted retries is never seen at boot; the bit for "connected" is not
  cleared when the connection is lost (`wifi_manager.c:325`).

## 5. Proofs

TLAPS proves that every safety invariant, every action property and both refinements
of the passing runs hold for all values of the constants, under the assumptions the
modules name. Each follows from an inductive invariant that its module of proofs
defines and shows to hold initially and after every step.

| theorems of | prove | from |
|---|---|---|
| `ClawCore_proofs` | `TypeCorrect`, `InflightCorrect`, `AbortsHaveWork`, `CancelsStick`, `TurnsAreClosed`, `ObserversAreTold`, `OnePlaceEach`, `PromiseKept`, `WakeNeverServed`: `TypeOK`, `InflightMatchesWorker`, `AbortHasWork`, `CancelSticks`, `AnsweredTurnsAreClosed`, `ObserversSeeAnswers`, `OnePlace`, `ImplementsPromise`, `WakeIsNeverServed` | `WellFormed`, `Locked`, `Joined`, `AnswerInv`, `Placed`, `Core` |
| `ResponseQueue_proofs` | `QueueTypeCorrect`, `AnswersAreSeen`, `AnswersKeepTheirOrder`: `TypeOK`, `NotOverlooked`, `OldestFirst` | `Seen`, `OrderInv` |
| `EventRouter_proofs` | `RouterTypeCorrect`, `EventsStayTracked`, `RevokedNeverRuns`, `BusImplemented`: `TypeOK`, `TrackedOrEvicted`, `RevocationHolds`, `ImplementsBus` | `RouterInv`, `WalkTypes` |
| `LuaJobs_proofs` | `LuaTypeCorrect`, `RunningIsCounted`, `KeysHaveOneHolder`, `TasksOwnTheirSlots`, `ResultsAreKept`, `SlotsAreGivenBack`: `TypeOK`, `RunningIsExact`, `OneHolderPerKey`, `RunningOwnsSlot`, `ResultIsKept`, `SlotsComeBack` | `LuaInv` |
| `CapRegistry_proofs` | `CapTypeCorrect`, `UnloadsWait`, `StartedAreUp`, `NeverTwice`: `CapTypeOK`, `UnloadWaits`, `StartedIsUp`, `NeverStartedTwice`, each for one manager | `CapInv` |
| `HttpReuse_proofs` | `HttpTypeCorrect`, `ClientsHaveOneOwner`: `HttpTypeOK`, `ClientHasOneOwner` | `HttpInv` |
| `ThreadSync_proofs` | `SyncTypeCorrect`, `UsedStaysRegistered`, `OwnersHoldTheMutex`: `SyncTypeOK`, `UsedIsRegistered`, `OwnerHoldsTheMutex` | `SyncInv` |
| `Device_proofs`: rules | `RuleTypeCorrect`, `RulesStayKept`: `RuleTypeOK`, `RulesAreKept` | `RuleInv` |
| display | `DisplayTypeCorrect`, `EmoteAlwaysComesBack`: `DisplayTypeOK`, `EmoteComesBack` | `DisplayInv` |
| Telegram | `LinkTypeCorrect`, `NothingIsLost`, `NothingComesTwice`, `QueueIsThere`: `LinkTypeOK`, `ForgottenWasHandled`, `PublishedOnce`, `QueueOutlivesItsTask` | `LinkInv` |
| scheduler | `SchedTypeCorrect`, `OnceIsOnce`, `StoredComesBack`, `HeldIsNotFired`: `SchedTypeOK`, `OnceFiresOnce`, `StoredIsLoaded`, `PausedStaysQuiet` | `SchedInv` |
| Wi-Fi | `WifiTypeCorrect`, `DeviceStaysReachable`: `WifiTypeOK`, `SettlesReachable` | `WifiInv` |

### What is assumed
Constants are sets of any size, and the values that stand for "none" are not members
of the sets they are added to. Lengths of queues, tables and pools are any positive
numbers, with the orders the code asserts (`QueueLen <= Slots`,
`MaxConcurrent <= MaxJobs`). What is counted is finite: the jobs, callers and slots, the
keys of a job, the scripts; tasks and tables are. `OneManager` is a hypothesis of the
theorems about `CapRegistry` and not an assumption of the module: the code does not
keep two managers apart, and section 4 says what two would do. The properties carry
their own exceptions, each of which is a finding of section 4: ids that two events
share (`Distinct`) and evicted events, overlapping changes of the rules (`clean`), a
token set during a poll (`mixed`), a start after a stop that timed out (`late`), lost
saves and triggers on a lost clock (`lost`, `astray`), a blob that cannot be read or is
erased (`held`), a file that was cut short (`torn`), a frame drawn late
(`overdrawn`), a configuration applied while an event is pending (`crossed`).

### The arguments
**The core.** `TypeOK` is not inductive: that the item served is a
request needs `WakeIsNeverServed`, that the round counter stays in its range needs
`RoundsLeft` (where the loop may still start a round it has one left), and that the
wake item is queued only under the stop flag needs `OwnerOrder` (the order of the
stop's steps). Their conjunction `WellFormed` is inductive. With it,
`InflightMatchesWorker /\ AbortHasWork` is: an abort for an interrupt is only raised
where the insert queue has just become non-empty, and every step that empties the
queue goes through `ClearAbort` or `Release`, which take the abort back. `CancelSticks`
is an action property and follows from that invariant step by step. The inserts that
wait belong to the session in flight (`InsertsJoin`), which is what makes a drain come
back with one. Whether a turn is closed and who is told of the answer are followed
through the places of the loop (`TurnInv`, `ObserverInv`): no result and no note before
the model's text, both after it. `OnePlace` needs that the worker has dequeued texts in
its hands only between the drain and the append (`HandsFull`), so that a drain
overwrites none. The refinement then goes step by step: what clients see changes only
where `AgentService` has a step for it, and an answer leaves no insert behind because
`Release` has freed them.

**The response queue.** `NotOverlooked` needs that a holder of the
lock is in a call (`HolderCalls`), so that nobody changes what it wants; then the
only step that lengthens the list under it is its own `Stash`, of an answer it does
not want. The order is that of the list, that of the queue, and that everything in the
list is older than everything in the queue; a push gets a stamp later than all.

**The router.** An event is with its publisher, in the queue once, or with the router,
as its fate says (`Published`, `Waiting`, `Received`); a slot of the table is that of an
event that has been tracked, and its mark says exactly that the event was revoked
(`Marks`). An event with an id of its own leaves the table only where it leaves flight,
or by eviction. The step from `Take` on is decided by the mark, which gives both
`RevocationHolds` and the refinement of `EventBus`.

**Lua jobs.** A job is `Unclaimed` until its submitter has a slot for it, and from then
on no other slot holds it (`Homes`); who is at work for it (`Spawns`, `Runs`, `Tasks`,
`Waiters`) keeps the slot from being given away. So `running`, which is changed in
`Commit`, `Unspawn` and `Finish` under the lock, is the number of active slots, and the
second look of `Commit` finds every job that holds a key.

**Registry, connections, objects.** `UnloadWaits` and `UsedIsRegistered` are looks at a
counter, and hold because the counter is exact: it is the cardinality of the set of the
calls, or operations, that are under way (`CallsCounted`, `Counted`), and each of these
holds its slot or object (`CallsHeld`, `Used`). That hooks alternate needs where the
manager is, and that a group that is up has a slot (`UpIsListed`). That a client has one
owner needs where each task is (`Handed`), and that a client on its way to the pool or
to its end is not in the pool already (`Detached`).

**Rules and display.** While one change is at work, each of its stages says which of the
two files is whole (`InPlace`). Lua's depth is at most the number of scripts that have
taken the display and will give it back (`Counted`), so that with no script left it is
zero, the owner is emote, and some step is due that repaints (`Repaints`).

**Telegram.** The offset lies behind nothing that was not handled, a poll under way asks
from it, and its answer leaves out nothing but what was handled (`Followed`); what was
published lies before the offset (`OncePublished`). So neither the cache of what was
seen nor its size matters to either property while the offset is not lost.

**Scheduler.** What is told is in the table and the file but for one entry, whose change
is being stored or undone (`ToldStored`), or the file was cut short, and then only the
table has it; a pause that was confirmed, and that no load or erasure has forgotten, is
in the blob, or the entry is gone, and what undoes a change to a paused entry is paused
as well (`HeldPaused`), so that it does not matter which blob a failed save leaves. A once entry is planned for its start or not at all
(`Plans`), and when it has fired it is planned nowhere, and its last time does not lie
before its start (`Over`), so that no load plans it again. The last is what a trigger on
a lost clock breaks.

**Wi-Fi.** The queue holds one event of the link at a time and says what the module does
not know yet (`OneAtATime`, `Told`); the stack has a station where one is configured
(`Agrees`), `connected` is right when no event says otherwise (`Connection`), and what is
not as configured has a timer, an event, a handler or the console that will see to it
(`Tended`). When nothing is outstanding, nothing can be left to see to.

### How they were found
Each invariant was first checked by TLC, as an invariant from the initial states and,
where the state space allows it, as an inductive one from all states of bounded queues
that satisfy it (`WifiInv`: 785 704 of them). Three definitions of the models were
changed because nothing could be proved about a `CHOOSE` whose value matters to no
property: the slot of an event, the order of an answer and the first free slot of a
job are now sets of the values the code can pick, which have one member.

### Left to TLC
Liveness, all of it: `InFlightEnds`, `InsertsSettle`, `StopEnds`, `EventsSettle`,
`PublishReturns`, `CallsReturn`, `ReceivesReturn`. TLAPS cannot reason about fairness,
which is defined by ENABLED. The six findings with a run are counterexamples and have
no theorems. The proofs are about the models, and TLC's runs are what ties an
invariant to interesting behaviour.

## 6. Not modelled, and why

* Data: the content of messages, prompts, JSON, HTTP, rendering, the matching of rule
  fields. Outcomes only.
* Growth of tables by `realloc` (`claw_cap.c:883`), the listing snapshots, the ring of
  job logs, truncation of session ids of 128 characters and more.
* Lost bounded waits for locks that are held for short regions, except where the code
  gives a different result (`TryInsert`, `StopCancel`). In `cap_lua_async.c:354` a
  job that does not get the lock within a second would end without its outcome.
* A start of the core after a stop: `stop_requested` stays set and the new task ends
  at once; the product starts each core once.
* Start and stop of the router and stop of the scheduler; the product never does it.
* Cron expressions and `end_at` of the scheduler: the next time of a cron entry is a
  function of the clock, as that of an entry with a start is.
* What Telegram is sent, and the other platforms: web sockets, a login, a vendor's
  protocol. One thing seen there: WeChat's login accepts a late "confirmed" after it
  was cancelled.
* What queues of thread.sync carry; LVGL, whose flush does not look at the owner of the
  display; frames (`begin_frame`, `end_frame`) and emote's partial updates.
* The wait for a connection at boot and the state callback of the Wi-Fi manager; a
  change of mode that the stack refuses.
* MCP, web search, files, system: one request, one answer. Sessions, memories and
  skills: files and JSON, of which the session manager is next in the plan. The
  Arduino examples, vendored drivers, fonts and pictures.

## 7. Plan

Done: the agent core with its responses, the event router with its file of rules, the
capability registry, the Lua jobs and their thread.sync, the scheduler, the Telegram
gateway, the HTTP connections, the display and the Wi-Fi manager; theorems about every
safety property of theirs. Next, in this order:

1. Theorems for what the properties except: what still holds of a router whose events
   share ids, and of a registry with two managers that start and stop different groups.
2. A refinement each for the Lua jobs and the capability registry, of a service that
   says what submitters and callers may rely on, as `AgentService` does for the core.
3. `SessionManager` (`claw_manager`: sessions and what is persisted of them) and the
   login of WeChat.
