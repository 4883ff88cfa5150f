# Verification of weft-warp-burrito

TLA+ models of the stateful parts of weft-warp-burrito, TLC runs over small
instances of them, and TLAPS proofs of their main invariants for every instance.
Paths below are relative to the repository root.

## The system and its parts

Four programs share this repository.

1. **The sandbox.** `WeftWarpBurrito.Sandbox` (`lib/weft_warp_burrito/`) is a
   GenServer that owns one libriscv machine through a dirty NIF
   (`c_src/nif/weft_sandbox_nif.cpp`). The machine runs the s7 Scheme guest
   (`c_src/guest/weft_guest.c`) with its content programs: combat, loot and
   progression. Callers make metered calls of fixed capabilities.
2. **The fanout server** (`flow/examples/picoquic_fanout_server.actor.cpp`): one
   Flow reactor thread that moves datagrams between a UDP socket and picoquic,
   and a stream callback that turns SUB, PUB, SKB and ZPB streams into calls of
   two Lean cores (`fanout_core_ffi`, `sketch_core_ffi`). A load client drives it,
   alone, as many players on one socket, or as a ramp of worker processes. Both run
   on Flow (`flow/flow`), whose run loop, task queue and locks schedule them.
3. **The planner** (`taskweft_nif/standalone/*.hpp`): an HTN planner with a
   solution tree, replanning, a temporal network, a ReBAC engine and several
   helpers, called from Elixir through `taskweft_nif/c_src/taskweft_nif.cpp`.
4. **The planner's front ends** (`taskweft/lib`): MCP server, command line,
   JSON-LD loader, duration parser, hosted endpoint.

| Part | Module | Status |
|---|---|---|
| Combat, progression content | `Combat`, `Progression` | modelled, proved |
| Loot content | `Loot` | modelled |
| Guest entry points | `Content` | partly: marshalling left out |
| Sandbox actor and NIF | `Sandbox`, `CapabilityService` | modelled, proved |
| Fanout stream bridge | `Fanout` | modelled, proved |
| Fanout socket loop and supervisor | `FanoutLoop` | modelled |
| Load client, its coordinator | `LoadClient`, `Ramp` | modelled |
| Flow thread-safe queue | `ThreadSafeQueue`, `TaskChannel` | modelled, proved |
| Flow run loop | `Net2` | partly: sockets, DNS, metrics left out; proved |
| Flow locks | `FlowLock`, `BoundedFlowLock`, `PriorityMultiLock` | the three modelled in full |
| Core FFI shims (`fanout_core_ffi`, `sketch_core_ffi`) | `Fanout` | partly: as the bridge uses them |
| HTN search `tw_plan` | `Planner` | modelled, proved |
| Witness oracle; states and domains | `Planner` | partly: as the search uses them |
| Tree search and solution tree | `SolTree` | modelled |
| Simulation, both replans, Monte Carlo executor | `Replan` | modelled |
| NIF parse caches | `NifCaches` | modelled, proved |
| ReBAC engine | `Rebac` | partly: two flat listings and JSON left out |
| Durations, in C++ and Elixir | `Iso8601` | modelled |
| Timed plans, civil calendar | `Temporal` | partly: times are exact, not double |
| Loader, JSON, values, explanation | | formats and representation, no state |
| Bridge, HRR, retriever | | floating point, out of TLC's reach |
| MCP server, command line, hosted endpoint | | one call of the NIF, or library code |
| The rest of Flow, other vendored code, Lean proofs | | see "Not modelled" |

`PROJECT.json` lists every part with its sources, every hazard with its line, and
the lines each definition models.

## Modules and the code

**Combat, Progression, Loot, Content.** The first two have one variable for each
field of the record that a content reducer folds over, and one action for each
event: `Tick`, `Spawn` and `Attack` (`Opener`, `FollowUp` or `Whiff`) for
`combat-step`; `Grant`, `Sell`, `BuyArt` and `Train` for `progression-step`.
A refused progression event leaves the record as it is and is a stuttering step.
`emitted`, `lastSwing`, `dealt`, `granted`, `sold`, `earned` and `spent` are
history variables that sum up the event log. `Loot` models 32-bit words as sets
of bits and evaluates the guest's golden roll as an assumption. `Content` puts
the three behind one capability call. The guest itself replays fixed logs; the
model explores every log within the bounds, which is what the reducers are for.

**Sandbox** has the actor's mailbox, the job inside the NIF with its remaining
fuel, and the callers. Guest execution is a countdown of instructions. A call ends
by completing, by running out of fuel, or, once the guest is worn, by a trap.
`worn` says that some call was stopped half way through an evaluation: what the
interpreter's heap holds then is left open, and so are later answers. The actor
is linked to the process that ran `start_link`, so `StarterDies` may kill it,
but not before a running NIF returns. **CapabilityService** is the abstract
specification: a call is answered by what its budget earns, or its caller gives up.

**Fanout** has one step for each callback of picoquic. Bytes are abstracted to
the units the parser acts on (header line, payload, sketch frame). A connection
is an address, which may be used again after the connection closes, as the
allocator does. The Lean cores are external: rooms with their members, zone
entities, and accepted frames. Which entities are near one another is left open.
Three constants say how clients behave: `Mixed` (several verbs on a stream),
`MultiSub` (several receiving streams on a connection) and `Malformed`. In
`MCFanout` a variable, `orderly`, picks clients that send neither malformed input
nor open a second receiving stream; some claims are about those only.

**FanoutLoop** has the loop's position, the state of the one outstanding read,
and counters for datagrams. It yields at each `wait`, and the network moves
between. A read that is replaced while it is pending is counted as `abandoned`.

**LoadClient** is `runOnePlayer` and `runManyPlayers` with the callback they
share, from one `wait` to the next; **Ramp** is `runCoordinator` and `runRound`,
where worker processes are only counted: running, exited with 0, exited otherwise.
Spawns fail, workers hang and are killed at the deadline. `autoReap` is a
coordinator that inherited an ignored SIGCHLD, for which `waitpid` fails once a
worker has exited. `zeros` and `rounds` are history: what workers really did.

**ThreadSafeQueue** has one action for each access to shared memory that
`pushNode`, `popNode` and `canSleep` make. `chain`, the nodes in the order of the
exchanges of `head`, is history, as are the tickets. **TaskChannel** is what the
queue promises: a plain channel. **Net2** puts the queue under `Net2::run`: threads
in `onMainThread`, the ready and timer queues, `check_yield`, the sleep in the
reactor and the completions that end it, and `stopImmediately`.

**FlowLock, BoundedFlowLock, PriorityMultiLock.** One action for each call and
each resumption: takes cancelled while queued and after they were granted, kill,
halt, and calls made from inside a grant (the runner of `PriorityMultiLock` resumes
a waiter before it counts its slot). **FlowLocks** puts them side by side and states
what is claimed of all of them.

**Planner** turns the recursion of `tw_seek_plan` into a stack of frames. The
fast path, witness oracle, plausibility probe, method scores, duplicate test,
both memo caches, fuel and time budget are all there. Memo keys are the pairs
themselves, so collisions of 64-bit hashes are left out. A success-cache hit
has no action, because there is none: see `SuccessesUnused`. `MCPlanner` adds a
family of small domains and a plain recursive reference search.

**SolTree** is the tree-building search as a recursive function over an explicit
memory (tree, plan order, fail cache), which is rolled back where the code restores
a checkpoint. **Replan** composes it with `Planner`: a request is planned with a
tree, or comes with a plan of the caller's; the plan is executed or drawn by the
Monte Carlo executor, and recovered after any step with `tw_replan` (which runs
`Planner` step by step) or `tw_replan_incremental`.

**NifCaches** has scheduler threads that look documents up under a mutex, parse
outside it and store under it again. Domains are copied out, graphs are used by
reference. Objects are numbered, so that sharing and dangling can be seen.

**Rebac, Iso8601, Temporal, Nif.** Queries are operators, asked in every graph that
`AddEdge` can build. A duration is a sequence of tokens, typed one at a time; both
parsers fold over it. `Place` adds one action to a timed plan: its printed start
and end, the cursor on the calendar, and two points of the temporal network.
`Nif` offers these next to the caches.

## Runs

Six runs pass. Several put components that do not interact side by side: a
variable that never changes (`part`, `service`, `capability`, `actor`, `lock`)
says which of them a behaviour is about.

| Run | What it asks | Bounds |
|---|---|---|
| `sandbox` | Implements `CapabilityService`; every call ends. The guest's content: combat rhythm and damage, the record against the event log, fair rolls | 2 callers with 2 calls each, so that a late reply meets a new call; budgets below, at and above a cost. 44 ticks (past invulnerability at 30 and a combo at gaps 6 to 18); 2 items granted twice, 3 arts, affinity past the last gate; tables of 3 entries |
| `fanout` | No delivery entry to a closed stream, no ghost member; for orderly clients PUBs arrive, sketches converge and frames stay in their topic | 2 connections, 3 streams, 2 topics, 1 frame, 2 rooms |
| `actors` | Socket loop: every datagram taken once. Load client: the exit code means what it says, the process ends. Ramp: it reports what was sustained, ends, and leaves no process. Locks: accounts, limits, nothing idle, takers served | 3 datagrams, 2 errors, bursts of 2; 2 players with 2 ticks; ramps from 5 to 10 players and from 0 on 1 shard, and of 6 on 1 or 2 shards, with SIGCHLD ignored or not on 1; 4 clients with 2 permits, one taking up to 3 and one just as many or more than there are, 3 holders and 6 permit numbers, 4 users in 2 priorities with 2 slots |
| `planner` | Plans of both searches execute, derive, and `no_plan` is final; the tree mirrors the plan; executions report what they did; recoveries are exact; the search ends | `tw_plan`: 216 domains, 15 task lists, 2 states. Requests with recovery: 36 domains, 6 task lists, failing at every step; 3 given plans. 2 bindings, depth 6 |
| `native` | Caches invisible to planners, graphs kept for their readers until a clear; relation queries against reachability; parsers, grammar and formatter; schedules and calendar | 3 threads with 2 calls each; graphs of 3 entities, 6 relations (2 of them domain-specific) and 3 edges, fuel to 4; durations of 4 tokens; plans of 3 actions from 4 reference dates |
| `net2` | No use after free, no lost wake-up, order kept, every task run, a stop ends the loop; the list is a channel | 2 threads, 2 handed-over tasks, 1 local task that stops the loop |

Six runs are violated, each by what the code does.

| Run | Violated | What it shows |
|---|---|---|
| `fanout_two_subscriptions` | `SubscriberReached` | `handleSub` keeps one delivery stream for each connection, so a second SUB stream takes over from the first, against the protocol comment at the top of the server. |
| `fanout_rooms_exhausted` | `FramesStayInTopic` | When the rooms run out, `handleSketchSub` returns with `isSketch` set and `roomId` 0, so the stream's frames go into the room of another topic. |
| `fanout_loop_send_error` | `NeverDies` | A failing `sendTo` throws out of the loop that "must never die from a transient socket error". |
| `planner_oracle` | `OracleSound` | The witness oracle judges later goals in the current state, and refuses `[setx; goal x = 1]` when `x` has no methods although `setx` alone is a plan. |
| `nif_cache_clear` | `OneGraphCopy` | `rebac_cache_clear` destroys graphs that readers on other threads still refer to. What is left of the claim, with clears at any time, is `OneCopyUntilCleared`. |
| `civil_months` | `MonthsTakeDays` | A month added in December leads to January of the same year: the plan takes no time for it, and what follows is timed from there. `CivilExact` leaves out what comes after such a sum. |

The bounds are the smallest at which each hazard's case happens; every property
of a passing run is violated when one definition is replaced by a faulty variant of
it (the operators marked "Faulty" in the modules, listed under `mutants`). Content
is checked with the source's own gaps, windows, costs and health. Symmetry is
used where constants are interchangeable model values and only safety is checked:
two streams of one connection in `fanout`, the threads and the entities in
`native`.

Deadlock is not checked where the system may stop: a replay that reaches its
bound, a search that has ended, callers that have made all their calls, a process
that has exited. It is checked for `fanout`.

### Fairness

- `Sandbox`: the BEAM runs a runnable actor and its dirty NIF, and delivers
  messages and monitor signals. Timeouts are not assumed to fire, so
  `EveryCallEnds` rests on fuel alone.
- `FanoutLoop`: the reactor runs the continuation of a resolved future, a buffered
  datagram completes a pending read, sends complete (well or not), a drain ends.
- `LoadClient`: the actor runs on when it can, and the deadline passes. No datagram
  is assumed to come. In `runManyPlayers` one wait
  (`fanout_load_client.actor.cpp:531`) has no timer beside it, so `ClientEnds`
  leaves out behaviours in which that wait gets nothing for ever; those hang.
- `Ramp`: the coordinator runs, and the time of a round passes. Workers may hang.
- Locks: who holds a lock releases it in the end (strongly fair for
  `PriorityMultiLock`, where a release may be held up by a grant under way), and its
  runner runs. A taker of several permits may starve in `FlowLock`, as may a
  priority whose rounded share the others can fill; `UnitTakersServed` and
  `ShareIsServed` say who cannot.
- `Net2`: the main thread and the threads inside `onMainThread` run, a posted
  completion ends a sleep, timers become due. The timeout of a sleep is not used.
- `Planner`: the thread that searches keeps running. The time budget need never
  fire; fuel ends the search.

### Remarks on the code without a run

- The comment at `picoquic_fanout_server.actor.cpp:372` says that a stream with a
  malformed header is no longer parsed, but its earlier flags stay in force.
- `tw_domain.hpp:56` and `tw_planner.hpp:532` differ on the order in which a goal's
  bindings are tried.
- The comment at `taskweft_nif.cpp:47` says the last write wins, while `emplace`
  keeps the first.
- A fourth digit of a fraction is an error in the Elixir duration parser and dropped
  in the C++ one; `DurationsAgree` leaves it out.
- `tw_replan_incremental` returns the kept prefix and then a plan for all the
  original tasks, so tasks that are not idempotent are done twice. `RecoveryExact`
  says what the second part is.
- For a plan of the caller's, `tw_replan.hpp:88` reports the failed step it was told
  even when an earlier step did not apply; `ExecutionExact` is about the planner's
  own plans.
- A check with too little fuel may say yes under a difference.
- `check_expr` compares the pivot of a `tuple_to_userset` by its type
  (`tw_rebac.hpp:219`), and all domain-specific relations have the type `UNKNOWN`:
  a pivot `LOC` also follows `ON` edges, and the check grants what nobody stated.
  `taskweft/docs/rectgtn.md:142` says that the chain of `pivot_rel` is followed, and the
  comment at `tw_rebac.hpp:237` calls the same mix-up a soundness bug where
  `tw_expand` avoids it. TLC shows it with two edges when `PivotsClear` is dropped
  from `ChecksExact`, which asks for exact answers only where a domain-specific
  pivot is the one such relation in the graph; elsewhere it asks that nothing is
  denied.
- The comments at `tw_rebac.hpp:271` and `taskweft_nif.cpp:344` limit the last edge
  of a path to `HAS_CAPABILITY`, `CONTROLS` and `OWNS`. `_rebac_dfs` accepts any
  edge, because it compares the current node with the target first, and it finds the
  subject itself. `SearchesComplete` therefore asks that every path with such a last
  edge is found, and that nothing else is only where no other edge leads to the
  target and the target is not the subject.
- "each action's Y/Mo duration is measured from the civil date at which that action
  starts" (`tw_temporal.hpp:425`), but weeks, days, times and fractions do not move
  the cursor: from 2024-02-29, `P1D` and then `P1M` take 1 and 29 days, although the
  second starts on 1 March and a month from there has 31. `CivilExact` holds years
  and months against the date of the printed start, and leaves out those that come
  after such a part of an earlier action.
- In `pollChild` a `waitpid` that fails leaves the status 0
  (`fanout_load_client_main.actor.cpp:269`), so with SIGCHLD ignored every worker
  that exits counts as a success; the Windows branch treats the like as a failure.
  `LastGoodSustained` is about coordinators for which `waitpid` works.
- `PriorityMultiLock` may have one holder more than slots once a waiter's
  continuation has locked again, and a client of a `FlowLock` that asks for more
  permits than there are gets them alone (`LimitsKept` allows both); a take of a `BoundedFlowLock` that
  is cancelled while it waits keeps its number outstanding.
- A ramp that starts with no players never ends; one that can spawn no shard server
  takes a remainder by zero (`stage` "crashed"). A load client may exit with 0
  after its deadline, because success is looked at first, and `runManyPlayers` may
  exit before its last ticks are sent: exit code 0 means queued.

## Proofs

Every theorem holds for all values of the constants that satisfy the named
assumption of its module (`CombatAssumption`, `NodeAssumption` and so on, mostly
types of constants), which TLC evaluates for the instances it runs.

| Theorem | Argument |
|---|---|
| `CombatCorrect`, `DamageAccountedAlways`, `StageOrderAlways` | `CombatInv` is inductive. `StageOrder` needs `ComboEarned` (which swing the counter stands for) as well as the window test, and `ComboFresh`. |
| `ArtsAlwaysEarned`, `NothingEverForgotten` | `ProgressInv`: gates stay met because affinity never falls, and credits stay natural because a purchase tests them first. |
| `BridgeCorrect` | `BridgeInv` adds `OpenLive` (a stream's connection is live) and the types of the tables. It holds for `Mixed`, `MultiSub` and `Malformed` clients alike, and gives `DeliveryOpen`, `EntityBacked` (no ghost in the zone table) and `RoomsDistinct`. |
| `MembersAlwaysBacked` | Assumes `~Mixed`. `FlagsMatchVerb` ties the flags that `cleanupStream` reads to the verb of the stream; a stream that mixes verbs breaks it. |
| `SandboxImplementsService` | Refinement with `asked <- Asked`. `SandboxInv` says that a request with the reference a client waits for is that client's request (`Sent`), that fuel used is work done (`JobOK`), and that an awaited reply is one the service may give (`RepliesOK`). |
| `PlansExecute` | `PlannerInv` says of each frame that its prefix leads from its entry state to its current one (`FrameOK`), and of neighbouring frames that what solves the inner tasks solves the outer ones (`Link`). It gives `MemoSound`, too. |
| `SuccessesNeverRead` | Plans are stored only while a plan is being carried to the top, when no call is entered. |
| `CachesInvisible` | `CacheInv`, with clears of both caches at any time: object numbers only grow (`Allocated`), entries are right (`EntriesRight`), and a call holds what its document earns (`ThreadsRight`). Gives `AnswersPure` and `StatesPrivate`. |
| `GraphsKept` | `CacheInv` says that a reader's node, while it lives, is its document's entry; then each action but `rebac_cache_clear` leaves it there. |
| `QueueIsSafe` | `QueueInv`: the nodes from tail to head are linked but for the pushes under way (`ChainShape`, `PushesPending`), the members and locals point to where they should (`PointersLead`), tickets grow along the chain (`TicketsOrdered`), and at each of its loads the consumer knows enough of the chain (`ConsumerKnows`). |
| `LoopTypeCorrect`, `PopIsSafe`, `QueueLosesNothing`, `CanSleepIsSafe`, `NoWakeupIsLost`, `TasksRunOnce`, `OrderIsKept` | `LoopInv` adds to `QueueInv` where the loop may be in relation to the queue (`Phases`), that a task is in one place (`Places`), that numbers follow tickets (`Numbered`), and that whoever pushed behind the sleeping node will wake the loop (`Wakeups`). |

The type invariants, `EntityBacked`, `RoomsDistinct`, `MemoSound`,
`SuccessesUnused`, `StatesPrivate`, `AssertsHold`, `NothingLost`, `SleepIsSafe`,
`RunsOnce`, `ArtsEarned` and `NothingForgotten` are conjuncts or consequences of
these invariants; they are proved, and no run repeats them.

Only model-checked: all liveness (`EveryCallEnds`, `EveryDatagramTaken`,
`ClientEnds`, `RampEnds`, `UnitTakersServed`, `TakeReturns`, `ShareIsServed`,
`LoopProgresses`, `Terminates`), which the prover does not do; what is compared with a
recursive reference or a fold (`PlanExact`, `TreePlanExact`, `RecoveryExact`,
`ChecksExact`, `SearchesComplete`, `DurationsAgree`, `ScheduleExact`, `CivilExact`,
`RecordMatchesLog`, `RollIsFair`), which needs induction over data; the tree; the
refinement `IsChannel`, whose sequence is selected from the chain by a recursive
operator; the sketch and delivery properties of `Fanout`; the locks, the load client
and the ramp.

## Not modelled, and why

- Formatting, JSON, marshalling and logging; the loaders and the explanation of
  plans, which have no state; coordinates and velocities, which only reach the
  external zone core; sizes of byte buffers.
- Floating point: HRR, the retriever and the memory bridge, and the doubles of the
  temporal network, which holds exact times here. The int64 of a duration is
  unbounded here; very long numbers overflow it.
- Wall-clock time, except as deadlines that pass; the time budget of the tree
  search, which throws the search away.
- The MCP server, the command line, the OTP applications, the Elixir NIF wrapper, the
  hosted endpoint, the HTTP/3 client, the Erlang C node and the s7 actor for Flow: one call or one request, sessions in library
  code, choices made once at boot.
- Flow beyond its queue, run loop and locks: sockets, RPC, serialisation, tracing,
  simulation, compression, the other generic actors. It is vendored, and makes up
  nearly all of the repository's lines.
- The internals of s7, libriscv, picoquic and the BEAM beyond what the repository's
  code sees of them; the Lean development, which is proofs and not code that runs.
