# unlog: specifications, model checking and proofs

unlog is an asynchronous C++ logging library. A log call formats its record into a bounded
single-producer queue; one consumer thread drains all queues, renders the records and writes them
to sinks. This directory holds TLA+ models of that machinery, an abstract service it is shown to
implement, the TLC configurations that check them, and machine-checked proofs. Paths below are
relative to the repository.

## 1. Inventory of the system

| component | state it keeps | operations | hard behaviour | what makes it correct |
|---|---|---|---|---|
| Producer slots (`include/unlog/backend/producer.hpp`) | per producer: queue, `enqueued_`, `lifecycle_`, `next_free_index_`; per registry: `slots`, `active_words`, `free_head`, `count`; per thread: `tls_state` | `producer`, `note_work`, `threadsafe_producer`, `retire_threadsafe_producer`, `drain_ready`, `drain_flush`, `drain_until_idle` | lock-free flags set by producers and cleared by the consumer; slots reused by later threads | one producer per queue; no record is stranded; retired slots come back |
| Consumer thread (`src/channel.cpp`, `consumer_main`) | `wake_seq`, its ticket, `flush_requested`, `flush_completed`, `stop_requested` | the loop | lost wakeups, starvation | it never sleeps through work; every queue is served |
| Flush (`flush_backend`) | `active_flushers`, the request each caller waits for | `flush` | racing producers, other flushes, resets, shutdown | when it returns, what was queued is written and flushed; it returns |
| Shutdown (`destroy_runtime`) | `lifecycle`, `consumer_started`, the sinks | test reset, process exit | flushes that wait, log calls in flight, a second destroyer | last drain, then join, then the sinks; it ends |
| Lifecycle and configuration (`src/channel.cpp`) | `runtime_control`, `runtime_state`s, route levels | `make_channel`, `add_sink`, `start`, `set_global_level`, `set_level`, ... | each call is two critical sections; handles outlive resets | inert unless running; running means served; retired states stay untouched |
| Log call (`include/unlog/channel.hpp`) | counters | `log_message`, `produce_runtime_record` | full queue, oversize messages, throwing formatters | every call is counted once; a record is whole or marked |
| Record slot (`backend/record.hpp`) | header, payload | `write_record_slot` | truncation boundary, uninitialized payload | no byte that nobody wrote is read |
| Patterns (`format.hpp`, `src/backend/internal.hpp`) | compiled pieces | `compile_pattern`, `pattern_piece_count`, `analyze_time_requirements`, `pattern_uses_token`, `render_pattern` | four scans of one text must agree | the pieces mean what the text says; what is shown was captured |
| Time context (`src/channel.cpp`) | creation times of the state | `resolve_runtime_time_context` | two clocks, two anchors | a line shows when its record was logged |
| Sinks (`backend/sinks.hpp`, `src/channel.cpp`) | `configured_sinks` by key, `custom_sinks`, stream buffers, the basename cache | `configured_sink_for_locked`, `emit_runtime_slot_for`, `flush_runtime_sinks`, each sink's `write` and `flush` | partial writes, errors, bad streams, custom sinks that throw or call `flush` | a target's lines are whole and in order; one sink's failure is its own |
| Options and configuration (`config.hpp`) | none: types | `resolve_opt`, `default_pattern_type`, `config_pattern_program` | options in any order; two default programs | order makes no difference; what is rendered was captured |
| Elapsed times (`src/backend/internal.hpp`) | none | `format_elapsed` | three layouts, carries | the fields say the time |
| Diagnostic owner check (`src/backend/producer.cpp`) | `owner_` | `diagnostic_assert_thread` | two first users at once | one user |
| Levels, literals, benchmarks, build, tests | | | | not modelled; see section 8 |

The parts meet in five places. A log call *writes* to a queue the consumer reads, and *wakes* it
through `wake_seq`. A flush asks the consumer through `flush_requested` and sleeps on
`flush_completed`. Destroy silences the routes, waits for the flushers, and asks the consumer to
stop. The configuration calls, start and destroy share `runtime_control` under its mutex, which
flush, prewarm and the log gate read without it. What the consumer takes from a queue it renders and
hands to the channel's sink and the custom sinks; the route's sink and patterns were fixed when the
channel was made.

`PROJECT.json` lists the hazards of the code with the properties that look after them.

## 2. The modules

| module | models | with |
|---|---|---|
| `Handoff` | slots, queues, consumer, flush, destroy: a running runtime, one action per access to shared state | |
| `HandoffInvariant`, `HandoffProofs` | the inductive invariant `IInv` as named conjuncts, and the TLAPS proofs | extend `Handoff` |
| `HandoffPromises`, `HandoffPromisesProofs` | what flush and destroy rely on: `FlushInv`, `ShutdownInv`, all of it `PInv` | extend `HandoffInvariant`, `HandoffProofs` |
| `LogService` | abstract: what the logger promises its users | |
| `HandoffService`, `HandoffServiceProofs` | the refinement mapping from `Handoff` to `LogService`, and its proof | extend `HandoffPromises`, instance of `LogService` |
| `MCHandoff` | small instances | extends `HandoffService` |
| `Lifecycle`, `MCLifecycle` | control plane: all public calls over several runtime states | |
| `LifecycleInvariant`, `LifecycleProofs` | its inductive invariant and the TLAPS proofs | extend `Lifecycle` |
| `OwnerCheck` | the diagnostic owner check, with its proof | |
| `Pattern` | compile, count, scan, render, and what a pattern means | |
| `Config` | options: resolution, default patterns, what is captured and rendered | extends `Pattern` |
| `PatternProofs` | TLAPS proofs about both | extends `Config` |
| `Elapsed` | `format_elapsed` | |
| `RecordPath`, `MCRecordPath` | gate, slot, queue, counters, time context, two sinks | extends `Config`, `Elapsed` |
| `RecordPathProofs` | TLAPS proofs about it and about `Elapsed` | extends `RecordPath`, `PatternProofs` |
| `Sinks`, `MCSinks` | configured and custom sinks, emission, flushing, the operating system, the basename cache | |
| `SinksInvariant`, `SinksProofs` | its inductive invariant and the TLAPS proofs | extend `Sinks` |
| `SharedSink` | the lock of a `multi_consumer` sink | |

The MC modules extend the module that holds the invariant, so that the runs check what the proofs
use. The models meet at
their interfaces: `Handoff` decides when the consumer takes a record and when a flush is asked for
and answered, `Sinks` and `RecordPath` what happens to the record then; `Lifecycle` decides which
runtime state there is, `Handoff` is one running state from its start to its end.

### Handoff: state and actions

A queue is its *depth*: it is first in, first out, and has one writer, so a record is known by its
position. `bits` is the union of the `active_words`; `WordSlots(w)` are the slots of word `w`, and
the exchange of one word is one step (`TakeWord`). `woken` stands for "`wake_seq` differs from the
consumer's ticket", which is all that `wait(seq)` compares. `SlotsPerWord` is 64 in the code.
The code has two registries, for normal and for huge pages. They are two instances of one template
and share only the pass that visits them one after the other; the model has one.
A single-threaded producer is a queue with a negative number (-2 normal, -1 huge, in the order
`drain_ready` visits them), without a slot, bit or free list.

| code | actions |
|---|---|
| `log_message`, `note_work` | `LogSingle`/`LogThreadsafe` (gate), `AcquireFree`/`AcquireNew`/`AcquireFails`, `Produce`/`ProduceNothing`, `Mark`, `Publish`, `Bump`, `Notify` |
| `~tls_state`, `retire_threadsafe_producer` | `Retire`, then `Publish`, `Bump`, `Notify` |
| `flush_backend` | `FlushBegin`, `FlushEnter`, `FlushCheck`, `FlushRequest`, `Bump`, `Notify`, `FlushWait`, `FlushLeave`, `FlushNotify` |
| `consumer_main` | `Sample`, a drain, `CheckFlush`, a flush drain, `FlushSinks`, `Complete`, `NotifyAll`, `CheckStop`, `Wait` |
| a drain | `Visit`, `Consume`, `Check1`, `Clear`, `Check2`, `Remark` (`finish_drain`), `TryFree`, `Push`, `LoadCount`, `TakeWord`, `EndPass` |
| `destroy_runtime` | `DestroyBegin`/`DestroyTwice`, `WaitFlushers`, `RequestStop`, `BumpStop`, `NotifyStop`, `Join`, `ResetSinks`, `DestroyEnd` |

`atomic::wait` is a compare (`Wait`, `FlushWait`, `WaitFlushers`) that moves to a blocked place,
left only by the matching notification: a notification before the compare is not remembered.
`owed`, `durable`, `owedSlots` and `owedAtExit` are history: what a flush, or destroy, still owes.

### Lifecycle

The runtime states are numbered by creation; `backend[t]` is the backend a call looked up,
identified with its state. Every call is `Access` (the critical section of
`access_producer_backend`) followed by an action for the rest. `flush_backend` takes no lock and is
four more steps. `Refused` and `StartElse` are the calls that throw, with the state they may leave
behind. `set_level` goes through a handle to any state that ever existed.

Each channel name has the producer its configuration asks for (`ProducerOf`). `prepare_start` makes
the missing ones, the normal before the huge; `StartThrows` is a start that fails at either, or at
`std::thread`, and leaves behind what it had made.

### LogService and the refinement

`LogService` knows queues of records, flushes, and a phase. `Accept` and `Acknowledge` are the two
ends of a log call as its caller sees them; `Write`, `Sync` and `Answer` are the consumer's side;
`Ask` notes what is queued as the flush's `debt`, and `Answer` may serve it only when a `Sync` has
come after the debt was paid; `EndClose` needs the debt of `BeginClose` paid and nobody waiting.
`HandoffService` maps to it: a flush is `asked` from `FlushRequest` and `answered` when
`flush_completed` has reached its target, the service is `closing` when the lifecycle leaves running
and `closed` when the consumer has exited, and the histories of `Handoff` are the debts. All
accesses in between (tickets, bits, flags, the free list, every wait) are stuttering steps.

### RecordPath, Pattern, Config, Elapsed

A message is its length; a payload byte is the position of the message it holds, so that a byte
nobody wrote (0) and the marker's bytes (negative) are told apart. `Pattern` compiles and scans a
text with recursive functions, as the code's loops do; `Meaning` reads it character by character
and is the reference. A set-up is a pack of options for the channel, its color flag, a pack for the
custom sink and a clock; `Config` resolves the packs as the templates do, and the sink entries, the
captures and the overflow policy follow. Times are milliseconds; `Offset` separates the two clocks.
A payload is larger than the truncate marker in every configuration the library's `static_assert`s
allow, and so in the run. A pack is valid as `valid_channel_opt_pack` has it: options of the four
kinds that `config.hpp` defines, at most one of a kind.

### Sinks

A line is a sequence of parts, so that a write can be cut. `StreamPut` is a C++ stream: it passes on
a prefix of what it holds, keeps the rest, or goes bad and takes nothing more. `WriteFd` is one call
of `write(2)` inside the loop of `fd_sink::write`; `WriteDgram` one `send`. The operating system
chooses freely. `TargetKey` is the key by which channels share a sink. `given` and `refused` are
history: the lines meant for each target, and those the system did not take in full. `Outgoing` is
what a target has taken, followed by what its stream still holds. A custom sink that throws ends the
process where it stands: nothing is flushed or closed after that. `Confs` names each target once; two
spellings of one target are outside the model (section 8).

### OwnerCheck

`diagnostic_assert_thread` in its two atomic accesses, by any number of threads; a thread that is
refused gets an exception and uses nothing.

## 3. Memory model

The models interleave sequentially consistent accesses. What the code's acquire/release orders and
the queue's own fences leave open is out of reach: in particular the store-load pairs of
`enqueued_`/queue in `finish_drain` (both sides are read-modify-writes) and of
`active_flushers`/`lifecycle` in `flush_backend` and `destroy_runtime`, and the relaxed increment
of `flush_requested`.

`start_backend` and `destroy_runtime` store the lifecycle and then, still under the mutex, the level of
each channel, which the gate reads without it. The models make one step of these stores, at the end of
the critical section. `start` must have returned before logging begins on other threads
(`channel.hpp:411`), so no permitted program sees the difference there. In `destroy_runtime` a log call
in that window passes the gate as one does just before; a flush in it returns without a request, as one
does just after.

## 4. The runs

| run | instance | shows |
|---|---|---|
| `handoff_slots` | 2 threads, 2 slots in 2 words, capacity 2 | `TypeOK`, `SingleProducer`, `FreeListExact`, `NoStrandedQueue`, `NoLostWakeup` under thread churn |
| `handoff_flush` | 2 threads, 1 slot, capacity 1, 2 flushes, fairness | `FlushInv`, `FlushDurable`, `FlushReclaims`, `FlushReturns` |
| `handoff_shutdown` | 1 thread, 2 destroyers, a slot and a single-threaded producer, capacity 2, 1 flush | `PInv`, `DrainedAtExit`, `ShutdownOrder`, and `ImplementsService`: every run is one of `LogService` |
| `live_shutdown` | 1 thread, 1 destroyer, both kinds of producer, 1 flush, fairness | `NoStarvation`, `SlotsRecycled`, `DestroyEnds` |
| `lifecycle_resets` | 2 threads, 1 name, 2 states, 2 configurations, 1 flush per state | `InertUnlessRunning`, `RunningIsServed`, `OneConsumer`, `LifecycleInv`, `RetiredUntouched` |
| `lifecycle_live` | 2 threads, 2 names on producers of their own, 1 state, 2 flushes, starts may fail, fairness | `FlushIsServed`, `ProducersReady`, `FlushReturns`, `DestroyEnds` |
| `record_path` | texts of every length up to 2 and longer ones, packs of up to 3 options in every order, both clocks and policies; payload 3, marker 2, queue 1, 2 calls | `RecordPathInv`, `CompileExact`, `ScansAgree`, `OptionsOrderFree`, `MessageExact`, `StatsAddUp`, `RouteShowsTime`, `ElapsedWellFormed` |
| `sinks` | 2 channels over a file, a descriptor and a socket, a custom sink added up to twice, 3 records of 2 parts, fairness | `TargetIntact`, `FlushReachesAll`, `CustomSeesAll`, `BasenameFresh`, `SinksInv`, `FlushAnswered` |
| `lifecycle_stale_flush`, `lifecycle_failed_start`, `record_path_elapsed`, `shared_sink` | | the findings, section 6 |

**Bounds.** Two threads are enough for a slot to be retired by one and popped by another while the
consumer is freeing it, and for two flushes to overlap; with one slot a second thread meets
`AcquireFails`. Two words show a wake between the exchanges of two words. Capacity 2 lets a record
arrive behind the tail snapshot of a non-empty queue; with capacity 1 a queue that has been drained
fills again before the pass is over, which is what a flush races. `handoff_shutdown` needs capacity
2: with 1, a record that destroy is owed fills its queue, so no later log call can enqueue behind it,
and that is where the last drain can go wrong (section 5). `MaxFlushes` bounds the request
counter, the only unbounded counter of `Handoff`; `MaxStates` and `MaxFlushes` those of `Lifecycle`;
`MaxCalls` and `MaxTicks` those of `RecordPath`; `MaxRecords` and `MaxCustom` those of `Sinks`. Two
names in `lifecycle_live` let a start fail between the two producers and a channel be made before the
next try. A queue of one record makes two calls fill it, and messages of 0 to 4 bytes straddle the
payload. The elapsed times 1 ms, 61.005 s and 1:02:03.004 take each layout, with fields that carry.
Three records from two files, of a channel that keeps the file and one that does not, reach the memo,
the map behind it and neither. The symmetry sets permute threads that own no single-threaded producer, or
destroyers, and only in runs without liveness properties (`ImplementsService` is a safety property:
`LogService` states no fairness). With a destroyer the system ends, and with everybody
idle or exited it may stop: those runs do not check for deadlock.

**Fairness.** `Handoff!Fairness` and `Lifecycle!Fairness` are weak fairness of each thread's
started call, of each consumer thread and of each destroyer: the operating system runs every
runnable thread. No thread has to begin a call, no strong fairness is assumed, and nothing is
assumed of which producer is served first. A mutex is held for one step only, so it needs none.
`Sinks` assumes weak fairness of the consumer's steps: it runs on, and the operating system does not
interrupt one `write(2)` for ever (a try that takes nothing is a stuttering step). It does not assume
that a write ever succeeds.

## 5. What is proved

Every safety invariant of a passing run, the action property `RetiredUntouched` and the refinement
`ImplementsService` are theorems, for every value of the constants that the named `ASSUME`s of each
module allow. `FlushIsServed` and `InertUnlessRunning` are proved under the condition whose failure
is a finding (section 6). The other theorems are about operators. Each invariant has one lemma per
action, or per group of actions that leave it alone for the same reason; the last theorem of a chain
only combines them.

### Handoff: `HandoffProofs`

`Inductive` is `Spec => []IInv`, for any finite sets of threads and destroyers, any number of slots,
word width, capacity and single-threaded producers; `TypeCorrect`, `OneProducer`, `NothingStranded`
and `NoWakeupLost` follow. The most telling assumption is `SingleOwnerAssumption`: a single-threaded
producer is used by one thread, which the library demands of its user. In diagnostic builds it
enforces it, and `OwnerCheck` proves that (`OneUserAlways`, for any set of threads).

*Why a strengthening is needed.* `NoLostWakeup` speaks of a sleeping consumer; what makes it true
is decided earlier in the pass. `IInv` therefore says, for each moment between the ticket and the
sleep (`Dozing`), that what the pass has already left behind (`PassedSlot`, `PassedSingle`) and
that is ready again has somebody about to bump `wake_seq`: `DozingBits`, `DozingSingles`,
`DozingFlush`, `DozingStop`, and `AsleepInv` for the notification after the bump. These rest on a
chain of custody: records imply a raised flag or somebody between the two (`DepthInv`), a raised
flag implies a ready bit or a visitor (`EnqueuedInv`), a retired slot likewise (`RetiredInv`).
That a slot is never visited for the wrong thread needs `SingleProducer` and the shape of the free
list (`FreeListInv`), and each step needs to know which calls and consumer places go together
(`CallInv`, `ConsumerInv`).

*The free list.* `FreeListInv` is local: nobody is pointed at twice. That the list holds *all* free
slots (`FreeListExact`) is about paths. `FreeChainInv` says it without a path: any set that contains
the head and is closed under `nextFree` contains every free slot. Pushing and popping at the head
keep that, and it needs no induction over the list. It is proof machinery: no run asks for it by
itself, and `handoff_shutdown` checks it as a part of `PInv`.

### Flush and shutdown: `HandoffPromisesProofs`

*Flush* (`FlushInductive`, `FlushMakesDurable`, `FlushReclaimsSlots`). A flush's debt is a number of
records per queue and a set of slots. `FlushInv` follows it through the consumer's flush pass: queues
are first in, first out, so no debt exceeds the depth (`OwedInv`); the flushes a pass serves are those
whose request is not above the sampled count (`Served`, `RequestInv`); what such a flush is owed lies
ahead of the pass, or is what `consume_all` is about to take (`FlushPassInv`); a retired slot it is
owed is ahead, or in the consumer's hands with its queue as the consumer saw it (`ReclaimPassInv`).
The walk visits all words and looks at no ready bit (`WalkInv`), so at its end nothing is ahead, and
`AnsweredInv` carries that to the return, through any further requests.

*Shutdown* (`PromisesInductive`, `DestroyInOrder`, `DestroyDrains`). `ShutdownInv` counts flushers in
and out (`CountInv`), orders the destroyers (`DestroyInv`), and says that from the moment destroy
finds no flusher, none needs the consumer (`QuietInv`). For the last drain, `DebtInv` follows each
record that destroy is owed: its slot has its ready bit, or is in the consumer's hands, and no log
call is about that could raise the flag and hold the bit back.

That last clause is what the proof found. `DrainedAtExit` was first stated for every record whose
call had returned before destroy began. It is not so: the thread's *next* call, past the gate already,
can set `enqueued_` after the consumer's `Clear` and be slow to set the ready bit; the consumer's
second look then takes the raised flag for a promise, leaves the queue, and exits. The run had not
shown it because with a capacity of one a queue that is owed a record is full. The run now has
capacity 2, and the debt of destroy is what it can be held to: the queues on which no log call is
under way.

*The refinement* (`HandoffServiceProofs`, `HandoffImplementsService`). One lemma per group of actions
shows that under `PInv` a step of `Handoff` is a step of `LogService` or leaves its variables alone.
`QuietStep` disposes of all accesses that only move bits, flags and tickets; `NoTargetInv` adds what
the mapping of a log call needs, that one log call at a time works on a queue. `AnsweredInv` and
`DebtInv` are the guards of `Answer` and `EndClose`.

### Lifecycle: `LifecycleProofs`

For any threads, names, producers, configurations and number of runtime states: `LifecycleInductive`
(`Spec => []LInv`), from which `ConsumerAlone`, `RunningServed`, `ProducersThere`, and `Inert` if a
start cannot fail half-way (`~StartFails`); `RetiredAlone`, the action property; `LifecycleHolds`,
the whole invariant; and `FlushServed` for one runtime state (`MaxStates = 1`, that is, no restart;
`lifecycle_stale_flush` shows why).

That two consumers never run at once is a matter of what a destroy has done before the state pointer
is cleared, many steps before a new state is started. `DestroyInv` says that a destroy owns the
lifecycle and works on the current state, alone, and that past the join nothing runs; `ControlInv`
what each value of the lifecycle tells about the current state; `FreshInv` and `Numbered` that a state
to come is as new, so that creating one disturbs nothing; `PreparedInv` carries what a start has
prepared to the calls that trust it. A flush holds a state without a lock, whatever becomes of it:
`FlushersInv` counts the flushes of every state, and `ServedInv` says that the state of a flush past
the check is attended, *or* a later one exists. The second case is the finding; without a restart it
cannot occur.

### Patterns, options, records: `PatternProofs`, `RecordPathProofs`

`CompileFills`, `CompileMeans`, `ScansFindTokens`: for *every* text, `compile_pattern` fills exactly the
array that `pattern_piece_count` sized, its pieces render what the characters mean, and the scans find
the directives the compiler found. `OrderIsFree`: for every valid pack of options, no reordering and no
naming of a default changes what it resolves to. The algorithms are recursive functions over positions.
The library's induction theorems cannot be used here, so the proofs argue by the last position that
fails (`LastFailure`, from the well-foundedness of `<` on the naturals): behind it everything holds, and
so it does not fail. The same argument shows that each recursive function exists (`CompileFunction`,
`RenderFunction`, ...). What a text compiles to is compared with what it means one piece at a time, from
the end (`CompileStep`, `RenderPrepended`).

`RecordPathInductive`: `RecordPathInv` says that each queued record is what its log call wrote, each
line of a sink is that of such a record under the sink's requirements, and the counters add up. It is
inductive as it stands. The run's properties follow from it with the theorems about operators:
`MessagesExact`, `StatsHold`, `TimesHold` (both clocks), `CompilesExactly`, `ScansHold`, `OptionsHold`,
and `ElapsedHolds` from `ElapsedExact`: the fields of `format_elapsed` fit their digits, leave out
nothing but zeros, and add up to the time, for every integer.

### Sinks: `SinksProofs`

`SinksInductive` is `Spec => []SinksInv`, for any channels, targets, custom sinks, files, records and
line sizes, whatever the operating system takes. `TargetsIntact`: `OrderInv` says that what a target has
taken, followed by what its stream holds, is one sequence of parts in which each follows the one before
it or begins a later line, and that the record in hand stands at its end, as far as it has come.
`RouteInv` is why there is only one such stream: two entries of `configured_sinks` never have one
configuration. `KeptInv` accounts for every part that was not refused. `FlushesReachAll`: `PassInv` says
that the sinks behind a flush are empty or have refused, so that at its end all are; a bad stream holds
nothing (`StreamInv`) and does not stop the walk; `ClosedInv` keeps what closing has flushed.
`CustomSinksSeeAll`: `CustomInv` counts, for a sink added several times, how many of its places have had
the record in hand. `BasenamesFresh`: `BaseInv` says that the memo and each entry of the map are the base
names of their own pointers; that the base name is what follows the last `/` is about `AfterSlash`.

### Only model-checked

* Liveness under fairness: `FlushReturns`, `DestroyEnds`, `NoStarvation`, `SlotsRecycled`,
  `FlushAnswered`. The prover has neither `ENABLED` nor fairness.
* The four runs that expect a violation, and `SharedSink` altogether.
## 6. Findings

1. **A flush can wait forever on a retired state** (`lifecycle_stale_flush`,
   `src/channel.cpp:699-730`). It takes the state pointer, is overtaken by a reset and by the
   start of a new state, and then finds the process running. Only test resets allow this: after a
   process exit the lifecycle never returns to running.
2. **A failed start leaves the routes active** (`lifecycle_failed_start`,
   `src/channel.cpp:691-695`). `Inert` is what holds otherwise.
3. **A custom sink's time directives need the channel's** (`record_path_elapsed`,
   `channel.hpp:159-164` against `src/channel.cpp:453`).
4. **The lock of a `multi_consumer` sink ends before the stream is used** (`shared_sink`,
   `backend/sinks.hpp:33-38`): the `lock_guard` is declared in the block of the `if constexpr`. The
   library itself uses the `single_consumer` mode only.

Not a finding, but to be known: a log call that is past the gate when destroy begins may enqueue
after the last drain, and its record is not written. Nor need the records that the same thread had
queued before it be: the call may raise `enqueued_` for the whole queue and set the ready bit only
when the consumer is gone. The code promises nothing about either; `DrainedAtExit` and
`LogService`'s `BeginClose` say what does hold.

## 7. Plan

Done: all modules of section 2, with a theorem for every safety invariant of the passing runs, the
action property and the refinement.

What is left, in this order:

1. The one-step facts that the liveness arguments rest on, as action properties: a flush's place only
   advances, `flush_completed` never goes back, a started drain pass shrinks `pending`.
2. What a full flush pass costs: that it visits every slot once, for the step count behind
   `FlushReturns`.
3. The thread-local slot cache across the backends of two runtime states.

## 8. Not modelled

* Weak memory (section 3).
* A log call from the destructor of a thread-local object that outlives `tls_state`: the language
  leaves it undefined.
* A system clock that is set while the program runs: `RecordPath` has a constant `Offset` between the
  two clocks, so `RouteShowsTime` says nothing of a step between the start and a record.
* Option packs with `const` or reference types: `at_most_one_is_derived_from` strips the qualifiers,
  `resolve_opt` does not. `Config` has unqualified options only.
* Two spellings of one target (`a.log` and `./a.log`): they get two sinks, and their lines mix. Each
  element of `Confs` is a target of its own.
* `localtime_r`, the digits of numbers, colour escapes, literals and level names: formatting.
* The inside of `std::ostream`, of the operating system and of `fmt`; modelled by what `src/` relies
  on. What a stream holds when it goes bad counts as refused, though a `filebuf` may try it again when
  it is closed. The queue (`utl`) is an empty submodule here: a bounded FIFO whose `consume_all` reads the
  tail once and whose `produce` can be cancelled.
* The `static_assert`s on sizes and the factories of `config` values: checked when a program is
  compiled, without state to explore.
* The benchmarks, the build files, and the tests, which are read as statements of intent.
