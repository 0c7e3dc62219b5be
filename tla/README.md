# NetSentinel: TLA+ models, checks and proofs

NetSentinel is several programs in one tree. The *offline engine*
(`src/dpi_engine.cpp` and what it uses) reads a capture file, filters it through
a pipeline of threads and writes what it forwards. The *live monitor*
(`src/live_capture.cpp`) watches an interface and serves what it sees over HTTP.
Two earlier programs filter captures too: `old_mains/dpi_mt.cpp`, a threaded engine
in one file that `WINDOWS_SETUP.md` still builds, and `old_mains/main_working.cpp`, which has one
thread. This directory models the offline engine, the two earlier programs and the
core of the live monitor.

Contents: the system, the plan, the modules, the runs, the proofs, what the
checks found, what is left out.

## 1. The system

| component | state it keeps | operations | interacts with |
|---|---|---|---|
| bounded queue, `thread_safe_queue.h` | a queue, a shutdown flag, two condition variables | push, tryPush, pop, popWithTimeout, shutdown | every thread of the engine |
| engine, `dpi_engine.cpp` | `running_`, reader and output threads, output file, counters | processFile, start, waitForCompletion, stop, handleOutput | starts, joins and feeds all others |
| load balancers, `load_balancer.cpp` | input queue, `running_`, per-FP counters | run, stop, selectFP, getLBForPacket | pops from the reader's push, pushes to fast paths |
| fast paths, `fast_path.cpp` | input queue, `running_`, a connection tracker | run, processPacket, inspectPayload, checkRules, updateTCPState | callback `handleOutput` pushes to the output queue |
| connection tracker, `connection_tracker.cpp` | at most `max_connections_` connections | getOrCreate, update, classify, block, evictOldest, cleanupStale | owned by one fast path |
| rule manager, `rule_manager.cpp` | four tables, each under its own lock | block/unblock, shouldBlock, save, load, clearAll | read by all fast paths, changed by other threads |
| packet parser, extractors, PCAP reader | none beyond a file position | parse, extract, readNextPacket | called by the reader and the fast paths |
| live capture, `live_capture.cpp` | the live trackers, on its stack | one loop over captured packets | publishes pointers in `global_state` |
| threat detector, transactions | alerts, deduplication sets, transactions | analyzePacket/Domain/IP, allow, block | written by capture, read and changed by the API |
| API server, `api_server.cpp` | none | HTTP requests | reads live state from its own thread, with no lock |
| flow, application, talker, protocol statistics, exporters | counters, a hash table of flows, two files | add, print, export | written by capture, read by the API with no lock |
| threaded engine of the Windows build, `dpi_mt.cpp` | a queue and a `running_` flag per thread, a flow table per fast path, counters | process (read, push, stop and join), run of each thread, classifyFlow | none: a program of its own |
| single-threaded program, `main_working.cpp` | one flow table | one loop over the capture | none: a program of its own |

What is hard in it:

* **Concurrency.** 3 + LBs + FPs threads joined by bounded queues, each waiting on
  two condition variables; four rule locks taken one after the other.
* **Shutdown.** `stop()` clears flags, shuts queues down and joins threads in a
  fixed order while packets may still be in flight. The only drain is two sleeps.
* **Order.** A flow's packets must meet one fast path, in order, or its connection
  state is wrong.
* **Two of a kind.** The threaded engine and the program with one thread were written out
  separately, with different tests in a different order, and should write the same packets.
* **No locks.** The live monitor's capture thread and API thread share vectors and
  maps with none.
* **Persistence.** The rule file is truncated, written and read while rules change.
* **Staleness.** A BLOCKED mark, a classification and a table entry must survive
  later packets, evictions and rule changes exactly as long as intended.

`PROJECT.json` lists every hazard at its line, with the properties that cover it.

## 2. The plan

1. `ThreadSafeQueue`, refining `BoundedFifo`. *Done, proved.*
2. `DPIEngine` over `BoundedFifo`-like queues, refining `FlowFilter`. *Done, proved.*
3. `FastPath` with its tracker, rules and clock. *Done, proved.*
4. `RuleManager`: pattern list with duplicates, unblock, clearAll, save and load with
   crashes in between. *Done, proved.*
5. `LiveMonitor`: the capture loop's threat detector and the transactions against the
   API thread. *Done, proved.* `LiveStatistics`: what the loop
   counts, the exports, and the API thread walking the flow table. *Done, proved.*
6. `MtEngine`: the threaded engine of the Windows build beside the program with one
   thread, whose decisions are in `PacketFilter`. *Done, proved.*
7. `PacketParsing`: every read and every length of the header parsers, the job's
   offsets and the TLS, QUIC, HTTP and DNS extractors. *Done, proved.*
8. `DomainRules`: `isDomainBlocked` and `domainMatchesPattern` over the rule tables,
   against a definition by labels. *Done, proved.* `AppTypes`: names to applications.
   *Done.*
9. The remaining requests of the API that only read, with what they may miss while the
   capture loop writes. *Next.*

Constants carry named assumptions, every thread's step is an action of its own
and no module that is proved about uses `RECURSIVE`.

## 3. The modules

**`ThreadSafeQueue`**. Every member function holds the mutex from its first line
to its return or a wait, so one action is the stretch between two waits:
`CallPush`/`CallPop` (the call begins), `PushWaits`/`PopWaits` (predicate false:
sleep), `PushReturns`, `PopReturnsItem`, `PopReturnsNothing`, and `TryPush`, which
never waits. `notFull` and `notEmpty` are the threads asleep on `not_full_` and
`not_empty_`; `NotifyOne` wakes any one of them, `SpuriousWakeup` any at any
time, `Deadline` the timed caller whose time is up. A woken thread competes for
the mutex again and re-tests its predicate. `accepted` and `delivered` are
history. `BoundedFifo` is the specification a user of the class relies on.

**`DPIEngine`**. One program counter per thread: the caller of `processFile`
(`mainPc`, with the loop index of `stopAll`), the reader, each balancer, each
fast path, the output thread. Queues are sequences with a closed flag, pushed
and popped atomically; that `ThreadSafeQueue` justifies. A packet is its position
in the capture; its flow is in `capture`. `processPacket` may reach either
verdict here. `popWithTimeout` on an empty queue returns nothing at any time.
*Undefined behaviour*: `per_fp_counts_` is empty (section 6), so the step after
each balancer's push either kills the process (`LbCrash`) or goes on (`LbCheck`
from `"count"`); both are kept, because the builds tried die there and the
language promises neither. `FlowFilter` is the promise without threads: packets
of a flow are judged once and in order, forwarded ones written at most once and
in order.

**`FastPath`**. One fast path and its tracker. `Receive` is `processPacket` up to
the rules: look the connection up or create it (evicting), stamp it, update the
TCP state, test BLOCKED, inspect the payload. Then `shouldBlock` takes four
locks, one action each (`LookupHits`, `LookupMisses`), with rule changes
(`ChangeRule`), and time (`Tick`) in between. `CleanupStale` is the idle branch of
`run`. A five-tuple is a record of symbolic fields, a payload what kind it is and
the name in it. `Connection::action`, the packet and byte counts and the three
tracker counters are left out: nothing branches on them.

**`RuleManager`**. Each table has a lock and every call on one table is atomic
(`Block`, `Unblock`). `clearAll` and `saveRules` take the four locks one after the
other, one action each, in the order of the code, and `loadRules` blocks one line
at a time. The three tables that are sets hold a rule at most once, the pattern
vector any number of times, so a table is a count per rule, and so is the file
(the order of lines within a section is the hash table's). What the disk takes of a
save is all of it, or the sections before some point and perhaps a line cut short
(`CutFiles`; `Torn` says which rules a cut line reads as, "192.168.1.10" as
"192.168.1.1"). `cut` is history. Not modelled: two threads using the file at
once when one of them saves, and domain names that begin with `[`.

**`DomainRules`** is the lookup of a name in the domain table of `RuleManager`: names are
sequences of characters, `IsDomainBlocked` compares plain rules as they are and
patterns in lower case, `DomainMatchesPattern` cuts suffixes as the code does. Against it
stands `Below`, which knows labels and no characters. `*` anywhere but in a leading `*.`
makes a pattern that never matches.

**`AppTypes`** is the two tables that take a name to its application, row by row;
the fast path run and the statistics run use them.

**`LiveMonitor`**. The capture loop calls `analyzePacket`, `analyzeIP` twice and
`analyzeDomain` per packet, one action each. A new offender is a transaction
`pending` until `PushBack` or, with no room, `Grow` (elements are being moved) and
`Switch` (the old storage is freed). The API thread's `for` loops keep iterators:
a position, an end and the `storage` they point into. `Visit` reads one element.
*Undefined behaviour*: while the vector grows, an element may still be there or
already be moved away; in freed storage, reads find nothing, writes are lost or the
process dies (`Dangle`). The operator decides transactions of an earlier list. Ids
are the second of creation, so they repeat.

**`LiveStatistics`**. The same loop as a counter of frames: one action per table
(`CountProtocol`, `CountTalkers`, `InsertFlow` and `CountFlow`, `CountApp`, and the flow once
more when a name was found), then `EndFrame` and the exports, which keep the old file when
it cannot be opened; `opened` remembers for each file the frame after which it last could. The flow table is a `std::unordered_map` shared without a lock: a list of
nodes, of which a new one goes before some other (`Insertions`), while the API thread's
iterator stands on a node (`BeginListing`, `ListFlow`, `Advance`). When the buckets grow, the order
changes altogether; this is one step here, and `ListingComplete` does not judge a listing
that meets it. Names and applications of a flow, two strings that are written while the API
copies them, are left out, and so are its times. The loop's other half, `LiveMonitor`, reads none of
these tables, so the two are checked apart.

**`MtEngine`**. One program counter per thread: main (reading, pushing, then stopping and
joining one thread after the other), each balancer, each fast path, the output. Queues are
sequences under their `running_` flag: `stop()` clears the flag and shuts the queue down, two
stores between which no thread's step differs, so they are one. A push waits for
room in an open queue and is refused by a closed one (`lost` is history); a pop may come back with nothing from
an empty queue at any time, which is also its timeout. What a fast path does from
its pop to its counters touches its own table or atomics: one action, `FpJudge`.
A packet is its position in `capture`. The counters of the code are the sets `forwarded` and `dropped`.
Beside the engine, `ReadPacket` runs `main_working.cpp` on the packet just read: `simpleFlows` is
its table and `before` remembers the entry the packet met there; the engine reads neither.

**`PacketFilter`** holds both programs' decision about one packet: `SimpleStep` is the four
`if`s of `main_working.cpp`, `MtStep` the `classifyFlow` and the rules of `dpi_mt.cpp`. They part
on a name that is empty (`Host: :80` makes `dpi_mt.cpp` call the flow classified) and on a name
in a UDP packet (only `dpi_mt.cpp` looks): `Alike` excludes such packets, `FileIsPrefix` judges
the flows without any.

**`PacketParsing`**. One packet, one action per header or field. A packet is its length
and a byte that decides something is chosen when it is read: parsers go forward, so no
such byte is read twice but the two header lengths, which are kept for
`createPacketJob`. `read` is history: the bytes touched last. The extractors keep
nothing, so one is followed per packet, whichever port and protocol lead to it.
The QUIC search tries the TLS extractor at any byte 0x01, from five bytes before it;
there the bytes of overlapping attempts are chosen afresh, which allows more than any
one packet does.

**`MC...`** give constants to TLC. Mutants stand before the definition they vary,
named in a comment; no specification uses them.

## 4. The runs

| run | instance | distinct states | shows |
|---|---|---|---|
| `queue` | 2 producers, 2 consumers, 1 place, 2 pushes each | 11 264 | types, no lost wakeup, FIFO refinement, shutdown releases, timed pops return |
| `engine` | 2 LBs x 2 FPs, queues of 1, 2 flows, 2 packets, 2 calls | 1 579 965 | conservation, shutdown order, quiet stop, flow order |
| `engine_live` | 1 LB, 1 FP, queues of 1, 6 packets | 119 950 | the reader finishes; a quiet stop completes |
| `fastpath` | 3 flows, 2 places, 2 rules, 3 packets, 1 rule change, 1 tick | 509 261 | standing rules, blocked flows, removals, classifications |
| `rules` | 2 callers, 5 rules, 2 changes, 3 calls, 39 names | 258 289 | faithful saves, clears that stay, loads that restore, names blocked by label |
| `mt_engine` | 1 LB x 2 FPs, queues of 1, 3 flows, 3 packets of 4 kinds | 121 168 | the file against the program with one thread, forwarded packets written, process() returns |
| `live` | 4 kinds of packets, 3 packets, 2 seconds, 3 requests | 454 071 | one case per offender, one alert per scan, where decisions land |
| `live_statistics` | 4 kinds of frames, 4 frames, 3 flows, 1 listing, exports every 2 frames | 1 614 996 | tables that agree, exports that are current, complete listings |
| `parsing` | 13 lengths, 5 values of each length field | 979 817 | reads in bounds, offsets that agree, names in place, progress |
| three `violation` runs | smallest instance that shows each | | section 6 |

*Bounds.* Two producers and two consumers are the fewest for a wakeup to go to
the wrong thread or be stolen. One place makes full and empty adjacent; two
pushes each let a queue fill, drain and fill again. In `engine` the default
configuration is used; two packets suffice to meet a full queue at every stage
and to overtake each other, two calls of `processFile` to meet the queues a
first call left shut down. In `engine_live` six packets exceed the six places of
the saturated pipeline (three queues, three threads). In `fastpath` three flows and
two places force evictions, three packets let a flow be seen, blocked and seen
again, one tick with a timeout of zero makes an entry stale. In
`rules` an address, a pattern, a domain and two ports fill three of the four tables, sets and
vector, and meet every order of two calls; the third call reads what they left. The names have up
to three labels, so they lie on, below and beside the rules, and one label ends with another. In `mt_engine`
one flow is blocked once its name is seen, one never is and one is not `Alike`; three packets let a flow be seen, named and seen
again, and exceed what the balancer's queue and hand hold. Two balancers add threads but no way for two packets of a flow to meet: with them, the
invariants were checked once (1 529 866 states), and the theorems cover all numbers. In `live` three offenders make the vector grow from zero
to one, two and four places under an iteration; a scan is two ports instead of
ten (`ScanLimit`); two seconds give equal and different ids. In `live_statistics` the buckets grow at the second flow
(`RehashAt`), so that one flow is inserted with and one without that; exports every
second of four frames instead of every twentieth make two, each of which may fail, and leave a frame after the first; a
file the second could not open still has the counts of the first. In `parsing` the lengths lie on both sides of
every test of a header, and leave a client hello no room, just room and spare room for
a name, of no bytes or of two; the theorems cover all lengths. `MaxPush`, `MaxPackets`,
`MaxFiles`, `MaxChanges`, `MaxCalls`, `MaxCopies`, `MaxRequests`, `MaxTime`, `MaxFrames`, `MaxListings` bound
counters and nothing else.

*Deadlock* is checked in the queue, rules and `mt_engine` runs; the last ends in `Ended`, with `process()`
returned. It is not checked in the engine, fast path, live and parsing runs: they end when
the files, packets, frames or requests of the bound are used up, the packet is parsed, or the
process has died.

*Fairness.* Queue: weak fairness on what a thread does once it is in a call, and
on its deadline; a mutex is held for a few instructions and the clock runs. No
fairness on calls, shutdown or spurious wakeups. Engine: weak fairness on each
thread, as a scheduler gives it; none on calling `processFile`. Behaviours that
crash are allowed to end, and the liveness properties say so. `MtEngine`: weak fairness on
main, on the output and on each balancer and fast path. Weak is enough: a thread that waits for room
stays enabled once there is some, for each queue's room is awaited by one thread, or, the output's,
by fast paths while the output empties it again. The capture has an end.

*Properties limited to the first call.* The queues stay shut down after `stop()`, so
`NoPushAfterShutdown` and `QuietStopLosesNothing` speak of the first
`processFile` of an engine. `Conservation` and `ImplementsFlowFilter` hold for all.

## 5. The proofs

All proofs hold for every value of the constants, under `QueueAssumption` (finite
sets of threads, no thread on both sides, at least one place), `EngineAssumption`
(at least one balancer, fast path and place, a hash on Nat), `FastPathAssumption` (at
least one connection per table, finitely many five-tuples), `RuleAssumption` (patterns are domain rules, a cut
line reads as a rule of its own section), `DomainAssumption` (lower case keeps the asterisk, makes a dot of
the dot only, and no label has a dot),
`ParsingAssumption` (lengths are naturals), `MtAssumption` (as `EngineAssumption`), `FilterAssumption` (a name's
application is never "unknown": `sniToAppType` ends in a default), `LiveAssumption` (no rule is named like a built-in alert, a scan is at least one port)
or `StatisticsAssumption` (finitely many kinds of frame, a name only in a TCP frame to port 443
or a UDP frame to port 53 that has payload, an export every one or more frames).

`ThreadSafeQueueProofs`
* `TypeCorrect`, `SleepCorrect`: inductive as stated, `SleepInv` relative to `TypeOK`.
* `HistoryCorrect`: `accepted = delivered \o queue`. It is what `Refinement` needs to
  see that the head of the queue is the next undelivered item; each step is
  then an `Accept`, a `Deliver`, a `Close` or a stutter of `BoundedFifo`.
* `NoLostWakeupCorrect`: inductive relative to `TypeOK` and `SleepInv`. The
  argument counts: an item added wakes a sleeper, who joins the awake
  (`EnqueueWakes`); a caller that leaves without an item leaves an empty queue
  or a shut one; a caller that leaves with one lowers both sides by one
  (`Shrinks`). `SleepInv` is needed for "the thread woken was not already counted".

`DPIEngineProofs`
* `TypeCorrect`: types part by part (`MainTypeOK` ... `QueueTypeOK`), including
  that no queue exceeds its size and that a thread has a packet in hand where it uses one.
* `NoPushAfterShutdownCorrect`: `Gone` says which threads have ended at each step of
  `stop()`, `StopOrder` which queues are still open; `JobsRead` that every packet on its way
  to a balancer was read, so that the target computed from its flow exists
  (`Targets`: `l * FpsPerLB + hash % FpsPerLB` is a fast path).
* `Passage`, the inductive invariant of the next three, follows every packet. Before the fast paths
  (`Pipeline`): it is on the path its flow's hash picks (`OnPath`), behind what came before it
  (`InLine`, `InOrder`), and if nobody judged it, in a queue or hand of that path or refused
  (`Somewhere`). Queues stay shut down for a second call of `processFile`, so packets are refused
  in the middle of the pipeline; `Refusals` says that no later packet of the same fast path can
  then be judged. Behind them (`Delivery`): what was forwarded is written, queued, in a hand, or
  refused by the output queue, and each fast path's packets are in order. Steps are proved on sets of packets first
  (`FlowingSend`, `FlowingPush`, `FlowingJudge`, ...), then for the queues and hands of each action.
* `QuietStopLosesNothingCorrect`: after a quiet stop nothing moves (`Silent`), so `Somewhere` and `Delivered`
  leave only judged and written packets.
* `FlowFilterImplemented`: a judgement is a `Judge` step, because an earlier packet of the flow (`SameFlow`) cannot be
  queued, held or refused behind it (`JudgedInOrder`); taking a packet from the output queue is a `Write` step;
  all other steps but the reader's stutter.
* `ConservationCorrect`: the stages exclude each other (`Exclusive`) and a number is once in a
  queue that is in order (`Place`), so `Where` has one element.
* `OnlyWriterMissedCorrect`: `RunsUntilStopped` says that a thread is there until it is told to stop. So a push finds
  the reader of its queue at work, but for the fast paths' once `running_` is cleared: the output
  thread is told to stop before they are. In a quiet stop no fast path has a packet to push (`Silent`). The run
  `engine_stop_hangs` shows that wait.
* `HalfTheFastPathsIdle`: with even sizes at both levels, the parity of the balancer is the parity of the fast path.

`FastPathProofs`
* `TypeCorrect`, relative to the table bound: `Evicted` makes room before a connection
  is added (`TableBound`).
* `StandingRuleEnforcedCorrect`: `CheckInv` says that a rule which matches the packet
  and stands since its lookup began is in a table the lookup has not yet passed; the
  property is the case of a lookup that has passed them all.
* `BlockedUntilClosedCorrect`: `BlockedInv` ties the history of blocked flows to the
  BLOCKED entries of the table, and `ReceiveOwn` says that a packet changes no entry but
  its own and the one it evicts.
* `RemovalJustifiedCorrect`: `SeenInv` says that an entry's `lastSeen` is when the flow's last packet
  came, so the code's own tests say what the property says of the history.
* `ClassificationStableCorrect`: `KnownInv` says that a connection with a name is CLASSIFIED or
  BLOCKED until it is closed, and a payload writes a name only in another state.

`RuleManagerProofs`
* One inductive invariant of six parts. `HistoryInv` and `ClearInv` follow a clear:
  a rule in force in a table it passed came into force since. `FileInv` and `SaveInv`
  follow a save: a table written holds what stood since the start and nothing that
  never was in force. `ReportInv` keeps what was reported in a file that is
  whole, across crashes; `LoadInv` says that a reported rule is still to be read, in force, or
  was lifted. `SaveFaithfulCorrect`, `ClearedStayGoneCorrect` and `LoadRestoresCorrect`
  are read off at the last step of the call.

* `WildcardMatches`, for names of any length: the end of a text is a suffix exactly when the text is
  something followed by it (`EndsWithFront`), and a pattern's parts are the name and the dotted
  name (`WildcardParts`). `SubdomainsFollow` rests on `EndsWithLonger`: a text put in front
  leaves the end alone.
* `RulesBlockSubdomainsCorrect`: the text of a name is the text of its first labels, a dot and its
  last label (`TextSteps`), and as labels have no dot, a text has one last label
  (`LastLabel`, `Peel`). By induction over the labels, one text ends with a dot and another, or is
  equal to it, exactly when the labels do (`TextsEndAlike`). Lower case goes through
  (`LowerTexts`), so what the patterns match is what `Below` says (`BelowEndsAlike`). The property
  speaks of the tables in force and holds in every state: it needs the types, and no step of its own.
* Induction over data, here and in `LiveStatisticsProofs`, is first-order: the least number of a set of
  counterexamples (`Induction`, from `NatLessThanWellFounded`), with the set given by its elements. That a
  recursive function exists is proved the same way (`TextsDefined`, `IteratedDefined`).

`PacketParsingProofs`
* One inductive invariant, stage by stage: `HeaderInv` (where `offset` stands after each
  header, and that the job's payload is the parser's), `InputInv` (the bytes each
  extractor was given end where the packet ends, and begin at the payload or up to four
  bytes before it) and `CursorInv` (`offset <= end <= length`). `AlwaysProgress` is a safety
  property that gives termination: stages go up, searches and cursors go forward
  within bounds.

`MtEngineProofs`, a chain of invariants, each inductive relative to those before it
* `TypeCorrect`.
* `NothingRefused`: `StopOrder` says, for each step of the stops, which threads are gone, which
  flags are down and that what a thread that is gone fed is not fed again; so no push meets a closed queue.
* `NobodyWaitsInVainCorrect`: with `RunsUntilStopped`, every wait for room is for a thread that has not ended, and every join
  for one that was told to stop; the output thread waits for nobody. It is the safety half of `ProcessReturns`.
* `Pipeline` follows a packet: it is on the path its flow's hash picks (`OnPath`), in
  one place at a time (`InLine`), behind those of its fast path that came before it (`InOrder`), and if nobody judged it yet,
  it is in a queue or a hand on that path (`Somewhere`).
* `ForwardedIsWrittenCorrect`: `Delivery` says that what a fast path forwarded is, in its
  order, in the file, then in the output queue, then in its hand. When all threads are
  gone, queue and hands are empty.
* `FileIsPrefixCorrect`: `Verdicts` ties a fast path's entry of a flow to the entry that the
  program with one thread had when it met the flow's next unjudged packet (`InStep`); `before`
  chains those entries (`Chained`), and `StepsAlike` shows that one packet takes entries that fit
  to entries that fit, with the same verdict. Its cases are what a name, a port or an earlier guess
  left in the entry (`ClassifiedAlike`).

`LiveMonitorProofs`
* `TypeCorrect`, relative to `InHand`: the vector grows only when it is full and a transaction waits.
* `OneCasePerOffenderCorrect`: `Remembered` says which addresses and names are in the
  detector's sets, those of the packet in hand included as far as the loop has come;
  `Carried` what the waiting transaction is about; `Opened` that transactions and waiting one together are the
  cases remembered, no two alike, and alerts the same but for the waiting one. The API thread changes a status and
  no case, so its steps keep all three.
* `ScanReportedOnceCorrect`: `Scanned` says that `scannedPorts_` is what the packets analysed so far went to, and that
  the sources over the limit are the remembered scanners and the alerts' sources. Ports are only
  added, so a count never falls below the limit again.
* `DecisionLandsCorrect`, `DecisionHitsFirstCorrect`: `Sought` says that a request has passed over other ids only, unless
  the vector grew under it, and that what the operator decides is among the transactions the request
  goes through. It rests on `VectorKept`: the vector only grows, names stay, and only `Write` changes a status. A
  vector that grew stays grown for the request (`storage` is never what it was), so the condition never turns true again.

`LiveStatisticsProofs`
* `TypeCorrect`: `FrameInv` says what holds of the counters at each step of a frame (a protocol's count may be
  one ahead of `counter`), `ListInv` that the list has no flow twice, which a flow put before another or a new
  order keeps (`InsertionPlace`, `InsertionKeeps`).
* `Sum` is a fold, so what it does for every table comes from the iteration it is defined by (`IteratedDefined`):
  two tables that differ at one key have sums that differ by as much (`SumChanged`), hence what counting a packet
  or its bytes does to the sums (`TableAdded`, `TrafficAdded`).
* `TablesAgreeCorrect`: `TablesInv` is the balance in the middle of a frame: the talkers
  have its bytes before the flow has, and an application has the packet before the flow has it again. A frame that is not
  IP enters no table, one without a name neither the applications nor its flow a second time. A protocol has the
packet before `taken` counts it (`InHand`); the protocols' total is `taken` unless packets of other protocols come, which
enter the other tables only.
* `ExportsCurrentCorrect`: `FileInv` says of each file, whether or not its last exports failed, that no flow has more
  packets in it than in the table, and that it lacks two for each frame since it was opened, one less while a named frame
  is between its two counts. A file whose last export did not fail was opened when one was due (`Since`): a frame that
  completes a multiple of `ExportEvery` ends in an export (`CountOn`). Between the two exports of a frame
  the flows do not change, so files opened together are equal; a file opened at one is behind one opened at a later.
* `ListingCompleteCorrect`: `ListingInv` says that each flow the listing began with is in the reply
  or ahead of the iterator (`Ahead`), that nothing ahead is in the reply, and nothing is there twice. An insertion
  keeps the order of the others (`OrderKept`), wherever it falls; reading and advancing pass one node
  (`AheadRead`, `AheadAdvance`).

Only model-checked: all liveness (`ShutdownReleases`, `TimedPopReturns`,
`ReaderFinishes`, `QuietStopCompletes`, `ProcessReturns`), which like ENABLED is out of the prover's
reach; what of it is safety is proved: nobody sleeps in a queue that was shut down (`SleepCorrect`), parsing goes
forward (`ProgressCorrect`), and who waits for whom (`NobodyWaitsInVainCorrect`, `OnlyWriterMissedCorrect`). Every other property of a passing run is a theorem.
The three runs that expect a violation are TLC's.

## 6. What the checks found

1. `engine_loses_forwarded`: the output thread's loop condition is true to the
   flag and to an empty queue, not to fast paths that still push. A packet counted as
   forwarded need not be in the file.
2. `engine_stop_hangs`: the fast paths are joined before the output queue is shut
   down. With the output thread gone and the queue full, `stop()` never returns.
   The real queue has 10 000 places, the run one. By `OnlyWriterMissedCorrect` no other wait is for a thread that has ended.
3. `fastpath_reopens`: RST, or ACK after FIN, turns BLOCKED into CLOSED before it
   is looked at; the flow is reclassified and forwarded under a standing rule.

Met while modelling, with no document to hold them against:

* `per_fp_counts_` is sized from a moved-from parameter and is empty
  (`load_balancer.cpp:67`). Compiled with g++ -O2, the program of `old_mains/main_dpi.cpp` dies at
  the first packet of `test_dpi.pcap`; `LbCrash` is that outcome.
* `dpi_mt.cpp` counts a packet neither as forwarded nor as dropped when it is still queued as the stops begin:
  half a second of sleep is all it is given. Its file is then a prefix, flow by flow (`FileIsPrefix`).
* `dpi_mt.cpp` calls a flow classified by an empty name and never looks again; it also takes a name
  from a UDP packet. `main_working.cpp` does neither, so the two may write different packets of such a flow.
* A wildcard pattern blocked twice, or blocked and then loaded, is in the vector twice;
  `unblockDomain` (`rule_manager.cpp:121`) erases one, and the pattern stays in force. The other three
  tables are sets, where one unblock suffices.
* `sniToAppType` takes the first row with a part that occurs anywhere in the name
  (`types.cpp:107`): `www.netflix.com` contains `x.com` and `www.microsoft.com` contains `t.co`, so
  both are Twitter and rules on Netflix or Microsoft miss them.
* A packet with a name enters its flow twice (`live_capture.cpp:270`); `TablesAgree` says by how
  much the tables differ for it.
* One hash is reduced at both levels (`load_balancer.cpp:75`, `:132`): with two balancers of two
  fast paths, FP1 and FP2 never receive a packet; `HalfTheFastPathsIdle` states it for all even sizes.
* Two transactions of one second share an id, so a decision about the second
  changes the first; the API answers success in any case (`api_server.cpp:606`).
  `DecisionHitsFirst` states exactly what a decision may change. If the vector grows while
  the decision looks for its transaction, it may change another of that second.
* `saveRules` returns true when the disk took part of the file only.
* `saveRules` reads its four tables under four locks (`rule_manager.cpp:253`), so the file can hold a combination of rules
  that was never in force at one instant: a rule lifted after its table was read beside one added to a later table.
  `SaveFaithful` speaks of each rule by itself, and holds.
* `isDNSQuery` is "a DNS query (not response)" (`sni_extractor.h:104`); the code tests the
  question count only. `extractQuery` returns the labels before a cut as a name.
* The port rules and the built-in malicious domains raise an alert per packet;
  `OneCasePerOffender` and `ScanReportedOnce` cover the alerts that are deduplicated.

`BlockedUntilClosed` is the part of 3 that does hold, `QuietStopLosesNothing` and
`QuietStopCompletes` the parts of 1 and 2.

## 7. What is not modelled

Text (addresses, names, the PCAP format, reports); the requests of the API that only read, but for the listing of the flows; the rule files of the
live monitor, read once before its threads start. `Config::queue_size` is ignored by the code and so by the model. A
write error of the output file is ignored by the code too: the packet counts as
written. A crash of the engine loses its memory and is not followed by a restart.
