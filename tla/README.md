# A TLA+ model of the economizer module

The repository holds one process of a larger daemon: the *economizer*, which
shortens a conversation's history before it goes to a model provider. It talks
to the daemon over a shared-memory bus (`server-go/bus`), serves stages
(`server-go/modules/economizer`), and the daemon's gateway uses it through a C
seam (`src/modules/economizer`). This directory models the parts of it that have
state, order or failure and its pure algorithms, checks them with TLC on small
instances, and proves with TLAPS what matters most of ring, module process, calls, attach,
spill store, gateway seam, reduce stage, history repair, recall table, planners, closet,
command recognition and task rail for every size.

Paths below are relative to the repository's root.

## 1. Inventory

| component | state | operations | interacts with | what is hard | correct when |
|---|---|---|---|---|---|
| ring and client (`bus/ring.go`, `client.go`, `region.go`) | slots, two wrapping indices, a held slot, the host epoch | emit, Poll, Detach | one producer and one consumer in different processes | no locks: atomic loads and stores, payloads handed out in place, wrap, restart | FIFO, no overwrite of a held payload, nothing wedged by a bad frame |
| module process (`bus/module_runtime.go`) | assemblies, jobs, `done` channel, reply in progress, cancel flags | connect, attach, serve, assemble, start, cancel, reply, drain | ring, host, handler goroutines | three kinds of goroutine and an unreliable host; waits inside a loop | stops when told, blocks nobody, answers what it started |
| module caller (`bus/module_caller.go`) | correlation, fragments sent, response so far | Call, send, awaitReply, Cancel | ring, host, module process | late answers, deadlines, lost cancels, partial sends | own answer or an error, in bounded time |
| caller attach and heartbeat (`bus/client_connect.go`, `client.go`) | socket, descriptors, mappings, ticker goroutine | ConnectClient, AttachAs, keepAlive, Detach | host, caller | partial failure, retries for ever, an idle caller that is reaped | nothing leaked, slot kept while idle, ends with its context |
| codecs (`bus/wire.go`, `module_protocol.go`) | none | encode, decode | all of the bus | field layout | round trip |
| spill store (`condense_apply.go`) | a directory of files shared by processes | TCApply, eviction, write, TCRecall | file system | crashes, races on names, stale listings | a readable ref holds the whole output |
| condensation (`condense_recognize.go`, `condense_family.go`, `condense_primitives.go`, `register.go`) | none | TCRecognize, line filters, families | TCApply | wrappers and options before a command; what a filter drops | one known command; no failure hidden, no line dropped silently |
| closet (`closet.go`) | a set of coordinates | NominateInto, RenderCloset | fold, recall, eager | overlapping matchers, a byte budget, order | identifiers whole, same bytes in any order, losses announced |
| eager seam (`eager.go`, `compact.go`) | none | CompressToolResult, CompactBody | closet | several caps at once | within the cap |
| history repair (`repair.go`) | none | MessageHistoryRepair | gateway verdict, resend | three provider formats, repeated ids | well formed after one pass |
| fold and compress (`fold.go`) | the freeze: boundary, digest, epochs | CompressView, FoldView | reduce | two levers over one history; stale freeze | tool pairs whole, tail verbatim, boundary stable |
| reduce stage (`reduce.go`, `module.go`, `gateway.go`, `state.go`) | saved state of the conversation | handleReduce, GWShouldApply | fold, recall, repair, gateway | history rewritten or state lost between turns | as above, over many turns |
| recall table (`recall.go`, `state.go`) | keys and the turn each was last hinted | Add, Detect, Serialize, Restore | reduce | a clock that must survive eviction, cap and restart | no recorded hint repeated within the TTL but for the cap, nothing forgotten early |
| gateway seam (`gateway_mutate_wire.c`, `gateway_mutate.c`, Go port `gateway_wire.go`) | per request: pristine copy, provenance; shared: breaker, state rows | mutate, after-status, stream frames | module client, upstream | overlapping requests of one session, resend, streams | pristine resend, fair breaker, no state across conversations |
| C module client (`economizer_module_client.c`) | none kept | reduce, compact, recall, stats | bus | every failure must leave the caller's array alone | fail open |
| JSON (`json_compact.go`, `cjson.go`, `jsonval.go`) | none | validate, compact, scan, print | all stages | a copy that tracks strings apart from the parser | tokens preserved |
| proofs and planners (`proof.go`, `planner_openai.go`, `planner_anthropic.go`) | none | ProofEvaluate, OpenAIGPT56Plan, AnthropicPlanFor | callers outside this repository | overflow, price tiers, untrusted counts, order of refusals | accepted means cheaper |
| task rail (`rail.go`) | steps and their states | Start, Reserve, Ack, Next, Serialize, RestoreRail | sessions that share a document | double claims, stale and damaged documents | done means acknowledged, but for a number that truncates to done |
| auxiliary stages (`module_aux.go`, `module_record.go`, `provenance.go`) | counters | framing | module process | layout | round trip |
| policies (`budget.go`, `episode.go`) | none | pure decisions | callers outside this repository | edge cases | documented rules |

`PROJECT.json` lists the hazards of this code with the line where each bites and
the property that covers it, or why none does.

## 2. Modules

| module | models | uses |
|---|---|---|
| `FifoChannel` | what one direction of a queue pair promises: a bounded FIFO whose oldest element may be held | |
| `Ring` | ring, `emit` and `Poll`, one atomic load or store per step | refines `FifoChannel` |
| `ModuleRuntime` | the serve loop, handler goroutines and the reply path | |
| `ModuleServe` | a whole module process (connect, attach, serve, detach) against an arbitrary host | `ModuleRuntime` |
| `RuntimeProofs` | lemmas about every step of the loop, a handler or the environment, and the proofs about a module process | `ModuleServe` |
| `ModuleCall` | callers, host and serve loop end to end | `ModuleRuntime` |
| `CallProofs` | proofs about calls | `ModuleCall`, `RuntimeProofs` |
| `SpillStore` | the spill directory, one system call per step | |
| `SpillProofs` | proofs about the store | `SpillStore` |
| `CallerLink` | a caller's connection: dial, attach step by step, heartbeat, detach, and a host that reaps | |
| `BusProofs` | the TLAPS proofs about ring and connection | `Ring`, `CallerLink` |
| `Repair` | message formats and history repair as operators | |
| `RepairProofs` | lemmas about folds over sequences, and about history repair | `Repair` |
| `Planner` | cost proofs and the two planners as operators | |
| `Nominate` | the identifier matchers and their scan over character classes | |
| `Closet` | rendering of the closet, body compaction and the eager seam, on lengths | |
| `Condense` | command recognition, line filters and families | |
| `JsonCompact` | JSON validation as a character machine, and the compacting copy | |
| `TaskRail` | the rail's operations, its document and its damages | |
| `Algorithms` | applies each of these operators to every small input | the seven above |
| `Fold` | CompressView and FoldView as operators | `Repair` |
| `ReduceSession` | a conversation through the reduce stage | `Fold` |
| `ReduceProofs` | proofs about the reduce stage | `ReduceSession`, `RepairProofs` |
| `RecallTable` | the recall page table over the turns of a conversation | |
| `AlgorithmProofs` | proofs about history repair, planners, proof records, closet, eager seam, command recognition, task rail and page table | `Algorithms`, `RecallTable`, `RepairProofs` |
| `Gateway` | concurrent requests through the gateway seam | |
| `GatewayProofs` | proofs about the seam | `Gateway` |
| `MC*` | values for the constants that a `.cfg` cannot write | |

### How state and actions correspond to the code

* **Ring.** `head`, `tail` are the shared words (modulo `IndexMod`, 2^64 in the
  code), `slots` the mapping. `EmitBegin` is `ProduceBegin` with its two loads,
  after which the slot is `Garbage` until `EmitCopy`; `ProduceCommit` publishes.
  A `Poll` is up to two steps: `PollRelease` gives back the slot of the previous
  event, then one of `PollEmpty`, `PollDeliver`, `PollDiscard`. `sent` and `seen`
  are history variables. Go's atomics are sequentially consistent, which is why an
  interleaving of the loads and stores is the right memory model.
* **ModuleRuntime.** `pc` is where the loop stands: at its top (context, finished
  work), at the poll, inside `replyModuleResult`, draining, or returned. A handler
  goroutine is the `running` flag of its job plus `HandlerReturns`, which applies
  the cancel flag and the deadline and then sends on `done`. Time is the set
  `expired` of calls whose deadline has passed; `now` is the part of it the loop
  saw when it read its clock. A fragment carries its position in its request, so
  a body shows which fragments it was made of, and `valid` stands for the checks
  on stage, header and operation. Every refusal of the code is an action of its
  own (`RejectInvalid`, `RejectAssembly`, `RejectOversize`, `RejectExpired`,
  `RejectBusy`). After a cancelled context the loop drains `done` (`DrainResult`,
  `DrainEnds`).
* **ModuleServe.** `link` is the life of the mappings. A refused connection is
  retried, which changes nothing; an accepted one waits for the host's reply to the
  attach, which has no deadline; any other failure ends the process
  (`ConnectFails`), silently if the context has ended. The handler is always there:
  `main.go` sets it.
* **CallerLink.** `sock`, `open` and `mapped` are the socket, the received descriptors
  and the regions held, `fds` and `kept` what the code knows of them. Each branch of
  `AttachAs` that fails is an action of its own and gives back what that branch names
  (`closeAll`, one `Munmap` or two, `Detach`). The host may send any number of
  descriptors, in a control message that parses or not; the descriptors of one that does
  not parse stay open (`unread`, `client.go:317`), and `ReturnLeaksNothing` excepts exactly
  these. Time passes in ticks:
  `countdown` and `pending` are the ticker and its channel of one, `late` how long
  the client has been due to run, `age` how old the heartbeat is that the host sees.
  The context may end while a tick waits, and `select` then takes either.
* **ModuleCall.** Adds the callers. The host is external: it keeps the order of
  frames, gives each call a correlation of its own and answers for a module that
  has gone. The rings are sequences with a number of slots; `Ring` justifies that.
* **SpillStore.** Names map to inodes, so two writers of one name share one file.
  `tcSpillEvict` sorts its listing by time with `sort.Slice`, which is not stable, so
  files of one age come in any order. Its errors are steps of their own: no listing
  (`EvictBlind`), entries without size (`missed` in `EvictList`), a file that stays
  (`EvictFails`). `ReadDir` and the `Lstat`s after it are one step. `unseen`, `stuck` and
  `spared` are history: what an eviction did not see, could not remove, and has left
  outside the budget in the end. Every step of `tcSpillWrite` may fail. A power loss
  stops all workers and may empty any file that was not synced.
* **Repair, Fold.** A message keeps its role, its shape, the call ids it makes and
  answers, whether it has text, whether its arguments parse, a revision of its
  text and the size class of its body. A rendered text is represented by what it
  is rendered from and the digest by the digested messages; hash collisions are
  left out.
* **The pure algorithms.** `Algorithms` picks one, builds its input (element by
  element, or from a set of records) and applies it in one step; the invariants speak
  of input and output. Inputs keep what the code tells apart: a text is a sequence of
  character classes; a command line a sequence of words, one for each kind the
  recognizer treats alike; a line of output is a failure, a summary, a passing case,
  blank or redrawn; a JSON document is put together from characters and members; a
  request to a planner is the cache layout parsed from it, its token counts and
  prices (a stated output limit is an integer here; what `uint64(v.Num)` makes of other
  numbers is left out); a closet's texts are their lengths. Limits of the code (64 hex digits, 24
  words, depth, members) are constants and small. Money overflows at `MaxMoney`.
  The properties compute with unbounded integers, so a wrapped sum shows.
  The release's `productionRegistry` is empty and authorizes nothing; the run
  registers two keys so that the authorizing branch is reached.
* **ReduceSession.** The client grows its transcript through turns of a tool loop
  (answered and interrupted calls), may rewrite a message and may go back to an
  earlier one and continue from there; each request runs
  compress, fold, hint and verdict, and saves the state or fails to. What a
  comparison of token estimates says is left open, as is whether a hint surfaced.
  The freeze guard is computed from prices. `st.Reduced` is not part of the saved
  state, so it is false when a request begins.
* **RecallTable.** Which coordinates a text holds is chosen freely; texts are taken
  in every order because the order decides who survives the cap. `recent` is what the
  last TTL - 1 requests hinted, saved or not; `hintedAt` and `evicted` are what the code
  can know: the hints and evictions of saved requests, nothing after a lost row.
* **TaskRail.** A document keeps what `RestoreRail` looks at: whether it is an object,
  whether its steps are there and an array, and of each step whether it is an object and
  what its state is, in halves because the code truncates. Titles and evidence that are no
  strings are left out.
* **Gateway.** A request is a thread: snapshot, load of the state row, reduce, save,
  send, answer. Verdict and reach of the module are free choices, so the properties
  hold for every behaviour of the reducer. The breaker and the store of rows are
  the daemon's and external; both are modelled by their use.

## 3. Runs

All bounds are CONSTANTS. `CHECK_DEADLOCK FALSE` is set in every configuration:
processes exit, calls are used up and conversations end at their bounds.

| run | instance | shows |
|---|---|---|
| `ring` | 2 slots, indices modulo 4, 3 frames of which 1 does not decode, 6 sends | refinement of the channel, order, stability of the held payload, delivery. The indices wrap and the ring fills more than once |
| `module_serve` | 2 calls, 2 in flight, 3 frames of any kind, 1 reply slot | every started handler is running, unread or answered once; a nil return leaves no goroutine; the process stops after its context ends or the host restarts |
| `caller_link` | a beat every 3 ticks, window 11, 1 tick late, 2 beats missed | every failed connection gives everything back, an idle caller is not reaped, the context ends attempt and heartbeat |
| `module_call` | 1 caller, 2 calls with deadlines, the first in 2 fragments, all rings of 1 slot, 1 handler | `done` never blocks, whole requests, own answers, no orphaned assembly, effective cancel, every call returns |
| `spill_store` | 2 processes, 4 outputs of 1 byte, budget 1, 4 operations, 1 error of an eviction, 1 power loss (which takes the place of an operation) | readable refs are whole and durable, recall is exact, overshoot bounded beyond what the error left |
| `algorithms` | histories of 4 messages in 3 shapes, texts of 5 characters, 4 coordinates under 8 budgets, command lines of 4 words, outputs of 5 lines, 5 rail operations, JSON of 6 pieces, some thousands of plans, proofs and tool results, money that overflows at 250 | see below |
| `recall` | 3 coordinates, room for 2, TTL 3, 4 turns | a hint on record is not repeated within the TTL, whatever is evicted again, ranked, saved and restored, unless the cap pushed it out |
| `reduce` | 7 messages, 3 requests, 1 rewrite, rewind or loss, retained 2, minimum fold 2, tail cap 3 | honest reuse, whole pairs, verbatim tail, stable boundary |
| `gateway` | 4 requests, 1 identity with 2 conversations, statuses 200, 400, 429, 500, 1 stream | resend, breaker, isolation, completion |

What `algorithms` shows, for every such input: a repaired history is paired
(`RepairedIsPaired`) and a second repair changes nothing (`RepairIsIdempotent`); a
plan or proof is accepted only if it is cheaper in exact arithmetic, from local
counts, for OpenAI on a certain side of the price threshold (`AcceptedIsCheaper`); a hash that
stands alone is nominated and none is cut out of a longer token
(`IdentifiersAreWhole`); a closet is within its budget, announces what did not fit
and does not depend on the order of nomination (`ClosetAccountsForAll`); a compressed
result with its closet is within its cap, unless that leaves the closet no budget (`EagerWithinCap`); a recognized line has
one bare known command behind wrappers, assignments and options only, and no operator
in the part that is read (`OnlySimpleCommands`); condensed output accounts for
every line and keeps failures with what follows them (`NothingHidden`); a rail's
steps are claimed once, stay done and survive saving, damage and restoring, except that
a number that truncates to done is taken for it (`PlanSurvives`); compacted JSON has the tokens of the original
(`CompactKeepsTokens`).

Why these bounds: each property is broken by a small edit of the definition it is
about (the `mutants` of `PROJECT.json`) inside the same bounds, so the case it
speaks of does occur. The ring needs more sends than slots and than index values; the
serve loop needs room for two to have one started twice; the caller needs one more
call than fits and a second call after one that was given up; the link's window is
the smallest that the missed and late beats leave; the store needs four outputs, one
more than budget and writers allow (that a file which cannot be removed stays in the
total shows only with two errors, and is part of theorem `Overshoot`); the page table
needs more coordinates than room and more turns than the TTL; the fold needs two turns
after the one that pins. Section 4 says which of these results hold for all sizes.

Symmetry is used only in `spill_store`, which checks safety, over workers and refs. No run checks a type invariant: types are
part of the invariants that are proved.

### What the code does otherwise than it says

Three runs expect a violation of a sentence in the repository.

* `module_call_truncated`: `bus/client.go:232` says that More "keeps the
  correlation in the request-assembly state until a final fragment arrives". A
  first fragment that finds `moduleMaxInFlight` assemblies open is refused and
  forgotten (`module_runtime.go:376`); if room appears before the last one comes,
  that one is taken for a whole request and the handler runs on it. The caller has
  an `Internal` reply by then and does not take the second answer, so what is lost
  is the work and, for a stage with effects, its correctness. The JSON stages
  refuse such a body as malformed.
* `spill_same_process`: `condense_apply.go:183` says that a partial write "is never
  promoted to a readable ref" and relies on the PID in the temporary name. Two
  goroutines of one process share it. `TCApply` has no caller inside this
  repository, so how it is called is not known here.
* `reduce_freeze`: `fold.go:318` says the compress note "costs nothing" at the tail.
  It counts as messages there and is a clean user turn, and compressed bodies
  change the digest, so with compress, fold and closet on together the boundary is
  not reused on the next turn. Without the closet it is (`reduce`): everything
  before the boundary is compressed already when it is pinned. For the same reason
  the note takes a place in the band that the fold retains, and with all three on
  one message fewer than `RetainedMsgs` stays verbatim.

Other disagreements met while modelling, without a run of their own:

* `fold.go:23` says RetainedMsgs is the number of "trailing messages kept at full
  fidelity". A boundary is reused when it lies inside the transcript and its digest
  matches (`fold.go:451`); how much is left behind it is not asked. With two retained, a
  boundary at 4 of 7 messages and a client that goes back to its fifth, one message is
  kept. `RetainedVerbatim` therefore promises, behind a reused boundary, what lies
  after it; while the client only appends that is never less than the band.
* `eager.go:93` and `:111` say that body and closet never exceed the cap. When the cap
  leaves the closet no budget, or the configured budget is zero, that zero is taken for
  the default of 2048 bytes (`eager.go:99`, `closet.go:501`), and the closet can exceed
  the cap by itself.
* `condense_recognize.go:229` says "Any path-prefixed invocation is OPAQUE", so that a
  script which merely has a known name keeps its output. Only the token that is left
  after unwrapping is tested; wrappers are known by the last element of their path
  (`:184`), and `./time npm` is recognized. The run has such words; `OnlySimpleCommands`
  takes wrappers as the code does.
* `planner_openai.go:11` says "Everything it cannot prove locally becomes a refusal
  reason rather than an assumption"; a request without an output limit is costed as
  if it produced none (`planner_openai.go:227`, `planner_anthropic.go:140`), and two
  requests that state none agree on it. `AcceptedIsCheaper` leaves their output out.
* `condense_recognize.go:39` says a line with "a shell COMPOUND operator, a command
  substitution" is refused; an operator after a redirect, after the last token that is kept, or inside a word is not looked at.
* `condense_primitives.go:87` says "Never drops a line that carries text"; a line
  that ends in a carriage return is resolved to what follows it, which is nothing, so
  CRLF output loses its text. The model's "redrawn" line stands for it.
* `rail.go:147` says "An out-of-range state normalizes to PENDING — the safe direction,
  since treating an unreadable state as DONE would silently drop work". The number is
  truncated first (`:176`), so 2.5 is DONE. A document without `steps` is accepted
  (`:159`) and replaces the live plan by an empty one.
* `recall.go:8` says the TTL is "how many turns must pass before the same coordinate is
  surfaced again". A hint whose request's state was not saved, or whose row was lost or cut
  by the cap since, is not known and may be repeated at once.
* `gateway_mutate_wire.c:35` says "Hashing the first message separates conversations"; two
  conversations of one identity that open with the same message share a row. The runs give
  each its own opening.
* `docs/modules/economizer.md:157` says a "payload-class `4xx` restores the pristine array
  and resends once"; code and model do it on every 4xx, 429 included
  (`gateway_mutate_wire.c:351`).
* `closet.go:300`: a reference ends after its digits although the token goes on
  (`#1a2b`), and what is left of the token is no longer at a boundary.

### Fairness

* `Ring`: an `emit` that has begun finishes and the consumer keeps polling; both are
  straight-line code. Producers need not send.
* `ModuleServe`: weak fairness of the loop, of the handlers and of the connection
  attempt once the context has ended. None of the host, which may stop taking
  replies: that is what the liveness properties are about.
* `CallerLink`: the client's goroutines run; strong fairness of the retry's look at the
  context, since a `select` that finds it finished before its timer, or chooses at
  random, does not overlook it for ever. None of the host: it may refuse for ever, or
  accept and never answer, which is the one wait `ContextEndsLink` and
  `ContextStopsServing` stop at.
* `ModuleCall`: callers, host and loop keep running and time passes. **No** fairness of
  handlers: nothing in the code bounds them, and a call must return all the same.
* `Gateway`: a thread goes on, and the upstream answers or its connection ends.

## 4. Proofs

Each `*Proofs` module proves theorems about one specification for every value of its
constants that satisfies the named assumption of its module. The pattern is one: an
inductive invariant, a lemma that the initial states have it, one lemma (or step)
per action that keeps it, and the properties as its consequences. Where a theorem
has a hypothesis of its own, a run shows that it is needed or an instance of a
passing run satisfies it, and both are named below.

| theorem | property | hypothesis beyond the module's assumption |
|---|---|---|
| `FifoDelivery`, `HeldPayload`, `TypeCorrect` | `InOrder`, `HeldPayloadStable`, `TypeOK` | |
| `RingIsChannel` | `ImplementsChannel` | |
| `ServeDone`, `ServeAccounts`, `ServeCleanExit`, `ServeTypes` | `DoneNeverBlocks`, `HandlersAccounted`, `CleanExitLeavesNoHandler`, `TypeOK` | |
| `CallDone`, `CallResponse`, `CallAssemblies` | `DoneNeverBlocks`, `ResponseIsOwnAndInOrder`, `NoOrphanAssembly` | |
| `CallWhole` | `HandlerSeesWholeRequest` | `RoomForLong` |
| `NoLeak`, `SlotKept` | `ReturnLeaksNothing`, `IdleCallerKeepsSlot` | |
| `PromotedWhole`, `RecallExact`, `Overshoot` | `PromotedIsWhole`, `RecallIsExact`, `BoundedOvershoot` | `OwnProcesses` |
| `ResendPristine`, `BreakerFair` | `ResendIsPristine`, `BreakerTripsFairly` | |
| `StateOwn` | `StateStaysInConversation` | `OpeningsTellApart` |
| `ReuseHonest` | `ReuseIsHonest` | |
| `FreezeHeld`, `RetainedKept` | `FreezeHolds`, `RetainedVerbatim` | `NoteAfterFold` |
| `PairsSurvived`, `ResultsNextToCalls` | `PairsSurvive` (`ResultsNextToCalls` is about the client's transcript) | |
| `RepairedPaired`, `RepairIdempotent` | `RepairedIsPaired`, `RepairIsIdempotent` | |
| `AcceptedCheaper` | `AcceptedIsCheaper` | |
| `ClosetAccounts`, `EagerBounded` | `ClosetAccountsForAll`, `EagerWithinCap` | |
| `RecognizedSimple` | `OnlySimpleCommands` | |
| `PlanOutlives` | `PlanSurvives` | |
| `ForgottenFull`, `NeverThrashes`, `RecallTypes` | `ForgottenOnlyWhenFull`, `AntiThrash`, `TypeOK` | |

**Ring** (`FramesAssumption`: undecodable frames are frames, the contents of an
unwritten slot is none; `GeometryAssumption`: at least two slots, more index values
than slots and a multiple of them, which is what a power-of-two capacity and a 64-bit
index give). Order depends on what the occupied slots hold, and that on the indices
being where the number of frames says, which the wrapped indices do not show.
`IInv` ties them to *totals*: with `Released` the number of slots given back, `head`
is `Len(sent)` modulo `IndexMod`, `tail` is `Released` modulo `IndexMod`, at most
`Capacity` frames lie between, and the one being written has a free slot (`IndexInv`);
the slot of every frame between is that frame's (`SlotInv`). The arithmetic (a
difference of totals can be read off the wrapped indices; two totals less than
`Capacity` apart have different slots) is proved once, in lemmas about `%`.
`RingIsChannel` is the refinement of `FifoChannel`: the contents of the channel are the
slots from `tail`, so committing is its put, a poll that takes a frame its take, and
the release of the held slot the step that frees the place; every other load and
store is a stutter.

**Module process** (`RuntimeAssumption`). A job enters `done` once, when its handler
returns, and leaves `jobs` and `done` together; so `done` lists finished jobs without
repetition (`DoneInv`), which bounds its length by the number of jobs, and a
handler that was started is found again in exactly one of `jobs`, the reply under
way and `answered`. `HandlersAccounted` alone is not inductive: without `DoneInv` a
repeated result would be counted twice. `RuntimeProofs` has one lemma for each step;
its last part adds the connection, before which there is no job, and `CallProofs` uses
the same lemmas under callers and host.

**Calls** (`CallAssumption`). The frames of one call queue up behind each other twice, in
its caller's ring and in the module's inbox, in the order they were sent: fragments,
then the cancel (`LineInv`). So the module meets them in order, holds a partial request
only of a long call whose second fragment is still to come (`PartialInv`), and starts at
most one handler for a call (`FreshInv`). One handler makes one response, whose parts
pass the outbox and the caller's ring in order and continue what the caller has without
a gap (`AnswerInv`). `RoomForLong` says that the module may assemble every long request
at once; `module_call_truncated` has room for one of two and reaches the truncated body.

**Caller's link** (`LinkAssumption`: the window covers one interval for each missed beat
and one more, and two latenesses; a client is late by less than an interval). The
invariant says what is open and mapped at each point of the attach, and bounds the age
of the heartbeat by the missed beats, the ticker's phase and the time a tick has
waited. That the waiting time equals the ticker's phase is the point: without it, or with
a lateness of a whole interval, each missed beat could cost the lateness again.

**Spill store** (`SpillAssumption`). The argument is ownership of inodes: no inode has
two names, the one a worker writes has the worker's temporary name and no other; so
neither a published file nor one that a reader has open is written again, and a file
has its name only after it was synced. `OwnProcesses` says that workers have PIDs
of their own; `spill_same_process` shows what happens without.
`BoundedOvershoot` speaks of the files that the last evictions of the workers have not left
behind for an error. It says nothing of what led to the state, and what the workers believe of
the directory (`total`, `files`) is stale as soon as another publishes or removes a file.
The proof adds the times of each worker's last listing, failed listing and rename (`DebtInv`).
Take the latest listing after which a worker finished its eviction: its total was within
the budget, or all that it had listed was gone but for what would not go (`saved`); and
since then every worker has published at most one file, because it would have listed again
before a second, or has failed to, which excuses that file (`blind`). A file that stays is
kept in the total, so the total never falls below what it stands for. The listings
under way keep the same promise about their own time. The sum of a set of files is the
library's, by recursion on a set; that it takes its elements in any order, and
is bounded by the largest, is proved first, by a least counterexample.

**Gateway** (`GatewayAssumption`). `RequestInv` says what `ctx->mutated` stands for: the body
is the reducer's, the snapshot is held, the breaker was closed when the request
began, and the request has neither tripped it nor been resent. Clearing the flag in
the step that trips the breaker makes a trip, and a resend, happen once.
`OpeningsTellApart` says that the conversations of one identity open differently: the
code keys the saved row by identity and opening message.

**Reduce stage** (`FoldAssumption`, `LeversAssumption`, `RatesAssumption`). `ReduceInv`
says that a boundary is pinned with the digest of what it folds; that is enough
for `ReuseHonest`. `FreezeHeld` needs more (`FrozenInv`): while the client only appends,
the stored digest is still what the levers make of the first messages, because
compression reaches no further than the retained band and the boundary lies before it, and the
message after it still begins a user's turn. `RetainedKept` follows the last
messages through compression, fold and the notes behind them. `NoteAfterFold` excludes
compress, fold and closet together, where `reduce_freeze` shows both to fail.
`PairsSurvived` holds for every configuration. In what the client says, a result answers a
call of the message right before it, and every message makes calls of its own (`Adjacent`,
kept by every step of the client). The boundary lies before a message that begins a user's turn
and answers nothing, so no pair lies across it; compression keeps the calls and results
of a message, and the notes have none. The verdict drops a view whose repair would change
it: a repair that counts nothing has every call answered (`UnrepairedIsAnswered`), and
a view whose calls are answered needs none (`PairedNeedsNone`).

**Algorithms and recall table** (`InputsAssumption`: counts, limits and guards are naturals,
prices and amounts integers; `EntriesAssumption`, `ClosetAssumption`: so are the fields of
coordinates and the lengths of texts, and the reserve of the eager seam is more than the
line break before a closet; `PlannerAssumption`, `CondenseAssumption`; `ShapesAssumption`:
a history is written in one of the three wire formats). The code loops
here, and the provers have no induction over data; each argument about a loop is by the
least counterexample instead. A set of positions that holds 0 and the successor of each
of its members holds them all (`Upwards`), because otherwise the complement, a finite
set below some bound, had a least element. With that a fold is followed
through its prefixes (`FoldExists`, `FoldPath`). These lemmas are in `RepairProofs`.

* *History repair.* Sanitizing and repairing a history of one wire format leaves one
  (`Letters`). Answering a call adds one result, of that call, in a message of its own or in the
  block message that follows (`AnswerAdds`, `AddsOne`); the calls are listed once
  each, so a call that had no result gets one. Dropping orphans keeps the order, and
  whatever is kept has a place of its own in what was there (`IsTrace`, `Selects`), so no
  result is counted more often than before. What comes out is `WellFormed`, and a
  well-formed history is left as it is (`WellFormedStays`), which is idempotence.
* *Planners.* The refusals of a planner are one list of conditions, and an accepted plan
  meets none (`NoRefusal`). So counts are local and cover both requests, rates are valid,
  the guard around a count does not reach the price threshold, and no sum or product
  overflowed; checked arithmetic that did not overflow is exact (`MoneyAdd`, `MoneyMul`),
  and what is left is an inequality between integers.
* *Page table.* `ForgottenOnlyWhenFull` is not inductive: it speaks of the saved
  table, which is written from entries ranked and cut after hints were found. `RowInv` says of each
  coordinate with a hint on record that either its entry carries the right clock, or at
  least `MaxKeys` others were hinted no earlier. Ranking by clock is a permutation,
  so the cut drops the oldest and keeps the second half true. `RecentInv` ties that record
  to what was shown: a hint of the last TTL - 1 requests whose request was saved, and whose
  row was not lost since, is on record at its turn or a later one.
* *Closet.* What is rendered is the longest prefix of the ranked coordinates whose
  lengths fit. Entries are told apart by lane and value, so their order is total and
  sorting leaves one sequence for every order of nomination (`Ranks`); the
  budget is kept because the header with the announcement is charged whenever
  something was left out. The eager seam takes the closet first and gives the body the rest.
* *Recognizer.* Each walk (over assignments, wrappers, their options) is the least
  position that ends it. What has been passed is therefore known: no operator before
  the redirect, and the word after `sudo -u` was taken for the option's argument.
* *Task rail.* One lemma says what an operation may do to the steps. A step that is claimed twice
  had to leave its state in between, which only a new plan or a restored document does; the saved
  document is the one of the last save, also across saves in between; and done, in
  the rail and in the document, was acknowledged earlier, with that title, or was read from
  a damaged number that truncates to done.

What the proofs changed in the models: `CallerLink` states that a client is late by less
than an interval (without it `IdleCallerKeepsSlot` is false at larger instances);
`SpillStore` sorts files of one age in any order and keeps PIDs apart from the suffix
of outputs, and is used with at least one ref; the client of `ReduceSession` may go back in its history, which showed what
`RetainedVerbatim` can promise behind a reused boundary; the sets of calls and bounds are
finite, as the code's are; `CASE` with overlapping guards in `Planner` and `JsonCompact`,
whose value TLA+ leaves open, became chains of `IF` in the order of the code; the planners' refusals and the
ranking of the page table have names; the inputs of `Algorithms` state what numbers they are made of;
`ClosetAccountsForAll` quantifies over the bijections of the coordinates' positions;
the id sets of `Repair`, its answering and its dropping are folds, in the order of the
code's loops, and repairs and occurrences are counted as sets of places.

Only model-checked:

* every liveness property (`EverySentFrameIsSeen`, `ContextStopsServing`,
  `RestartStopsServing`, `CallReturns`, `ContextEndsLink`, `RequestCompletes`) and
  `CancelStopsWork`: fairness and `ENABLED` are out of the prover's reach;
* `IdentifiersAreWhole`, `NothingHidden` and `CompactKeepsTokens`: each compares the
  result of several nested folds over characters or lines with another pass over that
  result, which would need each fold followed through its prefixes.

## 5. Not modelled

* Byte layouts: the codecs of the bus and of the auxiliary stages, which keep no
  state and have no control worth a model; the tree parser and printer of JSON
  (`cjson.go`, `jsonval.go`); UTF-8, surrogates, number grammar and size limit of the
  compactor, which is abstracted to classes of characters.
* `budget.go` and `episode.go`: arithmetic and text without callers here.
  `register.go`: a table filled at start.
* What makes a value a secret (`IsSecret`): a coordinate is secret or not.
* The wording of skeletons, notes and markers.
* A heartbeat that hits the region after `Detach` unmapped it is reachable in
  `CallerLink` (`BeatUnmapped`). No property forbids it: nothing in the code says
  that it cannot happen, and who calls `Detach` is outside this repository.
* Measure-only mode, the delegate seam and token ledger of `Reduce`: they change
  no state. Telemetry counters.
* A configuration without handler, and a failing restore in `gw_replace_messages`,
  which only lack of memory causes.
* Two overlapping turns of one conversation lose one of two state saves and can set
  the turn counter back (`gateway_mutate_wire.c:71`). `Gateway` has this behaviour;
  no property forbids it, since the code promises nothing about it.
* An Anthropic history that has lost all of its `tool_use` blocks is taken for
  OpenAI and keeps its orphans; the last part of `RepairedIsPaired` is
  stated for the histories whose shape `detectFormat` recognises.
* Histories that mix wire formats: no client writes one. If the orphan that decided the
  format is dropped, a second repair of such a history would go by the next message that
  decides, so the idempotence that `repair.go:399` states is of one format.

## 6. Plan

Done: every component of section 1 that has state or order, as far as section 5 says,
and the proofs of section 4.

Next, in this order:

1. Proofs of `IdentifiersAreWhole`, `NothingHidden` and `CompactKeepsTokens`.
2. Overlapping turns of one conversation in `Gateway` composed with `ReduceSession`:
   what a lost save costs.
3. The C client's other stages: fail open on every malformed reply.
