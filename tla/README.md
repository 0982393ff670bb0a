# TLA+ specifications of TCS

TCS is a small capability system for seL4/Microkit: a policy server that decides
every access, an audit server that records every decision, a signed
administration path, and experimental libraries that contain and replace worker
domains. This directory holds TLA+ models of its core, the TLC runs that check
them on small instances, and TLAPS proofs that hold for every instance.

Paths below are relative to the repository root.

## Inventory

| Component | State it keeps | Operations | Talks to |
|---|---|---|---|
| lifecycle (`lib/lifecycle.c`) | two one-use slots with incarnation, work counters, stop and drain confirmations | `tcs_lc_apply` (eight events), `tcs_lc_allows` | its single owner |
| reduction latch (`lib/reduction.c`) | a lifecycle, the inhibited slots, an input fault; one shared mailbox word | poll, apply, stop mask, gate; publish, sample | owner, and writers of the mailbox |
| deadline wrapper (`lib/deadline.c`) | a latch, last tick, clock fault, one end per slot | poll, apply, stop mask, gate | owner, clock adapter |
| policy core and server (`lib/policy.c`, `servers/policy.c`) | per subject: state, generation, object, rights | grant, check, revoke, quarantine, restore, self-status | console (ch 0), storage (ch 1), audit (ch 2) |
| audit (`servers/audit.c`) | up to 64 records | append, count, get | policy, console |
| storage, client (`servers/storage.c`, `servers/client.c`) | none | read, status, forwarding | policy; storage |
| console (`servers/console.c`) | test bookkeeping | a fixed script of calls | policy, client, audit |
| signed admission (`lib/admin.c`) | context, next and pending sequence, exhausted | init, admit, complete | administrator server |
| conditional policy, receipts (`lib/admin_policy.c`, `lib/admin_receipt.c`) | none | compare-and-apply, receipt validation | signed policy server, administrator, terminal |
| administrator and signed policy servers (`servers/launch_admin.c`, `servers/admin.c`, `servers/admin_policy.c`, `include/tcs/admin_server.h`) | the above, execution sequence | submit, execute | terminal, boot server, audit |
| boot server, launch context, fw_cfg (`servers/launch_boot.c`, `lib/launch.c`, `lib/boot.c`) | the context bytes | read, decode, hand out | firmware, administrator |
| serial, line editor, signed input, terminal (`lib/serial.c`, `servers/serial.c`, `lib/terminal.c`, `lib/signed_input.c`, `servers/terminal.c`) | receive ring, loss marker, line, packet | interrupt, take, feed, execute | each other, client, administrator |
| containment and lifecycle runtimes (`tests/containment`, `tests/lifecycle`) | latch or lifecycle in a supervisor, work in a broker | notifications and protected calls | each other |
| operator tool (`tools/operator.c`) | one-shot host files | identity, context, prepare, review, sign, launch | host file system, guest |

What is hard here: the mailbox word changes between its load and its use; an
event and a reduction request race for the same slot; clocks fail; counters end;
the audit log fills while authority is in force; a policy decision is made on a
copy, recorded by a nested call and committed afterwards; two servers count the
same sequence; a reply is damaged after its command took effect; packets signed
for one launch meet another; an interrupt falls between any two calls of the
terminal, and input is lost in the middle of a line or a packet; the host tool is
killed, run twice or loses power between two of its files; a broker hangs while
a reduction is on its way. `PROJECT.json` lists each hazard at its line.

What each component must guarantee is stated as properties in the modules; the
sections below name them.

## Modules

| Module | Models | Kind |
|---|---|---|
| `Lifecycle` | `lib/lifecycle.c` | operators |
| `LifecycleSpec` | the library under its owner | state machine |
| `OneUse` | what all three slot libraries promise | abstract specification |
| `Reduction`, `ReductionSpec` | `lib/reduction.c`; owner and mailbox writers | operators; state machine |
| `Deadline`, `DeadlineSpec` | `lib/deadline.c`; owner and clock | operators; state machine |
| `Policy`, `Audit` | `lib/policy.c`, `servers/audit.c` | operators |
| `Seed` | policy, audit, storage, client under one driver | composition |
| `Sessions` | what the seed system promises about read authority | abstract specification |
| `Admin` | `lib/admin.c`, `lib/admin_policy.c`, `lib/admin_receipt.c` | operators |
| `SignedAdmin` | terminal, administrator, signed policy, audit, launches | composition |
| `Input` | `lib/terminal.c`, `lib/signed_input.c`: line editor, packet input, parser, decimal reader; and the reference definitions they are held against | operators |
| `Editor` | one stream of characters through `Input` | state machine against reference definitions |
| `Serial` | `lib/serial.c`, `servers/serial.c`, `servers/terminal.c` around `Input`, and the UART | composition |
| `Operator` | `tools/operator.c`: concurrent runs on one file system | state machine |
| `Boot` | `lib/boot.c`, `lib/launch.c`, `servers/launch_boot.c`, the context request of `servers/launch_admin.c` | operators and a three-step machine |
| `Containment` | `tests/containment`: supervisor, broker, workers, caller, observer; composes `Reduction` | composition |
| `Replacement` | `tests/lifecycle`: supervisor, broker, and the calls of workers and controller; composes `Lifecycle` | composition |
| `MC*` | model-checking instances: constants only | |
| `SlotLemmas` | lemmas about the operators of `Lifecycle` and `Reduction` | proofs |
| `SlotProofs` | theorems about `LifecycleSpec`, `ReductionSpec`, `DeadlineSpec` | proofs |
| `SeedProofs`, `SignedAdminProofs` | theorems about `Seed`, `SignedAdmin` | proofs |
| `ReplacementProofs` | theorem about `Replacement` | proofs |
| `LaunchProofs` | theorems about `Operator` and `Boot` | proofs |
| `InputLemmas` | lemmas about the operators of `Input`, and the induction they need | proofs |
| `TerminalProofs` | theorems about `Serial` and `Editor` | proofs |

Definitions keep the code's names. A library function that is a list of early
returns followed by an assignment becomes a status operator (`LcStatus`,
`PolicyStatus`, `AdmitStatus`: the returns, in their order) and a next-state
operator (`LcEffect`, `PolicyNext`); the function itself is "next state if the
status is OK, otherwise unchanged". Modules whose theorems are proved together
prefix the names of their specifications (`LcSpec`, `RdSpec`, `DlSpec`,
`LaunchSpec`, `EditorSpec`).

**Data.** `UMAX` stands for `UINT64_MAX`, so the end of every counter is
reached; no modelled counter wraps in the code, and the type invariants say so.
Request words of the latch are sets of slots plus one `UnknownBit`. Flags that
are 0 or 1 in the code are booleans. A packet is what its bytes decode to
and whether its signature is the authorised key's over those bytes; realm and
boot identity are one `context`. In `SignedAdmin` only the number of audit
records is kept. A character is a member of a small alphabet with one member per
class the code tells apart; a command name is one character; terminal messages
have a length and no text. In `Operator` a context is the number of its random
value, a packet is context, sequence and command, and a file is absent, partial
or whole, with its data and its directory entry synced or not. In `Boot` a
directory entry is the record of the fields the scan examines.

**Granularity.** All servers are single-threaded and every call between them is
a synchronous protected call, so in `Seed` a call with its nested calls is one
action. `SignedAdmin` splits a submission into admission, execution and
completion, because a relaunch or a damaged reply can fall between them. In
`ReductionSpec` loading the mailbox word and polling the loaded copy are
separate actions: writers run in between. In `Serial` every call of the terminal
on the driver is an action of its own and interrupts fall between any two of
them; in `Operator` every system call of a run is; in `Containment` every
notification and protected call is, the observer's three probes included, and in
`Replacement` each call of the broker to the supervisor and each reply.

**History variables** (`handed`, `finished`, `asked` of
`ReductionSpec`, `latest` and `failed` of `DeadlineSpec`,
`replayed`, `released`, `executed`, `damaged`, `text`, `row`, `shown`,
`last`, `reported`, `launched`) never guard a step, except that the length of
`text` bounds the input. `typed` in `Serial` is both: the UART carries positions in
it, and the properties read it.

**Mutants.** Operators whose names end in `Mutant` are not used by any
specification. Each is a plausible mistake in the definition that follows it
(an off-by-one, a dropped guard, a missing reset); substituting it makes the run
fail on the property `PROJECT.json` pairs it with.

## Runs

| Run | Instance | What it checks |
|---|---|---|
| `lifecycle` | 3 slots, UMAX 2; every actor, event (malformed too) and audit answer | `Valid`: the library's own validity test never fails. `ReplacementQuiescent`: a slot is occupied only when all used ones are stopped and drained. `WorkAccounted`: work not completed stays pending until drained. `TokensOnce`: no token is issued or accepted twice. `LcRefines`: implements `OneUse` |
| `reduction` | 2 slots, UMAX 2; library and hostile writers | `RdValid`, so the INVALID_STATE exits of a poll are unreachable. `LatchHolds`: a sampled request survives its withdrawal. `NoProgressOnceAsked`: no event carries a requested slot forward, even in the call that brings the request. `StopIntentKept`: a stop is intended until confirmed. `RdRefines` |
| `deadline` | 2 slots, UMAX 2; all readings and durations | `DlValid`. `DeadlineHolds`: time is never given back, whatever the clock says later. `NeverRelaxed`: ends, faults and inhibitions are final. `DlRefines` |
| `seed` | 2 subjects, UMAX 3, 8 audit records; states that agree on all but the older records count as one (`VIEW`) | `SnapshotsValid`: state well formed, log within capacity, and every subject and self-status passes the validity test its receivers apply. `AuditExplains`: replaying the log gives the live policy until the log is full, and bounds it afterwards. `NothingUnrecorded`: nothing is released, granted or restored without its record. `Refines`: implements `Sessions` |
| `signed_admin` | 2 contexts, 2 subjects, UMAX 3, 2 audit records; every well-formed packet at any time | `ExecutedOnce` across replays and relaunches. `SequencesAgree`: the two servers' counters stay in step. `WedgedOnlyByDamage`: the receipt check accepts every genuine receipt. `FailsClosed`: an uncertain command freezes administration until relaunch. `ReportTruthful`: a displayed receipt is the policy in force. `PendingResolved` (liveness) |
| `editor` | 11 characters, lines of 4, packets of 2 digits, UMAX 12, texts of 5 with losses anywhere | `ExactText`: an executed line or submitted packet is exactly what was typed since the last boundary, with no loss inside, and a discarded line is discarded whole. `SeenIsRun`: what the echo leaves on the screen is the line that runs. `DecimalExact`: the decimal readers accept exactly the numerals up to UMAX and return their value |
| `serial` | ring 2, FIFOs 2, one byte per read, two steps per service, chunk 2, buffer 4, message 3; 5 characters of 4 kinds typed, an erasing one among them | `NoJoinedInput`: what is accepted is what was typed since the previous end, nothing damaged and nothing missing but what was erased. `NoLostWakeup`: a terminal that waits without a notification owes nothing, or the transmit interrupt that will wake it is unmasked and raised or sure to be |
| `serial_live` | the same, 4 characters | `Served` (liveness): everything received is taken, answered and sent |
| `operator` | 2 concurrent runs, 1 sequence, 2 commands, 2 contexts; kill, failing write or sync, power loss anywhere | `LaunchedOnce`: a context is launched at most once, whatever fails. `OnePacketPerSequence`: no two different packets are ever reported signed for one sequence of one context. `ReportsSurvive`: what a run reported as made outlives every crash, whole and with the reported content, and a readable public identity has its key |
| `boot` | up to three directory entries, good and bad in each way the scan tells apart; records of every format and mode; reads that fail at each place | `ContextExact`: the administrator starts only on the one item of that name, completely read and exactly what the operator tool encodes in this image's mode; no record passes for another mode or format |
| `containment` | the image as built: two workers, one caller; broker, caller and workers may hang at any point | `Contained` (liveness): once the observer has published a reduction, the worker ends up stopped for good, by the notification alone |
| `replacement` | the image's two workers, UMAX 3; workers and controller call in any order, with any numbers | `Handover`: a replacement runs alone and inherits no ticket or unanswered call, whatever was in flight when its predecessor was contained or faulted; broker and supervisor agree between calls, and the broker gives up only after the supervisor has |

**Why the bounds suffice.** Three slots show interference between a used, a
retired and a new slot; the code has two. UMAX 2 or 3 lets every counter take an
ordinary step and then reach its end. The number of calls is not bounded, so
behaviours continue well past a full log. In `seed` the log has room for both
subjects to use up their generations and to be refused a grant after that; its
view keeps the length of the log and its last record, which is all that steps
and properties read of it. In `signed_admin` the log fills long before.
Two contexts are the least with which a packet can meet a foreign launch. Slots
are symmetric: no definition orders or names them, and the symmetric runs check
safety only.

In `editor` a line can be one short of full, full and over full, and a packet
likewise, before the text ends; 12 is above the two-digit boundary at which the
last digit decides whether a number fits. In `serial` each buffer is smaller than
the input and smaller than one output message pair, so that each fills, drains
and refills while the others are in either state; the bounds `ReadBound` and
`StepBound` are both exceeded. A message is longer than a chunk and a chunk longer
than the room a busy FIFO leaves, so that writes are cut short by either. `serial_live` types one character less because a
liveness check costs more; the ring still overflows. In `operator` two runs are
the least that race, and two commands and two contexts the least with which a
packet or context could be confused with another; runs are never used up: a
finished or killed one starts again with any command. In `boot` two or three
entries place a wanted item first, last, twice or nowhere. `containment` has no
bound but UMAX 2: its script admits one incarnation of each slot. In `replacement`
UMAX 3 allows a completed, a pending and a refused ticket of one worker.

In `reduction` and `deadline` an event comes from an actor allowed to send it
(plus an unauthorised worker); `lifecycle` covers every actor.

**Fairness.** Three runs assume it, weakly and of single actions.
`signed_admin`: `Execute` and `Complete`. Both run inside a protected call that
has begun; the kernel runs the called server and the handlers have no loop or
wait. `serial_live`: the UART sends, a raised interrupt reaches the driver, and
the terminal wakes, flushes, handles its events and takes input: hardware, and a
scheduler that runs every ready domain. `containment`: only the supervisor's
`notified`, which has the highest priority of the image and its full period as
budget, and the observer's next notification, whose budget is its full period
too, between publishing and notifying; broker, caller and workers get none, so that each of them may stop anywhere.
Inputs, launches, losses, damage and failures are never promised.

**Stopping.** The serial path may rest when nobody types, and in `containment`
the observer may wait for a receipt that a call of the broker pre-empted: those
two configurations do not check for deadlock. In all the others a state without
a successor is an error.

**Environment.** `Overwrite` in `ReductionSpec` is a plain store to the shared
word, which `include/tcs/reduction.h` warns of. `Corrupt` in `SignedAdmin` makes
a reply unrecognisable; it is the case the administrator's decoder and
`TCS_ADMIN_BAD_COMPLETION` exist for. Damage that yields another well-formed
receipt is outside what the code claims to detect and outside the model.

In `Serial` a damaged character carries its error to the driver with the byte it
belongs to. The receive interrupt is a level: it stays while the FIFO holds
something. A receive FIFO that is full makes the sender wait, as on the emulated
machine the images are built for, so an overrun inside the UART is not a step;
the overrun flag, when set, is handled as any other error. The driver drains the
FIFO at the start of each of its entries. The output buffer of the code (256
bytes) is longer than any message and is flushed before one is put into it;
`OutputSize` and `Message` keep that relation. A receive interrupt that forgot to
leave the transmit side alone would not be seen by these runs, and would be
harmless: a receive also wakes the terminal.

In `Boot` a device may stop in the middle of the scan, which the reader's
callback interface allows and the boot server's own callbacks never do.

In `Operator` arguments and files that a run refuses end it before it makes
anything. A file created but not synced may after a power loss be whole, torn or
gone; a directory entry is certain only after its directory was synced.

In `Containment` the kernel cancels the pending call of a domain it stops. A
domain's restart is not used by the image and is not modelled.

## Proofs

Every safety property the runs check, invariants, action properties and the
three refinements of `OneUse` and the one of `Sessions`, is a theorem, for every
value of the constants that the assumptions allow: any set of slots, subjects,
contexts, runs, commands and devices, any `UMAX`, any audit capacity, any size of
the rings, lines and packets, any set of calls, words, readings, requests,
packets and characters. (`Replacement` is the image with its two workers; there
the theorem is for every `UMAX`. `Containment` has only the liveness property.)

**Assumptions.** All are named in the module that declares the constant, and
TLC checks each on the instance of its run. `UMAXAssumption` (`UMAX` is a
positive number) and `CapacityAssumption` (so is the audit capacity);
`SlotsAssumption`, `UnknownBitAssumption`, `SubjectsAssumption`,
`ContextsAssumption` and `ReplacementAssumption` (the special values are not
members of the sets they are added to, and the replacement image has two slots);
`RdCallsAssumption`, `DlCallsAssumption`, `InputsAssumption` and
`RequestsAssumption` (inputs have their types); `OperatorAssumption`
(`MaxContexts` is a number). `InputAssumption` and `EditorAssumption` (line and
packet have room for a character, and the characters typed are ones the code can
be given); `SerialAssumption` (every queue holds something, the transmit level is
below the depth of the FIFO, and a message fits the output buffer with room to
spare, as 256 bytes do in `servers/terminal.c`); `BootAssumption` and
`DevicesAssumption` (an item for each entry of a directory, fields of their
types, and a read that fails, if it does, at a place that exists). No set need be
finite.

**Lifecycle.** A call changes nothing or applies one event that passed every
check (`StepCases`, from `AcceptedFacts`). `tcs_lc_valid` together with the
types is inductive (`LcEffectValid`), which gives `TypeCorrect`, `AlwaysValid` and
`Replacement`. The token properties are not inductive: a pending number could
belong to no token. `TokenInv` adds that every token carries the one incarnation
of its slot and a number already issued, and that a pending number is an
unfinished token; `WorkIsAccounted` and `TokensAreOnce` follow.

**Reduction.** A poll leaves a valid state in which nothing inhibited is live
(`PollFacts`). An event accepted after it can only stop or drain an inhibited
slot (`EventFacts`): RESERVE and ACTIVATE are refused there, and every other
event that moves forward starts in a live state. `LatchInv` says what the owner
has been asked is inhibited or still in its hand; without it a sample between
its load and its poll would be forgotten. Hence `RdAlwaysValid`,
`LatchHoldsAlways`, `NoProgress` and `StopIntent`. `ContainAccepted` shows that
the error exit of the poll's loop is unreachable, which is what lets the model
write the loop as one function over the slots.

**Deadline.** A poll inhibits what its reading expires, or everything on a fault
(`DlPollFacts`). A reservation ends after the last reading and inside the width,
and writes the end of a slot that had none (`DlEventFacts`). The second, empty
poll inside `tcs_dl_apply` changes nothing (`PollNothing`). `DlInv` ties the
owner's clock record to the history of readings. Hence `DlAlwaysValid`,
`DeadlineHoldsAlways` and `DlNeverRelaxed`.

**Refinement.** `EventPhases` says how an accepted event looks on the abstract
phases and evidence, `PollPhases` that a poll closes live slots.
`LifecycleRefines`, `ReductionRefines` and `DeadlineRefines` put the two
together, step by step.

**Seed.** A request answered OK passed every early return (`AcceptedFacts`) and
leaves a subject that `tcs_snapshot_valid` accepts (`NextSubject`); a call
leaves the policy alone or applies one such request (`DecideCases`).
`SeedInv`, the types, the validity of every subject and `AuditExplains`, is
inductive: while there is room the replayed copy takes the same step as the
policy (`DecideExplained`), and on a full log only reductions take effect. `SeedRefines` maps an accepted
grant to the opening of a session under a new number and everything else to
closing or stuttering; it rests on the generation never falling.

**Signed administration.** The property everything hangs on is that the receipt
check, a second description of what policy does, accepts every genuine receipt:
a refusal is one whose reason the subject's state shows (`CompareRefuses`), a
commit is the one change expected (`AppliedSubject`), hence `ReceiptIsValid`.
`AdminInv` adds to the properties that the context in use is one of a launch so
far (`Launched`), that every execution of this launch has a sequence below the
next (`Counted`), and what is known of the command in flight (`CallInv`): it is
the pending one of this context, and once a receipt exists it describes the
subject in force and the packet counts as executed. Without `CallInv` the
invariants are not inductive, because a step of one server relies on what the
other did two steps earlier. `PacketsActOnce` and `UncertaintyFailsClosed` are read
off the actions under it.

**Operator.** A file whose data and entry are synced is never touched again: a
run writes only the file it made, and that file is still partial then.
`OperatorInv` says that files are only in synced directories (`DirsSynced`),
what a run at each of its steps knows of the file it made (`Progress`), that no
two runs hold one file (`Exclusive`), that the second file of a plan comes after
the first is synced (`KeyFirst`), that a launch was preceded by the durable
marker whose maker launches (`UsedOnce`), and that every report is of a durable
file (`ReportedSynced`). A power loss keeps each part because it touches only
what is not synced and ends every run.

**Replacement.** `Handover` speaks of the moments between calls; what the broker
does with an answer depends on what the supervisor still holds when it comes.
`ReplacementInv` says who may be in which call (`CallsInv`, `Asked`), what the
answer in flight still says of its slot (`Answered`), and on which one ticket the
two may differ meanwhile (`Tickets`, `Disputed`). Everything else the supervisor
does between question and answer (`KeptControl`, `KeptContain`, `KeptFault`) keeps
those facts: it changes no closing slot, no ticket and no incarnation in use. So
a drain confirmed on a slot that was seen closing cannot be refused
(`DrainStep`), and an answer is uncertain only if the supervisor failed
(`FinishStep`). The slot lemmas of the lifecycle are used throughout; the theorem
also shows that a containment, once its gate is closed, cannot fail to stop.

**Boot.** `read_item` answers OK only when no read failed, no entry is bad and
every entry of the wanted name has the wanted size (`ReadOK`); of two entries of
one name or one selector the later is bad, so the item is the only one. `LaunchInv`
adds that the boot server's bytes are what the reader leaves for its device, and
the administrator's context what decodes from those bytes. That what decodes is
what the operator tool encodes is read off the two definitions; that no record
passes for another mode or format is a property of the formats alone
(`OneFormat`).

**Induction.** What a loop over a text computes is a recursive function over
`0..Len(text)` in `Input`. `SetInduction` states induction for sets of naturals,
from the least element of a nonempty set; `Iteration` obtains from it the table a
recursive function chooses. Both quantify over sets and functions, not over
operators, which is what keeps them within reach of the provers. `EditedAppend`
then says how an edited text grows by one character.

**Serial.** Each byte has the position it was typed at. `DataInv` says that the
UART's FIFO and the driver's ring hold two adjoining runs of positions that end
with the last byte typed, none damaged in the ring (`Ring`, `Positions`); that
between the last byte taken and the ring nothing is missing, or the ring's loss
marker says so, or the terminal is discarding already (`GapKnown`); and that what
the terminal has gathered is what was typed since some line end (`FrontText`). The
interrupt handler's loop keeps the ring part round by round (`ReadFifoRing`). The
difficult step is a line end taken right after a gap: the terminal sees the marker
with the byte, so it discards before it feeds the byte (`DataOfTake`). `ControlInv` says,
for `NoLostWakeup`, which of the terminal's places have output left (`Owed`) and what
a waiting one relies on (`Waiting`). It needs `DataInv` only for types: a call
that leaves output unsent unmasks the transmit interrupt with the FIFO full, and
only draining it raises that interrupt (`WriteFacts`).

**Editor.** `EntryInv`: while a line or packet is entered, its buffer is the edited
text since the last end, if every prefix of that text was acceptable, and it is
marked rejected if not (`LineEntry`, `PacketEntry`). Between an end and its
handling that is not so, hence the case on the pending event. `RowInv`: the row
shows the buffer cell by cell, unless the entry was rejected, and is empty at an
event; `SeenIsRun` follows at the end, before the row is cleared.

**Numbers.** The reader and the reference value go through a text by one table
each. While the value is at most `UMAX` the tables agree; the digit with which it
passes `UMAX` is refused, because the test before the multiplication is exact
(`OverflowTest`), and a refused reading stays refused (`ReadingValue`,
`ReadingRefused`). `decimal` satisfies its own defining equation (`DecimalRule`) and
undoes the table digit by digit (`DecimalInverse`). `Trim` finds the one span
between blanks (`TrimSpan`), so a line is parsed to a read of `n` if and only if it
has the shape the property names (`AskedIsRead`, `ReadIsAsked`).

**Only model-checked.** The liveness properties `PendingResolved`, `Served` and
`Contained`: fairness and ENABLED are outside what the proof system handles. The
refinements are proved for the safety part, which is all that `OneUse` and
`Sessions` state.

## Not modelled

The observer and the controller of the two test images read their scripts from a
UART loop that is the same code as the terminal's; `Containment` and `Replacement`
start where a line has been read. `Replacement` lets controller and workers call
in any order, so their scripts' own pass and fail bookkeeping is left out.

Left out for good: Monocypher (third-party; the signature is a bit of a packet),
build and artifact scripts, compile-time profile headers, the isolation probe
(it tests the kernel), debug output, and byte-level encodings, which are modelled
by what they decode to. The atomic operations on the mailbox are single words,
so the model interleaves them and has no weaker memory order.
