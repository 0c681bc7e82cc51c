# narrowgate in TLA+

TLA+ models of narrowgate, the runs of TLC that check them on small instances, and proofs, checked
by TLAPS, that the safety properties those runs check hold for every instance. Paths are relative to
the repository (`src/src/narrowgate/...` is the package).

    tlc -config GateLive.cfg MCSelfExtension     # one run; PROJECT.json lists them all
    tlapm SelfExtension_proofs.tla               # one module of proofs, like every *_proofs module

## 1. The system

narrowgate lets a language model call a few tools, log every call, and *propose* new tools that
only a human can activate, in another process.

| component | source | state | operations | correct when |
|---|---|---|---|---|
| proposals | `tools/propose.py` | `tools_staged/<name>.py` | `propose_tool` | a recorded proposal is there, whole, until it is installed; the answer to the model is true |
| activation gate | `activate.py` (`load_staged`, `activate`, `main`) | `tools/enabled/<name>.py`, staged files, audit records | `narrowgate activate <name>` | only bytes that passed the static check and were confirmed for that name are installed, once; records and exit codes are true; it ends |
| static checker | `activate.py` (`_Checker`, `static_check`) | none | `static_check` | it terminates and lists every violation |
| registry and dispatch | `tools/registry.py` | registered tools, network policy | `specs`, `dispatch` | only advertised tools run, on arguments their schema accepts, with a record on either side |
| audit log | `audit.py` | `audit.path`, open call ids, failure count | `before_call`, `after_call`, `record`, `write` | records pair up, the file only grows, no loss is silent |
| agent loop | `agent.py` | the conversation, the turn count | `Agent.run` | every call of a reply gets its one tool message, in order; the budget holds; the user gets the prompt back |
| LLM client and probe | `llm.py` | none | `chat`, `probe_tool_calls` | an answer becomes a response or `LLMError`, nothing else |
| configuration, preflight, command line | `config.py`, `preflight.py`, `cli.py` | `config.yaml`, the environment | `load_config`, `preflight`, `run`, `activate` | the loop starts only on a valid configuration and an endpoint that emits tool calls |
| argument schemas | `tools/base.py` | none | `validate_schema`, `validate_args` | they agree with the schema's meaning |
| workspace tools | `tools/builtin.py` | files under `workspace.root` | `read_file`, `list_dir`, `write_file` | they stay inside the root unless a directory on the path is swapped; a read is the file, a write leaves one text; they return |

How they interact. `cli` reads the configuration, has the endpoint probed and wires `AuditLog`,
`Registry` and `Agent`. `Agent.run` asks `LLMClient.chat`, hands each requested call to
`Registry.dispatch`, and that brackets the tool with `before_call` and `after_call`. `propose_tool`
is one of the tools. `activate` is another process: the two share the staging directory, the
enabled directory and the audit file, and nothing else, so that all of their coordination is in
the order of their system calls.

What is hard to test here: the interleavings of several harnesses and activations on these files;
a human who takes minutes between a read and the decision that rests on it; kills and full disks
between two system calls or in the middle of a line; an audit sink that loses records or raises;
replies that mix good, bad and malformed calls; a configuration and an endpoint that change
between the probe and its use. `PROJECT.json` lists each hazard at its line with the properties
that would catch it, or with the reason why none does. The workspace adds the classic one: a path is checked first and opened later.

## 2. Modules

| module | models | kind |
|---|---|---|
| `SelfExtension` | `propose_tool` and `activate`, any number of each, on shared files | detailed specification |
| `ActiveTools` | what the gate promises: a write-once register of confirmed sources | abstract specification |
| `SelfExtension_proofs` | type correctness, the gate's invariant, write-once, refinement | proofs |
| `SelfExtension_outcomes` | survival of proposals, what `unlink` removes; replies and exit codes | proofs |
| `Dispatch` | `Registry.dispatch` with `before_call` and `after_call` | detailed specification |
| `AuditedCall` | what `dispatch` promises: announced, executed, concluded, told | abstract specification |
| `Dispatch_proofs` | types, the invariant of a call, pairing of records, refinement of `AuditedCall` | proofs |
| `AuditFile` | `AuditLog.write`, system call by system call, several processes | detailed specification |
| `AuditFile_proofs` | where the pieces of each record are | proofs |
| `LlmClient` | what `chat` makes of an answer | operators |
| `AgentLoop` | `Agent.run`; extends `Dispatch` and `LlmClient` | composition |
| `AgentLoop_proofs` | the loop as a caller of dispatch, types, the conversation, the budget, progress | proofs |
| `Startup` | configuration, preflight, probe and wiring; extends `LlmClient` | detailed specification |
| `Startup_proofs` | nothing runs on an unprobed endpoint | proofs |
| `Workspace` | `confine` and the file tools on a tree that others change | detailed specification |
| `Workspace_proofs` | paths, contents, progress | proofs |
| `ArgSchema` | `validate_schema`, `validate_args`, and JSON Schema as their reference | recursive functions |
| `ToolRegistry` | `Registry.register` and calls with real arguments; extends `ArgSchema` | detailed specification |
| `ToolRegistry_proofs` | `validate_args` against JSON Schema, by induction over schemas and values | proofs |
| `MCSelfExtension`, `MCAgentLoop`, `MCStartup`, `MCWorkspace`, `MCToolRegistry` | small instances | for TLC |

Each operation is one action, or, where other processes can get in between, one action per system
call on a shared file. Definitions headed "Slip" are faulty variants of the definition that follows
them; no specification uses them. They document for each property a mistake it detects.

### SelfExtension

An agent `a` is at `ag[a].pc`: `down`, `idle`, then the steps of `propose_tool` from the look into
the enabled directory (propose.py:176) to the reply (line 210). An operator `o` is at `op[o].pc`:
`load` (the `lstat` checks of `load_staged`), `read` (read, decode, list, check), `confirm` (the
prompt), `recheck` (the second read), `create` (the exclusive open), `write`, `unlink`, `record`,
`exit`. `staged` and `enabled` are the two directories; `writer[n]` is the agent whose open file
descriptor is the very file at `staged[n]`, since bytes written after that file was unlinked or
replaced go nowhere. `approved` and `installed` are history variables: the pairs a human confirmed,
and what was in the enabled file when its write finished.

Abstracted: a file's content is one member of `Sources`. A file that has been created and not yet
written to the end holds `Torn`. What the checker says is a table, `Verdict[name][source]`:
`clean`, `dirty`, `binary` (not UTF-8) or `deep` (parses, and the recursive visitor gives up).
`Torn` is an ordinary member of the table, so a prefix may be rejected, undecodable or itself a
complete tool; the runs have one of each. Faults are switched per run: `crash` (a kill anywhere),
`disk` (create, write or unlink fails), `audit` (a record is not written; both callers ignore the
answer), `tamper` (somebody else replaces or removes staged files or puts links there),
`interrupt` (Ctrl-C or Ctrl-D at the prompt). Nobody else writes to the enabled directory: it
is part of the package and the code relies on that.

### Dispatch, AuditFile, AgentLoop

`Dispatch` runs one call at a time (`d.pc`: `before`, `decide`, `run`, `after`), as a process does.
`open` is `AuditLog._open`, from which `after_call` takes the call id by tool name; `log` holds the
records, each with the id the code wrote and, as history, the call it is really about. The sink may
lose a record (`LogFails`, which is what `AuditLog` does) or raise (`SinkRaises`, which the `Audit`
protocol allows and `dispatch` handles). The policy is there twice, as in the code: `IsDispatchable`
(registry.py:80) decides what the model is shown, `Refuses` (line 159) what is turned down. A tool in
`Proposers` writes a record without an id while it runs (propose.py:197), in the same log and
counted by the same `failures`. For a tool in `NullSchemas` the validation may raise something else than
`ArgumentError`, which `dispatch` catches past `after_call`.

`AuditFile` looks at one record on its way to disk: the first `os.write` may take the whole line or
its head, the rest follows in a second one, then `fsync`. `O_APPEND` makes each piece atomic and
puts it at the end; between the pieces another process may append. More than two pieces would add
no new neighbourhood in the file: what a reader loses depends only on whether something stands
between the head and the tail.

`AuditedCall` tells the same story without tools, policies, schemas and sinks, in the four steps a
caller may rely on. `Dispatch` maps to it: a call is announced or concluded when its record was
written or its loss counted, executed when its tool was started, and its caller is told when
`dispatch` returns a result that is not a refusal of its own.

`AgentLoop` adds the conversation: `messages`, the `queue` of calls of the last reply that have no
tool message yet, and the turn count. `NewProcess` ends the harness anywhere and starts the next
one with an empty conversation on the same audit file.

### LlmClient and Startup

An answer of the endpoint says what became of the request (answered, an `httpx.HTTPError`, another
exception), its status, what the body is, its `tool_calls` entries and the kind of its content. `chat`
turns into `LLMError` what its two `except` clauses name; a request that raises something else, and a
body so deep that `resp.json()` gives up, escape. Arguments are `valid` or `invalid` for the tool's schema,
`malformed` (not a JSON object, or no JSON) or `exploding` (`json.loads` raises something else than
`JSONDecodeError`: an integer of more than 4300 digits, or deep nesting). Formats in which a model
may write a call as text are one kind, `markup`.

`Startup` has the harness (`none`, `probe`, `wire`, `running`) and the last preflight. Between any
two of their steps the operator may edit the configuration and the endpoint may change its answer.
A configuration is accepted, rejected, or makes `load_config` raise something else than `ConfigError`
(text that is no UTF-8, nesting too deep for YAML), which ends either command with a traceback.

### Workspace

A caller `c` is at `call[c].pc`: `idle`, `walk` (the `lstat` of component `at`, builtin.py:103),
`real` (`resolve` and the containment check), `parent` and `stat` (the checks of the tool), `open`,
`start` (`fstat`; a write truncates), `io` (the loop of `os.read` or `os.write`), `scan`
(`os.scandir`). Between any two of them `Replace` puts another entry into a directory under the root
(a file, a directory, a link to either, a FIFO, nothing), and `Edit` rewrites a file, also one that
is open. A file is an object with a sequence of blocks, so that an open descriptor stays on the
object it was opened on when its name goes elsewhere. The fields `old`, `edited` and `swapped` of a
call are history: what the file held when it was opened, whether somebody else wrote to it since, and
whether a directory on the path was replaced since the call began.

Abstracted: at most two components; `realpath` and the reading of a directory are single steps; other
programs do not rename directories from outside into the root (that would move the boundary itself).

### ArgSchema and ToolRegistry

A Python value is a record with one field named for its type, so that `True`, `1` and `1.0` stay
apart and `==` between them is an operator, `PythonEqual`. Floats are counted in halves, with `NaN`
as one more value, and `Matching` says what a pattern is found in. `ValidateSchema` and
`ValidateArgs` follow the order of the checks in base.py; `IsValid` states the JSON Schema keywords
one after the other, and the two are compared. What recurs in the code, over lists, dicts and
sub-schemas, is a recursive function on a set `Values` that holds whatever is inside its members;
`Depth` says how deep a member is nested, as every JSON value is to some depth. `ToolRegistry` registers well-formed and malformed
declarations in any order (`tools` maps a name to its object, as the dict does), shows the model what
may be dispatched (`shown`) and dispatches calls in the steps of registry.py:138 to 156, which leave the
hooks they called in `call.hooks`. `call.meant` is history: the object the model was shown under the
name it calls. What an audit sink makes of a call is the matter of `Dispatch`; here it is the
declarations and the arguments.

## 3. Runs

| run | instance | question |
|---|---|---|
| `GateTamper` | 1 agent, 2 operators, 1 name; tampering; an unfinished file passes the check | Is what gets installed always what was checked and confirmed for the name (`InstalledIsApproved`), by one installer (`OneInstaller`), once (`EnabledIsWriteOnce`)? Does the gate implement `ActiveTools`? |
| `GateCrash` | the same, 2 sources; kills, failing disks, failing audit log; the harness looks at another enabled directory | Do the records stay true (`ActivatedRecordIsTrue`), do proposals survive (`ProposalSurvives`), does `unlink` remove only what was reviewed (`UnlinkRemovesTheReviewed`)? |
| `GateAnswers` | 2 agents, 1 operator, 2 names of which one is an imported module | Is what the model is told true (`ReplyIsTrue`)? |
| `GateLive` | 1 agent, 2 operators; accepted, rejected, undecodable and too deep sources; interrupts | Is the exit code true (`ExitCodeIsTrue`)? Does every call end (`CallsEnd`), and every confirmation with an installed tool (`ConfirmedGetsInstalled`)? |
| `LoopReplies` | all replies with up to two calls of four kinds (good, bad arguments, not allowed, malformed), one with an unknown tool and one whose validation may raise; all endpoint failures that become `LLMError`; a sink that raises; 1 input, 2 turns | Is the conversation well formed (`ConversationPairs`), are the tool messages true (`ToolMessagesAreTrue`), the results accounted for (`ResultIsAccountedFor`), and does the user get the prompt back (`InputIsAnswered`)? |
| `LoopProcess` | 2 inputs, 2 turns, 3 calls; kills and restarts, a lossy log, a proposal, requests and answers that end the process | Do only advertised tools run (`RunsOnlyWhatWasShown`), do records pair up (`RecordsPairUp`), are losses counted (`LossesAreCounted`), is no call made twice (`NoCallTwice`), does the budget hold (`BudgetHolds`)? Does each call implement `AuditedCall` (`ImplementsAuditedCall`)? |
| `AuditShared` | 2 processes, 3 records; short writes, failing disk and `fsync`, kills | Does the file only grow (`AppendOnly`), is what was reported written there (`WrittenIsThere`), does every silent loss stand next to a torn line (`SilentLossIsExplained`), does every write return (`WritesReturn`)? |
| `StartupGate` | 14 kinds of answers, all configurations | Does the loop run only on what this process probed (`RunsOnlyOnToolCalls`), does preflight exit 0 only on evidence (`PreflightIsTrue`)? |
| `WorkspaceRaces` | 1 caller, a root with a directory and a file, one directory outside; 3 trees to start from, 7 replacements, 2 rewrites, limit of 2 blocks, 2 calls; failures and kills | Do calls leave the root only through a directory swapped under them (`StaysInside`), does a write leave one text (`WriteLeavesOneText`), is a read the file and within the limit (`ReadIsTrue`), does every call return (`CallsReturn`)? |
| `RegistryArgs` | 33 declarations with every keyword, well-formed and malformed, for two names; arguments on both sides of each keyword | Is what passes valid (`AcceptedIsValid`) and what is refused invalid (`RefusedIsInvalid`), up to the exceptions these properties name? Are both hooks called (`HooksAreCalled`)? Is a call of a tool the model was shown judged by what it was shown, whatever was registered since (`CallsMeanWhatWasShown`)? |

Two more runs each show one statement of the code's own documentation violated: `AuditTorn`
(`NoSilentLoss`) and `LoopEscape` (`NothingEscapes`). `PROJECT.json` quotes them under "findings".

Why the bounds are enough. Names are independent: no action reads or writes the files of another
name, so one name suffices for the files, and the second one in `GateAnswers` is there only because
it is imported. Two operators are the least for a race between activations, and the
proofs cover any number. One agent may
stop, start and propose again without limit, and so may the operators. Two clean sources are needed
where a file is replaced by another acceptable one (`GateCrash`; in `GateTamper` the unfinished file
is the second). Three records are the least in which one torn line has a torn neighbour and a whole
one after it. Two calls per reply and two turns give a reply every order of good and bad calls, a
second reply with the same tool, and a turn budget that is spent. Three calls in `LoopProcess` let a
tool be called again after a call that was cut off, with another call in between. In `WorkspaceRaces` two components
are the least with a directory on the way, two blocks the least that a failure can part, and three
the least beyond the limit; callers do not coordinate, so the others' `Edit` and `Replace` stand for a
second one. In `RegistryArgs` one call suffices, since a call changes nothing that a later one reads, with
registrations before it, between it and what the model was shown, and after it;
each keyword stands at a limit of its arguments, alone or with those it interacts with. `Operators` and `Agents` are
declared symmetric only in runs without liveness properties; actions and properties treat their
members alike.

`CHECK_DEADLOCK FALSE` stands in the runs with a bound on inputs, calls or records: there the model
stops when the bound is reached.

Fairness. `SelfExtension`: a process that runs takes its next step, and the human answers the
prompt; nobody has to start a process or to propose anything. `AgentLoop`: a run that was started
goes on, because requests have a timeout (`llm.timeout_s`) and tools and file operations return.
`AuditFile` and `Workspace`: system calls return; the open of a FIFO does because of `O_NONBLOCK`,
which is what `CallsReturn` tests. All of it is weak fairness on the steps of one
process, each of which stays enabled until that process takes it. In `GateLive` there are no
failing disks and no tampering, since with those a confirmed activation may rightly end in an error.

## 4. Proofs

`SelfExtension_proofs` proves for all values of the constants that satisfy the named assumptions of
`SelfExtension` (`NamesAssumption` to `SwitchAssumption`: the markers are no sources or agents,
the tables are total), hence for all faults and any number of processes:

- `TypeCorrect`: `TypeOK` is an invariant.
- `InstallsOnlyTheApproved`, `ExclusiveInstall`, `RecordsTellTheTruth`: three of the four conjuncts
  of `GateInv`, which is inductive together with `TypeOK`.
- `WrittenOnce`: the enabled directory changes only by the step of an installer of that name that
  has not finished.
- `Refinement`: every step of the gate is a step of `ActiveTools` or a stutter. Confirmations map to
  `Approve`, the end of a write to `Activate`, an activation record to `Announce`.

`InstalledIsApproved` is not inductive: nothing in it says that an operator about to write carries
approved bytes. The fourth conjunct, `ReviewedBeforeInstall`, says for each step what the activation
has established so far. `OneInstaller` is needed for the step that writes: without it a second
installer could overwrite what the first one finished. Exclusive creation gives it, since whoever is
past `create` has found the path empty and nothing ever empties it.

`SelfExtension_outcomes` first proves `ProposalsSurvive` and `UnlinksTheReviewed` from two hypotheses:
nobody tampers, and no unfinished file passes the check (`NoCleanPrefix`). Without the second the
statements are false: an operator may confirm and install a prefix, after which the finished
proposal is unlinked. The invariant, `ProposalInv`, relates the proposals on record, the agents that
have their file open, and the operators between recheck and unlink: a staged file cannot change
under an operator because a name in use is not created again, and because the writer of an
unfinished file is the agent that created it.

Then come `RepliesTell` and `ExitCodesTell`, while the disk and the audit log work;
kills, interrupts and tampering are allowed. An answer speaks of a past step, so `AnswerInv` carries
for each process what its later answer will claim, and everybody else's steps have to leave it true;
they do, because records and enabled files only accumulate (`Lasting`).

`Dispatch_proofs` proves `RunsTheAdvertised`, `LogPairs`, `ResultsAreAccountedFor` and the refinement
`AuditedRefinement`, for every registry, policy and sink. `CallInv` follows the call in progress: which
id `open` holds for its tool at each step, and that nothing in the log has a later id. Without it
`RecordsPairUp` is not inductive: the id that `after_call` pops might be that of another call. The id
found there is the right one because a call that did not finish leaves an id that the next
`before_call` of the tool overwrites; a proposal's own record has no id and stands between the two
records of its call. `CallTypes` adds the types with their bounds: three losses per
call at most, since no process counts one that is not there (`CallBounds`).

`AgentLoop_proofs` first shows that the loop is a caller of dispatch (`LoopDispatches`), so that all of
the above holds of it (`LoopIsAudited`). Then come `DispatchedOnce` (the calls made are those whose
results stand in the conversation, and the one awaited), `LossesMakeUp`, `ToolMessagesTell` (a message
was true when it was appended, and records do not go away), `BudgetIsKept` (the turn count is the
number of assistant messages since the last input) and `ConversationIsPaired`, whose invariant says
that the queue is exactly what the last assistant message is still owed. `LoopTypeCorrect` has the types.
`LoopMakesProgress` and `DecreasesEnd` are the part of `InputIsAnswered` that holds without fairness:
each step of the loop decreases, in a well-founded order, the requests left in the budget, the calls
of the last reply without an answer, and the steps of the call in progress. A single bound does not
exist, for a reply may hold any number of calls.

`AuditFile_proofs` proves `FileGrows`, `WrittenStaysThere`, `LossHasItsBrokenLine` and `LogTypes` for
any number of processes. `PlaceInv` says where the pieces of a record are at each step: none, one head,
or the line, whole or parted. A record is unreadable only if something stands between its pieces or it
follows a head without a tail, and in both cases that neighbour is the broken line.

`Workspace_proofs` proves `TypeCorrect`, `AccessStaysInside`, `WriteIsOneText` and `ReadReturnsTheFile`
for every tree and every number of callers. `PathInv` says what the walk has established of each
component and that only a swap of a directory can undo it; for the last component it need not hold
until the open, where `O_NOFOLLOW` decides again. `DataInv` says that what was moved so far is a
beginning of the text or of the file, as long as nobody else writes. `CallsTakeBoundedSteps` is what
`CallsReturn` rests on: `StepsLeft` is at most eight and one for each block the call may move, every
step of the call decreases it, and no replacement or rewrite by others raises it. The limit is what
ends a read of a file that keeps growing.

`ToolRegistry_proofs` is about all schemas and arguments. Recursion comes first: the recursive
functions of `ArgSchema` satisfy their equations because each call inside them is about something
nested less deep (`RecursiveFunction`), and a claim about all pairs of a schema and a value holds if
it holds of a pair whenever it holds of the schemas and values directly inside (`PairInduction`: else
take a counterexample whose value is least deep). Both rest on the library's theorem that the order
of the naturals is well founded. On pairs are then proved, keyword by keyword, `AcceptsTheValid`,
`RefusesTheInvalid` and `RaisesForNull`: what `_check_value` finds no error in is valid, what it finds
one in is not, up to the exceptions, and it raises only where a schema has null for `properties` or
`required`. `RegistryInv` carries them over to `AcceptedAreValid`, `RefusedAreInvalid` and `HooksCalled`:
what is registered passed `register` and stands under its own name, and `Underway` says for each step of
a call which hooks and which outcome it has by then. `ShownIsMeant` rests on the rest of it, which says
that what was shown is still what its name stands for and still dispatchable: without the check for a
name already taken (registry.py:54) a later registration would break that. The attempt to prove `AcceptedAreValid` showed
an exception nobody had named: a bound of a *schema* that is NaN turns nothing down either, and
`validate_schema` accepts it.

`Startup_proofs` proves `StartsOnToolCalls`, `PreflightTells` and `StartTypes`; `NativeIsSeen` is the
lemma that the probe finds native tool calls only in an answer that holds one.

The assumptions of all these theorems are the named `ASSUME`s of the modules, which TLC evaluates in
the runs.

Only model-checked: liveness (`CallsEnd`, `ConfirmedGetsInstalled`, `InputIsAnswered`, `WritesReturn`,
`CallsReturn`). Its proofs need to know when a step is enabled, which is out of the prover's reach;
what is proved of it are the two variants above. Every other property of a run is a theorem.

## 5. Known disagreements of documentation and code

Beside the two runs above, these statements of the documentation are false of the code. They are
defined at the end of the modules; adding the name to the configuration gives the trace.

| definition, configuration | what happens | what is said |
|---|---|---|
| `RegisteredOnNextStart`, `GateLive.cfg` | `build_registry` (cli.py:39) registers four literal tools; nothing reads the enabled directory | activate.py:655 "The tool is registered on the next harness start." |
| `NoShadowing`, `GateLive.cfg` | propose.py:176 looks into the enabled directory, an activation then moves the staged file there, and the look into staging finds nothing | propose.py:137: refuses to overwrite "an already-activated tool" |
| `ActivatedNameIsRefused`, `GateCrash.cfg` | `ENABLED_DIR` of cli.py:28 is relative to the working directory, that of `activate` to the package | the same |
| `NoPartialTool`, `GateCrash.cfg` | a failing disk or a kill at activate.py:636 leaves a part of the file, which blocks the name | activate.py:577: does not "install bytes other than the ones that were displayed" |
| `EveryAbortIsRecorded`, `GateLive.cfg` | the abort at activate.py:639 leaves no record | tests/test_activate.py:508 "audit trail on every path" |
| `RejectionIsTerminal`, `GateCrash.cfg` | `load_staged` reads a file that is being written, the prefix is rejected, and the finished file is activated later | activate.py:13 "Rejection is terminal for the proposal" |
| `ExitCodeIsDocumented`, `GateLive.cfg` | the slower of two activations finds the proposal gone when it reads it again: `FileNotFoundError` at activate.py:626, a traceback with code 1; a source that is `deep` ends the same way, in `static_check` | activate.py:677 "0 activated · 2 rejected by static checks · 3 declined · 4 aborted" |
| `UnauditedCallsDoNotRun`, `LoopProcess.cfg` | `AuditLog.before_call` counts a lost record and does not raise, so registry.py:139 goes on to the tool | registry.py:120 "fail closed: an unaudited call does not happen" |
| `BothHooksAreCalled`, `RegistryArgs.cfg` | a schema whose `properties` or `required` is null passes base.py:138 to 153; `validate_args` then raises, which is caught at registry.py:129 only, without `after_call` | base.py:69 "Both hooks are called for every dispatch, including refused ones." |
| `ValidateSchema` on an unhashable `type` | `validate_schema` raises `TypeError` where `register` expects `SchemaError` (either way nothing is registered) | registry.py:44 "Raises `RegistrationError`" |
| `StaysInside` without `swapped`, `WorkspaceRaces.cfg` | a directory on the path is replaced by a link between the walk and the open; `O_NOFOLLOW` looks at the last component | builtin.py:267 "nothing outside the root can be written through a swapped-in link" |
| `ReplyIsTrue` without its exception for `Imported` | for a name such as `json` the assertion at propose.py:211 fails after file and record were written | propose.py:144 "the only feedback is \"recorded\" or a reason the proposal was not recorded" |
| `EveryToolCallIsAudited`, `LoopReplies.cfg` | agent.py:145 answers a malformed call without reaching the registry | README.md:29 "Every tool call is audited before and after" |
| `ProbeNeverRaises`, `StartupGate.cfg` | the probe catches `LLMError` only, `json.loads` raises others | llm.py:308 "Refuses to raise" |
| `RefusesUntilPreflightPasses`, `StartupGate.cfg` | without `require_native_tool_calls` the loop starts unprobed | preflight.py:52 "The agent will refuse to start until this passes." |
| `HintHasEvidence`, `StartupGate.cfg` | a server error that names the vLLM options yields the hint `hermes` (llm.py:332) | llm.py:305: refuses to guess "a parser it has no evidence for" |
| `AcceptedConfigStarts`, `StartupGate.cfg` | a `workspace.root` that does not exist passes `load_config` and makes `Workspace` raise, uncaught | README.md:66 to 69, the quick start, creates none |

## 6. Not modelled, and the plan

Not modelled: which Python the static checker rejects (activate.py:226 to 521; the table `Verdict`
stands for it, since its rules are single tests of syntax nodes with no state), command-line parsing,
the field validators of the configuration (`Startup` knows valid and invalid ones), the rendering of
listings and verdicts, HTTP below `chat`, and `require_str`, which repeats inside the tools what their
schemas say.

Left, in order:

1. The field validators of the configuration, with the two rules for the workspace directory side by
   side.
2. The checker's walk over a syntax tree, as an operator on small trees, with the forms that carry a
   name in another field than an identifier.
3. Larger instances of the gate: with two agents `GateLive` and `GateTamper` take four minutes and
   more. The proofs cover any number of agents for the safety properties; for the liveness properties
   nothing does.
