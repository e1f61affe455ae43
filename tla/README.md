# A formal model of the session fleet

`scripts/fleet` keeps track of the sessions that work on a project: who is
registered, who owns the project, which handoffs are open, how far each node is
"done" and which node waits for which. `scripts/superhuman_profile.py` decides
what a session may do unattended and which models its agents use, and a hook of
the harness looks at every dispatch of a subagent. There is no server. Every
command is a short-lived process that reads and writes files, and any number of
them may run at once, be killed, or be repeated. This directory models that
shared state in TLA+, checks it with TLC and proves most of it with TLAPS.

## The system

| Part | State it keeps | Operations | Made correct by |
|---|---|---|---|
| Event log (`core/events.py`) | `events.jsonl`, the `.lock` anchor | `append`, `append_batch`, `read_all`, `acquire_lock`, `release_lock` | mutual exclusion; no event lost, doubled or glued to a torn line; a batch is decided on the log it is appended to |
| Ownership (`core/project_owner.py`) | events in the log only | `claim`, `stand_down`, `fold_owner`, `resolve_legacy_owner` | one owner at a time, never grabbed, ended once; torn takeovers have no effect |
| Handoffs (`handoff.py`) | events, fragments | `emit`, `self_register` by id or by place, `cancel`, `stale_report` | cancel is terminal, a launch is recorded for the right row |
| Fragments (`core/store.py`, `core/projection.py`) | one JSON file per node: a cache of the log | `read_fragment`, `write_fragment`, `iter_fragments`, `project_event`, `rebuild` | never ahead of the log; recoverable from it |
| Done ladder (`core/done.py`, `fold_done_level` in `core/schema.py`) | events, `done_level` of the fragments | `advance`, `event_for` | one rung at a time, each on its own evidence |
| Dependency edges (`core/edges.py`) | events only | `add_edge`, `resolve_graph`, `derive_edges`, graph queries | no circular wait, whoever adds edges |
| Registration (`cli.register_session`, `adapter/`) | events, fragments | `fleet register` | registered once, found by queries |
| Queries, view, doctor (`core/query.py`, `view.py`, `doctor.py`) | none | pure reads | what they show is what the log says |
| Command line (`cli.py`) | none | the verbs; bounded retries on a lock timeout; projects what the core recorded | |
| Observe facade (`observe.py`) | a journal | emit, launch and session-start "fail-soft": in a thread, with a wall-clock limit | never blocks the harness, no success that is not recorded, no failure without a trace |
| Bounded journal (`bounded_journal.py`) | a text file of at most n lines, a lock | append and trim | newest lines kept |
| Hook installation (`hooks_install.py`) | the harness's `settings.json` | install, uninstall, status | whole installs, nobody else's entries touched |
| Role gate (the pre-tool-use hook, `role_block.py`, `role_tiers.py`, `dispatch_predicate.py`) | a cache per session, a decision log | one process per dispatch: compare, locate, deny or not, log | denies only what is out of order, logs what it said |
| Locating (`locate.py`) | none | `locate_project` | a slow git call never names a wrong project |
| Profiles and ladders (`superhuman_profile.py`) | profiles, generated agent files, a Hermes config | `check`, `models set`, `init`, `install-agents`, the Hermes merge, `doctor` | answers are read back, drafts validated, hand-written files kept; verdicts that hang on nothing silent |
| Identity and paths (`project.py`, `project_id.py`, `path_safety.py`, `config.py`), tier audit, harness adapters | `SUPERHUMAN.md`, config files | reads, mint | |
| Shell scripts, skill text, templates, preview server | the repository | release, cleanup, autonomous iterations | |

How they interact. In the fleet everything that changes shared state goes
through `append` or `append_batch`. Each caller first reads the log *without*
the lock, decides, and then appends with a `precondition` that is evaluated again
under the lock. Afterwards the caller (in `handoff.py`) or the CLI (for
`core/done.py`) projects the new event onto the node's fragment file, without
any lock; a missing or corrupt fragment makes it a `rebuild`, which replays the
whole log and rewrites every fragment. Readers such as the fuzzy match of
`self_register` go by fragments and log together. The observe facade runs
these calls in threads that it may give up on. The installer writes the
settings from which the harness starts the gates; a gate compares a prompt with
the role files of the checkout that its command points to, asks the locator
where the session works, and shares a cache with the other gates of its session.
The commands of `superhuman_profile.py` share files under `.superhuman/` and
`~/.claude/agents` without a lock.

What is hard in it:

- processes interleave at every file operation, and may die at each of them;
- unlocked reads are stale when the decision is written;
- a takeover of a project is a batch of up to three lines that can be cut short;
- fragments are written out of order, overwritten by older rebuilds, lost or
  corrupt;
- calls are retried after lock timeouts, and deduped by idempotency key;
- the log may hold events that no checked operation wrote;
- threads go on after the call that waited for them returned;
- git calls and gates run out of time, and caches outlive what they name;
- files are truncated before they are filled, and edited by hand meanwhile.

`PROJECT.json` lists these hazards at their lines with the properties that
cover them.

## The modules

| Module | Models | Remarks |
|---|---|---|
| `AppendLog` | the log for callers of `append` | one event, one step: dedupe, precondition, new line |
| `FleetLog` | the log for callers of `append_batch` | decision at one instant, then line by line, cut short by a crash |
| `AtomicLog` | `FleetLog` as a specification | what `EventLog` implements |
| `EventLog` | `core/events.py` on the real file | anchor lock, deadline, read under the lock, torn and unterminated lines |
| `OwnerState` | the pure functions of `core/project_owner.py` | `fold_owner`, legacy owner, `decide_claim`; an event id is the event's position |
| `Ownership` | `claim`, `stand_down` and the append of a registration | extends `OwnerState` and `FleetLog` |
| `OwnerFold` | `fold_owner` as the loop it is, against `FoldOwner` | extends `Ownership`; a recursive function over the log's positions |
| `OwnerRegister` | what ownership promises | abstract specification, refined by `Ownership` |
| `HandoffRegister` | what handoffs promise | abstract specification, refined by `Handoff` |
| `Handoff` | `handoff.py` with `project_event` and `rebuild` for the lifecycle | extends `AppendLog` |
| `DoneLadder` | `core/done.py`, `fold_done_level`, `project_event` and `rebuild` for the level | extends `AppendLog` |
| `EdgeGraph` | `add_edge` and `resolve_graph` | extends `AppendLog` |
| `DependencyGraph` | the stack search of the cycle guards and the queries on a graph | extends `EdgeGraph`; loops are recursive functions over their states |
| `BoundedJournal` | `bounded_journal.py` | a component that journals extends it |
| `Observe` | `observe.py`, with `register_session`, `emit` and `self_register` as its threads run them | extends `AppendLog` and `BoundedJournal` |
| `HooksInstall` | `hooks_install.py` | settings as structured values |
| `Locate` | `locate.py` | operators only |
| `RoleGate` | the pre-tool-use hook with `role_block.py` and `role_tiers.py` | extends `Locate` |
| `HookedSession` | installer and gates on one settings file | composes `HooksInstall` and `RoleGate` |
| `Ladder` | the decisions of `superhuman_profile.py` | operators only |
| `Profile` | its commands on shared files | extends `Ladder` |
| `EventLogProofs`, `OwnershipProofs`, `HandoffProofs`, `DoneLadderProofs`, `EdgeGraphProofs`, `ObserveProofs`, `HookedSessionProofs`, `ProfileProofs` | theorems | `OwnershipProofs` extends `OwnerFold`, `EdgeGraphProofs` `DependencyGraph`, `HookedSessionProofs` `HookedSession` |
| `MC...` | instances for TLC | |

The layers of the fleet: `EventLog` is the only module that knows bytes and the
lock. It is shown to implement `AtomicLog`, so the components above it are
modelled on the atomic log, in the form of `FleetLog` if they write batches (a
reader without the lock can see the middle of a batch) or `AppendLog` if they
write single events (a single line appears at once).

**EventLog.** `pc` follows `append_batch` (a call of `append` is a batch of
one): `waiting` in the loop of `acquire_lock`, `locked`, `deciding` once
`read_all` has returned, `writing` in `_append_lines`. The file is what its
readers make of it: the sequence of parseable lines, plus the state of its last
byte, `clean`, `torn` (part of a line) or `open` (a whole line without its
newline, which readers do parse). `_append_lines` writes a newline first if the
file does not end with one; without that (`Glued`) the old line would be lost.
A process may die between two actions (`Crash`) and inside a write
(`CrashInWrite`); the kernel then closes its anchor.

**Ownership.** `EvaluateClaim` and `EvaluateStandDown` are one pass of the loop
up to `append_batch`: unlocked read, decision, batch. `plan` holds the batch and
the `View` the decision rests on, which the precondition compares under the
lock. `AppendUnmet` goes round again, at most `MaxReevaluations` times. The
nodes whose sessions ended, the attested owner and the claimant's own
registration are inputs of the call, as in `fleet owner claim`.

**Handoff.** One action per unlocked read or write: `Scan`, `List`, `Compare`
and `Refill` are the steps of `_open_awaiting_launch_rows`; `ReadFragment`,
`AppendEvent` and `Project` those of `self_register`; `RebuildRead` and one
`RebuildWrite` per fragment those of `rebuild`. `job` also records, for the
properties only, which rows were open and shown when the call began.
`HandoffRegister` is what all this promises: `Past` reads off the log what has
happened to a handoff, `Launching` is the launch that a call has recorded and not
yet reported, `Told` how the last call of a process ended.

**DoneLadder.** Levels are numbers 0 to 4. `Load` and `Store` are the read and
the write of `project_event`; the read level is folded with the event
(`FoldDoneLevel`), the same fold as over the log (`CurrentLevel`).

**EdgeGraph.** `ReachableFrom` defines by least sets what `_reachable_from`
computes with a stack. A log may start with forged edges, which `append`
accepts without the check of `add_edge`.

**DependencyGraph** has no state of its own. It writes the queries as the code
computes them, with stacks, colours and adjacency lists, and compares each with
what it is to return, on all graphs that the behaviours of `EdgeGraph` reach. A
`dict` and a list have an order where a set has none, so every property
quantifies over all orders of the adjacency lists and of the nodes. A loop is a
recursive function over its own states. The depth-first search of
`detect_cycles` keeps its path of gray nodes, each with the iterator over its
successors.

**BoundedJournal.** `JournalRead` takes the lock and prepares the new contents,
`JournalReplace` is `os.replace`; a writer may fail or die between them.
`written` records every line for the property.

**Observe.** A process is one invocation of the command line. Its main thread
(`pc`) resolves the workspace, starts a daemon thread, joins it until the
deadline, and journals what went wrong; `Answer` is the result and the exit of
the process, which ends its threads. `threads` are the daemon threads: one per
call, two for a session start that tried to launch a handoff first. A thread
appends and projects in two steps and may raise or hang anywhere. `workspace` is
what the configuration says: disabled, without a project identity, or ready. A
handoff is emitted, cancelled or launched by its id, each as one event; the
details of that are in `Handoff`.

**HooksInstall.** A settings value is what the JSON says: no object, or events
with lists of groups with lists of commands, where any level may be something
else (`Odd`, `Missing`) because others write the file too. `RemoveOwned` is
`_remove_owned`: `Kept` are the groups of an event that stay, `Remaining` the
commands of a group. `AddEntry` is a turn of the loop in `_add_owned`, which
refuses or lets the command be `Joined` to the first `Matching` group; `AddOwned`
is the loop. `Installed` and `Uninstalled` go from what was read to what will be
written. The properties speak of the places where commands of ours stand
(`OurPlaces`), of what each of them registers, and of what is `Foreign`. `CallInstall` and
`CallUninstall` are the read, `Replace` the atomic replacement later on; a
`Rewrite` by the harness or the operator may come between.

**Locate.** A place is what git and the file system say of it: its working tree,
the one around it, the project directories it lies in, its branch, and what its
profile declares. `answered` is the set of git calls that came back in time.
`ResolveAt` is the ladder of uniqueness tests at one root, `Locate` the three
roots in order.

**RoleGate.** One process per dispatch: `StartGate` is the comparison with the
role files of the hook's own checkout, `ReadCache`, `LocatePrimary`, `WriteCache`
and `Fallback` find the session's project, `Decide` compares once more with the
session's checkout if git says both are one repository, `Deliver` prints and
flushes the denial and then logs. `KillGate` is the end of the harness's budget,
anywhere. The text comparison is one verdict (`CheckRoleBlock`). `calm` records,
for the property only, that role files, projects and working trees stayed as they
were. A refusal of the locator is cached as well and stands for the rest of the
session, although it may come from a slow git call or from a time before the
project existed: the gate is off then, and the code says that this is meant.
Working in a linked worktree whose project is found at the main checkout means
that the second comparison is with the role files of main.

**HookedSession.** The harness starts a gate for each command of the role gate
in the current settings, in a checkout that is still there. Nothing else ties
the two halves, and that is the point of composing them: the root a gate compares
with is what installs, uninstalls and rewrites left in the file.

**Ladder.** A rung is a name, a function from detector keys to what they accept,
and a function from action classes to approvals. `Stage` is `resolve`,
`Ambiguous` its warning, `CheckLadder` the exit code of `cmd_check` below level
H, `ProposeLadder` what `init` drafts from a discovery. Globs are names or `*`.

**Profile.** `disk` is the contents of every file. A process works off `todo`,
the files it has yet to write by their turn. `Truncate` and `Fill` are the two
halves of `Path.write_text`, `ModelsSwap` is validation and rename; a rename or a
save unlinks the file that a filling process holds open (`linked`). `init`
validates its draft in a file whose name every `init` shares (`InitCheck`).
`changed` records, for the properties only, which files others changed behind a
command's back: since its look, or since it opened the file it fills (`Noted`).
A patched profile is loaded from a temporary file of its own before the rename
(`PatchAccepted`); what `init` validates it unlinks, also under the hands of another
`init` that is filling it. `models set` writes every tier it knows, keeps tiers it does not
know, and refuses a `models:` key it cannot patch (`odd`). The texts of profiles
are their values.

## The runs

| Run | Instance | Shows |
|---|---|---|
| `event_log` | 2 processes, fair; a single event, another, a batch of two that starts with the second, a batch that repeats a key, and a precondition of one on the other; no bound on calls | type, lock holder, unique keys, durability, refinement of `AtomicLog`; every call ends |
| `ownership` | 3 sessions, 2 processes, 3 calls, 1 re-evaluation, fair; a project that has an owner, or two registrations and no ownership event yet (94,796 states) | the first claim respects the legacy owner; owners succeed one another: registered before they claim, ended once and before their successor; claims are serialised; refinement of `OwnerRegister`; a call's own steps run out, also one whose precondition fails again after its re-evaluation, and it returns; the loop of `fold_owner` agrees with `FoldOwner`, forged lines included |
| `handoff` | 2 handoffs for one place, 2 processes, 4 calls, 1 mishap | cancel is terminal, fragments never lead, refinement of `HandoffRegister` (one call launches, is told so, and no other), a handoff is found by its id, a launch by place passes over no rival that was shown |
| `handoff_guess` | as above, 3 calls, no mishap | **violated**: a launch by place guesses while an `emit` is in flight |
| `done_ladder` | 2 nodes, 2 processes, 4 calls, 1 mishap | rungs in order, earned, fragments never lead |
| `done_race` | 1 node, 2 processes, 4 calls | **violated**: projections out of order leave a fragment behind the log for good |
| `edge_graph` | 3 nodes, all 12 ordering edges, 1 other type, self edges, 2 processes, 3 calls; an empty log or one with forged edges (238,806 states) | no stored edge is on a circle, forged log or not, and without forged edges nobody waits in one; flags are final; readers keep the order that is stored and resolve no cycle from a forged log; the reported order and the searches are exact on every graph that arises |
| `observe` | 2 processes, fair, 1 session, 1 handoff (not emitted, open, cancelled), 2 calls, a journal of 2 lines | successes and delivered ids are backed by log and fragments, the journal keeps the newest lines, every call returns |
| `profile` | 2 processes, 2 commands or edits; a worktree inside a repository inside the home directory, given as a path or as the default root, or an override; five initial disks, one with a broken profile; six places, eight projects (70,093 states) | answers are read back and cost no other, what is completed in a profile loads, hand-written agents survive an install that saw them, install satisfies doctor, order matters only where it is reported, levels are nested |
| `profile_marker` | as above | **violated**: a marker in a proposed rung loosens what an unattended run may do |
| `hooked_session` | 2 installers, 2 gates with one cache, a checkout, its worktree and a clone inside it, a skill root that the ownership pattern does not recognise, 3 events (177,776 states) | installs are exact, replacements whole; denials are deserved, the log tells the truth, slow git misleads nobody |
| `hooks_again` | as above | **violated**: a second install writes again, after the first has filled a group without commands |

The four violated properties state what comments and docstrings of the code claim
(`findings` in `PROJECT.json` quotes them). In the first two the log itself
stays right, and every decision that matters is taken again under its lock: the
damage is confined to the cached fragment or to a match made from it. In the
third the rung asks for path *and* marker, so a deployed copy that shows only the
path falls through to the permissive catch-all. In the fourth a group that an
operator left without commands is filled by the first install, and then holds
nothing but ours.

Things the models show that no property forbids:

- a stale `rebuild` of one process may write `awaiting-launch` over the
  `cancelled` of another, so that a cancelled row is listed as open again; a
  launch of it is still refused under the lock (`NoLaunchAfterCancel`);
- a session start whose launch timed out goes on to register the session while
  the given-up thread may still record the launch: the log then has both, and
  both are true;
- a group without commands that an install filled counts as ours from then on. A
  second install takes it away and goes on with the next group of that matcher, or
  appends one (`hooks_again`); if that next group's commands are no list, it
  refuses. An uninstall drops the group as well, although its docstring
  (src/scripts/fleet/hooks_install.py:876) speaks of restoring the prior state
  exactly; nor does it bring back an event with an empty list, an empty `hooks`
  object or an absent file. `InstallIsExact` excuses just these, by name
  (`HasBareGroup`, `HasBareEvent`, `Spared`), and holds groups without commands
  that no entry goes into to be as foreign as any other;
- an explicit `--skill-root` without a directory `superhuman` in it is not
  recognised later: the next install doubles its entries and an uninstall leaves
  them. The comment at src/scripts/fleet/hooks_install.py:126-131 says so. Such a
  root is in the model (`Checkout` without `Recognised`), and the properties say of
  it only that nothing recognised is left beside it;
- of two overlapping installs, or an install and an edit by the harness, the
  later replacement wins and the other's change is lost: `ReplacementsAreWhole`
  says that it is lost as a whole, and only then. The same goes for two
  `models set` on one profile: the later rename wins, and the other's answer is
  lost if it was saved after the later one had read the file;
- `detect_cycles` returns each cycle from the target of the back edge to its
  source (`tuple(path[idx:])`, src/scripts/fleet/core/edges.py:571), while its
  docstring (:538-540) has it start *and end* at the target. `IsCircle` states
  what the code does: no node is given twice, and the edge from the last to the
  first is implied;
- `find_profile` goes up from the directory it is given (:466 of
  superhuman_profile.py), but the default root is `.`, whose `parents` are empty.
  Run in a directory below the repository's root without a path, a command sees
  no profile of the repository (`HereOnly` in `MCProfile`);
- an `install-agents` that dies between truncating a file and filling it leaves an
  empty one, which carries no marker: every later install refuses it as somebody's
  own, until the operator deletes it;
- an `init` validates what is in the temporary file that all of them share, and
  then fills the profile with its own draft. One that starts meanwhile may truncate
  or remove that file, and what is validated is not what is written.

*Bounds.* `MaxCalls` bounds the calls (and edits) of a behaviour, `MaxMishaps`
the crashes and damaged files, `MaxEvents` the installs, dispatches and edits,
`MaxReevaluations` is 3 in the code and 1 here: three calls make the precondition
of one fail twice, so that it re-evaluates and then gives up as contended; a
further round differs only in the counter, and `OwnStepsRun` is proved for any. Two processes and two competing objects are what
each known race needs (a victim and an intruder); two also let one wait while
the other dies in `event_log`; three sessions in `ownership` are an owner and
two rival claimants; three nodes are the shortest cycle that is not
just an edge and its reverse, and three calls build it. `ownership`
restricts claims to sessions known to be pm and to one ground at a time (an
attestation or the first session ended).
Two lines are the shortest journal in which a trimmed line and a kept one differ,
and two calls of a session start write four. In `hooked_session` three events
are an install and two dispatches, or an install, a change and a dispatch; gates,
installers and their deaths are not counted, and the initial settings hold a
dispatchable gate already. In `profile` two commands are a victim and an
intruder. Where a run's safety properties are proved (below), the proofs extend
them to any number of everything.

*Deadlock* is checked in `event_log`. All other runs bound their calls, so they
stop when these are used up, and say `CHECK_DEADLOCK FALSE`.

*Symmetry* is used for processes, installers, sessions, rows and nodes in the
runs without liveness whose size calls for it: no definition tells them apart.

*Fairness.* Weak fairness of a process's own steps in `event_log` and
`ownership`: the code between two of them is straight-line code that the
operating system schedules, `acquire_lock` polls until its deadline, and a held
lock is only waited for until then (`Timeout`, `AppendTimeout`). In `observe`
only the main threads are fair: a daemon thread may hang for ever, and the join
with its deadline is what ends the call. Nothing is assumed of crashes, of new
calls, or of who gets a contended lock.

*Mutants.* Every property of a passing run has a mutant in `PROJECT.json` that
breaks it: a dropped check, a swapped order, a missing recovery. One plausible
mutant breaks nothing: dropping the precondition of `advance` under the lock.
`advance` records a level under a key of node and level and levels are never
undone, so whoever passed the unlocked check either finds the next rung still
free or is deduped. The precondition is defence in depth.

## The proofs

Eight modules prove theorems for every value of the constants: any number of
processes, sessions, rows, nodes, gates, calls, crashes and damaged files. Each
listed theorem states a property that a run checks on a small instance, or a type
invariant that the others rest on, with two exceptions that say so (`HistoryStays`,
`FailuresAreOnRecord`). The pattern is the same throughout: an
invariant `Inv` that is inductive, one lemma per action that it is kept, a lemma
for what a step leaves alone, and the property as a consequence.

**`EventLogProofs`** (assumptions: batches are sequences of events, "nobody" is
no process). `TypeCorrect`, `MutualExclusion`, `RecordedOnce`,
`AcknowledgedStays`; `HistoryStays`: readable lines keep their places
(no run checks it by itself);
`Implements`: the lock protocol on the file implements `AtomicLog` under the
mapping `Writer`, `BatchOnDisk`, `TodoOnDisk`. That a key is not recorded twice
depends on what the process about to write read earlier, so `Inv` adds `Known`:
what a process inside the lock read is still the whole log, and while it writes,
the entries left to write are exactly those of its batch that are not recorded.
For the refinement, `Decide` is the abstract `Begin`, `WriteLine` is `Put`, the
end of a write or a death in it is `Release` or `PutAndDie`, and all else
stutters.

**`OwnershipProofs`** (initial logs are `Sound`; claims and re-evaluations are
what their types say; "nobody" is no node and no process). `TypesHold`,
`OwnersSucceed`, `ClaimsSerialised`, `FirstClaimRespected`, `OwnStepsRun`, and
`OwnershipIsARegister`: the log as readers fold it implements `OwnerRegister`.
`Sound` is what the properties say of the log, with unique keys and with
`Refers`: a stand-down names the event it ends, and the claim it is paired with.
The empty log is sound. One lemma per kind of line says what it adds to a sound
log: a registration, a stand-down that nothing follows yet because the batch may
be torn (`DisplacingLine`), one that empties the seat (`LeavingLine`), a claim
(`ClaimLine`). `PlanFits` ties a batch to the view it was decided on, and `Inv`
says that what is left of a batch is what the log does not have, and that while an
ownership line is left, the view still stands. The positions of newest events
exist by the well-foundedness of < on the naturals (`LatestIs`). `LoopIsRight`:
the loop of `fold_owner` over the log, state by state, returns the owner that the
declarative `FoldOwner` defines, on every log that arises, forged lines included;
its invariant says what each variable of the loop holds after k lines.
`OwnStepsRun` is the measure behind the liveness of the run: `StepsLeft` goes down
with every step of a call, a re-evaluation included, and nobody else raises it.

**`HandoffProofs`** (each row has a place; `NoRow` is no row). `TypesHold`,
`CancelIsTerminal`, `CacheNeverLeads`, `ReportsAreFacts`, `IdsAreFound`,
`ShownRivalsAreRefused`, `HandoffsAreARegister`. `Knows` is what a process has learnt at each point of
its call: what it found in the log is still there (`Facts`), a rebuild has to
write just the rows it read (`Replay`), and after the rebuild of a call by id its
row is readable or about to be written (`Found`). For the launch by place, `Watch`
follows each rival through both readings that are compared: none escapes unless a
file is damaged. For the refinement of `HandoffRegister`, a new line of the log is
the abstract `Emit`, `Launch` or `Cancel`, the end of a call is `Tell`, its
beginning `Ask`, and everything else stutters: searching, projecting, rebuilding
and damage are invisible. It needs one fact more, that nothing happens to a
handoff before it is emitted (`EmittedFirst`); that a dedupe is told as such and
a launch as a launch rests on the key of an event being the event.

**`DoneLadderProofs`** (`absent` and `corrupt` are no level; requests and initial
logs are of their types). `TypesHold`; `OneRungAtATime`: from any log in
order, every recorded rung follows the one below it, whoever races;
`LevelsAreEarned`: the level the log shows is one whose whole way up is recorded;
`CacheNeverLeads`: a fragment never shows more than the log, through projections
out of order, stale rebuilds and damage. The last needs the fold one event at a
time: folding more events never takes a level away (a fold over a set is taken
apart one element at a time), and a projection in flight carries an event that is
in the log. It also needs a log in order to begin with: on a log that somebody
forged, an event deduped against a forged key is projected as if its rung had been
earned.

**`EdgeGraphProofs`** (initial logs are `Plausible`: written by `add_edge` and by
others who called `append` with edges it never checked; `EmptyLogIsPlausible` and
`ForgedLogIsPlausible` show logs of both kinds). `TypeCorrect`, `NeverCircular`,
`FlagsAreFinal`. The heart is `NewEdge`: if v does not reach u, the edge from u
to v closes no circle. `NoCircularWait` says that every set of nodes has one
that waits for none of the set, which keeps paths out of that proof. On a log that
holds forged circles `NeverCircular` speaks of the stored edges alone: a set of
nodes that is closed under what forged and stored edges lead to keeps the end of
such an edge from its start (`KeptApart`), and stays closed when the precondition
lets another edge in. For the
flags, `Inv` adds that a process about to write a flag was refused and still
would be, because reachability only grows (`RefusalStays`). `ReadersOrder`: what
readers resolve keeps every checked edge and has no cycle, also from a forged
log, since the resolver adds an edge only if it closes none (`ResolvedUpTo`, one
event at a time). `QueriesAreExact` and `ReportsAreExact` (finitely many nodes):
on every graph that arises and for every order of its adjacency lists, the stack
search of the guards, the blockers and the clusters are what the edges lead to;
`detect_cycles` reports circles, and one whenever there is one; the transitive
reduction keeps the order with no edge to spare. Each loop has an invariant and a
measure that decreases; `RunsEnd` and `RunsExist` derive from the two, once for all loops, that
the loop ends in a state of its invariant. For the depth-first search the
invariant is the classical one: the gray nodes are the path, and no black node
leads to a white one or lies on a circle.

**`ObserveProofs`** (initial logs hold events; rows are no sessions; the journal
has room for a line). `TypesHold`, `NewestAreKept`, `SuccessesAreBacked`,
`FailuresAreOnRecord` (that a failed call's line was written to the journal; no run
checks this one). `JournalInv`: who holds the journal's lock has prepared
the present text and its own line; `NewestAgain`: trimming a trimmed text with one
more line trims the whole. `ThreadsInv`: a thread past its append has its event
in the log, whether or not anybody still waits for it.

**`HookedSessionProofs`** (the main checkout of a main checkout is itself,
dispatches and projects are of their types). `SlownessMisleadsNobody`
is about the locator alone: the ladder with an unanswered call names what it
names with all answered, nothing, or a project around the place. For
`DenialsDeserved` and `LogIsTrue`, `Undecided` and `Decided` say what a gate
around which nothing changed still knows of the role files, and that only gates
that are done are in the log. The settings file is arbitrary there: nothing is
assumed of which checkouts the gates are started from.

`InstallsExact` and `ReplacementsWhole` are about the installer (no two entries
share event and matcher; linked worktrees and recognised roots are checkouts; `SettingsAreShaped`: the file is at first, and is left by
others, absent, no object, or an object whose hooks are missing, odd or events,
with lists and groups of the form that the module's constructors give them).
`HooksInv` says that what an installer is about to write is what `Installed` or
`Uninstalled` makes of a shaped value; the rest is about these two functions.
Each filter concatenates, over a list, lists of one element or none, and
`FilterFacts` and `FilterAgain` hold for any such filter: what it lets through,
when it changes nothing, when two in a row are one. So removal keeps what is
foreign (`RemoveKeeps`), and a new command in a group changes neither that nor
what removal leaves (`JoinedKeeps`). `Reached` is the invariant of the loop of
`_add_owned`: after n entries the commands of ours are those n, each at one place
(`Carries`). The loop also keeps
what is foreign at every event, and, if no group without commands was there to be
filled, what `Kept` makes of the groups (`SameAt`, `Bareless`, `Gapless`). For the
second install, `SameStart` shows that removing what the first one added then gives
back the hooks it had started from, up to events without groups, and `SameAdded`
that the loop cannot tell those apart.

**`ProfileProofs`** (home is one of the directories; the initial disks have a
file, maybe absent, at each path; dispatch classes and search paths are
sequences). `AnswersComeBack`, `ProfilesLoad`, `HandWrittenStays`,
`InstallIsEnough` speak of commands: `Purpose` says what each point of a command
writes, and `Knows` what it knows of the files unless others changed them behind
its back: `KnowsFile` that an open file holds nothing yet, `KnowsModels` that the
file to replace is the one that was patched, `KnowsInit` that the draft about to be
written was loaded, `KnowsInstall` that each planned agent is on disk or still to
be written. `Bystander` says what a step of another leaves of this.
`FoundAgain` shows that replacing a profile does not change which profile is
found. `OrderIsReported` and `LevelsNest` speak of decisions on whatever ladder
is loaded: without the warning the winner is strictly ahead of every other match
(`WinnerIsAhead`), so its place in the list does not matter (`AheadWins`).

Only model-checked:

- liveness (`EveryCallReturns`, `CallsReturn`): it needs `ENABLED`.

The library's induction theorems take a predicate as a parameter, which these
provers cannot instantiate. Where a proof needs induction it says so with a set
instead: the numbers (or finite sets) for which the claim holds contain the first
and are closed under the next (`SetInduction`), or there is a least one for which
it fails (`LeastNatural`).

## What the models leave out

- Schema validation of events and the check of who may write which field: they
  reject a call before it touches anything.
- `iter_fragments` reads the directory in one step. In the code files are read
  one by one; a file that changes meanwhile gives a mixture of two directory
  states, of which `Scan` shows both but not the mixture.
- In `Handoff`, `project_event` is one step: the lifecycle it writes does not
  depend on the fragment it read, except on whether that was readable. In
  `DoneLadder` it does, and there read and write are two steps.
- `rebuild` is per project; other projects' events and fragments never enter.
- The bounded retry loops around `append` are one `Timeout` that may happen or
  not: a retried attempt is an attempt that came later.
- The read of the event after a successful append (`_find_event`, `event_for`)
  always finds it, since the log only grows.
- Field-by-field contents, wording, time stamps (those of journal lines too, which
  are taken before the journal's lock, so that the last line need not carry the
  latest), and the lexical test of human approvers (one boolean).
- `Observe` leaves out the launch by place with its ambiguous outcome, the
  self-ignore marker, `observe_status`, and failures journaled before the facade
  is entered. A disabled workspace stays disabled during a call.
- `HooksInstall` leaves out the layout of the JSON text, dry runs, the diff and
  `status`; it takes the file to be laid out as the installer does it, so that
  "unchanged" is about the value.
- `RoleGate` leaves out how a prompt is normalised and compared, and the parsing
  of `role-tiers.json`, which is either readable or not.
- `Profile` leaves out probing (`discover` is an input), the text of files, what
  `doctor` advises, and the digest of a profile, which is only printed. (The
  comment on `_digest` says that filling in an unresolved cell is no drift; the
  digest does change then, and what stays equal is a cell left out and a cell
  declared null.)
- The parts marked not modelled in `PROJECT.json`, for the reasons given there.

## Plan

Done: the log and its lock, ownership, handoffs, done ladder, edges, facade and
journal, the installer composed with the role gate and the locator, profiles and
ladders; the safety properties of all of them proved where the prover reaches.

Left, extending the model:

1. `register_session` and `owner claim`'s register-if-absent with their own
   projections; `list_sessions` and the view as readers.
2. `derive_edges`.
3. The tier audit's reading of transcripts, and `observe_status`.

Left, proving: the invariants of whatever the items above add. Every property
that a run finds to hold and that is not liveness has its theorem.
