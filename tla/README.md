# A TLA+ verification of nebula-core

nebula-core is a knowledge store for people and AI agents.  A PostgreSQL database
holds entities, context items, relationships, jobs, files, logs and protocols; a
Python server exposes them to agents through MCP tools (`server/src/nebula_mcp`)
and to the command line through a REST API (`server/src/nebula_api`); a Go program
(`cli/`) is a terminal interface and a command-line client.  What an agent may see
is decided by privacy scopes, and what an untrusted agent wants to change goes
through an approval queue that a person reviews.

This directory models the parts of that system whose correctness depends on the
order of events: request handlers that issue one SQL statement after another while
others do the same, that die in between, that wait for each other's locks, and that
act on what they read a few statements ago; two commands that coordinate through
files; and a terminal interface whose commands answer after its user has moved on.

## 1. Inventory

| Component | State | Operations | What makes it correct |
|---|---|---|---|
| Agent enrollment (`helpers.py`, `executors.py`, `server.py`, `routes/agents.py`) | rows of `agents`, `approval_requests`, `agent_enrollment_sessions`, `api_keys` | register, approve, reject, wait, expire, redeem, update_agent | one key per registration; a key only for an active, approved agent; decisions are final |
| Approval queue (`helpers.py`, `context.py`, `auth.py`, `routes/approvals.py`) | `approval_requests`, advisory locks | submit, capacity check, bulk submit, approve and execute, reject, mark failed | at most `MAX_PENDING_APPROVALS` pending per agent; an approved change is executed once; a rejected one never |
| Entity store (`executors.py`, `routes/entities.py`, `helpers.py`) | `entities`, `audit_log`, advisory locks | create with duplicate check, update, revert, bulk tags and scopes | no two live entities with one name, type and scopes; what is reported as created is there |
| Bulk import (`imports.py`, `routes/imports.py`, `server.py`) | one transaction over many rows | import entities, context, relationships, jobs | the report agrees with what was committed |
| Relationship graph (`executors.py`, `routes/relationships.py`, triggers in `database/schema.sql`) | `relationships` | create, update, symmetric mirror, cascade archive | cycle-sensitive types stay acyclic; mirrors stay in step; no active edge on an archived node |
| Audit log (triggers, `routes/audit.py`) | `audit_log`, session settings `app.changed_by_*` | record, link, history, revert | a change is attributed to who made it |
| Taxonomy and enum registry (`enums.py`, `routes/taxonomy.py`, `server.py`) | taxonomy tables, an in-memory name/id cache per process | create, update, archive, activate, reload | a handler never acts on an id that no longer stands for the name |
| Jobs (`executors.py`, `routes/jobs.py`) | `jobs`, per-quarter identifiers | create, update, update_status | identifiers are unique; completion time agrees with the status |
| API keys and authentication (`auth.py`, `routes/keys.py`) | `api_keys` | create, list, revoke, authenticate | a revoked key authenticates nobody |
| Rate limiter (`rate_limit.py`) | per-key windows in memory | admit, expire | no more than the limit within a window |
| Context, files, logs, protocols, search, export, audit routes | tables of the same names | create, update, read | scope filtering of reads |
| Service manager (`cli/src/internal/cmd/service.go`) | a lock file, a runtime state file, a log, a background process | start, stop | one server process per machine, which a later stop finds |
| Terminal interface (`cli/src/internal/ui`) | a bubbletea model of the program and one of each of its ten tabs; the commands in flight | key presses; the answers of asynchronous commands | what is shown, saved and rejected is what the user chose, whatever answers come in between; whatever waits is answered |
| REST client (`cli/src/internal/api`) | base URL, key, timeouts | calls, retries | errors are reported, not swallowed |

The components interact through the database: there is no message bus.  Handlers of
one server process interleave at every `await`; several processes (the REST server
and one MCP server per agent) share the database.  Each statement sent to the pool is
a transaction of its own unless the handler opened one, and READ COMMITTED is the
isolation level everywhere.


What is hard in this code, and therefore what the models are about:

- **Concurrency.**  Handlers read a row with one statement and act on it with a later
  one; what keeps two of them apart is a conditional `UPDATE ... WHERE status = ...`, a
  row lock, an advisory lock, a unique index, or nothing.
- **Failure in the middle.**  Reviewing a request takes two to six transactions.  The
  server may die, and a statement may fail, between any two of them; nothing retries.
- **Time.**  Enrollment sessions expire lazily, when somebody looks at them; clients
  poll, time out and come back.
- **Triggers.**  Database triggers write further rows, which fire triggers.
- **Files.**  `nebula start` and `nebula stop` coordinate through files that they read,
  judge and remove by name.

`PROJECT.json` lists each of these at the line where it bites ("hazards"), with the
properties that would catch it going wrong or the reason why no property does.

## 2. Plan

The modules, in the order of importance of what they describe:

1. `Enrollment`: who gets a key.
2. `Approvals`, and `ReviewLedger`, the abstract specification of the review workflow
   that both 1 and 2 implement.
3. `EntityImport`: the duplicate check and bulk imports.
4. `RelationshipGraph`: cycles, mirror rows, cascades, trigger recursion.
5. `ServiceManager`: one server per machine.
6. `Tui`, which composes the ten tabs (`InboxTab` to `SettingsTab`, over `TuiKit`,
   `NotedTab` and `MetadataEditor`) and the dialog `ImportExport`: late answers.

Each has a module that instantiates it for TLC (`MC...`) and one or more with proofs
(`...Proofs`).

Only `Enrollment` and `Approvals` share state.  They meet in `ReviewLedger`
rather than in one composed module: a review of `register_agent` is several transactions
and a review of anything else is one, and `Approvals` abstracts the executor that
`Enrollment` details.  `EntityImport` details the step `DirectExecute` of `Approvals`.
The tabs of `Tui` share the bag of commands in flight and the keyboard.

Still to be done, in this order:

- A refinement for `EntityImport`: the abstract specification is a set of entities to
  which one transaction at a time adds those that are not there.
- Bulk imports of relationships: several rows of `RelationshipGraph` in one
  transaction, and the order in which two of them insert mirror images.

Modules about the taxonomy's caches and the audit log were considered and left out;
section 8 says why.

## 3. Conventions

A request handler is a process with a `pc`; each of its actions is one SQL statement, or
one transaction if the code opened one and no other handler can see inside it.  Where a
handler holds a lock over several statements, the statements are separate actions and
the lock is a variable.  READ COMMITTED is modelled by letting each action read the
committed state at the time it runs; an uncommitted row is `staged` and its owner is the
only one to see it.  `Crash` and `Fail` actions end a handler between any two statements
and roll its open transaction back, as PostgreSQL does when the connection is lost.

Names of the code are kept for operations and columns.  Every module has one type
invariant, `TypeOK`; what is not code but history (who has acted before, which rows were
checked) is called so where the variable is declared, and no guard of the code's actions
depends on it.  Operators that start with a comment "Mutant:" are not part of the
specifications: each is a plausible bug which, put in the place of the definition that
follows it, makes one property fail.

## 4. The modules

### Enrollment

| Code | Model |
|---|---|
| rows of `agents`, `approval_requests`, `agent_enrollment_sessions`, `api_keys` | `agents`, `approvals` and `requested`, `sessions` and `granted`, `keys`; `ttlPassed` for `expires_at` |
| `SELECT ... FOR UPDATE` of `redeem_enrollment_key` | `rowLock` |
| `agent_enroll_start`, `register_agent` (MCP and REST) | `AgentEnrollStart`, `RegisterAgentTool`, `RegisterAgentRoute` over `CreateEnrollment` |
| `approve_request` with `execute_register_agent` | `ApproveClaim`, `ExecutorReadTrust`, `ExecutorActivate`, `ExecutorMarkApproved`, `ApproveReturn`; `ExecutorRaises`, `MarkFailed` |
| `reject_request` | `RejectClaim`, `MarkRejected` |
| `agent_enroll_wait`, `maybe_expire_enrollment` | `WaitStart`, `PollRead`, `PollExpire`, `PollWake` |
| `redeem_enrollment_key` | `RedeemLock`, `RedeemRefuseExpired`, `RedeemRefuse`, `RedeemMint`, `RedeemCommit` |
| `update_agent` | `UpdateAgent` |
| the clock, the end of a process | `TtlPass`, `ReviewerCrash`, `ClientCrash` |

Tokens are abstracted: every client presents the right one, so what is checked is that
even its holder gets one key at most.  The scopes are a set of two, the trust mode a
Boolean.

### Approvals and ReviewLedger

| Code | Model |
|---|---|
| `maybe_require_approval`, `maybe_check_agent_approval`, the two bulk imports | `SubmitStart`, then `DirectExecute` or the queue |
| `ensure_approval_capacity` | `EnsureCapacity`, and again under the lock `CreateLock`, `CreateCount` |
| `create_approval_request` | `CreateLock`, `CreateCount`, `CreateRefused` or `CreateInsert`, one item of a batch after the other (`AfterItem`) |
| an item that the normaliser refuses | `ItemInvalid` |
| `approve_request`, `reject_request` | `Approve`, `Execute`, `ExecuteRaises`, `MarkFailed`, `ApproveReturn`; `Reject` |
| `update_agent` | `SetApprovalMode` |
| the end of a process | `SubmitterCrash`, `ReviewerCrash` |

`ReviewLedger` says what a submitter may rely on, with two variables: a change is made
directly, or it is queued, decided once and made at most once, and then only if it was
approved.  Both modules implement it (`ImplementsLedger`); in `Enrollment`, made means
that the agent is active.  The ledger does not promise that an approved change is made:
the code commits the decision first and nothing takes it up again after a crash.

### EntityImport

| Code | Model |
|---|---|
| `entities`; uncommitted rows | `rows`: free, staged, active, archived, lost |
| advisory lock of `execute_create_entity` | `lock`, keyed by `LockKey` |
| `create_entity`, `bulk_import_entities` | `Start` with one item or a batch |
| `execute_create_entity` | `TakeLock`, `CheckPasses` or `CheckFails`, `Insert` |
| exceptions of Python and of PostgreSQL | `ItemInvalid`, `StatementFails`, `AbortedStatement`, `DeadlockVictim` |
| the end of the transaction block | `Commit`, `Crash` |
| updates that bypass the duplicate check | `SetStatus`, `SetScopes` |

A name and a type are one value, `what`.  Scopes are a sequence, because the duplicate
check compares lists and the lock key a sorted list.

### RelationshipGraph

| Code | Model |
|---|---|
| `relationships` and its unique constraint | `edges`, a function on `Keys` |
| `execute_create_relationship` | `Check`, `InsertRow` or `InsertRefused`, `Commit` |
| `sync_symmetric_relationships` on INSERT and UPDATE | `MirrorRow`; `Recurse`, `StackOverflow` |
| `update_relationship` | `UpdateStart`, `UpdateDone` |
| `cascade_status_to_relationships` | `Archive`, `Unarchive` |
| `update_taxonomy` of a relationship type | `FlipSymmetric` |
| PostgreSQL | `Fail`, `DeadlockVictim` |

The mirror row gets no status and no creation check, as in the trigger.  Properties,
notes and embeddings are left out: they decide nothing.  The database schema and the
migration that follows it both define the trigger; the migration's is the one in force.
An update is one statement, so it is modelled without interleaving with the row locks
of other updates; what it is there for is the recursion and the revival of a row.

### ServiceManager

| Code | Model |
|---|---|
| `api.lock`, runtime state, the server, its log | `lock`, `state` and `naming`, `server`, `conflicts` |
| `runStartCmd`: the runtime state | `Look`, then `AlreadyRunning` or `NotRunning` |
| `acquireAPILock` | `CreateLock`, `WriteOwner`, `WriteFails`; `LockExists`, `ReadLock`, then `PidOfServer`, `PidOfOwner` or `PidOfState`, then `LockHeld` or `LockStale`, `DropState`, `ClearLock` |
| `runStartCmd`: the server | `Spawn`, `CutState`, `SaveState`, `CutLock`, `RecordPID`, `Healthy`, `Unhealthy`, `StartupFailed`, `StillStarting`, `StartFails`, `Undo` |
| `runStopCmd` | `StopReadLock`, then `StopUnreadable` or `StopReadState`; `StopUnmanaged` or `StopChoose`; `StopInProgress`, `StopStale` or `StopKill`; `CleanState`, `CleanLock` |
| the server binds, ends; a command is killed | `Bind`, `Exit`, `Crash` |

Assumptions: each command runs once and a process identifier is not used again, so a
start stands for its server's identifier too; a write that comes late replaces the
content; only Nebula's servers use the port; ending a server, with the wait for it, is
one step.  Nothing else is: each load of a file, each answer about a process that
decides something, and each removal is a step of its own, so that between any two of
them another command may load, save or remove what this one is about to act on.  In
particular a start that finds a lock loads the runtime state, asks about its process,
removes the state file and removes the lock in four steps (`service.go:485-495`);
another start that saves its state in between can have it removed.  The history
variable `stolen` records that, and every other removal of a file that has changed; it
is the gap that `OneServerUnlessStolen` and `ServerManaged` name.  A file is created, or cut, in one step and
written in another: the lock (`CreateLock`, `WriteOwner`), the lock again by
`updateAPILockPID` (`CutLock`, `RecordPID`) and the runtime state by `saveAPIState`
(`CutState`, `SaveState`).  A command that has opened a file writes to that file even
if its name is gone (`writers`, `naming`).  The file of the server's identifier is
left out: it is written, and nobody reads it.

### Tui and its tabs

| Code | Model |
|---|---|
| `app.go`: `Update` with a key | the dialogs `OnboardingKey`, `ImpexKey`, `QuitConfirmKey`, `HelpKey`, the palette's three, `QuickstartKey`; the program's `SwitchKey`, `FocusKey`, `LeaveKey`, `ProgramKey`, `RecoveryKey`; else `TabKey`, the key of the active tab |
| `app.go`: `Update` with the message of a command | `Answer`: `TabAnswered`, `AnswerDropped`, `CommandFailed` and the program's own |
| the goroutines of the commands | `cmds`, a bag of records of tab, kind and argument |
| `inbox.go` | `InboxTab` |
| `entities.go` | `EntitiesTab` |
| `relationships.go` | `RelationshipsTab`, with `MetadataEditor` |
| `context.go` | `ContextTab` |
| `jobs.go` | `JobsTab` |
| `logs.go`, `files.go` | `LogsTab`, `FilesTab`, both over `NotedTab` |
| `protocols.go` | `ProtocolsTab`, with `MetadataEditor` |
| `history.go` | `HistoryTab` |
| `profile.go`, `profile_taxonomy.go` | `SettingsTab` |
| `metadata_editor.go` | `MetadataEditor` |
| `import_export.go` | `ImportExport` |

Bubbletea calls `Update` with one message at a time, so an action is one call.  A
command that `Update` returns runs in a goroutine of its own and its answer is another
message, at any time later and in any order; that is where the interface's
difficulties lie.  Each tab module has the record of the tab as its variable, the
action `Key` (a disjunct for each mode, as its handlers are divided) and the action
`Answered(c)` (a disjunct for each message type).  `Becomes` replaces the record and
sends commands.

`Tui` routes as `app.go` does.  A key goes to the innermost dialog that is open, else to
the program, else to the active tab.  The answer of a command goes to the tab that is
active when it comes (`app.go:580`), so that of a tab that has been left is lost; an
error goes to no tab (`app.go:287`).  Two facts about the code follow from this and the
models keep them: a flag that a tab set for a save stays set if the save fails or is
answered elsewhere, and `huh` forms built by a method of a value receiver write into
a copy of the model that nobody reads (`TuiKit`, `NoForm`).

Data: records are identifiers, a text is empty or not, a filter is the set of what it
matches, and the row under a cursor is any row of the list unless a command depends on it
after the cursor has moved, when the list is a sequence.  A record says whose it
is where that could go wrong: a form carries the record it was filled from, a list the
query or the record it was loaded for.

## 5. The runs

| Run | Instance | What it shows |
|---|---|---|
| `enrollment` | one registration, two reviews, two clients, two scopes, one further poll | all safety properties, the refinement of the ledger, and that every request ends |
| `enrollment_grants` | one review with grants | finding: the grants of a reviewer reach nobody |
| `approvals` | one agent, a limit of two, three changes, two submissions, two reviews, batches of one and two | capacity, no change made twice or against the decision, the ledger, and that every request ends |
| `entity_import` | two requests, three entities, four rows, batches in both orders and with a repetition | the duplicate check, atomicity of imports, and that every request ends, deadlocks included |
| `entity_sources` | one entity from two sources | finding: two twins are created |
| `entity_report` | as `entity_import` | finding: rows reported as created are lost |
| `graph` | three items, a cycle of three rows and one mirror image, three requests, two hops | mirrors, cycles of checked rows, cascades |
| `service` | two starts and a stop, all of which may overlap | one server, that a stop finds; a start alone gets through |
| `service_race` | two starts | finding: a lock file not yet written is taken for stale |
| `tui` | seventeen scenarios: each tab alone, and the program's dialogs beside one tab or two | late answers put nothing in the wrong place, and waits end |
| `tui_job_edit` | the jobs tab alone | finding: an edit that was saved leaves the tab waiting |

Why these bounds.  The requests of `Enrollment` and `Approvals` are processes that
start over when they are done, so two reviews and two clients are two at a time and any
number one after the other; registrations do not share a row, so one is enough.
The capacity limit of two is below the three changes, so a batch of two meets a full, a
nearly full and an empty queue.  In `EntityImport` a request runs once: two requests and
three entities are enough for every order of locks, one row left over by each and a row
edited by an update.  In `RelationshipGraph` three rows make the shortest cycle that the
path query, bounded by two hops, has to follow to its last hop; the third request
updates or inserts while two insert mirror images.  `StackLimit` stands for PostgreSQL's
stack depth; any number shows the recursion.  In `ServiceManager` commands run once:
with two starts and a stop, each can find what the two others, complete, failed or
killed at any step, have left.  A larger instance was run by hand without an error:
three starts and a stop of which two overlap (5.6 million states).

In `Tui` a scenario says where the program starts, which tabs are worked in, which
dialogs are opened, whether errors come with hints for recovery, and how many keys are
counted.  The keys counted are those that go to a tab, open a dialog or edit the
palette's text; a tab alone has five to seven, enough to open a record, begin
an edit or a prompt, save it, and begin the next thing while the save is under way.
The protocols have ten, enough to commit a tag and leave another half typed in the form
of one protocol, and to commit one in that of the other.  Creating a relationship from an entity takes more, so one scenario
starts when the relationships of an entity are on the screen (`opened`).  A tab alone
has no failing commands; some of the scenarios of the program have.  Two records, two lists of
them and three commands in flight are enough for an answer about another record, about
the same record but older, and for one after the other.  The run has 743,023 distinct
states.

Deadlock is checked where requests start over.  `EntityImport` and `ServiceManager`
allow it because their requests run once and the system stops when all are done; in
`RelationshipGraph` the nodes' statuses can always change, so the absence of a
deadlock of the whole system says little there about its requests.  `Tui` allows it because the user may quit and
the keys are bounded.

### Fairness

Liveness is `RequestsEnd` of `Enrollment`, `Approvals` and `EntityImport`: a request
that has started ends.  It is checked under strong fairness of each handler's own steps (weak for the
reviews of `Approvals`, which wait for no lock), and of nothing else: neither clients nor
reviewers have to come, sessions need not expire, and crashes need not happen.  The
assumption is strong because the steps that take a lock are enabled only while nobody
else holds it.  PostgreSQL justifies that: waiters of a row lock or an advisory lock are
queued and woken when the holder's transaction ends, and the deadlock detector runs
whenever a wait lasts, so a waiter does not starve.  The event
loop and the pool schedule every handler that is not waiting.  `RelationshipGraph`
claims no liveness: that its requests end, though two may wait for each other's mirror
images and a trigger may call itself, rests on PostgreSQL's deadlock detector and on its
stack limit and not on this repository.  `ServiceManager` has no
liveness property: its loops are bounded by counters and clocks.  `Tui` has none
either: that a wait ends is stated as `WaitsAreAnswered`, that what ends it is under way,
which needs no fairness and is the part the code can get wrong.

## 6. The findings

Each is a run with one property, taken from a sentence of the repository, that TLC
finds violated; `PROJECT.json` quotes the sentence.

- `enrollment_grants`: the reviewer's grants are read from a column that a migration
  dropped, and never reach the executor (`helpers.py:876`).
- `entity_sources`: the lock that protects the duplicate check is keyed by the
  source path too, which the check ignores (`executors.py:107`).
- `entity_report`: an import goes on after a statement failed and reports as created
  what its transaction lost (`server.py:1042`).
- `service_race`: a lock file between its creation and its writing is removed as stale
  (`service.go:469`).
- `tui_job_edit`: the answer to a job's edit closes the job but neither the form nor its
  "Saving..." (`jobs.go:171`), and the form takes no key while it says so.

The passing runs say what remains true in spite of these: `NoTwinsOfOneSource`,
`AllOrNothing`, `OneServerUnlessStolen` and `NoCheckedCycles` name the exact gap
in their statement, and hold outside it.

Other things the models show, which no sentence of the repository denies.  They are
modelled as they are, and where a property could have said otherwise its
comment says what it leaves out:

- An approval that names no reviewer entity activates the agent and leaves its session
  pending for good (`executors.py:801`); `NamedApprovalMovesOn` is about the others.
- The trigger on updates of a symmetric relationship updates the mirror row, whose
  trigger updates the first, until the stack is exhausted (line 212 of the migration): the
  update always fails.
- A job's detail can be closed by an answer while its keys are still handled; `s` then
  reads the identifier of no job and the program ends (`panicked` in `JobsTab`).
- A relationship, a prompt or inline notes may be saved to the row that is under the
  cursor when they are saved, after a reload has moved it; the details of a context
  item that arrive late replace those of the item opened since; what was typed in the
  metadata editor as notes is lost when a row is added.
- While the rows of a taxonomy kind are being loaded, archive and activate send the new
  kind with a row of the old one.
- The prompt for the pending limit keeps the digits typed from its field, since they
  choose tabs, and its answer goes to no tab.
- A tag that is still being typed when the form of a protocol is left stays in the buffer
  (`protocols.go:889-917`), and the save of the next form commits it (`1003`), whatever
  protocol that one is about.  `TagsOfForm` says that nothing else comes from an
  earlier form: the tags saved beside the protocol's own were typed in its form, but for
  that one.  `FormsGoHome` is about the fields.  The rows of the metadata editor, which
  opening a form does not reset either (`914`), are in neither.
- A flag set for a save that failed, or was answered while another tab was active, is
  not reset: `WaitsAreAnswered` asks for tabs that are not left and commands that do not
  fail.
- A node for a relationship that is chosen while the next search is under way empties the
  query and leaves the flag of that search (`relationships.go:844-852`); the search's
  answer is for a query that is no longer there and is dropped (`189`), so that
  "Searching..." stays on the screen (`1036`) with nothing on its way, until something is
  typed.  `WaitsAreAnswered` exempts exactly that, under the name `SearchEmptied`.
- The load of the context of a job, or of an entity, is dropped when another record
  has been opened since, or none is open; its flag then stays for the record that is
  opened (`jobs.go:1336`, `entities.go:1620`).  `Waits` leaves both flags out, and
  `jobs.editSaving`, which is the finding `tui_job_edit`.
- The list of context items says that it loads from the moment it is built
  (`context.go:132`), but the tour (`app.go:1307`) and a record chosen in the palette
  (`app.go:1989`) show the tab without loading it: the spinner turns until another tab
  was visited.  The invariant of the proof has to say who opened the tab (`TourOK`).
- The results of a search for an entity to relate to that arrive after its detail was
  closed open the selection again (`entities.go:292`), and from there the detail of no
  entity can be reached; `h` then waits for a history that `loadHistory` never asks for
  (`entities.go:1513`, `1634`).  `WaitsAreAnswered` exempts the history of no entity.

## 7. The proofs

| Module | Proved for all values of the constants |
|---|---|
| `EnrollmentProofs` | `TypeOK`, `OneKeyPerEnrollment`, `OneReviewActs`, `RedeemableMeansActive`, `RejectedStaysOut`, `NamedApprovalMovesOn`, `AnswersStand`, `DecisionsFinal`, and that `Enrollment` implements `ReviewLedger` |
| `ApprovalsProofs` | `TypeOK`, `PendingBounded`, `MadeOnlyIfApproved`, `ApprovedMeansMade`, and that `Approvals` implements `ReviewLedger` |
| `EntityImportProofs` | `TypeOK`, `NoTwinsOfOneSource`, `AllOrNothing` |
| `RelationshipGraphProofs` | `TypeOK`, `SymmetricClosed`, `NoCheckedCycles`, `CascadeHolds` |
| `ServiceManagerProofs` | `TypeOK`, `OneServerUnlessStolen`, `ServerManaged`, and the action properties `StopStops` and `AloneAcquires` |
| `TuiProofs` | `ResultsOfQuery`, `RejectNamesShown`, `StatusPromptHasTargets`, `TaxonomyRowsMatch`, `TagsOfForm` |
| `TuiCommandsProofs` | `FormsGoHome`, `PaletteShowsItsText`, `DialogsAwaitOne` |
| `TuiStateProofs` | `TypeOK`, `KeysGoToScreen`, `WaitsAreAnswered` |

Each argument has the same shape: an inductive invariant that TLC has checked first, a
lemma that every step preserves it (given the types, where it needs them), and the
property as a consequence.  No safety property is
inductive as it stands, because each relates state that changes in several
steps to what a process believes in between:

- `Enrollment`: `RowsAgree` relates the three rows of a registration; `ReviewInv` and
  `ClientInv` say what a handler at each `pc` knows of them (an executor works on an
  approved row; a redemption that mints holds the row lock and the session is still
  approved); `LockInv` says that a lock belongs to an open transaction.  That an
  approved row has one review at work is `OneReviewActs`, which needs itself.
  `NamedReviewInv` follows the executor of a review that names its reviewer from the
  agent to the session.
- `Approvals`: `SubmitInv` carries the count made under the lock to the insert: while
  the lock is held nobody else adds a pending row of the agent, and reviews only remove
  some.  `TodoDisjoint` and `LockInv` make the lock mean something; `ReviewInv` says
  that an approved change in a reviewer's hands is in nobody else's and not made yet.
- `EntityImport`: `LockInv` and `RowInv` tie an uncommitted row to the lock that its
  transaction holds, `TwinInv` says that between check and insert no twin can appear,
  and `ReportInv` that what a request has collected shares the fate of its transaction.
- `RelationshipGraph`: `MirrorInv` says that a row whose trigger ran either has its
  committed mirror image or is in the hands of the one handler that will commit both.
  `CycleInv` is for the cycles: `CheckHolds` says that a check that nobody overtook is
  still true when its row is committed, and then the row closes no cycle, since a
  path that used it would use it once, from its source, and what leads back there is
  what the check has looked for.  `Reach`, the path query, is a recursive function; the
  facts about it are proved by induction on the number of hops, for which `NatClosed`
  derives from the library's theorem about minimal elements (`WFMin`) that a set
  which contains 0 and is closed under successor contains every number.
- `ServiceManager`: `AlwaysInv` says what a command knows of the files it has read and
  of the server it asks about or has named, which may have ended, been replaced in the
  file, or both, since it was read.  `SoundInv` holds as long as no file was removed or
  overwritten that had changed since it was read, and no start died before it named its
  server (`Gap`): a start whose server is not named yet, though it may have cut the
  state file already, still has the lock (`FreshInv`),
  the state file goes before the lock (`StateInv`), and a stop removes no lock whose
  server is still to come (`StopInv`).  `AloneInv` follows a start nobody overlaps: it
  judges a lock in its first attempt only, so that the second finds none.
- `TuiProofs`: the property of a tab is kept, with the fields it reads, by each of the
  tab's keys (`InboxKey` and its like) and answers (`InboxAnswered`); every other step of
  the program leaves these fields alone (`InboxNext`), whatever it opens, leaves or
  shows.  For `TagsOfForm` the tag being typed counts too: it was typed in the open
  form, or carried into it (`TagsInv`).  The module goes on to say which commands each tab sends, and what each
  tab waits for: a key that raises a flag sends the command that lowers it
  (`InboxWaitsKey` and its like), and an answer lowers the flags of its own command or
  leaves them to a command still in flight (`InboxWaitsAnswered`).  Its last part is
  about types: every update of a handler is again in the tab's set of records
  (`InboxTypesKey`, `InboxTypesAnswered` and their like).  The rows kept of a list are
  rows of it, which is induction again (`NatClosed`), on the recursive function in
  `KeepAt`.
- `TuiCommandsProofs`: almost every step is `Plain`: it sends and receives commands no
  dialog waits for.  One lemma shows that such steps keep the invariant; for the login
  and the import dialog copies of commands are counted in the bag.  That a form goes
  home needs `FormOK`, that the form open is about the record open.  The last parts say
  what logs, files and protocols wait for, and that the entities, context and file tabs
  keep their types.
- `TuiStateProofs`: `ScreenInv` says that the form for a reason and its preview
  exclude each other and the filter, and are about a record.  `WaitInv` is for
  `WaitsAreAnswered`, whose flags only mean something on a tab that was opened by
  loading it: each tab the property asks about is either not on the screen and idle
  (`Away`) or on the screen with its commands in flight (`OnScreen`).  While the tour is
  on, which opens tabs without loading them, no tab's command is in flight but the load of
  the first list (`TourOK`, `TourCmds`).  Most steps are `Still`: they leave the tabs and
  the commands the tabs wait for alone.  For the palette, `SearchInv` says that the search
  of its text is in flight while it says that it searches, whether it is open or not.
  `TypesInv` is for `TypeOK`, which is not
  inductive: a tab keeps what an answer is about (whose relationships it shows, which
  filter its rows are of), so the commands in flight have to ask about something of that
  type (`ArgsOK`), and they are added and taken away by every tab.

The assumptions are the named ones of each module: what is not a process is not `NULL`,
the inputs have their types, and bounds are natural numbers; a start makes two
attempts at least (the code makes two), `NULL` is not the answer "not acquired", and
the kinds of the taxonomy are a sequence that is not empty (the code lists four).
The finite sets of the
instances are not assumed; where a proof counts (`PendingBounded`) the counted set is
finite by the invariant `PendingFinite`.

Only model-checked: liveness (`RequestsEnd`), which is out of the prover's reach.

## 8. What is not modelled

- The **audit log**: what matters there is that a change is attributed to whoever made
  it.  The triggers read the actor from session settings, and whether two statements of
  a handler meet the same session is decided by asyncpg's pool, which is not
  part of the repository.
- The **taxonomy and its caches**: a process replaces its cache as a whole and uses an
  identifier of it in one statement.  What remains is that other processes are not told
  of a change; a renamed or archived row keeps its identifier, which the foreign keys
  accept, and nothing in the repository says that the others must stop using it.
- **Jobs**, **context**, **files**, **logs** and **protocols** on the server: a statement
  per operation, after checks that read other rows.  The check of a context
  item's URL is that of `EntityImport` without its lock, the mutant `TakeLockSkipped`.
- **API keys** beyond their minting, and **authentication**: single statements.
- The **rate limiter**: it never awaits between reading and writing its window, so
  nothing can interleave with it, and it belongs to one process.
- **Search, export** and the other read routes change no state.
- The **REST client** and the **command line**: a request, a reply, a rendering.
- Of the terminal interface: rendering, layout and scrolling; toasts, spinners and
  animations; the expansion of a shown record; the suggestions of forms; and what no key
  reaches (the model of `search.go` is never constructed, and nothing starts the search
  for entities to link in `context.go`).
- Of the modelled parts of the server: contents of records, wording of errors and
  hashing.  In the relationship graph, deletions (no handler issues one) and the rows of
  one bulk import; in the entity store, tags, search and reverting.
