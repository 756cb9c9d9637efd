--------------------------- MODULE ServiceManager ---------------------------
(***************************************************************************)
(* nebula start and nebula stop: one background server per machine.        *)
(*                                                                         *)
(* The commands are processes that share three things: a lock file, a      *)
(* runtime state file, and the server's port.  No file is locked while it  *)
(* is read: a command reads, decides, and acts on what it read.  Each      *)
(* command runs once, and a process identifier is not reused.              *)
(***************************************************************************)
EXTENDS Naturals, FiniteSets

CONSTANTS
    Starters,   \* runs of nebula start; also names the server each one starts
    Stoppers,   \* runs of nebula stop
    Attempts,   \* attempts of acquireAPILock
    MaxOverlap, \* bound: commands under way at a time
    NULL        \* no process, no answer

Commands == Starters \cup Stoppers

ASSUME CommandsAssumption == Starters \cap Stoppers = {} /\ NULL \notin Commands
ASSUME AnswersAssumption == NULL # "not acquired"
ASSUME BoundsAssumption == Attempts \in Nat \ {0, 1} /\ MaxOverlap \in Nat

VARIABLES
    lock,       \* the lock file
    state,      \* the server named by the runtime state file, or NULL
    naming,     \* the starts that have cut that file and are about to write it
    server,     \* the server process of each start
    conflicts,  \* the server log, which is never cut, tells of a port conflict
    cmd,        \* local state of each command
    stolen,     \* history: a command removed or overwrote a file that had changed
                \* since it read it, or that another was about to write
    orphaned    \* history: a start died and left a server that no file names

vars == <<lock, state, naming, server, conflicts, cmd, stolen, orphaned>>

\* A file that exists and is not ok cannot be parsed: it was created or cut
\* and not written yet.  writers: the commands about to write to this file.
NoFile == [exists |-> FALSE, ok |-> FALSE, owner |-> NULL, api |-> NULL, writers |-> {}]
Unwritten == [NoFile EXCEPT !.exists = TRUE]

\* seen: what the command read of the lock file.  named: the server it asks
\* about, which it read in one of the files, or has started and named itself.
\* History: current, nobody has changed the lock file since it read or wrote it;
\* alone, no other command has overlapped it.
IdleCmd == [pc |-> "idle", attempt |-> 1, seen |-> NoFile, named |-> NULL,
            answer |-> NULL, current |-> FALSE, alone |-> FALSE]

Init ==
    /\ lock = NoFile
    /\ state = NULL
    /\ naming = {}
    /\ server = [s \in Starters |-> "none"]
    /\ conflicts = FALSE
    /\ cmd = [c \in Commands |-> IdleCmd]
    /\ stolen = FALSE
    /\ orphaned = FALSE

-----------------------------------------------------------------------------
\* processAlive of a server and of a start.
Alive(s) == s # NULL /\ server[s] \in {"starting", "serving"}
Busy(c) == cmd[c].pc \notin {"idle", "done"}
OwnerAlive(s) == s # NULL /\ Busy(s)
Serving == \E s \in Starters : server[s] = "serving"

Set(c, rec) == cmd' = [cmd EXCEPT ![c] = rec]
Goto(c, pc) == Set(c, [cmd[c] EXCEPT !.pc = pc])
Answer(c, a) == Set(c, [IdleCmd EXCEPT !.pc = "done", !.answer = a])

\* The command starts; it and every command under way overlap.
Begin(c, pc, file, named) ==
    /\ Cardinality({d \in Commands : Busy(d)}) < MaxOverlap
    /\ cmd' = [d \in Commands |->
            IF d = c THEN [IdleCmd EXCEPT !.pc = pc, !.seen = file, !.named = named,
                                          !.current = TRUE,
                                          !.alone = \A o \in Commands : ~Busy(o)]
            ELSE [cmd[d] EXCEPT !.alone = @ /\ ~Busy(d)]]

\* The lock file changes; what the others read of it is out of date.
SetLock(c, file, rec) ==
    /\ lock' = file
    /\ cmd' = [d \in Commands |-> IF d = c THEN rec ELSE [cmd[d] EXCEPT !.current = FALSE]]

\* The lock file that the command removes or overwrites is not the one it read
\* or wrote, or another is about to write to it; the state file that it removes
\* names a live server, and not the one that it asked about, or is about to.
TakesLock(c) == lock.exists /\ (~cmd[c].current \/ lock.writers \ {c} # {})
TakesState(c) == (Alive(state) /\ state # cmd[c].named) \/ naming # {}

-----------------------------------------------------------------------------
(* nebula start: the lock.                                                 *)

\* loadAPIState, which takes a file that is gone or unreadable for no server.
Look(c) ==
    /\ cmd[c].pc = "idle"
    /\ Begin(c, "checking", NoFile, state)
    /\ UNCHANGED <<lock, state, naming, server, conflicts, stolen, orphaned>>

\* A runtime state that names a live process ends the command.
AlreadyRunning(c) ==
    /\ cmd[c].pc = "checking"
    /\ Alive(cmd[c].named)
    /\ Answer(c, "already running")
    /\ UNCHANGED <<lock, state, naming, server, conflicts, stolen, orphaned>>

NotRunning(c) ==
    /\ cmd[c].pc = "checking"
    /\ ~Alive(cmd[c].named)
    /\ Goto(c, "opening")
    /\ UNCHANGED <<lock, state, naming, server, conflicts, stolen, orphaned>>

\* O_CREATE|O_EXCL: the file is created empty.
CreateLock(c) ==
    /\ cmd[c].pc = "opening"
    /\ ~lock.exists
    /\ SetLock(c, [Unwritten EXCEPT !.writers = {c}],
               [cmd[c] EXCEPT !.pc = "writing", !.current = TRUE])
    /\ UNCHANGED <<state, naming, server, conflicts, stolen, orphaned>>

\* The bytes go to the file that was opened, which may be removed by now.
Write(c, owner, api, rec) ==
    IF c \in lock.writers
    THEN SetLock(c, [exists |-> TRUE, ok |-> TRUE, owner |-> owner, api |-> api,
                     writers |-> lock.writers \ {c}], rec)
    ELSE Set(c, rec) /\ UNCHANGED lock

WriteOwner(c) ==
    /\ cmd[c].pc = "writing"
    /\ Write(c, c, NULL, [cmd[c] EXCEPT !.pc = "spawning"])
    /\ UNCHANGED <<state, naming, server, conflicts, stolen, orphaned>>

\* Without a lock to write, no lock to clean up.
WriteFails(c) ==
    /\ cmd[c].pc = "writing"
    /\ lock' = [lock EXCEPT !.writers = @ \ {c}]
    /\ Answer(c, "error")
    /\ UNCHANGED <<state, naming, server, conflicts, stolen, orphaned>>

\* The file exists.
LockExists(c) ==
    /\ cmd[c].pc = "opening"
    /\ lock.exists
    /\ Goto(c, "reading")
    /\ UNCHANGED <<lock, state, naming, server, conflicts, stolen, orphaned>>

\* loadAPILock, which may find it gone or unreadable.
ReadLock(c) ==
    /\ cmd[c].pc = "reading"
    /\ Set(c, [cmd[c] EXCEPT !.pc = "judging", !.current = TRUE,
                            !.seen = [lock EXCEPT !.writers = {}]])
    /\ UNCHANGED <<lock, state, naming, server, conflicts, stolen, orphaned>>

\* The process to ask about: the lock's server if it is alive,
PidOfServer(c) ==
    /\ cmd[c].pc = "judging"
    /\ Alive(cmd[c].seen.api)
    /\ Set(c, [cmd[c] EXCEPT !.pc = "asking", !.named = cmd[c].seen.api])
    /\ UNCHANGED <<lock, state, naming, server, conflicts, stolen, orphaned>>

\* else its owner if it is alive,
PidOfOwner(c) ==
    /\ cmd[c].pc = "judging"
    /\ ~Alive(cmd[c].seen.api) /\ OwnerAlive(cmd[c].seen.owner)
    /\ Goto(c, "probing")
    /\ UNCHANGED <<lock, state, naming, server, conflicts, stolen, orphaned>>

\* Mutant: the owner of a lock without a server is not asked about.
PidOfStateAlone(c) ==
    /\ cmd[c].pc = "judging"
    /\ ~Alive(cmd[c].seen.api)
    /\ Set(c, [cmd[c] EXCEPT !.pc = "asking", !.named = state])
    /\ UNCHANGED <<lock, state, naming, server, conflicts, stolen, orphaned>>

\* else the server of the runtime state, which is loaded now.
PidOfState(c) ==
    /\ cmd[c].pc = "judging"
    /\ ~Alive(cmd[c].seen.api) /\ ~OwnerAlive(cmd[c].seen.owner)
    /\ Set(c, [cmd[c] EXCEPT !.pc = "asking", !.named = state])
    /\ UNCHANGED <<lock, state, naming, server, conflicts, stolen, orphaned>>

\* The second processAlive, by which time that process may have ended.
Held(c) ==
    \/ cmd[c].pc = "asking" /\ Alive(cmd[c].named)
    \/ cmd[c].pc = "probing" /\ OwnerAlive(cmd[c].seen.owner)

LockHeld(c) ==
    /\ Held(c)
    /\ Answer(c, "already running")
    /\ UNCHANGED <<lock, state, naming, server, conflicts, stolen, orphaned>>

LockStale(c) ==
    /\ cmd[c].pc \in {"asking", "probing"}
    /\ ~Held(c)
    /\ Goto(c, "dropping")
    /\ UNCHANGED <<lock, state, naming, server, conflicts, stolen, orphaned>>

\* cleanupAPIState: the state file goes, whatever it names by now.
DropState(c) ==
    /\ cmd[c].pc = "dropping"
    /\ state' = NULL
    /\ naming' = {}
    /\ stolen' = (stolen \/ TakesState(c))
    /\ Goto(c, "clearing")
    /\ UNCHANGED <<lock, server, conflicts, orphaned>>

\* Mutant: attempts are not counted against the limit.
ClearLockForever(c) ==
    /\ cmd[c].pc = "clearing"
    /\ stolen' = (stolen \/ TakesLock(c))
    /\ SetLock(c, NoFile, [cmd[c] EXCEPT !.pc = "opening", !.attempt = @ + 1, !.seen = NoFile])
    /\ UNCHANGED <<state, naming, server, conflicts, orphaned>>

\* Mutant: having removed a stale lock, the command gives up.
ClearLockOnly(c) ==
    /\ cmd[c].pc = "clearing"
    /\ stolen' = (stolen \/ TakesLock(c))
    /\ SetLock(c, NoFile, [IdleCmd EXCEPT !.pc = "done", !.answer = "not acquired"])
    /\ UNCHANGED <<state, naming, server, conflicts, orphaned>>

\* The lock file goes, stale or not by now, and the command tries again.
ClearLock(c) ==
    /\ cmd[c].pc = "clearing"
    /\ stolen' = (stolen \/ TakesLock(c))
    /\ SetLock(c, NoFile,
           IF cmd[c].attempt < Attempts
           THEN [cmd[c] EXCEPT !.pc = "opening", !.attempt = @ + 1, !.seen = NoFile]
           ELSE [IdleCmd EXCEPT !.pc = "done", !.answer = "not acquired"])
    /\ UNCHANGED <<state, naming, server, conflicts, orphaned>>

-----------------------------------------------------------------------------
(* nebula start: the server.                                               *)

Spawn(c) ==
    /\ cmd[c].pc = "spawning"
    /\ server' = [server EXCEPT ![c] = "starting"]
    /\ Goto(c, "saving")
    /\ UNCHANGED <<lock, state, naming, conflicts, stolen, orphaned>>

\* saveAPIState: os.WriteFile cuts the file, or creates one, and writes.
CutState(c) ==
    /\ cmd[c].pc = "saving"
    /\ state' = NULL
    /\ naming' = naming \cup {c}
    /\ Goto(c, "naming")
    /\ UNCHANGED <<lock, server, conflicts, stolen, orphaned>>

SaveState(c) ==
    /\ cmd[c].pc = "naming"
    /\ state' = IF c \in naming THEN c ELSE state
    /\ naming' = naming \ {c}
    /\ Set(c, [cmd[c] EXCEPT !.pc = "cutting", !.named = c])
    /\ UNCHANGED <<lock, server, conflicts, stolen, orphaned>>

\* updateAPILockPID does the same to the lock file.
CutLock(c) ==
    /\ cmd[c].pc = "cutting"
    /\ stolen' = (stolen \/ TakesLock(c))
    /\ SetLock(c, [Unwritten EXCEPT !.writers = lock.writers \cup {c}],
               [cmd[c] EXCEPT !.pc = "recording", !.current = TRUE])
    /\ UNCHANGED <<state, naming, server, conflicts, orphaned>>

RecordPID(c) ==
    /\ cmd[c].pc = "recording"
    /\ Write(c, c, c, [cmd[c] EXCEPT !.pc = "waiting"])
    /\ UNCHANGED <<state, naming, server, conflicts, stolen, orphaned>>

\* No server directory, no uvicorn, or a file that cannot be written: the
\* deferred function undoes the start.
StartFails(c) ==
    /\ cmd[c].pc \in {"spawning", "saving", "naming", "cutting", "recording"}
    /\ lock' = [lock EXCEPT !.writers = @ \ {c}]
    /\ naming' = naming \ {c}
    /\ Set(c, [cmd[c] EXCEPT !.pc = "undoing", !.answer = "error"])
    /\ UNCHANGED <<state, server, conflicts, stolen, orphaned>>

\* The health probe asks whoever serves the port.
Healthy(c) ==
    /\ cmd[c].pc = "waiting"
    /\ Serving
    /\ Answer(c, "running")
    /\ UNCHANGED <<lock, state, naming, server, conflicts, stolen, orphaned>>

Unhealthy(c) ==
    /\ cmd[c].pc = "waiting"
    /\ ~Serving
    /\ Goto(c, "diagnosing")
    /\ UNCHANGED <<lock, state, naming, server, conflicts, stolen, orphaned>>

\* detectStartupFailure: a conflict in the log, or a server that exited.
StartupFailed(c) ==
    /\ cmd[c].pc = "diagnosing"
    /\ conflicts \/ ~Alive(c)
    /\ Set(c, [cmd[c] EXCEPT !.pc = "undoing", !.answer = "error"])
    /\ UNCHANGED <<lock, state, naming, server, conflicts, stolen, orphaned>>

StillStarting(c) ==
    /\ cmd[c].pc = "diagnosing"
    /\ ~conflicts /\ Alive(c)
    /\ Answer(c, "starting")
    /\ UNCHANGED <<lock, state, naming, server, conflicts, stolen, orphaned>>

\* Mutant: the server of a failed start is left alone.
UndoKeepsServer(c) ==
    /\ cmd[c].pc = "undoing"
    /\ Goto(c, "cleaning")
    /\ UNCHANGED <<lock, state, naming, server, conflicts, stolen, orphaned>>

\* stopProcessIfAlive.
Undo(c) ==
    /\ cmd[c].pc = "undoing"
    /\ server' = IF Alive(c) THEN [server EXCEPT ![c] = "exited"] ELSE server
    /\ Goto(c, "cleaning")
    /\ UNCHANGED <<lock, state, naming, conflicts, stolen, orphaned>>

-----------------------------------------------------------------------------
(* nebula stop, and the cleaning up that it shares with a failed start.    *)

\* loadAPILock, and an error if the file is there and cannot be parsed.
StopReadLock(c) ==
    /\ cmd[c].pc = "idle"
    /\ Begin(c, "seeking", [lock EXCEPT !.writers = {}], NULL)
    /\ UNCHANGED <<lock, state, naming, server, conflicts, stolen, orphaned>>

StopUnreadable(c) ==
    /\ cmd[c].pc = "seeking"
    /\ cmd[c].seen.exists /\ ~cmd[c].seen.ok
    /\ Answer(c, "error")
    /\ UNCHANGED <<lock, state, naming, server, conflicts, stolen, orphaned>>

\* loadAPIState.
StopReadState(c) ==
    /\ cmd[c].pc = "seeking"
    /\ cmd[c].seen.exists => cmd[c].seen.ok
    /\ Set(c, [cmd[c] EXCEPT !.pc = "choosing", !.named = state])
    /\ UNCHANGED <<lock, state, naming, server, conflicts, stolen, orphaned>>

\* No lock: a live server of the runtime state is not ours to stop.
StopUnmanaged(c) ==
    /\ cmd[c].pc = "choosing"
    /\ ~cmd[c].seen.exists
    /\ IF Alive(cmd[c].named) THEN Answer(c, "refused")
       ELSE Set(c, [cmd[c] EXCEPT !.pc = "forgetting", !.answer = "not running"])
    /\ UNCHANGED <<lock, state, naming, server, conflicts, stolen, orphaned>>

\* The server to stop: the runtime state's unless only the lock's is alive.
Target(c) ==
    LET api == cmd[c].seen.api
        named == cmd[c].named
    IN  IF named # NULL /\ (~Alive(api) \/ Alive(named)) THEN named ELSE api

StopChoose(c) ==
    /\ cmd[c].pc = "choosing"
    /\ cmd[c].seen.exists
    /\ Set(c, [cmd[c] EXCEPT !.pc = "stopping", !.named = Target(c)])
    /\ UNCHANGED <<lock, state, naming, server, conflicts, stolen, orphaned>>

\* Neither file names a server, and the owner of the lock is at work.
StopInProgress(c) ==
    /\ cmd[c].pc = "stopping"
    /\ cmd[c].named = NULL /\ OwnerAlive(cmd[c].seen.owner)
    /\ Answer(c, "in progress")
    /\ UNCHANGED <<lock, state, naming, server, conflicts, stolen, orphaned>>

StopStale(c) ==
    /\ cmd[c].pc = "stopping"
    /\ ~Alive(cmd[c].named)
    /\ cmd[c].named = NULL => ~OwnerAlive(cmd[c].seen.owner)
    /\ Set(c, [cmd[c] EXCEPT !.pc = "cleaning", !.answer = "not running"])
    /\ UNCHANGED <<lock, state, naming, server, conflicts, stolen, orphaned>>

\* Mutant: the server is asked to end, and need not.
StopAsk(c) ==
    /\ cmd[c].pc = "stopping"
    /\ Alive(cmd[c].named)
    /\ Set(c, [cmd[c] EXCEPT !.pc = "cleaning", !.answer = "stopped"])
    /\ UNCHANGED <<lock, state, naming, server, conflicts, stolen, orphaned>>

\* SIGTERM, and SIGKILL after a while.
StopKill(c) ==
    /\ cmd[c].pc = "stopping"
    /\ Alive(cmd[c].named)
    /\ server' = [server EXCEPT ![cmd[c].named] = "exited"]
    /\ Set(c, [cmd[c] EXCEPT !.pc = "cleaning", !.answer = "stopped"])
    /\ UNCHANGED <<lock, state, naming, conflicts, stolen, orphaned>>

\* cleanupAPIState, and the lock file unless there was none.
CleanState(c) ==
    /\ cmd[c].pc \in {"cleaning", "forgetting"}
    /\ state' = NULL
    /\ naming' = {}
    /\ stolen' = (stolen \/ TakesState(c))
    /\ IF cmd[c].pc = "cleaning" THEN Goto(c, "removing") ELSE Answer(c, cmd[c].answer)
    /\ UNCHANGED <<lock, server, conflicts, orphaned>>

CleanLock(c) ==
    /\ cmd[c].pc = "removing"
    /\ stolen' = (stolen \/ TakesLock(c))
    /\ SetLock(c, NoFile, [IdleCmd EXCEPT !.pc = "done", !.answer = cmd[c].answer])
    /\ UNCHANGED <<state, naming, server, conflicts, orphaned>>

-----------------------------------------------------------------------------
(* What the commands cannot decide.                                        *)

\* The server binds its port, or finds it taken, logs so and exits.
Bind(s) ==
    /\ server[s] = "starting"
    /\ server' = [server EXCEPT ![s] = IF Serving THEN "exited" ELSE "serving"]
    /\ conflicts' = (conflicts \/ Serving)
    /\ UNCHANGED <<lock, state, naming, cmd, stolen, orphaned>>

Exit(s) ==
    /\ Alive(s)
    /\ server' = [server EXCEPT ![s] = "exited"]
    /\ UNCHANGED <<lock, state, naming, conflicts, cmd, stolen, orphaned>>

\* A command is killed; the files stay as they are.
Crash(c) ==
    /\ Busy(c)
    /\ lock' = [lock EXCEPT !.writers = @ \ {c}]
    /\ naming' = naming \ {c}
    /\ Answer(c, "crashed")
    /\ orphaned' = (orphaned \/ (c \in Starters /\ Alive(c) /\ state # c))
    /\ UNCHANGED <<state, server, conflicts, stolen>>

Start(c) ==
    \/ Look(c) \/ AlreadyRunning(c) \/ NotRunning(c)
    \/ CreateLock(c) \/ WriteOwner(c) \/ WriteFails(c) \/ LockExists(c) \/ ReadLock(c)
    \/ PidOfServer(c) \/ PidOfOwner(c) \/ PidOfState(c) \/ LockHeld(c) \/ LockStale(c)
    \/ DropState(c) \/ ClearLock(c)
    \/ Spawn(c) \/ CutState(c) \/ SaveState(c) \/ CutLock(c) \/ RecordPID(c) \/ StartFails(c)
    \/ Healthy(c) \/ Unhealthy(c) \/ StartupFailed(c) \/ StillStarting(c) \/ Undo(c)

Stop(c) ==
    \/ StopReadLock(c) \/ StopUnreadable(c) \/ StopReadState(c) \/ StopUnmanaged(c)
    \/ StopChoose(c) \/ StopInProgress(c) \/ StopStale(c) \/ StopKill(c)

Next ==
    \/ \E c \in Starters : Start(c) \/ Bind(c) \/ Exit(c)
    \/ \E c \in Stoppers : Stop(c)
    \/ \E c \in Commands : CleanState(c) \/ CleanLock(c) \/ Crash(c)

Spec == Init /\ [][Next]_vars

-----------------------------------------------------------------------------
Servers == Starters \cup {NULL}
Files == [exists : BOOLEAN, ok : BOOLEAN, owner : Servers, api : Servers, writers : SUBSET Starters]
CmdStates ==
    [pc : {"idle", "checking", "opening", "writing", "reading", "judging", "asking",
           "probing", "dropping", "clearing", "spawning", "saving", "naming",
           "cutting", "recording", "waiting", "diagnosing", "undoing", "seeking",
           "choosing", "stopping", "forgetting", "cleaning", "removing", "done"},
     attempt : 1..Attempts, seen : Files, named : Servers,
     current : BOOLEAN, alone : BOOLEAN,
     answer : {"already running", "running", "starting", "not acquired", "error", "crashed",
               "refused", "in progress", "not running", "stopped", NULL}]

\* Every file, process and command has its type.
TypeOK ==
    /\ lock \in Files
    /\ state \in Servers
    /\ naming \subseteq Starters
    /\ server \in [Starters -> {"none", "starting", "serving", "exited"}]
    /\ cmd \in [Commands -> CmdStates]
    /\ {conflicts, stolen, orphaned} \subseteq BOOLEAN

\* No two servers run at a time, whatever commands overlap.
OneServer == \A s, t \in Starters : Alive(s) /\ Alive(t) => s = t

\* The files protect that as long as no start dies between starting the server
\* and naming it in the state file, and no command removes or overwrites a file
\* that changed after it was read or that another is about to write: those are
\* the only gaps of the protocol.
OneServerUnlessStolen == stolen \/ orphaned \/ OneServer

\* A server whose start has ended can be found and stopped: the state file
\* names it and the lock file is there.  Only the same gaps break this.
ServerManaged ==
    stolen \/ orphaned \/
        \A s \in Starters : Alive(s) /\ ~Busy(s) => state = s /\ lock.exists

\* A stop that says so leaves no server but that of a start under way.
StopStops ==
    [][\A c \in Stoppers :
        Busy(c) /\ cmd'[c].pc = "done" /\ cmd'[c].answer \in {"stopped", "not running"}
            => stolen' \/ orphaned' \/ \A s \in Starters : Alive(s)' => Busy(s)']_vars

\* A start that overlaps no other command acquires the lock or finds a live
\* server, whatever files earlier commands have left.
AloneAcquires ==
    [][\A c \in Starters : cmd[c].alone => cmd'[c].answer # "not acquired"]_vars
=============================================================================
