------------------------ MODULE ServiceManagerProofs ------------------------
(* Proofs about ServiceManager, for every number of commands.              *)
EXTENDS ServiceManager, TLAPS

-----------------------------------------------------------------------------
(* The inductive invariant.                                                *)

\* A start is before it has a lock of its own, and after.
Before == {"idle", "checking", "opening", "reading", "judging", "asking", "probing",
           "dropping", "clearing", "writing"}
Owning == {"writing", "spawning", "saving", "naming", "cutting", "recording", "waiting",
           "diagnosing", "undoing", "cleaning", "removing"}

\* A command is about to ask whether the server it has in mind is alive.
Asking == {"checking", "asking", "choosing", "stopping"}

\* The start holds the lock, and its server, if any, is not named yet.
Fresh(s) ==
    \/ cmd[s].pc \in {"writing", "spawning", "saving", "naming"}
    \/ cmd[s].pc = "undoing" /\ cmd[s].named # s /\ Alive(s)

\* What the lock file says while the start is fresh.
LockOf(s) ==
    /\ lock.exists /\ lock.api = NULL
    /\ IF cmd[s].pc = "writing" THEN ~lock.ok /\ lock.owner = NULL /\ lock.writers = {s}
       ELSE lock.ok /\ lock.owner = s /\ lock.writers = {}

\* Each command keeps to its part of the program.
PcInv ==
    /\ \A s \in Starters : cmd[s].pc \notin {"seeking", "choosing", "stopping", "forgetting"}
    /\ \A t \in Stoppers : cmd[t].pc \in {"idle", "seeking", "choosing", "stopping",
                                          "forgetting", "cleaning", "removing", "done"}

\* A server runs from its start's Spawn to its Undo at most.
ServerInv ==
    \A s \in Starters :
        /\ cmd[s].pc \in Before \cup {"spawning"} => server[s] = "none"
        /\ cmd[s].pc \in {"saving", "naming"} => server[s] # "none"
        /\ cmd[s].pc \in {"cleaning", "removing"} => ~Alive(s)

\* Whoever is named as an owner has written the file, and was not idle since.
OwnerInv ==
    \A s \in Starters :
        lock.owner = s \/ (\E c \in Commands : cmd[c].seen.owner = s)
            => cmd[s].pc \notin Before

\* Whoever is named as a server has run; a command has found the server that it
\* has in mind dead, unless it is about to ask or has started it itself.
NamedInv ==
    \A s \in Starters :
        /\ state = s \/ lock.api = s \/ (\E c \in Commands : cmd[c].seen.api = s)
               => server[s] # "none"
        /\ cmd[s].pc \in Before \cup {"spawning", "saving", "naming"} => cmd[s].named # s
        /\ cmd[s].pc \in {"cutting", "recording", "waiting", "diagnosing"} => cmd[s].named = s
        /\ \A c \in Commands : cmd[c].named = s =>
               /\ server[s] # "none"
               /\ c = s \/ cmd[c].pc \in Asking \/ ~Alive(s)

\* What a command has read of the lock, if current, is what the lock says.
Relies(c) ==
    /\ cmd[c].current
    /\ \/ cmd[c].pc \in {"judging", "asking", "probing", "dropping", "clearing"}
       \/ c \in Stoppers /\ cmd[c].pc \in {"seeking", "choosing", "stopping", "cleaning",
                                            "removing"}

SeenInv ==
    \A c \in Commands : Relies(c) =>
        /\ cmd[c].seen.ok = lock.ok
        /\ cmd[c].seen.owner = lock.owner
        /\ cmd[c].seen.api = lock.api

\* A lock that nobody has changed since the start created it is the start's.
OwnInv ==
    \A s \in Starters :
        cmd[s].current /\ cmd[s].pc \in Owning => lock.exists /\ (lock.ok => lock.owner = s)

\* The owner of a lock judged stale has ended, if the lock names no server.
StaleInv ==
    \A c \in Commands, s \in Starters :
        /\ cmd[c].pc \in {"asking", "dropping", "clearing"}
        /\ cmd[c].seen.owner = s /\ cmd[c].seen.api = NULL
        => ~Busy(s)

\* A start with a server that is not named yet has the lock.
FreshInv ==
    \A s \in Starters : Fresh(s) =>
        /\ LockOf(s) /\ cmd[s].current /\ state = NULL
        /\ cmd[s].pc = "naming" => s \in naming

\* The state file goes before the lock.
StateInv ==
    /\ state # NULL => lock.exists
    /\ \A c \in Commands :
           cmd[c].pc \in {"clearing", "removing"} /\ cmd[c].current => state = NULL

\* A stop that has found a server, or is about to remove the lock, has not read
\* the lock of a start whose server is still to be named.
StopInv ==
    \A t \in Stoppers, s \in Starters :
        /\ \/ cmd[t].pc \in {"choosing", "stopping"} /\ cmd[t].named # NULL
           \/ cmd[t].pc \in {"cleaning", "removing"}
        /\ cmd[t].current
        /\ cmd[t].seen.owner = s
        => ~Fresh(s)

\* A server is named, or its start is about to name it.
AliveInv == \A s \in Starters : Alive(s) => state = s \/ Fresh(s)

Gap == stolen \/ orphaned

\* What holds whatever was removed, and what holds without a gap.
AlwaysInv == PcInv /\ ServerInv /\ OwnerInv /\ NamedInv /\ SeenInv /\ OwnInv /\ StaleInv
SoundInv == FreshInv /\ StateInv /\ StopInv /\ AliveInv
IndInv == AlwaysInv /\ (Gap \/ SoundInv)

\* A command alone makes its second attempt where there is no lock.
Retrying == {"checking", "reading", "judging", "asking", "probing", "dropping",
             "clearing"}

AloneInv ==
    \A c \in Commands : cmd[c].alone =>
        /\ Busy(c) /\ cmd[c].answer # "not acquired"
        /\ \A d \in Commands \ {c} : ~Busy(d)
        /\ cmd[c].pc \in Retrying => cmd[c].attempt = 1
        /\ cmd[c].pc = "opening" => cmd[c].attempt = 1 \/ ~lock.exists

-----------------------------------------------------------------------------
(* Type correctness.                                                       *)

\* The records that commands are set to have their types.
LEMMA RecTypes ==
    /\ NoFile \in Files /\ Unwritten \in Files /\ IdleCmd \in CmdStates
    /\ NULL \notin Commands /\ Starters \subseteq Commands /\ Stoppers \subseteq Commands
<1>1. NoFile \in Files /\ Unwritten \in Files
  BY DEF NoFile, Unwritten, Files, Servers
<1>2. 1 \in 1..Attempts
  BY BoundsAssumption
<1>3. IdleCmd \in CmdStates
  BY <1>1, <1>2 DEF IdleCmd, CmdStates, Servers
<1> QED BY <1>1, <1>3, CommandsAssumption DEF Commands

LEMMA InitType == Init => TypeOK
  BY RecTypes DEF Init, TypeOK, Servers

\* One command is set, the others stay.
LEMMA SetFields ==
    ASSUME TypeOK, NEW c \in Commands, NEW rec \in CmdStates, Set(c, rec)
    PROVE  /\ cmd' \in [Commands -> CmdStates]
           /\ cmd'[c] = rec
           /\ \A d \in Commands : d # c => cmd'[d] = cmd[d]
  BY DEF TypeOK, Set

\* One command is set, what the others know of the lock is out of date.
LEMMA SetLockFields ==
    ASSUME TypeOK, NEW c \in Commands, NEW rec \in CmdStates, NEW file \in Files,
           SetLock(c, file, rec)
    PROVE  /\ cmd' \in [Commands -> CmdStates]
           /\ lock' = file /\ cmd'[c] = rec
           /\ \A d \in Commands : d # c => cmd'[d] = [cmd[d] EXCEPT !.current = FALSE]
<1>1. \A d \in Commands : [cmd[d] EXCEPT !.current = FALSE] \in CmdStates
  BY DEF TypeOK, CmdStates
<1> QED BY <1>1 DEF TypeOK, SetLock

\* A command begins, and overlaps those under way.
LEMMA BeginFields ==
    ASSUME TypeOK, NEW c \in Commands, NEW pc \in {"checking", "seeking"}, NEW file \in Files,
           NEW named \in Servers, Begin(c, pc, file, named)
    PROVE  /\ cmd' \in [Commands -> CmdStates]
           /\ cmd'[c].pc = pc /\ cmd'[c].seen = file
           /\ cmd'[c].attempt = 1 /\ cmd'[c].named = named /\ cmd'[c].answer = NULL
           /\ cmd'[c].alone = \A d \in Commands : ~Busy(d)
           /\ \A d \in Commands : d # c =>
                  /\ cmd'[d].pc = cmd[d].pc /\ cmd'[d].seen = cmd[d].seen
                  /\ cmd'[d].named = cmd[d].named /\ cmd'[d].answer = cmd[d].answer
                  /\ cmd'[d].current = cmd[d].current /\ cmd'[d].attempt = cmd[d].attempt
                  /\ cmd'[d].alone = (cmd[d].alone /\ ~Busy(d))
<1> DEFINE rec == [IdleCmd EXCEPT !.pc = pc, !.seen = file, !.named = named, !.current = TRUE,
                                  !.alone = \A o \in Commands : ~Busy(o)]
           others(d) == [cmd[d] EXCEPT !.alone = cmd[d].alone /\ ~Busy(d)]
<1>1. rec \in CmdStates
  BY RecTypes DEF CmdStates
<1>2. ASSUME NEW d \in Commands
      PROVE  others(d) \in CmdStates
  <2>1. cmd[d] \in CmdStates
    BY DEF TypeOK
  <2>2. (cmd[d].alone /\ ~Busy(d)) \in BOOLEAN
    OBVIOUS
  <2> QED BY <2>1, <2>2 DEF CmdStates
<1>3. cmd' = [d \in Commands |-> IF d = c THEN rec ELSE others(d)]
  BY DEF Begin
<1>4. /\ rec.pc = pc /\ rec.seen = file /\ rec.attempt = 1 /\ rec.named = named
      /\ rec.answer = NULL
      /\ rec.alone = \A d \in Commands : ~Busy(d)
  BY DEF IdleCmd
<1>5. ASSUME NEW d \in Commands
      PROVE  /\ others(d).pc = cmd[d].pc /\ others(d).seen = cmd[d].seen
             /\ others(d).named = cmd[d].named /\ others(d).answer = cmd[d].answer
             /\ others(d).current = cmd[d].current /\ others(d).attempt = cmd[d].attempt
             /\ others(d).alone = (cmd[d].alone /\ ~Busy(d))
  <2>1. cmd[d] \in CmdStates
    BY DEF TypeOK
  <2> QED BY <2>1 DEF CmdStates
<1> HIDE DEF rec, others
<1> QED BY <1>1, <1>2, <1>3, <1>4, <1>5

\* What the types say of a command's fields, one by one.
LEMMA FieldTypes ==
    ASSUME TypeOK
    PROVE  /\ lock.owner \in Starters \cup {NULL} /\ lock.api \in Starters \cup {NULL}
           /\ state \in Starters \cup {NULL}
           /\ \A c \in Commands :
                  /\ cmd[c].seen.owner \in Starters \cup {NULL}
                  /\ cmd[c].seen.api \in Starters \cup {NULL}
                  /\ cmd[c].named \in Starters \cup {NULL}
  BY DEF TypeOK, CmdStates, Files, Servers

\* Every step of nebula start keeps the types.
LEMMA StartType ==
    ASSUME TypeOK, NEW c \in Starters, Start(c)
    PROVE  TypeOK'
<1> USE RecTypes
<1>0. c \in Commands /\ cmd[c] \in CmdStates /\ c \in Servers
  BY DEF TypeOK, Servers
<1>1. ASSUME NEW rec \in CmdStates, Set(c, rec),
             UNCHANGED <<lock, state, naming, server, conflicts, stolen, orphaned>>
      PROVE  TypeOK'
  BY <1>0, <1>1, SetFields DEF TypeOK
<1>2. \A a \in {"already running", "running", "starting", "error"} :
          [IdleCmd EXCEPT !.pc = "done", !.answer = a] \in CmdStates
  BY DEF CmdStates
<1>3. CASE AlreadyRunning(c) \/ LockHeld(c) \/ Healthy(c) \/ StillStarting(c)
  BY <1>1, <1>2, <1>3 DEF AlreadyRunning, LockHeld, Healthy, StillStarting, Answer
<1>4. CASE NotRunning(c) \/ LockExists(c) \/ PidOfOwner(c) \/ LockStale(c) \/ Unhealthy(c)
  <2>1. \A pc \in {"opening", "reading", "probing", "dropping", "diagnosing"} :
            [cmd[c] EXCEPT !.pc = pc] \in CmdStates
    BY <1>0 DEF CmdStates
  <2> QED BY <1>1, <1>4, <2>1 DEF NotRunning, LockExists, PidOfOwner, LockStale, Unhealthy, Goto
<1>5. CASE StartupFailed(c)
  <2>1. [cmd[c] EXCEPT !.pc = "undoing", !.answer = "error"] \in CmdStates
    BY <1>0 DEF CmdStates
  <2> QED BY <1>1, <1>5, <2>1 DEF StartupFailed
<1>6. CASE Look(c)
  BY <1>0, <1>6, BeginFields DEF Look, TypeOK, Servers
<1>7. CASE CreateLock(c)
  <2>1. [Unwritten EXCEPT !.writers = {c}] \in Files
    BY DEF Files
  <2>2. [cmd[c] EXCEPT !.pc = "writing", !.current = TRUE] \in CmdStates
    BY <1>0 DEF CmdStates
  <2> QED BY <1>0, <1>7, <2>1, <2>2, SetLockFields DEF CreateLock, TypeOK
<1>8. ASSUME NEW api \in Servers, NEW rec \in CmdStates, Write(c, c, api, rec),
             UNCHANGED <<state, naming, server, conflicts, stolen, orphaned>>
      PROVE  TypeOK'
  <2>1. [exists |-> TRUE, ok |-> TRUE, owner |-> c, api |-> api,
         writers |-> lock.writers \ {c}] \in Files
    BY <1>0 DEF TypeOK, Files
  <2> QED BY <1>0, <1>8, <2>1, SetFields, SetLockFields DEF Write, TypeOK
<1>9. CASE WriteOwner(c) \/ RecordPID(c)
  <2>1. \A pc \in {"spawning", "waiting"} : [cmd[c] EXCEPT !.pc = pc] \in CmdStates
    BY <1>0 DEF CmdStates
  <2>2. NULL \in Servers
    BY DEF Servers
  <2> QED BY <1>0, <1>8, <1>9, <2>1, <2>2 DEF WriteOwner, RecordPID
<1>10. CASE WriteFails(c) \/ StartFails(c)
  <2>1. [lock EXCEPT !.writers = @ \ {c}] \in Files
    BY DEF TypeOK, Files
  <2>2. [cmd[c] EXCEPT !.pc = "undoing", !.answer = "error"] \in CmdStates
    BY <1>0 DEF CmdStates
  <2> QED BY <1>0, <1>2, <1>10, <2>1, <2>2, SetFields DEF WriteFails, StartFails, Answer, TypeOK
<1>11. CASE ReadLock(c)
  <2>1. [lock EXCEPT !.writers = {}] \in Files
    BY DEF TypeOK, Files
  <2>2. [cmd[c] EXCEPT !.pc = "judging", !.current = TRUE,
                       !.seen = [lock EXCEPT !.writers = {}]] \in CmdStates
    BY <1>0, <2>1 DEF CmdStates
  <2> QED BY <1>1, <1>11, <2>2 DEF ReadLock
<1>12. CASE PidOfServer(c) \/ PidOfState(c)
  <2>1. state \in Servers /\ cmd[c].seen.api \in Servers
    BY FieldTypes DEF Servers
  <2>2. \A s \in Servers : [cmd[c] EXCEPT !.pc = "asking", !.named = s] \in CmdStates
    BY <1>0 DEF CmdStates
  <2> QED BY <1>1, <1>12, <2>1, <2>2 DEF PidOfServer, PidOfState
<1>13. CASE ClearLock(c)
  <2> DEFINE rec == IF cmd[c].attempt < Attempts
                    THEN [cmd[c] EXCEPT !.pc = "opening", !.attempt = @ + 1, !.seen = NoFile]
                    ELSE [IdleCmd EXCEPT !.pc = "done", !.answer = "not acquired"]
  <2>0. cmd[c].attempt \in 1..Attempts
    BY <1>0 DEF CmdStates
  <2>1. cmd[c].attempt < Attempts => cmd[c].attempt + 1 \in 1..Attempts
    BY <2>0, BoundsAssumption
  <2>2. rec \in CmdStates
    BY <1>0, <2>1 DEF CmdStates
  <2>3. stolen' \in BOOLEAN
    BY <1>13 DEF ClearLock, TypeOK, TakesLock
  <2> HIDE DEF rec
  <2>4. SetLock(c, NoFile, rec)
    BY <1>13 DEF ClearLock, rec
  <2> QED BY <1>0, <1>13, <2>2, <2>3, <2>4, SetLockFields DEF ClearLock, TypeOK
<1>14. CASE Spawn(c) \/ Undo(c)
  <2>1. \A pc \in {"saving", "cleaning"} : [cmd[c] EXCEPT !.pc = pc] \in CmdStates
    BY <1>0 DEF CmdStates
  <2> QED BY <1>0, <1>14, <2>1, SetFields DEF Spawn, Undo, Goto, TypeOK
<1>15. CASE CutState(c) \/ SaveState(c) \/ DropState(c)
  <2>1. \A pc \in {"naming", "clearing"} : [cmd[c] EXCEPT !.pc = pc] \in CmdStates
    BY <1>0 DEF CmdStates
  <2>2. [cmd[c] EXCEPT !.pc = "cutting", !.named = c] \in CmdStates
    BY <1>0 DEF CmdStates
  <2>3. state' \in Servers /\ naming' \subseteq Starters /\ stolen' \in BOOLEAN
    BY <1>0, <1>15 DEF CutState, SaveState, DropState, TakesState, TypeOK, Servers
  <2>4. cmd' \in [Commands -> CmdStates]
    BY <1>0, <1>15, <2>1, <2>2, SetFields DEF CutState, SaveState, DropState, Goto
  <2> QED BY <1>15, <2>3, <2>4 DEF CutState, SaveState, DropState, TypeOK
<1>16. CASE CutLock(c)
  <2>1. [Unwritten EXCEPT !.writers = lock.writers \cup {c}] \in Files
    BY DEF TypeOK, Files
  <2>2. [cmd[c] EXCEPT !.pc = "recording", !.current = TRUE] \in CmdStates
    BY <1>0 DEF CmdStates
  <2>3. stolen' \in BOOLEAN
    BY <1>16 DEF CutLock, TypeOK, TakesLock
  <2> QED BY <1>0, <1>16, <2>1, <2>2, <2>3, SetLockFields DEF CutLock, TypeOK
<1> QED BY <1>3, <1>4, <1>5, <1>6, <1>7, <1>9, <1>10, <1>11, <1>12, <1>13, <1>14, <1>15, <1>16
        DEF Start

\* Every other step keeps the types.
LEMMA StopType ==
    ASSUME TypeOK, NEW c \in Commands, Stop(c) \/ CleanState(c) \/ CleanLock(c) \/ Crash(c)
    PROVE  TypeOK'
<1> USE RecTypes
<1>0. cmd[c] \in CmdStates /\ state \in Servers
  BY DEF TypeOK
<1>1. \A a \in {"error", "refused", "in progress", "crashed", cmd[c].answer} :
          [IdleCmd EXCEPT !.pc = "done", !.answer = a] \in CmdStates
  BY <1>0 DEF CmdStates
<1>2. ASSUME NEW rec \in CmdStates, Set(c, rec)
      PROVE  cmd' \in [Commands -> CmdStates]
  BY <1>0, <1>2, SetFields
<1>3. \A pc \in {"forgetting", "cleaning"}, a \in {"not running", "stopped"} :
          [cmd[c] EXCEPT !.pc = pc, !.answer = a] \in CmdStates
  BY <1>0 DEF CmdStates
<1>4. CASE StopUnreadable(c) \/ StopUnmanaged(c) \/ StopInProgress(c) \/ StopStale(c)
  BY <1>1, <1>2, <1>3, <1>4 DEF StopUnreadable, StopUnmanaged, StopInProgress, StopStale,
     Answer, TypeOK
<1>11. CASE StopReadState(c) \/ StopChoose(c)
  <2>1. state \in Servers /\ Target(c) \in Servers
    BY FieldTypes DEF Target, Servers
  <2>2. \A pc \in {"choosing", "stopping"}, s \in Servers :
            [cmd[c] EXCEPT !.pc = pc, !.named = s] \in CmdStates
    BY <1>0 DEF CmdStates
  <2> QED BY <1>2, <1>11, <2>1, <2>2 DEF StopReadState, StopChoose, TypeOK
<1>5. CASE StopReadLock(c)
  <2>1. [lock EXCEPT !.writers = {}] \in Files
    BY DEF TypeOK, Files
  <2>2. NULL \in Servers
    BY DEF Servers
  <2> QED BY <1>5, <2>1, <2>2, BeginFields DEF StopReadLock, TypeOK
<1>6. CASE StopKill(c)
  BY <1>2, <1>3, <1>6 DEF StopKill, TypeOK
<1>7. CASE CleanState(c)
  <2>1. [cmd[c] EXCEPT !.pc = "removing"] \in CmdStates
    BY <1>0 DEF CmdStates
  <2>2. stolen' \in BOOLEAN
    BY <1>7 DEF CleanState, TypeOK, TakesState
  <2> QED BY <1>1, <1>2, <1>7, <2>1, <2>2 DEF CleanState, Goto, Answer, TypeOK, Servers
<1>8. CASE CleanLock(c)
  <2>1. stolen' \in BOOLEAN
    BY <1>8 DEF CleanLock, TypeOK, TakesLock
  <2>2. [IdleCmd EXCEPT !.pc = "done", !.answer = cmd[c].answer] \in CmdStates
    BY <1>1
  <2> QED BY <1>8, <2>1, <2>2, SetLockFields DEF CleanLock, TypeOK
<1>9. CASE Crash(c)
  <2>1. [lock EXCEPT !.writers = @ \ {c}] \in Files
    BY DEF TypeOK, Files
  <2> QED BY <1>1, <1>2, <1>9, <2>1 DEF Crash, Answer, TypeOK
<1> QED BY <1>4, <1>5, <1>6, <1>7, <1>8, <1>9, <1>11 DEF Stop

\* Every step keeps the types.
LEMMA NextType == TypeOK /\ [Next]_vars => TypeOK'
<1> SUFFICES ASSUME TypeOK, [Next]_vars
             PROVE  TypeOK'
  OBVIOUS
<1>1. CASE UNCHANGED vars
  BY <1>1 DEF vars, TypeOK
<1>2. ASSUME NEW s \in Starters, Bind(s) \/ Exit(s)
      PROVE  TypeOK'
  BY <1>2 DEF Bind, Exit, TypeOK, Serving
<1> QED BY <1>1, <1>2, StartType, StopType, RecTypes DEF Next

THEOREM TypeCorrect == Spec => []TypeOK
<1>1. Init => TypeOK
  BY InitType
<1> QED BY <1>1, NextType, PTL DEF Spec

-----------------------------------------------------------------------------
(* Every step keeps the inductive invariant.                               *)

\* The other commands stay, and what they know of the lock may be out of date.
OthersStay(c) == \A d \in Commands : d # c => cmd'[d] = cmd[d]
OthersLag(c) ==
    \A d \in Commands : d # c =>
        /\ cmd'[d].pc = cmd[d].pc /\ cmd'[d].seen = cmd[d].seen
        /\ cmd'[d].named = cmd[d].named /\ ~cmd'[d].current

\* The command ends.
Ended(c) ==
    /\ cmd'[c].pc = "done" /\ cmd'[c].named = NULL
    /\ cmd'[c].seen.owner = NULL /\ cmd'[c].seen.api = NULL /\ ~cmd'[c].current

\* The command goes on with what it knows.
Moved(c, pc) ==
    /\ cmd'[c].pc = pc /\ cmd'[c].seen = cmd[c].seen
    /\ cmd'[c].named = cmd[c].named /\ cmd'[c].current = cmd[c].current

LEMMA InitInd == Init => IndInv
<1> SUFFICES ASSUME Init
             PROVE  IndInv
  OBVIOUS
<1>1. /\ state = NULL /\ lock.owner = NULL /\ lock.api = NULL /\ ~lock.exists
      /\ \A s \in Starters : server[s] = "none"
      /\ \A c \in Commands : /\ cmd[c].pc = "idle" /\ cmd[c].named = NULL
                              /\ cmd[c].seen.owner = NULL /\ cmd[c].seen.api = NULL
                              /\ ~cmd[c].current
  BY DEF Init, NoFile, IdleCmd
<1> QED
  BY <1>1, RecTypes DEF IndInv, AlwaysInv, PcInv, ServerInv, OwnerInv, NamedInv, SeenInv,
     Relies, OwnInv, StaleInv, SoundInv, FreshInv, Fresh, StateInv, StopInv, AliveInv, Alive,
     Before, Owning, Asking, Busy

\* A command that ends without touching a file: its server, if it has one, is
\* named.
LEMMA EndInd ==
    ASSUME TypeOK, IndInv, NEW c \in Commands,
           cmd[c].pc \in Asking \cup {"probing", "waiting", "diagnosing", "seeking"},
           Ended(c), OthersStay(c),
           UNCHANGED <<lock, state, naming, server, stolen, orphaned>>
    PROVE  IndInv'
<1> USE RecTypes, FieldTypes
    DEF IndInv, AlwaysInv, PcInv, ServerInv, OwnerInv, NamedInv, SeenInv, OwnInv, StaleInv,
        SoundInv,
        FreshInv, StateInv, StopInv, AliveInv, Before, Owning, Asking, Fresh, LockOf, Relies, Alive,
        Busy, Gap, Ended, OthersStay
<1>1. AlwaysInv'
  BY SMTT(40)
<1>2. ASSUME ~Gap' PROVE SoundInv'
  BY <1>2
<1> QED BY <1>1, <1>2

LEMMA MoveInd ==
    ASSUME TypeOK, IndInv, NEW c \in Starters, NEW pc, Moved(c, pc),
           \/ cmd[c].pc = "checking" /\ pc = "opening" /\ ~Alive(cmd[c].named)
           \/ cmd[c].pc = "opening" /\ pc = "reading"
           \/ cmd[c].pc = "judging" /\ pc = "probing"
           \/ cmd[c].pc = "asking" /\ pc = "dropping" /\ ~Alive(cmd[c].named)
           \/ cmd[c].pc = "probing" /\ pc = "dropping" /\ ~OwnerAlive(cmd[c].seen.owner)
           \/ cmd[c].pc = "waiting" /\ pc = "diagnosing"
           \/ cmd[c].pc = "diagnosing" /\ pc = "undoing",
           OthersStay(c),
           UNCHANGED <<lock, state, naming, server, stolen, orphaned>>
    PROVE  IndInv'
<1> USE RecTypes, FieldTypes
    DEF IndInv, AlwaysInv, PcInv, ServerInv, OwnerInv, NamedInv, SeenInv, OwnInv, StaleInv,
        SoundInv,
        FreshInv, StateInv, StopInv, AliveInv, Before, Owning, Asking, Fresh, LockOf, Relies, Alive,
        Busy, Gap, Moved, OthersStay
<1>1. AlwaysInv'
  BY SMTT(40) DEF OwnerAlive
<1>2. ASSUME ~Gap' PROVE SoundInv'
  BY <1>2 DEF OwnerAlive
<1> QED BY <1>1, <1>2

\* A lock that is created is the only one, and no server is named.
LEMMA CreateLockInd ==
    ASSUME TypeOK, IndInv, NEW c \in Starters, CreateLock(c)
    PROVE  IndInv'
<1>1. /\ cmd[c].pc = "opening" /\ ~lock.exists
      /\ cmd'[c].pc = "writing" /\ cmd'[c].seen = cmd[c].seen
      /\ cmd'[c].named = cmd[c].named /\ cmd'[c].current
      /\ lock'.exists /\ ~lock'.ok /\ lock'.owner = NULL /\ lock'.api = NULL
      /\ lock'.writers = {c}
      /\ OthersLag(c)
      /\ UNCHANGED <<state, naming, server, stolen, orphaned>>
  BY ZenonT(60), RecTypes DEF CreateLock, SetLock, Unwritten, NoFile, OthersStay, OthersLag, Moved,
     TypeOK, CmdStates, Files
<1> USE RecTypes, FieldTypes
    DEF IndInv, AlwaysInv, PcInv, ServerInv, OwnerInv, NamedInv, SeenInv, OwnInv, StaleInv,
        SoundInv,
        FreshInv, StateInv, StopInv, AliveInv, Before, Owning, Asking, Fresh, LockOf, Relies, Alive,
        Busy, Gap, OthersStay, OthersLag, Moved
<1>2. AlwaysInv'
  BY <1>1
<1>3. ASSUME ~Gap' PROVE SoundInv'
  BY <1>1, <1>3
<1> QED BY <1>2, <1>3

\* A write reaches the file that was opened, or none.
LEMMA WriteFields ==
    ASSUME TypeOK, NEW c \in Starters, NEW api \in Servers, NEW pc \in {"spawning", "waiting"},
           Write(c, c, api, [cmd[c] EXCEPT !.pc = pc])
    PROVE  /\ Moved(c, pc)
           /\ IF c \in lock.writers
              THEN /\ lock'.exists /\ lock'.ok /\ lock'.owner = c /\ lock'.api = api
                   /\ lock'.writers = lock.writers \ {c}
                   /\ OthersLag(c)
              ELSE lock' = lock /\ OthersStay(c)
<1> DEFINE rec == [cmd[c] EXCEPT !.pc = pc]
           file == [exists |-> TRUE, ok |-> TRUE, owner |-> c, api |-> api,
                    writers |-> lock.writers \ {c}]
<1>1. rec \in CmdStates /\ file \in Files /\ c \in Commands
  BY ZenonT(60), RecTypes DEF TypeOK, CmdStates, Files, Servers
<1>2. /\ rec.pc = pc /\ rec.seen = cmd[c].seen
      /\ rec.named = cmd[c].named /\ rec.current = cmd[c].current
  BY RecTypes DEF TypeOK, CmdStates
<1>3. CASE c \in lock.writers
  <2>1. SetLock(c, file, rec)
    BY <1>3 DEF Write
  <2> HIDE DEF rec, file
  <2>2. /\ lock' = file /\ cmd'[c] = rec
        /\ \A d \in Commands : d # c => cmd'[d] = [cmd[d] EXCEPT !.current = FALSE]
    BY <1>1, <2>1, SetLockFields
  <2>3. ASSUME NEW d \in Commands, d # c
        PROVE  /\ cmd'[d].pc = cmd[d].pc /\ cmd'[d].seen = cmd[d].seen
               /\ cmd'[d].named = cmd[d].named /\ ~cmd'[d].current
    <3>1. cmd[d] \in CmdStates
      BY DEF TypeOK
    <3> QED BY <2>2, <2>3, <3>1 DEF CmdStates
  <2> QED BY <1>2, <1>3, <2>2, <2>3 DEF Moved, OthersLag, file
<1>4. CASE c \notin lock.writers
  <2>1. Set(c, rec) /\ lock' = lock
    BY <1>4 DEF Write
  <2> HIDE DEF rec
  <2>2. cmd'[c] = rec /\ OthersStay(c)
    BY <1>1, <2>1, SetFields DEF OthersStay
  <2> QED BY <1>2, <1>4, <2>1, <2>2 DEF Moved
<1> QED BY <1>3, <1>4

\* The creator of a lock writes it, if it is still there.
LEMMA WriteOwnerInd ==
    ASSUME TypeOK, IndInv, NEW c \in Starters, WriteOwner(c)
    PROVE  IndInv'
<1>1. /\ cmd[c].pc = "writing" /\ Moved(c, "spawning")
      /\ IF c \in lock.writers
         THEN /\ lock'.exists /\ lock'.ok /\ lock'.owner = c /\ lock'.api = NULL
              /\ lock'.writers = lock.writers \ {c}
              /\ OthersLag(c)
         ELSE lock' = lock /\ OthersStay(c)
      /\ UNCHANGED <<state, naming, server, stolen, orphaned>>
  BY WriteFields DEF WriteOwner, Servers
<1> USE RecTypes, FieldTypes
    DEF IndInv, AlwaysInv, PcInv, ServerInv, OwnerInv, NamedInv, SeenInv, OwnInv, StaleInv,
        SoundInv,
        FreshInv, StateInv, StopInv, AliveInv, Before, Owning, Asking, Fresh, LockOf, Relies, Alive,
        Busy, Gap, OthersStay, OthersLag, Moved
<1>2. AlwaysInv'
  BY SMTT(40), <1>1
<1>3. ASSUME ~Gap' PROVE SoundInv'
  BY <1>1, <1>3
<1> QED BY <1>2, <1>3

\* It does so again, with the server.
LEMMA RecordPIDInd ==
    ASSUME TypeOK, IndInv, NEW c \in Starters, RecordPID(c)
    PROVE  IndInv'
<1>1. /\ cmd[c].pc = "recording" /\ Moved(c, "waiting")
      /\ IF c \in lock.writers
         THEN /\ lock'.exists /\ lock'.ok /\ lock'.owner = c /\ lock'.api = c
              /\ lock'.writers = lock.writers \ {c}
              /\ OthersLag(c)
         ELSE lock' = lock /\ OthersStay(c)
      /\ UNCHANGED <<state, naming, server, stolen, orphaned>>
  BY WriteFields DEF RecordPID, Servers
<1> USE RecTypes, FieldTypes
    DEF IndInv, AlwaysInv, PcInv, ServerInv, OwnerInv, NamedInv, SeenInv, OwnInv, StaleInv,
        SoundInv,
        FreshInv, StateInv, StopInv, AliveInv, Before, Owning, Asking, Fresh, LockOf, Relies, Alive,
        Busy, Gap, OthersStay, OthersLag, Moved
<1>2. AlwaysInv'
  BY SMTT(40), <1>1
<1>3. ASSUME ~Gap' PROVE SoundInv'
  BY <1>1, <1>3
<1> QED BY <1>2, <1>3

\* A failure to write ends the command.
LEMMA WriteFailsInd ==
    ASSUME TypeOK, IndInv, NEW c \in Starters, WriteFails(c)
    PROVE  IndInv'
<1>1. /\ cmd[c].pc = "writing"
      /\ cmd'[c].pc = "done" /\ cmd'[c].named = NULL /\ cmd'[c].seen.owner = NULL
      /\ cmd'[c].seen.api = NULL /\ ~cmd'[c].current
      /\ lock'.exists = lock.exists /\ lock'.ok = lock.ok /\ lock'.owner = lock.owner
      /\ lock'.api = lock.api /\ lock'.writers = lock.writers \ {c}
      /\ OthersStay(c)
      /\ UNCHANGED <<state, naming, server, stolen, orphaned>>
  BY RecTypes DEF WriteFails, Answer, Set, IdleCmd, NoFile, OthersStay, OthersLag, Moved,
     TypeOK, CmdStates, Files
<1> USE RecTypes, FieldTypes
    DEF IndInv, AlwaysInv, PcInv, ServerInv, OwnerInv, NamedInv, SeenInv, OwnInv, StaleInv,
        SoundInv,
        FreshInv, StateInv, StopInv, AliveInv, Before, Owning, Asking, Fresh, LockOf, Relies, Alive,
        Busy, Gap, OthersStay, OthersLag, Moved
<1>2. AlwaysInv'
  BY SMTT(40), <1>1
<1>3. ASSUME ~Gap' PROVE SoundInv'
  BY <1>1, <1>3
<1> QED BY <1>2, <1>3

\* A later failure leads to Undo.
LEMMA StartFailsInd ==
    ASSUME TypeOK, IndInv, NEW c \in Starters, StartFails(c)
    PROVE  IndInv'
<1>1. /\ cmd[c].pc \in {"spawning", "saving", "naming", "cutting", "recording"}
      /\ Moved(c, "undoing")
      /\ lock'.exists = lock.exists /\ lock'.ok = lock.ok /\ lock'.owner = lock.owner
      /\ lock'.api = lock.api /\ lock'.writers = lock.writers \ {c}
      /\ OthersStay(c)
      /\ naming' = naming \ {c}
      /\ UNCHANGED <<state, server, stolen, orphaned>>
  BY RecTypes DEF StartFails, Set, OthersStay, OthersLag, Moved, TypeOK, CmdStates, Files
<1> USE RecTypes, FieldTypes
    DEF IndInv, AlwaysInv, PcInv, ServerInv, OwnerInv, NamedInv, SeenInv, OwnInv, StaleInv,
        SoundInv,
        FreshInv, StateInv, StopInv, AliveInv, Before, Owning, Asking, Fresh, LockOf, Relies, Alive,
        Busy, Gap, OthersStay, OthersLag, Moved
<1>2. AlwaysInv'
  BY SMTT(40), <1>1
<1>3. ASSUME ~Gap' PROVE SoundInv'
  BY <1>1, <1>3
<1> QED BY <1>2, <1>3

\* What is read is what the lock says.
LEMMA ReadLockInd ==
    ASSUME TypeOK, IndInv, NEW c \in Starters, ReadLock(c)
    PROVE  IndInv'
<1>1. /\ cmd[c].pc = "reading"
      /\ cmd'[c].pc = "judging" /\ cmd'[c].current
      /\ cmd'[c].seen.ok = lock.ok /\ cmd'[c].seen.owner = lock.owner
      /\ cmd'[c].seen.api = lock.api /\ cmd'[c].named = cmd[c].named
      /\ OthersStay(c)
      /\ UNCHANGED <<lock, state, naming, server, stolen, orphaned>>
  BY RecTypes DEF ReadLock, Set, OthersStay, OthersLag, Moved, TypeOK, CmdStates, Files
<1> USE RecTypes, FieldTypes
    DEF IndInv, AlwaysInv, PcInv, ServerInv, OwnerInv, NamedInv, SeenInv, OwnInv, StaleInv,
        SoundInv,
        FreshInv, StateInv, StopInv, AliveInv, Before, Owning, Asking, Fresh, LockOf, Relies, Alive,
        Busy, Gap, OthersStay, OthersLag, Moved
<1>2. AlwaysInv'
  BY SMTT(40), <1>1
<1>3. ASSUME ~Gap' PROVE SoundInv'
  BY SMTT(40), <1>1, <1>3
<1> QED BY <1>2, <1>3

\* The server to ask about is the lock's, or the runtime state's if the owner of
\* the lock has ended.
LEMMA PidInd ==
    ASSUME TypeOK, IndInv, NEW c \in Starters, PidOfServer(c) \/ PidOfState(c)
    PROVE  IndInv'
<1>1. /\ cmd[c].pc = "judging" /\ cmd'[c].pc = "asking"
      /\ cmd'[c].seen = cmd[c].seen /\ cmd'[c].current = cmd[c].current
      /\ \/ cmd'[c].named = cmd[c].seen.api /\ Alive(cmd[c].seen.api)
         \/ cmd'[c].named = state /\ ~OwnerAlive(cmd[c].seen.owner)
      /\ OthersStay(c)
      /\ UNCHANGED <<lock, state, naming, server, stolen, orphaned>>
  <2>1. CASE PidOfServer(c)
    BY <2>1, RecTypes DEF PidOfServer, Set, OthersStay, TypeOK, CmdStates
  <2>2. CASE PidOfState(c)
    BY <2>2, RecTypes DEF PidOfState, Set, OthersStay, TypeOK, CmdStates
  <2> QED BY <2>1, <2>2
<1> USE RecTypes, FieldTypes
    DEF IndInv, AlwaysInv, PcInv, ServerInv, OwnerInv, NamedInv, SeenInv, OwnInv, StaleInv,
        SoundInv,
        FreshInv, StateInv, StopInv, AliveInv, Before, Owning, Asking, Fresh, LockOf, Relies, Alive,
        Busy, Gap, OthersStay, OthersLag, Moved
<1>2. AlwaysInv'
  BY SMTT(40), <1>1 DEF OwnerAlive
<1>3. ASSUME ~Gap' PROVE SoundInv'
  BY <1>1, <1>3
<1> QED BY <1>2, <1>3

\* The server starts.
LEMMA SpawnInd ==
    ASSUME TypeOK, IndInv, NEW c \in Starters, Spawn(c)
    PROVE  IndInv'
<1>1. /\ cmd[c].pc = "spawning" /\ Moved(c, "saving")
      /\ server'[c] = "starting" /\ \A s \in Starters : s # c => server'[s] = server[s]
      /\ OthersStay(c)
      /\ UNCHANGED <<lock, state, naming, stolen, orphaned>>
  BY RecTypes DEF Spawn, Goto, Set, OthersStay, OthersLag, Moved, TypeOK, CmdStates, Files
<1> USE RecTypes, FieldTypes
    DEF IndInv, AlwaysInv, PcInv, ServerInv, OwnerInv, NamedInv, SeenInv, OwnInv, StaleInv,
        SoundInv,
        FreshInv, StateInv, StopInv, AliveInv, Before, Owning, Asking, Fresh, LockOf, Relies, Alive,
        Busy, Gap, OthersStay, OthersLag, Moved
<1>2. AlwaysInv'
  BY SMTT(40), <1>1
<1>3. ASSUME ~Gap' PROVE SoundInv'
  BY <1>1, <1>3
<1> QED BY <1>2, <1>3

\* The server is stopped.
LEMMA UndoInd ==
    ASSUME TypeOK, IndInv, NEW c \in Starters, Undo(c)
    PROVE  IndInv'
<1>1. /\ cmd[c].pc = "undoing" /\ Moved(c, "cleaning")
      /\ server'[c] = IF Alive(c) THEN "exited" ELSE server[c]
      /\ \A s \in Starters : s # c => server'[s] = server[s]
      /\ OthersStay(c)
      /\ UNCHANGED <<lock, state, naming, stolen, orphaned>>
  BY RecTypes DEF Undo, Goto, Set, OthersStay, OthersLag, Moved, TypeOK, CmdStates, Files
<1> USE RecTypes, FieldTypes
    DEF IndInv, AlwaysInv, PcInv, ServerInv, OwnerInv, NamedInv, SeenInv, OwnInv, StaleInv,
        SoundInv,
        FreshInv, StateInv, StopInv, AliveInv, Before, Owning, Asking, Fresh, LockOf, Relies, Alive,
        Busy, Gap, OthersStay, OthersLag, Moved
<1>2. AlwaysInv'
  BY SMTT(40), <1>1
<1>3. ASSUME ~Gap' PROVE SoundInv'
  BY <1>1, <1>3
<1> QED BY <1>2, <1>3

\* A start that has the lock is the only one.
LEMMA FreshUnique ==
    ASSUME FreshInv, NEW s \in Starters, NEW t \in Starters, Fresh(s), Fresh(t)
    PROVE  s = t
  BY DEF FreshInv, LockOf

\* A command that is about to remove or to cut the lock, and takes it from
\* nobody, is not overlapped by a start that has it.
LEMMA NothingFresh ==
    ASSUME TypeOK, IndInv, ~Gap, NEW c \in Commands,
           cmd[c].pc \in {"clearing", "cutting", "removing"}, ~TakesLock(c)
    PROVE  \A s \in Starters : ~Fresh(s)
<1> SUFFICES ASSUME NEW s \in Starters, Fresh(s)
             PROVE  FALSE
  OBVIOUS
<1>1. AlwaysInv /\ SoundInv
  BY DEF IndInv
<1>2. LockOf(s) /\ s # c /\ s \in Commands
  BY <1>1, RecTypes DEF SoundInv, FreshInv, Fresh
<1>3. cmd[c].current /\ lock.writers \ {c} = {}
  BY <1>2 DEF TakesLock, LockOf
<1>4. lock.ok /\ lock.owner = s /\ lock.api = NULL /\ Busy(s)
  BY <1>2, <1>3 DEF LockOf, Fresh, Busy
<1>5. CASE cmd[c].pc = "clearing"
  BY <1>1, <1>3, <1>4, <1>5 DEF AlwaysInv, SeenInv, Relies, StaleInv
<1>6. CASE c \in Starters /\ cmd[c].pc \in {"cutting", "removing"}
  BY <1>1, <1>2, <1>3, <1>4, <1>6 DEF AlwaysInv, OwnInv, Owning
<1>7. CASE c \in Stoppers /\ cmd[c].pc = "removing"
  <2>1. cmd[c].seen.owner = s
    BY <1>1, <1>3, <1>4, <1>7 DEF AlwaysInv, SeenInv, Relies
  <2> QED BY <1>1, <1>3, <1>7, <2>1 DEF SoundInv, StopInv
<1> QED BY <1>1, <1>5, <1>6, <1>7 DEF Commands, AlwaysInv, PcInv

\* A stale lock is removed, if it is the one that was judged.
LEMMA ClearLockInd ==
    ASSUME TypeOK, IndInv, NEW c \in Starters, ClearLock(c)
    PROVE  IndInv'
<1>1. /\ cmd[c].pc = "clearing" /\ cmd'[c].pc \in {"opening", "done"}
      /\ cmd'[c].seen.owner = NULL /\ cmd'[c].seen.api = NULL
      /\ cmd'[c].named \in {NULL, cmd[c].named}
      /\ ~lock'.exists /\ ~lock'.ok /\ lock'.owner = NULL /\ lock'.api = NULL
      /\ stolen' = (stolen \/ TakesLock(c))
      /\ OthersLag(c)
      /\ UNCHANGED <<state, naming, server, orphaned>>
  BY ZenonT(60), RecTypes DEF ClearLock, SetLock, NoFile, IdleCmd, OthersStay, OthersLag,
         Moved, TypeOK, CmdStates, Files
<1>2. AlwaysInv'
  <2> USE RecTypes, FieldTypes
      DEF IndInv, AlwaysInv, PcInv, ServerInv, OwnerInv, NamedInv, SeenInv, OwnInv, StaleInv,
          Before, Owning, Asking, Relies, Alive, Busy
  <2> QED BY SMTT(40), <1>1 DEF OthersStay, OthersLag, Moved
<1>3. ASSUME ~Gap' PROVE SoundInv'
  <2>0. ~Gap /\ SoundInv /\ AlwaysInv /\ ~TakesLock(c) /\ c \in Commands
    BY <1>1, <1>3, RecTypes DEF Gap, IndInv
  <2>1. \A s \in Starters : ~Fresh(s)
    BY <1>1, <2>0, NothingFresh
  <2>2. \A s \in Starters : ~Fresh(s)'
    BY <1>1, <2>0, <2>1, RecTypes DEF Fresh, OthersLag, Alive
  <2>3. FreshInv'
    BY <2>2 DEF FreshInv
  <2>4. StateInv'
    BY <1>1, <2>0, RecTypes DEF SoundInv, StateInv, TakesLock, OthersLag
  <2>5. StopInv'
    BY <2>2 DEF StopInv
  <2>6. AliveInv'
    BY <1>1, <2>0, <2>1 DEF SoundInv, AliveInv, Alive
  <2> QED BY <2>3, <2>4, <2>5, <2>6 DEF SoundInv
<1> QED BY <1>2, <1>3 DEF IndInv

\* The lock is cut by the start it names.
LEMMA CutLockInd ==
    ASSUME TypeOK, IndInv, NEW c \in Starters, CutLock(c)
    PROVE  IndInv'
<1>1. /\ cmd[c].pc = "cutting" /\ cmd'[c].pc = "recording" /\ cmd'[c].current
      /\ cmd'[c].seen = cmd[c].seen /\ cmd'[c].named = cmd[c].named
      /\ lock'.exists /\ ~lock'.ok /\ lock'.owner = NULL /\ lock'.api = NULL
      /\ stolen' = (stolen \/ TakesLock(c))
      /\ OthersLag(c)
      /\ UNCHANGED <<state, naming, server, orphaned>>
  BY ZenonT(60), RecTypes DEF CutLock, SetLock, Unwritten, NoFile, OthersStay, OthersLag,
         Moved, TypeOK, CmdStates, Files
<1>2. AlwaysInv'
  <2> USE RecTypes, FieldTypes
      DEF IndInv, AlwaysInv, PcInv, ServerInv, OwnerInv, NamedInv, SeenInv, OwnInv, StaleInv,
          Before, Owning, Asking, Relies, Alive, Busy
  <2> QED BY SMTT(40), <1>1 DEF OthersStay, OthersLag, Moved
<1>3. ASSUME ~Gap' PROVE SoundInv'
  <2>0. ~Gap /\ SoundInv /\ AlwaysInv /\ ~TakesLock(c) /\ c \in Commands
    BY <1>1, <1>3, RecTypes DEF Gap, IndInv
  <2>1. \A s \in Starters : ~Fresh(s)
    BY <1>1, <2>0, NothingFresh
  <2>2. \A s \in Starters : ~Fresh(s)'
    BY <1>1, <2>0, <2>1, RecTypes DEF Fresh, OthersLag, Alive
  <2>3. FreshInv'
    BY <2>2 DEF FreshInv
  <2>4. StateInv'
    BY <1>1, <2>0, RecTypes DEF SoundInv, StateInv, OthersLag
  <2>5. StopInv'
    BY <2>2 DEF StopInv
  <2>6. AliveInv'
    BY <1>1, <2>0, <2>1 DEF SoundInv, AliveInv, Alive
  <2> QED BY <2>3, <2>4, <2>5, <2>6 DEF SoundInv
<1> QED BY <1>2, <1>3 DEF IndInv

\* The lock is removed, if it is the one that the command knows.
LEMMA CleanLockInd ==
    ASSUME TypeOK, IndInv, NEW c \in Commands, CleanLock(c)
    PROVE  IndInv'
<1>1. /\ cmd[c].pc = "removing" /\ Ended(c)
      /\ ~lock'.exists /\ ~lock'.ok /\ lock'.owner = NULL /\ lock'.api = NULL
      /\ stolen' = (stolen \/ TakesLock(c))
      /\ OthersLag(c)
      /\ UNCHANGED <<state, naming, server, orphaned>>
  BY ZenonT(60), RecTypes DEF CleanLock, SetLock, IdleCmd, NoFile, Ended, OthersStay,
         OthersLag, Moved, TypeOK, CmdStates, Files
<1>2. AlwaysInv'
  <2> USE RecTypes, FieldTypes
      DEF IndInv, AlwaysInv, PcInv, ServerInv, OwnerInv, NamedInv, SeenInv, OwnInv, StaleInv,
          Before, Owning, Asking, Relies, Alive, Busy
  <2> QED BY SMTT(40), <1>1 DEF OthersStay, OthersLag, Moved, Ended
<1>3. ASSUME ~Gap' PROVE SoundInv'
  <2>0. ~Gap /\ SoundInv /\ AlwaysInv /\ ~TakesLock(c) /\ c \in Commands
    BY <1>1, <1>3, RecTypes DEF Gap, IndInv
  <2>1. \A s \in Starters : ~Fresh(s)
    BY <1>1, <2>0, NothingFresh
  <2>2. \A s \in Starters : ~Fresh(s)'
    BY <1>1, <2>0, <2>1, RecTypes DEF Fresh, OthersLag, Alive, Ended
  <2>3. FreshInv'
    BY <2>2 DEF FreshInv
  <2>4. StateInv'
    BY <1>1, <2>0, RecTypes DEF SoundInv, StateInv, TakesLock, OthersLag, Ended
  <2>5. StopInv'
    BY <2>2 DEF StopInv
  <2>6. AliveInv'
    BY <1>1, <2>0, <2>1 DEF SoundInv, AliveInv, Alive
  <2> QED BY <2>3, <2>4, <2>5, <2>6 DEF SoundInv
<1> QED BY <1>2, <1>3 DEF IndInv

\* A start that has the lock cuts the state file, which names nobody.
LEMMA CutStateInd ==
    ASSUME TypeOK, IndInv, NEW c \in Starters, CutState(c)
    PROVE  IndInv'
<1>1. /\ cmd[c].pc = "saving" /\ Moved(c, "naming")
      /\ state' = NULL /\ naming' = naming \cup {c}
      /\ OthersStay(c)
      /\ UNCHANGED <<lock, server, stolen, orphaned>>
  BY RecTypes DEF CutState, Goto, Set, OthersStay, Moved, TypeOK, CmdStates
<1> USE RecTypes, FieldTypes
    DEF IndInv, AlwaysInv, PcInv, ServerInv, OwnerInv, NamedInv, SeenInv, OwnInv, StaleInv,
        SoundInv,
        FreshInv, StateInv, StopInv, AliveInv, Before, Owning, Asking, Fresh, LockOf, Relies, Alive,
        Busy, Gap, OthersStay, OthersLag, Moved
<1>2. AlwaysInv'
  BY <1>1
<1>3. ASSUME ~Gap' PROVE SoundInv'
  BY <1>1, <1>3
<1> QED BY <1>2, <1>3

\* The server is named while the start has the lock.
LEMMA SaveStateInd ==
    ASSUME TypeOK, IndInv, NEW c \in Starters, SaveState(c)
    PROVE  IndInv'
<1>1. /\ cmd[c].pc = "naming" /\ cmd'[c].pc = "cutting" /\ cmd'[c].named = c
      /\ cmd'[c].seen = cmd[c].seen /\ cmd'[c].current = cmd[c].current
      /\ state' = (IF c \in naming THEN c ELSE state) /\ naming' = naming \ {c}
      /\ OthersStay(c)
      /\ UNCHANGED <<lock, server, stolen, orphaned>>
  BY RecTypes DEF SaveState, Set, OthersStay, OthersLag, Moved, TypeOK, CmdStates, Files
<1>2. AlwaysInv'
  <2> USE RecTypes, FieldTypes
      DEF IndInv, AlwaysInv, PcInv, ServerInv, OwnerInv, NamedInv, SeenInv, OwnInv, StaleInv,
          Before, Owning, Asking, Relies, Alive, Busy
  <2> QED BY SMTT(40), <1>1 DEF OthersStay, OthersLag, Moved
<1>3. ASSUME ~Gap' PROVE SoundInv'
  <2>0. SoundInv /\ AlwaysInv /\ c \in Commands /\ c # NULL
    BY <1>1, <1>3, RecTypes DEF Gap, IndInv
  <2>1. /\ Fresh(c) /\ lock.exists /\ lock.ok /\ lock.owner = c /\ lock.api = NULL
        /\ state = NULL /\ state' = c
    BY <1>1, <2>0 DEF SoundInv, FreshInv, Fresh, LockOf
  <2>2. \A s \in Starters : s # c => ~Fresh(s)
    BY <2>0, <2>1, FreshUnique DEF SoundInv
  <2>3. \A s \in Starters : ~Fresh(s)'
    BY <1>1, <2>0, <2>2, RecTypes DEF Fresh, OthersStay, Alive
  <2>4. FreshInv' /\ StopInv'
    BY <2>3 DEF FreshInv, StopInv
  <2>5. \A d \in Commands : cmd[d].pc \in {"clearing", "removing"} => ~cmd[d].current
    <3>1. ASSUME NEW d \in Commands, cmd[d].pc = "clearing", cmd[d].current
          PROVE  FALSE
      BY <1>1, <2>0, <2>1, <3>1 DEF AlwaysInv, SeenInv, Relies, StaleInv, Busy
    <3>2. ASSUME NEW d \in Starters, cmd[d].pc = "removing", cmd[d].current
          PROVE  FALSE
      BY <1>1, <2>0, <2>1, <3>2 DEF AlwaysInv, OwnInv, Owning
    <3>3. ASSUME NEW d \in Stoppers, cmd[d].pc = "removing", cmd[d].current
          PROVE  FALSE
      BY <1>1, <2>0, <2>1, <3>3, RecTypes DEF AlwaysInv, SeenInv, Relies, SoundInv, StopInv
    <3> QED BY <3>1, <3>2, <3>3 DEF Commands
  <2>6. StateInv'
    BY <1>1, <2>1, <2>5 DEF StateInv, OthersStay
  <2>7. AliveInv'
    BY SMTT(40), <1>1, <2>0, <2>1, <2>2, RecTypes DEF SoundInv, AliveInv, Alive
  <2> QED BY <2>4, <2>6, <2>7 DEF SoundInv
<1> QED BY <1>2, <1>3 DEF IndInv

\* What begins knows what a file says now.
LEMMA BeginInd ==
    ASSUME TypeOK, IndInv, NEW c \in Commands,
           (c \in Starters /\ Look(c)) \/ (c \in Stoppers /\ StopReadLock(c))
    PROVE  IndInv'
<1>1. /\ cmd[c].pc = "idle"
      /\ \/ /\ c \in Starters /\ cmd'[c].pc = "checking" /\ cmd'[c].named = state
            /\ cmd'[c].seen.owner = NULL /\ cmd'[c].seen.api = NULL
         \/ /\ c \in Stoppers /\ cmd'[c].pc = "seeking" /\ cmd'[c].named = NULL
            /\ cmd'[c].seen.ok = lock.ok /\ cmd'[c].seen.owner = lock.owner
            /\ cmd'[c].seen.api = lock.api
      /\ \A d \in Commands : d # c =>
             /\ cmd'[d].pc = cmd[d].pc /\ cmd'[d].seen = cmd[d].seen
             /\ cmd'[d].named = cmd[d].named /\ cmd'[d].current = cmd[d].current
      /\ UNCHANGED <<lock, state, naming, server, stolen, orphaned>>
  <2>1. /\ NoFile \in Files /\ NoFile.owner = NULL /\ NoFile.api = NULL
        /\ [lock EXCEPT !.writers = {}] \in Files /\ state \in Servers /\ NULL \in Servers
    BY RecTypes DEF TypeOK, Files, NoFile, Servers
  <2>2. [lock EXCEPT !.writers = {}].ok = lock.ok /\ [lock EXCEPT !.writers = {}].owner = lock.owner
        /\ [lock EXCEPT !.writers = {}].api = lock.api
    BY DEF TypeOK, Files
  <2>3. CASE c \in Starters /\ Look(c)
    <3>1. PICK file \in Files : file = NoFile /\ Begin(c, "checking", file, state)
      BY <2>1, <2>3 DEF Look
    <3>2. /\ cmd'[c].pc = "checking" /\ cmd'[c].seen = file /\ cmd'[c].named = state
          /\ \A d \in Commands : d # c =>
                /\ cmd'[d].pc = cmd[d].pc /\ cmd'[d].seen = cmd[d].seen
                /\ cmd'[d].named = cmd[d].named /\ cmd'[d].current = cmd[d].current
      BY ZenonT(60), <2>1, <3>1, BeginFields
    <3> QED BY <2>1, <2>3, <3>1, <3>2 DEF Look
  <2>4. CASE c \in Stoppers /\ StopReadLock(c)
    BY ZenonT(120), <2>1, <2>2, <2>4, BeginFields DEF StopReadLock
  <2> QED BY <2>3, <2>4
<1> USE RecTypes, FieldTypes
    DEF IndInv, AlwaysInv, PcInv, ServerInv, OwnerInv, NamedInv, SeenInv, OwnInv, StaleInv,
        SoundInv,
        FreshInv, StateInv, StopInv, AliveInv, Before, Owning, Asking, Fresh, LockOf, Relies, Alive,
        Busy, Gap, OthersStay, OthersLag, Moved
<1>2. AlwaysInv'
  BY SMTT(40), <1>1, CommandsAssumption
<1>3. ASSUME ~Gap' PROVE SoundInv'
  BY <1>1, <1>3, CommandsAssumption
<1> QED BY <1>2, <1>3

LEMMA LookInd == ASSUME TypeOK, IndInv, NEW c \in Starters, Look(c) PROVE IndInv'
<1>1. c \in Commands
  BY RecTypes
<1>2. (c \in Starters /\ Look(c)) \/ (c \in Stoppers /\ StopReadLock(c))
  OBVIOUS
<1> QED BY <1>1, <1>2, BeginInd

LEMMA StopReadLockInd ==
    ASSUME TypeOK, IndInv, NEW c \in Stoppers, StopReadLock(c) PROVE IndInv'
<1>1. c \in Commands
  BY RecTypes
<1>2. (c \in Starters /\ Look(c)) \/ (c \in Stoppers /\ StopReadLock(c))
  OBVIOUS
<1> QED BY <1>1, <1>2, BeginInd

\* What a stop reads names no server while a start is yet to name its own.
LEMMA StopReadStateInd ==
    ASSUME TypeOK, IndInv, NEW c \in Stoppers, StopReadState(c)
    PROVE  IndInv'
<1>1. /\ cmd[c].pc = "seeking"
      /\ cmd'[c].pc = "choosing" /\ cmd'[c].named = state
      /\ cmd'[c].seen = cmd[c].seen /\ cmd'[c].current = cmd[c].current
      /\ OthersStay(c)
      /\ UNCHANGED <<lock, state, naming, server, stolen, orphaned>>
  BY RecTypes DEF StopReadState, Set, OthersStay, TypeOK, CmdStates
<1> USE RecTypes, FieldTypes
    DEF IndInv, AlwaysInv, PcInv, ServerInv, OwnerInv, NamedInv, SeenInv, OwnInv, StaleInv,
        SoundInv,
        FreshInv, StateInv, StopInv, AliveInv, Before, Owning, Asking, Fresh, LockOf, Relies, Alive,
        Busy, Gap, OthersStay, OthersLag, Moved
<1>2. AlwaysInv'
  BY <1>1
<1>3. ASSUME ~Gap' PROVE SoundInv'
  BY <1>1, <1>3
<1> QED BY <1>2, <1>3

\* Without a lock and without a live server there is little to clean up.
LEMMA StopForgetInd ==
    ASSUME TypeOK, IndInv, NEW c \in Stoppers, StopUnmanaged(c), ~Alive(cmd[c].named)
    PROVE  IndInv'
<1>1. /\ cmd[c].pc = "choosing" /\ Moved(c, "forgetting")
      /\ OthersStay(c)
      /\ UNCHANGED <<lock, state, naming, server, stolen, orphaned>>
  <2>1. Set(c, [cmd[c] EXCEPT !.pc = "forgetting", !.answer = "not running"])
    BY DEF StopUnmanaged
  <2> QED BY <2>1, RecTypes DEF StopUnmanaged, Set, OthersStay, Moved, TypeOK, CmdStates
<1> USE RecTypes, FieldTypes
    DEF IndInv, AlwaysInv, PcInv, ServerInv, OwnerInv, NamedInv, SeenInv, OwnInv, StaleInv,
        SoundInv,
        FreshInv, StateInv, StopInv, AliveInv, Before, Owning, Asking, Fresh, LockOf, Relies, Alive,
        Busy, Gap, OthersStay, OthersLag, Moved
<1>2. AlwaysInv'
  BY SMTT(40), <1>1
<1>3. ASSUME ~Gap' PROVE SoundInv'
  BY <1>1, <1>3
<1> QED BY <1>2, <1>3

\* The server to stop is one that the stop has read, if it has read any.
LEMMA StopChooseInd ==
    ASSUME TypeOK, IndInv, NEW c \in Stoppers, StopChoose(c)
    PROVE  IndInv'
<1>1. /\ cmd[c].pc = "choosing" /\ cmd'[c].pc = "stopping"
      /\ cmd'[c].named \in {cmd[c].named, cmd[c].seen.api}
      /\ cmd'[c].seen = cmd[c].seen /\ cmd'[c].current = cmd[c].current
      /\ OthersStay(c)
      /\ UNCHANGED <<lock, state, naming, server, stolen, orphaned>>
  BY RecTypes DEF StopChoose, Target, Set, OthersStay, TypeOK, CmdStates
<1> USE RecTypes, FieldTypes
    DEF IndInv, AlwaysInv, PcInv, ServerInv, OwnerInv, NamedInv, SeenInv, OwnInv, StaleInv,
        SoundInv,
        FreshInv, StateInv, StopInv, AliveInv, Before, Owning, Asking, Fresh, LockOf, Relies, Alive,
        Busy, Gap, OthersStay, OthersLag, Moved
<1>2. AlwaysInv'
  BY SMTT(40), <1>1
<1>3. ASSUME ~Gap' PROVE SoundInv'
  BY <1>1, <1>3
<1> QED BY <1>2, <1>3

\* A lock that a stop finds stale is not that of a server still to come.
LEMMA StopStaleInd ==
    ASSUME TypeOK, IndInv, NEW c \in Stoppers, StopStale(c)
    PROVE  IndInv'
<1>1. /\ cmd[c].pc = "stopping" /\ Moved(c, "cleaning")
      /\ ~Alive(cmd[c].named) /\ (cmd[c].named = NULL => ~OwnerAlive(cmd[c].seen.owner))
      /\ OthersStay(c)
      /\ UNCHANGED <<lock, state, naming, server, stolen, orphaned>>
  BY RecTypes DEF StopStale, Set, OthersStay, Moved, TypeOK, CmdStates
<1> USE RecTypes, FieldTypes
    DEF IndInv, AlwaysInv, PcInv, ServerInv, OwnerInv, NamedInv, SeenInv, OwnInv, StaleInv,
        SoundInv,
        FreshInv, StateInv, StopInv, AliveInv, Before, Owning, Asking, Fresh, LockOf, Relies, Alive,
        Busy, Gap, OthersStay, OthersLag, Moved
<1>2. AlwaysInv'
  BY <1>1
<1>3. ASSUME ~Gap' PROVE SoundInv'
  BY <1>1, <1>3 DEF OwnerAlive
<1> QED BY <1>2, <1>3

\* Nor is one whose server a stop has found and stopped.
LEMMA StopKillInd ==
    ASSUME TypeOK, IndInv, NEW c \in Stoppers, StopKill(c)
    PROVE  IndInv'
<1>0. PICK s \in Starters : s = cmd[c].named
  BY FieldTypes, RecTypes DEF StopKill, Alive
<1>1. /\ cmd[c].pc = "stopping" /\ Moved(c, "cleaning")
      /\ Alive(s) /\ server'[s] = "exited"
      /\ \A t \in Starters : t # s => server'[t] = server[t]
      /\ OthersStay(c)
      /\ UNCHANGED <<lock, state, naming, stolen, orphaned>>
  BY <1>0, RecTypes DEF StopKill, Set, OthersStay, Moved, TypeOK, CmdStates
<1> USE RecTypes, FieldTypes
    DEF IndInv, AlwaysInv, PcInv, ServerInv, OwnerInv, NamedInv, SeenInv, OwnInv, StaleInv,
        SoundInv,
        FreshInv, StateInv, StopInv, AliveInv, Before, Owning, Asking, Fresh, LockOf, Relies, Alive,
        Busy, Gap, OthersStay, OthersLag, Moved
<1>2. AlwaysInv'
  BY SMTT(40), <1>0, <1>1
<1>3. ASSUME ~Gap' PROVE SoundInv'
  BY <1>0, <1>1, <1>3
<1> QED BY <1>2, <1>3

\* The state file is removed, if it names no live server.
LEMMA CleanStateInd ==
    ASSUME TypeOK, IndInv, NEW c \in Commands,
           CleanState(c) \/ (c \in Starters /\ DropState(c))
    PROVE  IndInv'
<1>1. /\ \/ cmd[c].pc = "cleaning" /\ Moved(c, "removing")
         \/ cmd[c].pc = "forgetting" /\ Ended(c)
         \/ c \in Starters /\ cmd[c].pc = "dropping" /\ Moved(c, "clearing")
      /\ state' = NULL /\ naming' = {}
      /\ stolen' = (stolen \/ TakesState(c))
      /\ OthersStay(c)
      /\ UNCHANGED <<lock, server, orphaned>>
  <2>1. CASE CleanState(c) /\ cmd[c].pc = "cleaning"
    <3>1. Goto(c, "removing")
      BY <2>1 DEF CleanState
    <3> QED BY <2>1, <3>1, RecTypes DEF CleanState, Goto, Set, OthersStay, Moved, TypeOK,
       CmdStates
  <2>2. CASE CleanState(c) /\ cmd[c].pc = "forgetting"
    <3>1. Answer(c, cmd[c].answer)
      BY <2>2 DEF CleanState
    <3> QED BY <2>2, <3>1, RecTypes DEF CleanState, Answer, Set, IdleCmd, NoFile, OthersStay,
        Ended, TypeOK
  <2>3. CASE c \in Starters /\ DropState(c)
    BY <2>3, RecTypes DEF DropState, Goto, Set, OthersStay, Moved, TypeOK, CmdStates
  <2> QED BY <2>1, <2>2, <2>3 DEF CleanState
<1>2. AlwaysInv'
  <2> USE RecTypes, FieldTypes
      DEF IndInv, AlwaysInv, PcInv, ServerInv, OwnerInv, NamedInv, SeenInv, OwnInv, StaleInv,
          Before, Owning, Asking, Relies, Alive, Busy
  <2> QED BY SMTT(30), <1>1 DEF OthersStay, Moved, Ended
<1>3. ASSUME ~Gap' PROVE SoundInv'
  <2>0. SoundInv /\ AlwaysInv /\ ~TakesState(c)
    BY <1>1, <1>3 DEF Gap, IndInv
  <2>1. ~Alive(state) /\ naming = {}
    <3>1. ASSUME NEW s \in Starters, s = state, Alive(s)
          PROVE  FALSE
      <4>1. cmd[c].named = s /\ cmd[c].pc \notin Asking
        BY <1>1, <2>0, <3>1 DEF TakesState, Asking
      <4>2. c = s
        BY <2>0, <3>1, <4>1 DEF AlwaysInv, NamedInv
      <4> QED BY <1>1, <2>0, <3>1, <4>2 DEF AlwaysInv, PcInv, ServerInv, Before, Alive
    <3> QED BY <2>0, <3>1, FieldTypes DEF TakesState, Alive
  <2>2. \A s \in Starters : Fresh(s)' = Fresh(s)
    BY <1>1, RecTypes DEF Fresh, OthersStay, Moved, Ended, Alive
  <2>3. FreshInv'
    BY <1>1, <2>0, <2>1, <2>2, RecTypes DEF SoundInv, FreshInv, Fresh, LockOf, OthersStay,
       Moved, Ended
  <2>4. StateInv'
    BY <1>1 DEF StateInv
  <2>5. StopInv'
    BY <1>1, <2>0, <2>2, RecTypes, CommandsAssumption DEF SoundInv, StopInv, OthersStay, Moved,
       Ended
  <2>6. AliveInv'
    BY <1>1, <2>0, <2>1, <2>2 DEF SoundInv, AliveInv, Alive
  <2> QED BY <2>3, <2>4, <2>5, <2>6 DEF SoundInv
<1> QED BY <1>2, <1>3 DEF IndInv

\* Whoever is killed leaves the files, and maybe a server that none of them
\* names.
LEMMA CrashInd ==
    ASSUME TypeOK, IndInv, NEW c \in Commands, Crash(c)
    PROVE  IndInv'
<1>1. /\ Busy(c) /\ Ended(c)
      /\ lock'.exists = lock.exists /\ lock'.ok = lock.ok /\ lock'.owner = lock.owner
      /\ lock'.api = lock.api /\ lock'.writers = lock.writers \ {c}
      /\ orphaned' = (orphaned \/ (c \in Starters /\ Alive(c) /\ state # c))
      /\ naming' = naming \ {c}
      /\ OthersStay(c)
      /\ UNCHANGED <<state, server, stolen>>
  BY RecTypes DEF Crash, Answer, Set, IdleCmd, NoFile, Ended, OthersStay, TypeOK, CmdStates,
     Files
<1>2. AlwaysInv'
  <2> USE RecTypes, FieldTypes
      DEF IndInv, AlwaysInv, PcInv, ServerInv, OwnerInv, NamedInv, SeenInv, OwnInv, StaleInv,
          Before, Owning, Asking, Relies, Alive, Busy
  <2> QED BY SMTT(30), <1>1 DEF OthersStay, Ended
<1>3. ASSUME ~Gap' PROVE SoundInv'
  <2>0. SoundInv /\ (c \in Starters /\ Alive(c) => state = c)
    BY <1>1, <1>3 DEF Gap, IndInv
  <2>1. \A s \in Starters : s # c => Fresh(s)' = Fresh(s)
    BY <1>1, RecTypes DEF Fresh, OthersStay, Alive
  <2>2. c \in Starters => ~Fresh(c)'
    BY <1>1 DEF Fresh, Ended
  <2>3. FreshInv'
    BY <1>1, <2>0, <2>1, <2>2, RecTypes DEF SoundInv, FreshInv, Fresh, LockOf, OthersStay
  <2>4. StateInv'
    BY <1>1, <2>0 DEF SoundInv, StateInv, OthersStay, Ended
  <2>5. StopInv'
    BY <1>1, <2>0, <2>1, <2>2, RecTypes DEF SoundInv, StopInv, OthersStay, Ended
  <2>6. AliveInv'
    BY <1>1, <2>0, <2>1 DEF SoundInv, AliveInv, Alive
  <2> QED BY <2>3, <2>4, <2>5, <2>6 DEF SoundInv
<1> QED BY <1>2, <1>3 DEF IndInv

\* A server that binds or ends is known already.
LEMMA ServerInd ==
    ASSUME TypeOK, IndInv, NEW s \in Starters, Bind(s) \/ Exit(s)
    PROVE  IndInv'
<1>1. /\ Alive(s) /\ server'[s] \in {"serving", "exited"}
      /\ \A t \in Starters : t # s => server'[t] = server[t]
      /\ UNCHANGED <<lock, state, naming, cmd, stolen, orphaned>>
  BY RecTypes DEF Bind, Exit, Alive, Commands, TypeOK
<1> USE RecTypes, FieldTypes
    DEF IndInv, AlwaysInv, PcInv, ServerInv, OwnerInv, NamedInv, SeenInv, OwnInv, StaleInv,
        SoundInv,
        FreshInv, StateInv, StopInv, AliveInv, Before, Owning, Asking, Fresh, LockOf, Relies, Alive,
        Busy, Gap, OthersStay, OthersLag, Moved
<1>2. AlwaysInv'
  BY <1>1
<1>3. ASSUME ~Gap' PROVE SoundInv'
  BY <1>1, <1>3
<1> QED BY <1>2, <1>3

\* Every step keeps the inductive invariant.
LEMMA NextInd == TypeOK /\ IndInv /\ [Next]_vars => IndInv'
<1> SUFFICES ASSUME TypeOK, IndInv, [Next]_vars
             PROVE  IndInv'
  OBVIOUS
<1>1. CASE UNCHANGED vars
  BY <1>1 DEF vars, IndInv, AlwaysInv, PcInv, ServerInv, OwnerInv, NamedInv, SeenInv, Relies,
     OwnInv, StaleInv, SoundInv, FreshInv, Fresh, LockOf, StateInv, StopInv, AliveInv, Alive,
     Busy, Gap
<1>2. ASSUME NEW c \in Commands,
             \/ AlreadyRunning(c) \/ LockHeld(c) \/ Healthy(c) \/ StillStarting(c)
             \/ StopUnreadable(c) \/ StopInProgress(c)
             \/ (StopUnmanaged(c) /\ Alive(cmd[c].named))
      PROVE  IndInv'
  <2>1. PICK a : Answer(c, a)
    BY <1>2 DEF AlreadyRunning, LockHeld, Healthy, StillStarting, StopUnreadable,
       StopInProgress, StopUnmanaged
  <2>2. Ended(c) /\ OthersStay(c)
    BY <2>1 DEF Answer, Set, IdleCmd, NoFile, Ended, OthersStay, TypeOK
  <2>3. cmd[c].pc \in Asking \cup {"probing", "waiting", "diagnosing", "seeking"}
    BY <1>2 DEF AlreadyRunning, LockHeld, Held, Healthy, StillStarting, StopUnreadable,
       StopInProgress, StopUnmanaged, Asking
  <2> QED BY <1>2, <2>2, <2>3, EndInd DEF AlreadyRunning, LockHeld, Healthy, StillStarting,
      StopUnreadable, StopInProgress, StopUnmanaged
<1>3. ASSUME NEW c \in Starters,
             \/ NotRunning(c) \/ LockExists(c) \/ PidOfOwner(c) \/ LockStale(c)
             \/ Unhealthy(c) \/ StartupFailed(c)
      PROVE  IndInv'
  <2>1. /\ OthersStay(c)
        /\ UNCHANGED <<lock, state, naming, server, stolen, orphaned>>
        /\ \/ cmd[c].pc = "checking" /\ Moved(c, "opening") /\ ~Alive(cmd[c].named)
           \/ cmd[c].pc = "opening" /\ Moved(c, "reading")
           \/ cmd[c].pc = "judging" /\ Moved(c, "probing")
           \/ cmd[c].pc = "asking" /\ Moved(c, "dropping") /\ ~Alive(cmd[c].named)
           \/ /\ cmd[c].pc = "probing" /\ Moved(c, "dropping")
              /\ ~OwnerAlive(cmd[c].seen.owner)
           \/ cmd[c].pc = "waiting" /\ Moved(c, "diagnosing")
           \/ cmd[c].pc = "diagnosing" /\ Moved(c, "undoing")
    <3>1. ASSUME NEW pc, Goto(c, pc)
          PROVE  OthersStay(c) /\ Moved(c, pc)
      BY <3>1, RecTypes DEF Goto, Set, Moved, OthersStay, TypeOK, CmdStates
    <3>2. CASE NotRunning(c)
      BY <3>1, <3>2 DEF NotRunning
    <3>3. CASE LockExists(c)
      BY <3>1, <3>3 DEF LockExists
    <3>4. CASE PidOfOwner(c)
      BY <3>1, <3>4 DEF PidOfOwner
    <3>5. CASE LockStale(c)
      BY <3>1, <3>5 DEF LockStale, Held
    <3>6. CASE Unhealthy(c)
      BY <3>1, <3>6 DEF Unhealthy
    <3>7. CASE StartupFailed(c)
      BY <3>7, RecTypes DEF StartupFailed, Set, Moved, OthersStay, TypeOK, CmdStates
    <3> QED BY <1>3, <3>2, <3>3, <3>4, <3>5, <3>6, <3>7
  <2> QED BY <2>1, MoveInd
<1>4. ASSUME NEW c \in Starters, Start(c)
      PROVE  IndInv'
  <2>0. c \in Commands
    BY RecTypes
  <2>1. CASE AlreadyRunning(c) \/ LockHeld(c) \/ Healthy(c) \/ StillStarting(c)
    BY <1>2, <2>0, <2>1
  <2>2. CASE \/ NotRunning(c) \/ LockExists(c) \/ PidOfOwner(c) \/ LockStale(c)
             \/ Unhealthy(c) \/ StartupFailed(c)
    BY <1>3, <2>2
  <2>3. CASE Look(c)
    BY <2>3, LookInd
  <2>4. CASE CreateLock(c) \/ WriteOwner(c) \/ WriteFails(c) \/ ReadLock(c) \/ PidOfServer(c)
             \/ PidOfState(c) \/ DropState(c) \/ ClearLock(c)
    BY <2>0, <2>4, CreateLockInd, WriteOwnerInd, WriteFailsInd, ReadLockInd, PidInd,
       CleanStateInd, ClearLockInd
  <2>5. CASE Spawn(c) \/ CutState(c) \/ SaveState(c) \/ CutLock(c) \/ RecordPID(c)
             \/ StartFails(c) \/ Undo(c)
    BY <2>5, SpawnInd, CutStateInd, SaveStateInd, CutLockInd, RecordPIDInd, StartFailsInd,
       UndoInd
  <2> QED BY <1>4, <2>1, <2>2, <2>3, <2>4, <2>5 DEF Start
<1>5. ASSUME NEW c \in Stoppers, Stop(c)
      PROVE  IndInv'
  <2>0. c \in Commands
    BY RecTypes
  <2>1. CASE StopUnreadable(c)
    BY <1>2, <2>0, <2>1
  <2>2. CASE StopInProgress(c)
    BY <1>2, <2>0, <2>2
  <2>3. CASE StopUnmanaged(c)
    <3>1. CASE Alive(cmd[c].named)
      BY <1>2, <2>0, <2>3, <3>1
    <3>2. CASE ~Alive(cmd[c].named)
      BY <2>3, <3>2, StopForgetInd
    <3> QED BY <3>1, <3>2
  <2>4. CASE StopReadLock(c)
    BY <2>4, StopReadLockInd
  <2>5. CASE StopReadState(c) \/ StopChoose(c) \/ StopStale(c) \/ StopKill(c)
    BY <2>5, StopReadStateInd, StopChooseInd, StopStaleInd, StopKillInd
  <2> QED BY <1>5, <2>1, <2>2, <2>3, <2>4, <2>5 DEF Stop
<1> QED BY <1>1, <1>4, <1>5, ServerInd, CleanStateInd, CleanLockInd, CrashInd DEF Next

-----------------------------------------------------------------------------
(* The files and the servers.                                              *)

\* What IndInv says is so in every state.
THEOREM Invariance == Spec => [](TypeOK /\ IndInv)
<1>1. Init => TypeOK /\ IndInv
  BY InitType, InitInd
<1>2. TypeOK /\ IndInv /\ [Next]_vars => (TypeOK /\ IndInv)'
  BY NextType, NextInd
<1> QED BY <1>1, <1>2, PTL DEF Spec

\* However many commands overlap, two servers run at a time only if a file was
\* taken from another command, or a start died before it named its server.
THEOREM OneServerCorrect == Spec => []OneServerUnlessStolen
<1>1. TypeOK /\ IndInv => OneServerUnlessStolen
  <2> SUFFICES ASSUME IndInv, ~Gap, NEW s \in Starters, NEW t \in Starters, Alive(s), Alive(t)
               PROVE  s = t
    BY DEF OneServerUnlessStolen, OneServer, Gap
  <2>1. SoundInv
    BY DEF IndInv
  <2>2. state = s \/ Fresh(s)
    BY <2>1 DEF SoundInv, AliveInv
  <2>3. state = t \/ Fresh(t)
    BY <2>1 DEF SoundInv, AliveInv
  <2>4. Fresh(s) \/ Fresh(t) => state = NULL
    BY <2>1 DEF SoundInv, FreshInv
  <2> QED BY <2>1, <2>2, <2>3, <2>4, FreshUnique, RecTypes DEF SoundInv
<1> QED BY <1>1, Invariance, PTL

\* A server that runs without its start is named, and the lock file is there.
LEMMA LeftServerNamed ==
    ASSUME IndInv, ~Gap, NEW s \in Starters, Alive(s), ~Busy(s)
    PROVE  state = s /\ lock.exists
<1>1. AlwaysInv /\ SoundInv
  BY DEF IndInv
<1>2. ~Fresh(s)
  BY DEF Fresh, Busy
<1>3. state = s
  BY <1>1, <1>2 DEF SoundInv, AliveInv
<1> QED BY <1>1, <1>3, RecTypes DEF SoundInv, StateInv

\* A later stop finds every server that runs without its start.
THEOREM ServerManagedCorrect == Spec => []ServerManaged
<1>1. TypeOK /\ IndInv => ServerManaged
  BY LeftServerNamed DEF ServerManaged, Gap
<1> QED BY <1>1, Invariance, PTL

-----------------------------------------------------------------------------
(* What a step may never do.                                               *)

\* What a command does, and what it does not do to the others.
Acts(c) ==
    \/ c \in Starters /\ Start(c)
    \/ c \in Stoppers /\ Stop(c)
    \/ CleanState(c) \/ CleanLock(c) \/ Crash(c)

OthersKept(c) ==
    \A d \in Commands : d # c =>
        /\ cmd'[d].pc = cmd[d].pc /\ cmd'[d].answer = cmd[d].answer
        /\ cmd'[d].attempt = cmd[d].attempt /\ (cmd'[d].alone => cmd[d].alone)

LEMMA ActsAlone ==
    ASSUME TypeOK, NEW c \in Commands, Acts(c)
    PROVE  OthersKept(c)
<1>0. \A d \in Commands : cmd[d] \in CmdStates
  BY DEF TypeOK
<1>1. ASSUME NEW rec, Set(c, rec)
      PROVE  OthersKept(c)
  BY <1>1 DEF Set, OthersKept, TypeOK
<1>2. ASSUME NEW file, NEW rec, SetLock(c, file, rec)
      PROVE  OthersKept(c)
  BY <1>0, <1>2 DEF SetLock, OthersKept, CmdStates
<1>3. ASSUME NEW a, Answer(c, a)
      PROVE  OthersKept(c)
  BY <1>1, <1>3 DEF Answer
<1>4. ASSUME NEW pc, Goto(c, pc)
      PROVE  OthersKept(c)
  BY <1>1, <1>4 DEF Goto
<1>5. ASSUME NEW owner, NEW api, NEW rec, Write(c, owner, api, rec)
      PROVE  OthersKept(c)
  BY <1>1, <1>2, <1>5 DEF Write
<1>6. ASSUME Look(c) \/ StopReadLock(c)
      PROVE  OthersKept(c)
  <2>1. PICK file, pc, named : Begin(c, pc, file, named)
    BY <1>6 DEF Look, StopReadLock
  <2> QED BY <1>0, <2>1 DEF Begin, OthersKept, CmdStates
<1>7. CASE Start(c)
  <2>1. CASE AlreadyRunning(c) \/ LockHeld(c) \/ Healthy(c) \/ StillStarting(c) \/ WriteFails(c)
    BY <1>3, <2>1 DEF AlreadyRunning, LockHeld, Healthy, StillStarting, WriteFails
  <2>2. CASE \/ NotRunning(c) \/ LockExists(c) \/ PidOfOwner(c) \/ LockStale(c) \/ DropState(c)
             \/ Spawn(c) \/ CutState(c) \/ Unhealthy(c) \/ Undo(c)
    BY <1>4, <2>2 DEF NotRunning, LockExists, PidOfOwner, LockStale, DropState, Spawn, CutState,
       Unhealthy, Undo
  <2>3. CASE \/ PidOfServer(c) \/ PidOfState(c)
             \/ StartupFailed(c) \/ ReadLock(c) \/ SaveState(c) \/ StartFails(c)
    BY <1>1, <2>3 DEF PidOfServer, PidOfState, StartupFailed, ReadLock, SaveState, StartFails
  <2>4. CASE CreateLock(c) \/ ClearLock(c) \/ CutLock(c)
    BY <1>2, <2>4 DEF CreateLock, ClearLock, CutLock
  <2>5. CASE WriteOwner(c) \/ RecordPID(c)
    BY <1>5, <2>5 DEF WriteOwner, RecordPID
  <2> QED BY <1>6, <1>7, <2>1, <2>2, <2>3, <2>4, <2>5 DEF Start
<1>8. CASE Stop(c)
  <2>1. CASE StopUnreadable(c) \/ StopInProgress(c)
    BY <1>3, <2>1 DEF StopUnreadable, StopInProgress
  <2>2. CASE StopReadState(c) \/ StopChoose(c) \/ StopStale(c) \/ StopKill(c)
    BY <1>1, <2>2 DEF StopReadState, StopChoose, StopStale, StopKill
  <2>3. CASE StopUnmanaged(c)
    BY <1>1, <1>3, <2>3 DEF StopUnmanaged
  <2> QED BY <1>6, <1>8, <2>1, <2>2, <2>3 DEF Stop
<1>9. CASE CleanState(c)
  BY <1>3, <1>4, <1>9 DEF CleanState
<1>10. CASE CleanLock(c)
  BY <1>2, <1>10 DEF CleanLock
<1>11. CASE Crash(c)
  BY <1>3, <1>11 DEF Crash
<1> QED BY <1>7, <1>8, <1>9, <1>10, <1>11 DEF Acts

\* A step is one command's, one server's, or none.
LEMMA StepCases ==
    ASSUME [Next]_vars
    PROVE  \/ \E c \in Commands : Acts(c)
           \/ UNCHANGED <<lock, cmd>>
  BY RecTypes DEF Next, Acts, Bind, Exit, vars

\* A stop that says that nothing runs leaves no server behind: at that time no
\* server is named.
THEOREM StopStopsCorrect == Spec => StopStops
<1>1. ASSUME TypeOK, IndInv', [Next]_vars, NEW c \in Stoppers, Busy(c),
             cmd'[c].pc = "done", cmd'[c].answer \in {"stopped", "not running"}, ~Gap',
             NEW s \in Starters, Alive(s)'
      PROVE  Busy(s)'
  <2>0. c \in Commands /\ c \notin Starters /\ cmd[c].pc # "done"
    BY <1>1, RecTypes, CommandsAssumption DEF Busy
  <2>1. Acts(c)
    BY <1>1, <2>0, StepCases, ActsAlone DEF OthersKept
  <2>2. ASSUME NEW a, Answer(c, a)
        PROVE  cmd'[c].answer = a
    BY <1>1, <2>0, <2>2 DEF Answer, Set, IdleCmd, TypeOK
  <2>3. ~Crash(c)
    BY <1>1, <2>2 DEF Crash
  <2>4. ~Stop(c)
    <3>1. ~StopUnreadable(c) /\ ~StopInProgress(c)
      BY <1>1, <2>2 DEF StopUnreadable, StopInProgress
    <3>2. ~StopReadLock(c)
      BY <1>1, <2>0 DEF StopReadLock, Begin, IdleCmd
    <3>3. ~StopReadState(c) /\ ~StopChoose(c) /\ ~StopStale(c) /\ ~StopKill(c)
      <4>1. ASSUME NEW pc \in {"choosing", "stopping"}, NEW named,
                   Set(c, [cmd[c] EXCEPT !.pc = pc, !.named = named])
            PROVE  FALSE
        BY ZenonT(40), <1>1, <2>0, <4>1 DEF Set, TypeOK, CmdStates
      <4>2. ASSUME NEW a, Set(c, [cmd[c] EXCEPT !.pc = "cleaning", !.answer = a])
            PROVE  FALSE
        BY <1>1, <2>0, <4>2 DEF Set, TypeOK, CmdStates
      <4> QED BY <4>1, <4>2 DEF StopReadState, StopChoose, StopStale, StopKill
    <3>4. ~StopUnmanaged(c)
      <4>1. CASE Alive(cmd[c].named)
        BY <1>1, <2>2, <4>1 DEF StopUnmanaged
      <4>2. CASE ~Alive(cmd[c].named) /\ StopUnmanaged(c)
        <5>1. Set(c, [cmd[c] EXCEPT !.pc = "forgetting", !.answer = "not running"])
          BY <4>2 DEF StopUnmanaged
        <5> QED BY <1>1, <2>0, <5>1 DEF Set, TypeOK, CmdStates
      <4> QED BY <4>1, <4>2
    <3> QED BY <3>1, <3>2, <3>3, <3>4 DEF Stop
  <2>5. state' = NULL
    <3>1. CASE CleanState(c)
      BY <3>1 DEF CleanState
    <3>2. CASE CleanLock(c)
      <4>1. ~lock'.exists
        BY <3>2 DEF CleanLock, SetLock, NoFile
      <4> QED BY <1>1, <4>1 DEF IndInv, SoundInv, StateInv
    <3> QED BY <2>0, <2>1, <2>3, <2>4, <3>1, <3>2 DEF Acts
  <2>6. SUFFICES ASSUME ~Busy(s)'
                 PROVE  FALSE
    OBVIOUS
  <2>7. SoundInv'
    BY <1>1 DEF IndInv
  <2>8. Fresh(s)'
    BY <1>1, <2>5, <2>7, RecTypes DEF SoundInv, AliveInv
  <2> QED BY <2>6, <2>8 DEF Fresh, Busy
<1>2. TypeOK /\ IndInv' /\ [Next]_vars =>
        [\A c \in Stoppers :
            Busy(c) /\ cmd'[c].pc = "done" /\ cmd'[c].answer \in {"stopped", "not running"}
                => stolen' \/ orphaned' \/ \A s \in Starters : Alive(s)' => Busy(s)']_vars
  BY <1>1 DEF Gap
<1> QED BY <1>2, Invariance, PTL DEF Spec, StopStops

\* What a command's own step leaves of its being alone.
OwnStep(c) ==
    /\ cmd[c].alone => cmd'[c].answer # "not acquired"
    /\ cmd'[c].alone =>
           /\ cmd'[c].pc \notin {"idle", "done"}
           /\ \A d \in Commands \ {c} : ~Busy(d)
           /\ cmd'[c].answer # "not acquired"
           /\ cmd'[c].pc \in Retrying => cmd'[c].attempt = 1
           /\ cmd'[c].pc = "opening" => cmd'[c].attempt = 1 \/ ~lock'.exists

LEMMA AloneStart ==
    ASSUME TypeOK, AloneInv, NEW c \in Commands, Start(c)
    PROVE  OwnStep(c)
<1>0. cmd[c] \in CmdStates /\ cmd \in [Commands -> CmdStates]
  BY DEF TypeOK
<1>1. ASSUME NEW a, Answer(c, a), a # "not acquired"
      PROVE  OwnStep(c)
  BY <1>0, <1>1 DEF Answer, Set, IdleCmd, OwnStep, Retrying
<1>2. ASSUME NEW rec, cmd'[c] = rec, rec.alone = cmd[c].alone,
             rec.answer \in {cmd[c].answer, "error"},
             rec.pc \notin {"idle", "done", "opening"} \cup Retrying
      PROVE  OwnStep(c)
  BY <1>2 DEF OwnStep, AloneInv
<1>3. CASE AlreadyRunning(c) \/ LockHeld(c) \/ Healthy(c) \/ StillStarting(c) \/ WriteFails(c)
  BY <1>1, <1>3 DEF AlreadyRunning, LockHeld, Healthy, StillStarting, WriteFails
<1>4. ASSUME NEW rec \in CmdStates, Set(c, rec)
      PROVE  cmd'[c] = rec
  BY <1>0, <1>4 DEF Set
<1>5. ASSUME NEW pc, Goto(c, pc)
      PROVE  cmd'[c] = [cmd[c] EXCEPT !.pc = pc]
  BY <1>0, <1>5 DEF Goto, Set
<1>6. ASSUME NEW file, NEW rec, SetLock(c, file, rec)
      PROVE  cmd'[c] = rec /\ lock' = file
  BY <1>6 DEF SetLock
<1>7. ASSUME NEW owner, NEW api, NEW rec, Write(c, owner, api, rec)
      PROVE  cmd'[c] = rec
  BY <1>0, <1>6, <1>7 DEF Write, Set
<1>8. CASE Unhealthy(c) \/ Spawn(c) \/ CutState(c) \/ Undo(c)
  <2>1. \/ cmd'[c] = [cmd[c] EXCEPT !.pc = "diagnosing"]
        \/ cmd'[c] = [cmd[c] EXCEPT !.pc = "saving"]
        \/ cmd'[c] = [cmd[c] EXCEPT !.pc = "naming"]
        \/ cmd'[c] = [cmd[c] EXCEPT !.pc = "cleaning"]
    BY <1>5, <1>8 DEF Unhealthy, Spawn, CutState, Undo
  <2> QED BY <1>0, <1>2, <2>1 DEF CmdStates, Retrying
<1>9. CASE StartupFailed(c) \/ SaveState(c) \/ StartFails(c)
  <2>1. \/ cmd'[c] = [cmd[c] EXCEPT !.pc = "undoing", !.answer = "error"]
        \/ cmd'[c] = [cmd[c] EXCEPT !.pc = "cutting", !.named = c]
    BY <1>0, <1>9 DEF StartupFailed, SaveState, StartFails, Set
  <2> QED BY <1>0, <1>2, <2>1 DEF CmdStates, Retrying
<1>10. CASE CreateLock(c) \/ CutLock(c)
  <2>1. \/ cmd'[c] = [cmd[c] EXCEPT !.pc = "writing", !.current = TRUE]
        \/ cmd'[c] = [cmd[c] EXCEPT !.pc = "recording", !.current = TRUE]
    BY <1>6, <1>10 DEF CreateLock, CutLock
  <2> QED BY <1>0, <1>2, <2>1 DEF CmdStates, Retrying
<1>11. CASE WriteOwner(c) \/ RecordPID(c)
  <2>1. \/ cmd'[c] = [cmd[c] EXCEPT !.pc = "spawning"]
        \/ cmd'[c] = [cmd[c] EXCEPT !.pc = "waiting"]
    BY <1>7, <1>11 DEF WriteOwner, RecordPID
  <2> QED BY <1>0, <1>2, <2>1 DEF CmdStates, Retrying
<1>12. CASE Look(c)
  <2>1. /\ cmd'[c].attempt = 1 /\ cmd'[c].answer = NULL /\ cmd'[c].pc = "checking"
        /\ cmd'[c].alone = (\A o \in Commands : ~Busy(o)) /\ cmd[c].pc = "idle"
    BY <1>0, <1>12 DEF Look, Begin, IdleCmd
  <2>2. ~cmd[c].alone
    BY <2>1 DEF AloneInv, Busy
  <2> QED BY <2>1, <2>2, AnswersAssumption DEF OwnStep, Retrying
<1>13. CASE NotRunning(c) \/ LockExists(c)
  <2>1. \/ cmd'[c] = [cmd[c] EXCEPT !.pc = "opening"] /\ cmd[c].pc = "checking"
        \/ cmd'[c] = [cmd[c] EXCEPT !.pc = "reading"] /\ cmd[c].pc = "opening" /\ lock.exists
    BY <1>5, <1>13 DEF NotRunning, LockExists
  <2>2. /\ \/ cmd'[c].pc = "opening" /\ cmd[c].pc = "checking"
           \/ cmd'[c].pc = "reading" /\ cmd[c].pc = "opening" /\ lock.exists
        /\ cmd'[c].alone = cmd[c].alone
        /\ cmd'[c].answer = cmd[c].answer /\ cmd'[c].attempt = cmd[c].attempt
    BY <1>0, <2>1 DEF CmdStates
  <2> QED BY <2>2 DEF AloneInv, OwnStep, Retrying
<1>14. CASE \/ ReadLock(c) \/ PidOfServer(c) \/ PidOfOwner(c) \/ PidOfState(c)
            \/ LockStale(c) \/ DropState(c)
  <2>1. /\ cmd[c].pc \in Retrying
        /\ cmd'[c].pc \in Retrying /\ cmd'[c].alone = cmd[c].alone
        /\ cmd'[c].answer = cmd[c].answer /\ cmd'[c].attempt = cmd[c].attempt
    <3>1. CASE ReadLock(c)
      BY <1>0, <3>1 DEF ReadLock, Set, CmdStates, Retrying
    <3>2. CASE PidOfServer(c) \/ PidOfState(c)
      <4>1. /\ \/ cmd'[c] = [cmd[c] EXCEPT !.pc = "asking", !.named = cmd[c].seen.api]
               \/ cmd'[c] = [cmd[c] EXCEPT !.pc = "asking", !.named = state]
            /\ cmd[c].pc \in Retrying
        BY <1>0, <3>2 DEF PidOfServer, PidOfState, Set, Retrying
      <4> QED BY <1>0, <4>1 DEF CmdStates, Retrying
    <3>3. CASE PidOfOwner(c) \/ LockStale(c) \/ DropState(c)
      <4>1. /\ \/ cmd'[c] = [cmd[c] EXCEPT !.pc = "probing"]
               \/ cmd'[c] = [cmd[c] EXCEPT !.pc = "dropping"]
               \/ cmd'[c] = [cmd[c] EXCEPT !.pc = "clearing"]
            /\ cmd[c].pc \in Retrying
        BY <1>5, <3>3 DEF PidOfOwner, LockStale, DropState, Retrying
      <4> QED BY <1>0, <4>1 DEF CmdStates, Retrying
    <3> QED BY <1>14, <3>1, <3>2, <3>3
  <2> QED BY <2>1 DEF AloneInv, OwnStep, Retrying
<1>15. CASE ClearLock(c)
  <2>1. cmd[c].pc = "clearing" /\ ~lock'.exists
    BY <1>15 DEF ClearLock, SetLock, NoFile
  <2>2. ASSUME cmd[c].alone
        PROVE  cmd[c].attempt < Attempts /\ cmd[c].answer # "not acquired"
    <3>1. cmd[c].attempt = 1 /\ cmd[c].answer # "not acquired"
      BY <2>1, <2>2 DEF AloneInv, Retrying
    <3>2. 1 < Attempts
      BY BoundsAssumption
    <3> QED BY <3>1, <3>2
  <2>3. cmd'[c] = IF cmd[c].attempt < Attempts
                  THEN [cmd[c] EXCEPT !.pc = "opening", !.attempt = @ + 1, !.seen = NoFile]
                  ELSE [IdleCmd EXCEPT !.pc = "done", !.answer = "not acquired"]
    BY <1>15 DEF ClearLock, SetLock
  <2>4. CASE cmd[c].attempt < Attempts
    <3>1. /\ cmd'[c].pc = "opening" /\ cmd'[c].alone = cmd[c].alone
          /\ cmd'[c].answer = cmd[c].answer
      BY <1>0, <2>3, <2>4 DEF CmdStates
    <3> QED BY <2>1, <2>2, <3>1 DEF AloneInv, OwnStep, Retrying
  <2>5. CASE ~(cmd[c].attempt < Attempts)
    <3>1. ~cmd'[c].alone
      BY <2>3, <2>5 DEF IdleCmd
    <3> QED BY <2>2, <2>5, <3>1 DEF OwnStep
  <2> QED BY <2>4, <2>5
<1> QED BY <1>3, <1>8, <1>9, <1>10, <1>11, <1>12, <1>13, <1>14, <1>15 DEF Start

LEMMA AloneStop ==
    ASSUME TypeOK, AloneInv, NEW c \in Commands,
           Stop(c) \/ CleanState(c) \/ CleanLock(c) \/ Crash(c)
    PROVE  OwnStep(c)
<1>0. cmd[c] \in CmdStates /\ cmd \in [Commands -> CmdStates]
  BY DEF TypeOK
<1>1. ASSUME NEW a, Answer(c, a), cmd[c].alone => a # "not acquired"
      PROVE  OwnStep(c)
  BY <1>0, <1>1 DEF Answer, Set, IdleCmd, OwnStep
<1>2. ASSUME NEW rec, cmd'[c] = rec, rec.alone = cmd[c].alone,
             rec.answer \in {cmd[c].answer, "not running", "stopped"},
             rec.pc \in {"choosing", "stopping", "forgetting", "cleaning", "removing"}
      PROVE  OwnStep(c)
  BY <1>2 DEF OwnStep, AloneInv, Retrying
<1>3. CASE StopReadLock(c)
  <2>1. /\ cmd'[c].attempt = 1 /\ cmd'[c].answer = NULL /\ cmd'[c].pc = "seeking"
        /\ cmd'[c].alone = (\A o \in Commands : ~Busy(o)) /\ cmd[c].pc = "idle"
    BY <1>0, <1>3 DEF StopReadLock, Begin, IdleCmd
  <2>2. ~cmd[c].alone
    BY <2>1 DEF AloneInv, Busy
  <2> QED BY <2>1, <2>2, AnswersAssumption DEF OwnStep, Retrying
<1>4. CASE StopUnreadable(c) \/ StopInProgress(c)
  BY <1>1, <1>4 DEF StopUnreadable, StopInProgress
<1>5. ASSUME NEW a \in {"not running", "stopped"}, NEW pc \in {"forgetting", "cleaning"},
             Set(c, [cmd[c] EXCEPT !.pc = pc, !.answer = a])
      PROVE  OwnStep(c)
  <2>1. cmd'[c] = [cmd[c] EXCEPT !.pc = pc, !.answer = a]
    BY <1>0, <1>5 DEF Set
  <2> QED BY <1>0, <1>2, <2>1 DEF CmdStates
<1>6. CASE StopUnmanaged(c)
  BY <1>1, <1>5, <1>6 DEF StopUnmanaged
<1>7. CASE StopStale(c) \/ StopKill(c)
  BY <1>5, <1>7 DEF StopStale, StopKill
<1>11. CASE StopReadState(c) \/ StopChoose(c)
  <2>1. \/ cmd'[c] = [cmd[c] EXCEPT !.pc = "choosing", !.named = state]
        \/ cmd'[c] = [cmd[c] EXCEPT !.pc = "stopping", !.named = Target(c)]
    BY <1>0, <1>11 DEF StopReadState, StopChoose, Set
  <2> QED BY <1>0, <1>2, <2>1 DEF CmdStates
<1>8. CASE CleanState(c)
  <2>1. CASE cmd[c].pc = "cleaning"
    <3>1. cmd'[c] = [cmd[c] EXCEPT !.pc = "removing"]
      BY <1>0, <1>8, <2>1 DEF CleanState, Goto, Set
    <3> QED BY <1>0, <1>2, <3>1 DEF CmdStates
  <2>2. CASE cmd[c].pc # "cleaning"
    <3>1. Answer(c, cmd[c].answer)
      BY <1>8, <2>2 DEF CleanState
    <3> QED BY <1>1, <3>1 DEF AloneInv
  <2> QED BY <2>1, <2>2
<1>9. CASE CleanLock(c)
  <2>1. cmd'[c] = [IdleCmd EXCEPT !.pc = "done", !.answer = cmd[c].answer]
    BY <1>9 DEF CleanLock, SetLock
  <2> QED BY <2>1 DEF IdleCmd, AloneInv, OwnStep
<1>10. CASE Crash(c)
  BY <1>1, <1>10 DEF Crash
<1> QED BY <1>3, <1>4, <1>6, <1>7, <1>8, <1>9, <1>10, <1>11 DEF Stop

LEMMA AloneNext ==
    ASSUME TypeOK, AloneInv, [Next]_vars
    PROVE  /\ AloneInv'
           /\ \A c \in Commands : cmd[c].alone => cmd'[c].answer # "not acquired"
<1>1. CASE UNCHANGED <<lock, cmd>>
  BY <1>1 DEF AloneInv, Busy
<1>2. ASSUME NEW c \in Commands, Acts(c)
      PROVE  /\ AloneInv'
             /\ \A d \in Commands : cmd[d].alone => cmd'[d].answer # "not acquired"
  <2>1. OwnStep(c)
    BY <1>2, AloneStart, AloneStop DEF Acts
  <2>2. OthersKept(c)
    BY <1>2, ActsAlone
  <2>3. ASSUME NEW d \in Commands, d # c, cmd'[d].alone
        PROVE  FALSE
    <3>1. cmd[d].alone /\ Busy(d) /\ cmd[c].pc \in {"idle", "done"}
      BY <2>2, <2>3 DEF OthersKept, AloneInv, Busy
    <3>2. ~Look(c) /\ ~StopReadLock(c)
      <4>1. ASSUME NEW pc, NEW file, NEW named, Begin(c, pc, file, named)
            PROVE  FALSE
        <5>1. cmd'[d] = [cmd[d] EXCEPT !.alone = @ /\ ~Busy(d)] /\ cmd[d] \in CmdStates
          BY <2>3, <4>1 DEF Begin, TypeOK
        <5> QED BY <2>3, <3>1, <5>1 DEF CmdStates
      <4> QED BY <4>1 DEF Look, StopReadLock
    <3>3. ~Crash(c) /\ ~CleanLock(c) /\ ~CleanState(c)
      BY <3>1 DEF Crash, CleanLock, CleanState, Busy
    <3>4. ~Stop(c)
      BY <3>1, <3>2 DEF Stop, StopUnreadable, StopReadState, StopUnmanaged, StopChoose,
         StopInProgress, StopStale, StopKill
    <3> QED BY <1>2, <3>1, <3>2, <3>3, <3>4
        DEF Acts, Start, AlreadyRunning, NotRunning, CreateLock, WriteOwner, WriteFails,
            LockExists, ReadLock, PidOfServer, PidOfOwner, PidOfState, LockHeld, Held,
            LockStale, DropState, ClearLock, Spawn, CutState, SaveState, CutLock, RecordPID,
            StartFails, Healthy, Unhealthy, StartupFailed, StillStarting, Undo
  <2>4. AloneInv'
    BY ZenonT(60), <2>1, <2>2, <2>3 DEF AloneInv, OwnStep, OthersKept, Busy
  <2> QED BY <2>1, <2>2, <2>4 DEF OwnStep, OthersKept, AloneInv
<1> QED BY <1>1, <1>2, StepCases

\* A start alone takes over whatever stale lock it finds at its second attempt,
\* for no other command creates one in between.
THEOREM AloneAcquiresCorrect == Spec => AloneAcquires
<1>1. Init => TypeOK /\ AloneInv
  <2>1. Init => \A c \in Commands : ~cmd[c].alone
    BY DEF Init, IdleCmd
  <2> QED BY <2>1, InitType DEF AloneInv
<1>2. TypeOK /\ AloneInv /\ [Next]_vars => (TypeOK /\ AloneInv)'
  BY NextType, AloneNext
<1>3. TypeOK /\ AloneInv /\ [Next]_vars =>
        [\A c \in Starters : cmd[c].alone => cmd'[c].answer # "not acquired"]_vars
  BY AloneNext, RecTypes
<1> QED BY <1>1, <1>2, <1>3, PTL DEF Spec, AloneAcquires

=============================================================================
