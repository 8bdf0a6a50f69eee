------------------------------ MODULE AsyncPackets ------------------------------
(***************************************************************************)
(* The thread that answers chat and queries, World::ProcessAsyncPackets,    *)
(* against the world thread, which stops it four times in a tick and for    *)
(* good in World::Shutdown.  m_canProcessAsyncPackets asks it to stop,      *)
(* s_asyncPacketsLock waits until it has.                                   *)
(*                                                                          *)
(* The world thread adds sessions to m_sessions and erases them while the   *)
(* other thread is stopped; after both ended, Master deletes what is left   *)
(* (World::InternalShutdown).                                               *)
(***************************************************************************)
EXTENDS Integers, FiniteSets

CONSTANTS
    Sessions,      \* the WorldSession objects that may be in m_sessions
    MaxTicks,      \* bound: calls of World::Update
    NoSession      \* no session is being handled

ASSUME NoSessionAssumption == NoSession \notin Sessions
ASSUME TicksAssumption == MaxTicks \in Nat

VARIABLES
    canProcess,    \* m_canProcessAsyncPackets
    holder,        \* who holds s_asyncPacketsLock
    stopEvent,     \* World::m_stopEvent
    sessions,      \* m_sessions
    apc,           \* where ProcessAsyncPackets is
    todo,          \* the sessions its pass has not reached
    handled,       \* the session whose packets it handles, or NoSession
    wpc,           \* where the world thread, and then Master, is
    pauses,        \* pauses left in this tick
    ticks          \* bound: ticks begun

asyncVars == <<apc, todo, handled>>
worldVars == <<wpc, pauses, ticks>>
vars == <<canProcess, holder, stopEvent, sessions, asyncVars, worldVars>>

(* UpdateSessions, UpdateResultQueue, ProcessCliCommands, the OnUpdate hooks. *)
PausesPerTick == 4

Init ==
    /\ canProcess = FALSE
    /\ holder = "none"
    /\ stopEvent = FALSE
    /\ sessions = {}
    /\ apc = "head"
    /\ todo = {}
    /\ handled = NoSession
    /\ wpc = "loop"
    /\ pauses = 0
    /\ ticks = 0

-----------------------------------------------------------------------------
(* World::ProcessAsyncPackets. *)

(* while (!IsStopped()) *)
Head ==
    /\ apc = "head"
    /\ apc' = IF stopEvent THEN "exited" ELSE "sleep"
    /\ UNCHANGED <<canProcess, holder, stopEvent, sessions, todo, handled, worldVars>>

(* Mutant: the thread does not wait for the flag. *)
WakeAlways ==
    /\ apc = "sleep"
    /\ apc' = "woken"
    /\ UNCHANGED <<canProcess, holder, stopEvent, sessions, todo, handled, worldVars>>

(* The inner loop, 20 ms at a time, until the flag is set or the server     *)
(* stops.                                                                   *)
Wake ==
    /\ apc = "sleep"
    /\ canProcess \/ stopEvent
    /\ apc' = "woken"
    /\ UNCHANGED <<canProcess, holder, stopEvent, sessions, todo, handled, worldVars>>

(* Mutant: continue instead of break. *)
BreakIfStoppedContinues ==
    /\ apc = "woken"
    /\ apc' = IF stopEvent THEN "sleep" ELSE "lock"
    /\ UNCHANGED <<canProcess, holder, stopEvent, sessions, todo, handled, worldVars>>

(* if (IsStopped()) break; *)
BreakIfStopped ==
    /\ apc = "woken"
    /\ apc' = IF stopEvent THEN "exited" ELSE "lock"
    /\ UNCHANGED <<canProcess, holder, stopEvent, sessions, todo, handled, worldVars>>

(* Mutant: no lock, as it was when the flag alone stopped the thread. *)
LockPassOmitted ==
    /\ apc = "lock"
    /\ apc' = "locked"
    /\ UNCHANGED <<canProcess, holder, stopEvent, sessions, todo, handled, worldVars>>

LockPass ==
    /\ apc = "lock"
    /\ holder = "none"
    /\ holder' = "async"
    /\ apc' = "locked"
    /\ UNCHANGED <<canProcess, stopEvent, sessions, todo, handled, worldVars>>

(* Mutant: the flag is not looked at again under the lock. *)
BeginPassUnchecked ==
    /\ apc = "locked"
    /\ apc' = "walk"
    /\ todo' = sessions
    /\ UNCHANGED <<canProcess, holder, stopEvent, sessions, handled, worldVars>>

(* The second look at the flag; the pass over m_sessions begins. *)
BeginPass ==
    /\ apc = "locked"
    /\ IF ~canProcess \/ stopEvent
       THEN apc' = "head" /\ holder' = "none" /\ UNCHANGED todo
       ELSE apc' = "walk" /\ todo' = sessions /\ UNCHANGED holder
    /\ UNCHANGED <<canProcess, stopEvent, sessions, handled, worldVars>>

(* The next session of the pass: ProcessPackets runs. *)
ProcessPackets ==
    /\ apc = "walk"
    /\ \E s \in todo : handled' = s /\ todo' = todo \ {s}
    /\ apc' = "process"
    /\ UNCHANGED <<canProcess, holder, stopEvent, sessions, worldVars>>

(* ProcessPackets returned.  With the flag cleared the pass ends. *)
SessionDone ==
    /\ apc = "process"
    /\ handled' = NoSession
    /\ todo' = IF canProcess THEN todo ELSE {}
    /\ apc' = "walk"
    /\ UNCHANGED <<canProcess, holder, stopEvent, sessions, worldVars>>

(* The end of the pass unlocks. *)
EndPass ==
    /\ apc = "walk"
    /\ todo = {}
    /\ holder' = "none"
    /\ apc' = "head"
    /\ UNCHANGED <<canProcess, stopEvent, sessions, todo, handled, worldVars>>

-----------------------------------------------------------------------------
(* The world thread: WorldRunnable, World::Update, withAsyncPacketsStopped. *)

(* while (!IsStopped()) Update(); the tick pauses the other thread four     *)
(* times.                                                                   *)
BeginTick ==
    /\ wpc = "loop"
    /\ ~stopEvent
    /\ ticks < MaxTicks
    /\ ticks' = ticks + 1
    /\ pauses' = PausesPerTick
    /\ wpc' = "tick"
    /\ UNCHANGED <<canProcess, holder, stopEvent, sessions, asyncVars>>

EndTick ==
    /\ wpc = "tick"
    /\ pauses = 0
    /\ wpc' = "loop"
    /\ UNCHANGED <<canProcess, holder, stopEvent, sessions, asyncVars, pauses, ticks>>

(* m_canProcessAsyncPackets = false; *)
ClearFlag ==
    /\ \/ wpc = "tick" /\ pauses > 0 /\ wpc' = "pausing"
       \/ wpc = "loop" /\ stopEvent /\ wpc' = "stopping"
    /\ canProcess' = FALSE
    /\ UNCHANGED <<holder, stopEvent, sessions, asyncVars, pauses, ticks>>

(* Mutant: the flag is cleared but the lock not taken. *)
TakeLockOmitted ==
    /\ \/ wpc = "pausing" /\ wpc' = "paused"
       \/ wpc = "stopping" /\ wpc' = "shutdown"
    /\ UNCHANGED <<canProcess, holder, stopEvent, sessions, asyncVars, pauses, ticks>>

(* lock_guard on s_asyncPacketsLock. *)
TakeLock ==
    /\ holder = "none"
    /\ holder' = "world"
    /\ \/ wpc = "pausing" /\ wpc' = "paused"
       \/ wpc = "stopping" /\ wpc' = "shutdown"
    /\ UNCHANGED <<canProcess, stopEvent, sessions, asyncVars, pauses, ticks>>

(* UpdateSessions, the first pause of a tick and a step of Shutdown, adds   *)
(* sessions and erases them.                                                *)
UpdatingSessions == wpc = "shutdown" \/ (wpc = "paused" /\ pauses = PausesPerTick)

AddSession(s) ==
    /\ UpdatingSessions
    /\ s \notin sessions
    /\ sessions' = sessions \cup {s}
    /\ UNCHANGED <<canProcess, holder, stopEvent, asyncVars, worldVars>>

EraseSession(s) ==
    /\ UpdatingSessions
    /\ s \in sessions
    /\ sessions' = sessions \ {s}
    /\ UNCHANGED <<canProcess, holder, stopEvent, asyncVars, worldVars>>

(* The work is done: the flag is set, then the lock released. *)
SetFlag ==
    /\ wpc = "paused"
    /\ canProcess' = TRUE
    /\ wpc' = "resuming"
    /\ UNCHANGED <<holder, stopEvent, sessions, asyncVars, pauses, ticks>>

Unlock ==
    /\ wpc = "resuming"
    /\ holder' = "none"
    /\ pauses' = pauses - 1
    /\ wpc' = "tick"
    /\ UNCHANGED <<canProcess, stopEvent, sessions, asyncVars, ticks>>

(* World::Shutdown returns; the flag stays clear. *)
ShutdownReturns ==
    /\ wpc = "shutdown"
    /\ holder' = "none"
    /\ wpc' = "join"
    /\ UNCHANGED <<canProcess, stopEvent, sessions, asyncVars, pauses, ticks>>

(* InternalShutdown, once the world thread ended: join m_asyncPacketsThread. *)
JoinAsyncPackets ==
    /\ wpc = "join"
    /\ apc = "exited"
    /\ wpc' = "delete"
    /\ UNCHANGED <<canProcess, holder, stopEvent, sessions, asyncVars, pauses, ticks>>

(* It deletes the sessions that are left, one by one. *)
DeleteSession ==
    /\ wpc = "delete"
    /\ IF sessions = {}
       THEN wpc' = "ended" /\ UNCHANGED sessions
       ELSE UNCHANGED wpc /\ \E s \in sessions : sessions' = sessions \ {s}
    /\ UNCHANGED <<canProcess, holder, stopEvent, asyncVars, pauses, ticks>>

(* Any thread stops the server: the shutdown timer, the console, a signal. *)
StopNow ==
    /\ ~stopEvent
    /\ stopEvent' = TRUE
    /\ UNCHANGED <<canProcess, holder, sessions, asyncVars, worldVars>>

Terminated == wpc = "ended" /\ UNCHANGED vars

-----------------------------------------------------------------------------
Async ==
    \/ Head \/ Wake \/ BreakIfStopped \/ LockPass \/ BeginPass
    \/ ProcessPackets \/ SessionDone \/ EndPass

World ==
    \/ BeginTick \/ EndTick \/ ClearFlag \/ TakeLock \/ SetFlag \/ Unlock
    \/ ShutdownReturns \/ JoinAsyncPackets \/ DeleteSession

Next ==
    \/ Async
    \/ World
    \/ \E s \in Sessions : AddSession(s) \/ EraseSession(s)
    \/ StopNow
    \/ Terminated

Spec == Init /\ [][Next]_vars

(* Both threads are scheduled.  Nothing is assumed about who gets a         *)
(* contended mutex, and nobody has to stop the server.                      *)
FairSpec == Spec /\ WF_vars(Async) /\ WF_vars(World)

-----------------------------------------------------------------------------
(* Properties. *)

(* Every variable has the type the code gives it. *)
TypeOK ==
    /\ canProcess \in BOOLEAN
    /\ holder \in {"none", "async", "world"}
    /\ stopEvent \in BOOLEAN
    /\ sessions \subseteq Sessions
    /\ apc \in {"head", "sleep", "woken", "lock", "locked", "walk", "process", "exited"}
    /\ todo \subseteq Sessions
    /\ handled \in Sessions \cup {NoSession}
    /\ wpc \in {"loop", "tick", "pausing", "paused", "resuming", "stopping", "shutdown",
                "join", "delete", "ended"}
    /\ pauses \in 0 .. PausesPerTick
    /\ ticks \in 0 .. MaxTicks

(* The pass over m_sessions only meets sessions that are in it: none it has *)
(* still to reach, and not the one whose packets it handles, is erased or   *)
(* deleted meanwhile (ProcessAsyncPackets, UpdateSessions,                  *)
(* InternalShutdown).                                                       *)
NoErasedSession ==
    /\ todo \subseteq sessions
    /\ handled # NoSession => handled \in sessions

(* No packet is handled by the thread during the pauses of a tick: chat and *)
(* queries run "at any time session update in world thread is not running"  *)
(* (GetChatPacketProcessingType), and not beside result callbacks, console  *)
(* commands or hooks (withAsyncPacketsStopped).                             *)
NoPacketsDuringPause ==
    handled # NoSession => wpc \notin {"paused", "resuming", "shutdown"}

(* Once Shutdown has begun its work no packet is handled any more: while    *)
(* maps are unloaded and sessions deleted the thread only leaves its loop   *)
(* (m_canProcessAsyncPackets stays false).                                  *)
NoPacketsAfterShutdown ==
    wpc \in {"shutdown", "join", "delete", "ended"} => handled = NoSession

(* The world thread gets the lock it waits for, although the mutex is not   *)
(* fair: the cleared flag keeps the other thread from coming back for it.   *)
PauseIsGranted == wpc = "pausing" ~> wpc = "paused"

(* Once the server is stopped both threads end, in whatever state they were *)
(* (ProcessAsyncPackets, Shutdown, InternalShutdown).                       *)
StopEndsBoth == stopEvent ~> wpc = "ended" /\ apc = "exited"

-----------------------------------------------------------------------------
(* The invariant the proofs use: the position of each thread says whether   *)
(* it holds the lock, and Shutdown leaves the flag cleared.                 *)

LockHeld ==
    /\ holder = "async" <=> apc \in {"locked", "walk", "process"}
    /\ holder = "world" <=> wpc \in {"paused", "resuming", "shutdown"}

PausesLeft == wpc \in {"pausing", "paused", "resuming"} => pauses > 0

PassState ==
    /\ apc \notin {"walk", "process"} => todo = {}
    /\ handled # NoSession <=> apc = "process"

ShutdownState ==
    /\ wpc \in {"stopping", "shutdown", "join", "delete", "ended"} => ~canProcess /\ stopEvent
    /\ wpc \in {"shutdown", "join", "delete", "ended"} => apc \notin {"walk", "process"}
    /\ wpc \in {"delete", "ended"} => apc = "exited"

IInv == TypeOK /\ LockHeld /\ PausesLeft /\ PassState /\ ShutdownState /\ NoErasedSession
================================================================================
