--------------------------- MODULE AsyncPacketsProofs ---------------------------
(***************************************************************************)
(* Proofs about AsyncPackets, for any set of sessions and any number of     *)
(* ticks.  IInv is inductive: LockHeld says which thread is where while it  *)
(* holds the lock, so the steps that change m_sessions and the pass over it *)
(* exclude each other, and ShutdownState carries that beyond Shutdown,      *)
(* where the lock is free again but the flag stays cleared.                 *)
(***************************************************************************)
EXTENDS AsyncPackets, TLAPS

USE DEF asyncVars, worldVars, vars, PausesPerTick, UpdatingSessions

(* The state in which World is constructed satisfies the invariant. *)
LEMMA InitInvariant == Init => IInv
<1> SUFFICES ASSUME Init PROVE IInv
  OBVIOUS
<1>1. TypeOK
  <2>1. ticks \in 0 .. MaxTicks /\ pauses \in 0 .. PausesPerTick
    BY TicksAssumption DEF Init
  <2>2. canProcess \in BOOLEAN /\ stopEvent \in BOOLEAN
    BY DEF Init
  <2>3. sessions \subseteq Sessions /\ todo \subseteq Sessions
    BY DEF Init
  <2>4. handled \in Sessions \cup {NoSession}
    BY DEF Init
  <2>5. QED BY <2>1, <2>2, <2>3, <2>4 DEF Init, TypeOK
<1>2. LockHeld /\ PausesLeft /\ PassState /\ ShutdownState /\ NoErasedSession
  BY DEF Init, LockHeld, PausesLeft, PassState, ShutdownState, NoErasedSession
<1>3. QED BY <1>1, <1>2 DEF IInv

(* No step of ProcessAsyncPackets breaks it. *)
LEMMA AsyncInvariant == IInv /\ Async => IInv'
<1> SUFFICES ASSUME IInv, Async PROVE IInv'
  OBVIOUS
<1> USE DEF IInv, TypeOK, LockHeld, PausesLeft, PassState, ShutdownState, NoErasedSession
<1>1. CASE Head
  BY <1>1 DEF Head
<1>2. CASE Wake
  BY <1>2 DEF Wake
<1>3. CASE BreakIfStopped
  BY <1>3 DEF BreakIfStopped
<1>4. CASE LockPass
  BY <1>4 DEF LockPass
<1>5. CASE BeginPass
  BY <1>5 DEF BeginPass
<1>6. CASE ProcessPackets
  BY <1>6, NoSessionAssumption DEF ProcessPackets
<1>7. CASE SessionDone
  BY <1>7 DEF SessionDone
<1>8. CASE EndPass
  BY <1>8 DEF EndPass
<1>9. QED
  BY <1>1, <1>2, <1>3, <1>4, <1>5, <1>6, <1>7, <1>8 DEF Async

(* No step of the world thread or of Master breaks it. *)
LEMMA WorldInvariant == IInv /\ World => IInv'
<1> SUFFICES ASSUME IInv, World PROVE IInv'
  OBVIOUS
<1> USE DEF IInv, TypeOK, LockHeld, PausesLeft, PassState, ShutdownState, NoErasedSession
<1>1. CASE BeginTick
  BY <1>1, TicksAssumption DEF BeginTick
<1>2. CASE EndTick
  BY <1>2 DEF EndTick
<1>3. CASE ClearFlag
  BY <1>3 DEF ClearFlag
<1>4. CASE TakeLock
  BY <1>4 DEF TakeLock
<1>5. CASE SetFlag
  BY <1>5 DEF SetFlag
<1>6. CASE Unlock
  BY <1>6 DEF Unlock
<1>7. CASE ShutdownReturns
  BY <1>7 DEF ShutdownReturns
<1>8. CASE JoinAsyncPackets
  BY <1>8 DEF JoinAsyncPackets
<1>9. CASE DeleteSession
  BY <1>9 DEF DeleteSession
<1>10. QED
  BY <1>1, <1>2, <1>3, <1>4, <1>5, <1>6, <1>7, <1>8, <1>9 DEF World

(* UpdateSessions changes m_sessions only while the pass does not run. *)
LEMMA SessionsInvariant ==
    IInv /\ (\E s \in Sessions : AddSession(s) \/ EraseSession(s)) => IInv'
<1> SUFFICES ASSUME IInv, NEW s \in Sessions, AddSession(s) \/ EraseSession(s)
             PROVE  IInv'
  OBVIOUS
<1> USE DEF IInv, TypeOK, LockHeld, PausesLeft, PassState, ShutdownState, NoErasedSession
<1>1. CASE AddSession(s)
  BY <1>1 DEF AddSession
<1>2. CASE EraseSession(s)
  BY <1>2 DEF EraseSession
<1>3. QED BY <1>1, <1>2

(* No step breaks the invariant. *)
LEMMA InvariantStep == IInv /\ [Next]_vars => IInv'
<1> SUFFICES ASSUME IInv, [Next]_vars PROVE IInv'
  OBVIOUS
<1>1. CASE Async
  BY <1>1, AsyncInvariant
<1>2. CASE World
  BY <1>2, WorldInvariant
<1>3. CASE \E s \in Sessions : AddSession(s) \/ EraseSession(s)
  BY <1>3, SessionsInvariant
<1>4. CASE StopNow
  BY <1>4 DEF StopNow, IInv, TypeOK, LockHeld, PausesLeft, PassState, ShutdownState, NoErasedSession
<1>5. CASE Terminated \/ UNCHANGED vars
  BY <1>5 DEF Terminated, IInv, TypeOK, LockHeld, PausesLeft, PassState, ShutdownState, NoErasedSession
<1>6. QED BY <1>1, <1>2, <1>3, <1>4, <1>5 DEF Next

(* The invariant holds throughout. *)
THEOREM Invariant == Spec => []IInv
<1>1. QED BY InitInvariant, InvariantStep, PTL DEF Spec

(* The pass over m_sessions never meets a session that was erased. *)
THEOREM NeverErased == Spec => []NoErasedSession
<1>1. IInv => NoErasedSession
  BY DEF IInv
<1>2. QED BY <1>1, Invariant, PTL

(* No packet is handled during a pause: UpdateSessions, the result          *)
(* callbacks, the console commands and the hooks run alone.                 *)
THEOREM PausesExclude == Spec => []NoPacketsDuringPause
<1>1. IInv => NoPacketsDuringPause
  BY DEF IInv, LockHeld, PassState, NoPacketsDuringPause
<1>2. QED BY <1>1, Invariant, PTL

(* No packet is handled after Shutdown took the lock, released or not. *)
THEOREM SilentAfterShutdown == Spec => []NoPacketsAfterShutdown
<1>1. IInv => NoPacketsAfterShutdown
  BY DEF IInv, ShutdownState, PassState, NoPacketsAfterShutdown
<1>2. QED BY <1>1, Invariant, PTL

===============================================================================
