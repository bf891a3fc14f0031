--------------------------- MODULE SessionProofs ---------------------------
(***************************************************************************)
(* Proofs about module Session, for every bound on the write queue and     *)
(* whether or not a login may throw.                                       *)
(***************************************************************************)
EXTENDS Session, TLAPS

\* Before start() nothing of the session runs.
NotStarted == reader = "none" => ~closed_ /\ writer = "none" /\ watchdog = "none"

(***************************************************************************)
(* The inductive invariant.  The three properties need each other and the  *)
(* type only; NotStarted is what the refinement needs in addition.         *)
(***************************************************************************)
SessionInv ==
  /\ TypeOK
  /\ NoLostWakeup
  /\ NobodyWaitsOnClosed
  /\ ListedIsHeldByReader
  /\ NotStarted

\* SessionInv holds when the session object is made.
LEMMA InitSessionInv == Init => SessionInv
<1>1. 0 \in 0..QueueBound
  BY SessionAssumption
<1> QED
  BY <1>1, Zenon
  DEF Init, SessionInv, TypeOK, NoLostWakeup, NobodyWaitsOnClosed, ListedIsHeldByReader,
      NotStarted, ReaderState, WriterState, WatchdogState

\* The type of what cancelling makes of each coroutine.
LEMMA CancelTypes ==
  ASSUME TypeOK
  PROVE  /\ ReadAborted \in ReaderState
         /\ WriterAborted \in WriterState
         /\ WriterWoken \in WriterState
         /\ TimerAborted \in WatchdogState
  BY DEF TypeOK, ReadAborted, WriterAborted, WriterWoken, TimerAborted,
         ReaderState, WriterState, WatchdogState

\* After close() no coroutine is on a pending operation.
LEMMA CancelReaches ==
  /\ ReadAborted # "reading"
  /\ WriterAborted \notin {"waiting", "writing"}
  /\ WriterWoken # "waiting"
  /\ TimerAborted # "waiting"
  BY DEF ReadAborted, WriterAborted, WriterWoken, TimerAborted

\* Every step keeps the types.
LEMMA TypeStep == TypeOK /\ [Next]_vars => TypeOK'
<1> SUFFICES ASSUME TypeOK, [Next]_vars PROVE TypeOK'
  OBVIOUS
<1> USE SessionAssumption, CancelTypes DEF TypeOK
<1>1. CASE start
  BY <1>1 DEF start, ReaderState, WriterState, WatchdogState
<1>2. CASE RegistrySends
  BY <1>2 DEF RegistrySends, send_bytes
<1>3. CASE ReadCompletes
  BY <1>3 DEF ReadCompletes, ReaderState
<1>4. CASE ReaderStarts
  BY <1>4 DEF ReaderStarts, ReaderState
<1>5. ASSUME NEW n \in 0..QueueBound, ReaderHandles(n) PROVE TypeOK'
  <2>1. write_queue_' \in 0..QueueBound /\ writer' \in WriterState
    BY <1>5 DEF ReaderHandles, send_bytes
  <2>2. logged_in' \in BOOLEAN
    BY <1>5, Zenon DEF ReaderHandles
  <2> QED
    BY <1>5, <2>1, <2>2, Zenon DEF ReaderHandles, ReaderState
<1>6. CASE ReaderRefuses
  BY <1>6 DEF ReaderRefuses, ReaderClosesAndReaps, ReaderState
<1>7. CASE ReaderThrows
  BY <1>7 DEF ReaderThrows, ReaderState
<1>8. CASE ReaderFindsClosed
  BY <1>8 DEF ReaderFindsClosed, ReaderClosesAndReaps, ReaderState
<1>9. CASE ReaderFails
  BY <1>9 DEF ReaderFails, ReaderClosesAndReaps, ReaderState
<1>10. CASE WriteCompletes
  BY <1>10 DEF WriteCompletes, WriterState
<1>11. CASE WriterLoops
  BY <1>11 DEF WriterLoops, WriterState
<1>12. CASE WriterFails
  BY <1>12 DEF WriterFails, WriterState
<1>13. CASE TimeElapses
  BY <1>13 DEF TimeElapses
<1>14. CASE TimerFires
  BY <1>14 DEF TimerFires, WatchdogState
<1>15. CASE WatchdogLoops
  BY <1>15 DEF WatchdogLoops, WatchdogState
<1>16. CASE WatchdogCloses
  BY <1>16 DEF WatchdogCloses, WatchdogState
<1>17. CASE UNCHANGED vars
  BY <1>17 DEF vars
<1> QED
  BY <1>1, <1>2, <1>3, <1>4, <1>5, <1>6, <1>7, <1>8, <1>9, <1>10, <1>11, <1>12, <1>13,
     <1>14, <1>15, <1>16, <1>17
  DEF Next, ReaderResumes, WriterResumes, WatchdogResumes

\* Every step keeps the inductive invariant.
LEMMA SessionInvStep == SessionInv /\ [Next]_vars => SessionInv'
<1> SUFFICES ASSUME SessionInv, [Next]_vars
             PROVE  (NoLostWakeup /\ NobodyWaitsOnClosed /\ ListedIsHeldByReader
                       /\ NotStarted)'
  BY TypeStep DEF SessionInv
<1> USE SessionAssumption, CancelReaches
    DEF SessionInv, TypeOK, NoLostWakeup, NobodyWaitsOnClosed, ListedIsHeldByReader, NotStarted
<1>1. CASE start
  BY <1>1 DEF start
<1>2. CASE RegistrySends
  BY <1>2 DEF RegistrySends, send_bytes
<1>3. CASE ReadCompletes
  BY <1>3 DEF ReadCompletes
<1>4. CASE ReaderStarts
  BY <1>4 DEF ReaderStarts
<1>5. ASSUME NEW n \in 0..QueueBound, ReaderHandles(n)
      PROVE  (NoLostWakeup /\ NobodyWaitsOnClosed /\ ListedIsHeldByReader /\ NotStarted)'
  BY <1>5 DEF ReaderHandles, send_bytes
<1>6. CASE ReaderRefuses
  BY <1>6 DEF ReaderRefuses, ReaderClosesAndReaps
<1>7. CASE ReaderThrows
  BY <1>7 DEF ReaderThrows
<1>8. CASE ReaderFindsClosed
  BY <1>8 DEF ReaderFindsClosed, ReaderClosesAndReaps
<1>9. CASE ReaderFails
  BY <1>9 DEF ReaderFails, ReaderClosesAndReaps
<1>10. CASE WriteCompletes
  BY <1>10 DEF WriteCompletes
<1>11. CASE WriterLoops
  BY <1>11 DEF WriterLoops
<1>12. CASE WriterFails
  BY <1>12 DEF WriterFails, ReadAborted
<1>13. CASE TimeElapses
  BY <1>13 DEF TimeElapses
<1>14. CASE TimerFires
  BY <1>14 DEF TimerFires
<1>15. CASE WatchdogLoops
  BY <1>15 DEF WatchdogLoops
<1>16. CASE WatchdogCloses
  BY <1>16 DEF WatchdogCloses, ReadAborted
<1>17. CASE UNCHANGED vars
  BY <1>17 DEF vars
<1> QED
  BY <1>1, <1>2, <1>3, <1>4, <1>5, <1>6, <1>7, <1>8, <1>9, <1>10, <1>11, <1>12, <1>13,
     <1>14, <1>15, <1>16, <1>17
  DEF Next, ReaderResumes, WriterResumes, WatchdogResumes

\* The invariant holds in every state of the session.
THEOREM SessionInvariant == Spec => []SessionInv
  BY InitSessionInv, SessionInvStep, PTL DEF Spec

\* The coroutines of session.cpp keep their types; the write queue its bound.
THEOREM SessionTypes == Spec => []TypeOK
<1>1. SessionInv => TypeOK
  BY DEF SessionInv
<1> QED
  BY <1>1, SessionInvariant, PTL

(***************************************************************************)
(* The writer never sleeps on its signal while there is something to send, *)
(* whichever coroutine queued it and when.                                 *)
(***************************************************************************)
THEOREM WakeupsAreKept == Spec => []NoLostWakeup
<1>1. SessionInv => NoLostWakeup
  BY DEF SessionInv
<1> QED
  BY <1>1, SessionInvariant, PTL

(***************************************************************************)
(* Once closed_ is set no coroutine is left on a pending operation, so     *)
(* each of the three comes to its end.                                     *)
(***************************************************************************)
THEOREM SessionSafety == Spec => []NobodyWaitsOnClosed
<1>1. SessionInv => NobodyWaitsOnClosed
  BY DEF SessionInv
<1> QED
  BY <1>1, SessionInvariant, PTL

(***************************************************************************)
(* A session the registry lists has a reader that holds it and will reap   *)
(* it.                                                                     *)
(***************************************************************************)
THEOREM ListedSessionIsHeld == Spec => []ListedIsHeldByReader
<1>1. SessionInv => ListedIsHeldByReader
  BY DEF SessionInv
<1> QED
  BY <1>1, SessionInvariant, PTL

(***************************************************************************)
(* A timer that fired just before data arrived does not close the session. *)
(***************************************************************************)
THEOREM TimeoutSafety == Spec => NoPrematureTimeout
<1> DEFINE Fair == ~closed_ /\ closed_' =>
                     \/ reader \in {"read", "read_failed"} /\ reader' = "done"
                     \/ writer = "write_failed"
                     \/ timer_ = "expired"
<1>1. TypeOK /\ [Next]_vars => [Fair]_vars
  <2> SUFFICES ASSUME TypeOK, [Next]_vars, ~closed_, closed_' PROVE Fair
    OBVIOUS
  <2> QED
    BY DEF TypeOK, Next, ReaderResumes, WriterResumes, WatchdogResumes, start, RegistrySends,
           ReadCompletes, ReaderStarts, ReaderHandles, ReaderRefuses, ReaderClosesAndReaps,
           ReaderThrows, ReaderFindsClosed, ReaderFails, WriteCompletes, WriterLoops,
           WriterFails, TimeElapses, TimerFires, WatchdogLoops, WatchdogCloses, vars
<1> QED
  BY <1>1, SessionTypes, PTL DEF Spec, NoPrematureTimeout

(***************************************************************************)
(* The three coroutines together implement the life of a session.          *)
(***************************************************************************)
THEOREM SessionRefinesLife == Spec => ImplementsLife
<1>1. Init => Life!Init
  BY DEF Init, Life!Init, life
<1>2. SessionInv /\ [Next]_vars => [Life!Next]_life
  <2> SUFFICES ASSUME SessionInv, [Next]_vars PROVE [Life!Next]_life
    OBVIOUS
  <2> USE DEF SessionInv, TypeOK, ReaderState, life
  <2>1. CASE start
    BY <2>1 DEF start, NotStarted, Life!Next, Life!Open
  <2>2. CASE RegistrySends \/ ReadCompletes \/ WriteCompletes \/ WriterLoops
             \/ TimeElapses \/ TimerFires \/ WatchdogLoops
    BY <2>2 DEF RegistrySends, ReadCompletes, WriteCompletes, WriterLoops, TimeElapses,
                TimerFires, WatchdogLoops
  <2>3. CASE ReaderStarts
    BY <2>3 DEF ReaderStarts, Life!Next, Life!Reap
  <2>4. ASSUME NEW n \in 0..QueueBound, ReaderHandles(n) PROVE [Life!Next]_life
    BY <2>4 DEF ReaderHandles
  <2>5. CASE ReaderRefuses \/ ReaderFindsClosed \/ ReaderFails
    BY <2>5 DEF ReaderRefuses, ReaderFindsClosed, ReaderFails, ReaderClosesAndReaps,
                Life!Next, Life!Reap
  <2>6. CASE ReaderThrows
    BY <2>6 DEF ReaderThrows, Life!Next, Life!Orphan
  <2>7. CASE WriterFails
    BY <2>7 DEF WriterFails, ReadAborted, Life!Next, Life!Close
  <2>8. CASE WatchdogCloses
    BY <2>8 DEF WatchdogCloses, ReadAborted, Life!Next, Life!Close
  <2>9. CASE UNCHANGED vars
    BY <2>9 DEF vars
  <2> QED
    BY <2>1, <2>2, <2>3, <2>4, <2>5, <2>6, <2>7, <2>8, <2>9
    DEF Next, ReaderResumes, WriterResumes, WatchdogResumes
<1> QED
  BY <1>1, <1>2, SessionInvariant, PTL DEF Spec, ImplementsLife, Life!Spec

=============================================================================
