------------------------------ MODULE Session ------------------------------
(***************************************************************************)
(* One session_impl of source/session.cpp: the three coroutines reader,    *)
(* writer and watchdog that share a socket, two timers, the write queue    *)
(* and the flag closed_.                                                   *)
(*                                                                         *)
(* The io_context has one thread.  A coroutine runs from one co_await to   *)
(* the next without interruption, so a step is such a run; but between the *)
(* completion of an operation and the resumption of the coroutine that     *)
(* awaits it, the result sits in the io_context's queue while the other    *)
(* coroutines run.  Cancelling reaches operations that are pending, not    *)
(* results that are queued: a read that succeeded and a timer that fired   *)
(* are delivered as such after close() and after expires_after().          *)
(***************************************************************************)
EXTENDS Integers

CONSTANTS
  QueueBound,      \* bound of the model: buffers in write_queue_
  LoginMayThrow    \* TRUE when handle_login may end in an exception

ASSUME SessionAssumption ==
  /\ QueueBound \in Nat \ {0}
  /\ LoginMayThrow \in BOOLEAN

VARIABLES
  closed_,
  logged_in,    \* game # nullptr: the registry lists the session and sends to it
  timer_,       \* "armed" before its expiry, "expired" after
  write_queue_, \* number of buffers
  reader,       \* the state of each coroutine: see below
  writer,
  watchdog

vars == <<closed_, logged_in, timer_, write_queue_, reader, writer, watchdog>>

(***************************************************************************)
(* "none": not spawned; "ready": spawned, not run yet; "done": returned.   *)
(* In between, the operation a coroutine awaits, or the result that waits  *)
(* to be delivered to it.                                                  *)
(***************************************************************************)
ReaderState == {"none", "ready", "reading", "read", "read_failed", "done", "threw"}
WriterState == {"none", "ready", "waiting", "woken", "writing", "written",
                "write_failed", "done"}
WatchdogState == {"none", "ready", "waiting", "aborted", "fired", "done"}

Init ==
  /\ closed_ = FALSE
  /\ logged_in = FALSE
  /\ timer_ = "armed"
  /\ write_queue_ = 0
  /\ reader = "none"
  /\ writer = "none"
  /\ watchdog = "none"

start ==
  /\ reader = "none"
  /\ timer_' = "armed"
  /\ reader' = "ready"
  /\ writer' = "ready"
  /\ watchdog' = "ready"
  /\ UNCHANGED <<closed_, logged_in, write_queue_>>
-----------------------------------------------------------------------------
(***************************************************************************)
(* What cancelling does to each coroutine's pending operation.             *)
(***************************************************************************)
NoReadAborted == reader  \* mutant: the socket is shut down, its read stays pending
ReadAborted == IF reader = "reading" THEN "read_failed" ELSE reader
\* Mutant: close() does not cancel write_signal_.
OnlyWriteAborted == IF writer = "writing" THEN "write_failed" ELSE writer
WriterAborted == CASE writer = "waiting" -> "woken"
                   [] writer = "writing" -> "write_failed"
                   [] OTHER -> writer
TimerAborted == IF watchdog = "waiting" THEN "aborted" ELSE watchdog

\* write_signal_.cancel_one()
WriterNotWoken == writer  \* mutant: send_bytes only queues
WriterWoken == IF writer = "waiting" THEN "woken" ELSE writer

(***************************************************************************)
(* send_bytes, n times in a row.  Once closed_ is set it does nothing.     *)
(***************************************************************************)
send_bytes(n) ==
  /\ write_queue_ + n <= QueueBound
  /\ write_queue_' = write_queue_ + n
  /\ writer' = IF n = 0 THEN writer ELSE WriterWoken

\* The registry sends what other sessions do, and the shutdown notice.
RegistrySends ==
  /\ logged_in
  /\ ~closed_
  /\ send_bytes(1)
  /\ UNCHANGED <<closed_, logged_in, timer_, reader, watchdog>>
-----------------------------------------------------------------------------
(***************************************************************************)
(* reader()                                                                *)
(***************************************************************************)
\* External: the client sends something, or hangs up.
ReadCompletes ==
  /\ reader = "reading"
  /\ reader' \in {"read", "read_failed"}
  /\ UNCHANGED <<closed_, logged_in, timer_, write_queue_, writer, watchdog>>

\* The while (!closed_) of a reader that has not run yet.
ReaderStarts ==
  /\ reader = "ready"
  /\ reader' = IF closed_ THEN "done" ELSE "reading"
  /\ UNCHANGED <<closed_, logged_in, timer_, write_queue_, writer, watchdog>>

\* close(), when it is the reader that calls it, and close_connection.
ReaderClosesOnly ==  \* mutant: the session is not reaped
  /\ closed_' = TRUE
  /\ logged_in' = logged_in
  /\ reader' = "done"
  /\ writer' = WriterAborted
  /\ watchdog' = TimerAborted
ReaderClosesAndReaps ==
  /\ closed_' = TRUE
  /\ logged_in' = FALSE
  /\ reader' = "done"
  /\ writer' = WriterAborted
  /\ watchdog' = TimerAborted

ReaderHandles(n) ==
  /\ reader = "read"
  /\ ~closed_
  /\ timer_' = "armed"
  /\ watchdog' = TimerAborted
  /\ reader' = "reading"
  /\ logged_in' \in {logged_in, TRUE}
  /\ n > 0 => logged_in'
  /\ send_bytes(n)
  /\ UNCHANGED closed_

\* A packet of the batch is refused; what it queued before is not sent.
ReaderRefuses ==
  /\ reader = "read"
  /\ ~closed_
  /\ timer_' = "armed"
  /\ ReaderClosesAndReaps
  /\ UNCHANGED write_queue_

\* Mutant: the packet loop does not look at closed_.
ReaderThrowsAfterClose ==
  /\ LoginMayThrow
  /\ reader = "read"
  /\ ~logged_in
  /\ timer_' = "armed"
  /\ watchdog' = TimerAborted
  /\ reader' = "threw"
  /\ UNCHANGED <<closed_, logged_in, write_queue_, writer>>

\* Nothing catches the exception: the detached coroutine is destroyed.
ReaderThrows ==
  /\ LoginMayThrow
  /\ reader = "read"
  /\ ~closed_
  /\ ~logged_in
  /\ timer_' = "armed"
  /\ watchdog' = TimerAborted
  /\ reader' = "threw"
  /\ UNCHANGED <<closed_, logged_in, write_queue_, writer>>

\* Data that arrived before someone else closed: the loops do not handle it.
ReaderFindsClosed ==
  /\ reader = "read"
  /\ closed_
  /\ timer_' = "armed"
  /\ ReaderClosesAndReaps
  /\ UNCHANGED write_queue_

ReaderFails ==
  /\ reader = "read_failed"
  /\ ReaderClosesAndReaps
  /\ UNCHANGED <<timer_, write_queue_>>

ReaderResumes ==
  \/ ReaderStarts
  \/ \E n \in 0..QueueBound : ReaderHandles(n)
  \/ ReaderRefuses
  \/ ReaderThrows
  \/ ReaderFindsClosed
  \/ ReaderFails
-----------------------------------------------------------------------------
(***************************************************************************)
(* writer()                                                                *)
(***************************************************************************)
\* External: the peer took the bytes, or the connection broke.
WriteCompletes ==
  /\ writer = "writing"
  /\ writer' \in {"written", "write_failed"}
  /\ UNCHANGED <<closed_, logged_in, timer_, write_queue_, reader, watchdog>>

\* Mutant: a spawned or woken writer takes for granted that there is work.
WriterPopsBlindly ==
  /\ writer \in {"ready", "woken", "written"}
  /\ writer' = IF closed_ THEN "done" ELSE "writing"
  /\ write_queue_' = IF closed_ THEN write_queue_ ELSE write_queue_ - 1
  /\ UNCHANGED <<closed_, logged_in, timer_, reader, watchdog>>

WriterLoops ==
  /\ writer \in {"ready", "woken", "written"}
  /\ writer' = CASE closed_ -> "done"
                 [] ~closed_ /\ write_queue_ = 0 -> "waiting"
                 [] OTHER -> "writing"
  /\ write_queue_' = IF ~closed_ /\ write_queue_ > 0 THEN write_queue_ - 1
                                                      ELSE write_queue_
  /\ UNCHANGED <<closed_, logged_in, timer_, reader, watchdog>>

WriterFails ==
  /\ writer = "write_failed"
  /\ writer' = "done"
  /\ closed_' = TRUE
  /\ reader' = ReadAborted
  /\ watchdog' = TimerAborted
  /\ UNCHANGED <<logged_in, timer_, write_queue_>>

WriterResumes == WriterLoops \/ WriterFails
-----------------------------------------------------------------------------
(***************************************************************************)
(* watchdog()                                                              *)
(***************************************************************************)
\* SERVER_USER_TIMEOUT_SECONDS pass.
TimeElapses ==
  /\ timer_ = "armed"
  /\ reader # "none"
  /\ timer_' = "expired"
  /\ UNCHANGED <<closed_, logged_in, write_queue_, reader, writer, watchdog>>

TimerFires ==
  /\ watchdog = "waiting"
  /\ timer_ = "expired"
  /\ watchdog' = "fired"
  /\ UNCHANGED <<closed_, logged_in, timer_, write_queue_, reader, writer>>

\* Mutant: break where the code has continue.
WatchdogStopsWhenAborted ==
  /\ watchdog \in {"ready", "aborted", "fired"}
  /\ watchdog = "fired" /\ ~closed_ => timer_ = "armed"
  /\ watchdog' = IF closed_ \/ watchdog = "aborted" THEN "done" ELSE "waiting"
  /\ UNCHANGED <<closed_, logged_in, timer_, write_queue_, reader, writer>>

WatchdogLoops ==
  /\ watchdog \in {"ready", "aborted", "fired"}
  /\ watchdog = "fired" /\ ~closed_ => timer_ = "armed"
  /\ watchdog' = IF closed_ THEN "done" ELSE "waiting"
  /\ UNCHANGED <<closed_, logged_in, timer_, write_queue_, reader, writer>>

\* Mutant: the expiry is not read again.
WatchdogTrustsTimer ==
  /\ watchdog = "fired"
  /\ ~closed_
  /\ closed_' = TRUE
  /\ reader' = ReadAborted
  /\ writer' = WriterAborted
  /\ watchdog' = "done"
  /\ UNCHANGED <<logged_in, timer_, write_queue_>>

WatchdogCloses ==
  /\ watchdog = "fired"
  /\ ~closed_
  /\ timer_ = "expired"
  /\ closed_' = TRUE
  /\ reader' = ReadAborted
  /\ writer' = WriterAborted
  /\ watchdog' = "done"
  /\ UNCHANGED <<logged_in, timer_, write_queue_>>

WatchdogResumes == WatchdogLoops \/ WatchdogCloses
-----------------------------------------------------------------------------
Next ==
  \/ start
  \/ RegistrySends
  \/ ReadCompletes
  \/ ReaderResumes
  \/ WriteCompletes
  \/ WriterResumes
  \/ TimeElapses
  \/ TimerFires
  \/ WatchdogResumes

Spec == Init /\ [][Next]_vars

(***************************************************************************)
(* The io_context's thread delivers every queued result, and time passes.  *)
(* Nothing is assumed of the client: a read may stay pending forever, and  *)
(* so may a write to a peer that stopped reading.                          *)
(***************************************************************************)
FairSpec ==
  /\ Spec
  /\ WF_vars(ReaderResumes)
  /\ WF_vars(WriterResumes)
  /\ WF_vars(WatchdogResumes)
  /\ WF_vars(TimeElapses)
  /\ WF_vars(TimerFires)
-----------------------------------------------------------------------------
TypeOK ==
  /\ closed_ \in BOOLEAN
  /\ logged_in \in BOOLEAN
  /\ timer_ \in {"armed", "expired"}
  /\ write_queue_ \in 0..QueueBound
  /\ reader \in ReaderState
  /\ writer \in WriterState
  /\ watchdog \in WatchdogState

(***************************************************************************)
(* The writer never sleeps on its signal while there is something to send, *)
(* whichever of send_bytes and the writer came first.                      *)
(***************************************************************************)
NoLostWakeup == writer = "waiting" => write_queue_ = 0

(***************************************************************************)
(* Once closed_ is set no coroutine is left on an operation that nothing   *)
(* will complete: close() aborts every pending one, and no coroutine       *)
(* starts another.                                                         *)
(***************************************************************************)
NobodyWaitsOnClosed ==
  closed_ => /\ reader # "reading"
             /\ writer \notin {"waiting", "writing"}
             /\ watchdog # "waiting"

(***************************************************************************)
(* While the registry lists the session its reader is there to reap it:    *)
(* the reader keeps the object alive, and only it calls close_connection.  *)
(***************************************************************************)
ListedIsHeldByReader == logged_in => reader \in {"reading", "read", "read_failed"}

(***************************************************************************)
(* A session ends only for a reason: a reader that is waiting for data is  *)
(* aborted only because the idle time really is over or a write failed,    *)
(* although the timer may have fired just before data restarted it.        *)
(***************************************************************************)
NoPrematureTimeout ==
  [][~closed_ /\ closed_' =>
       \/ reader \in {"read", "read_failed"} /\ reader' = "done"
       \/ writer = "write_failed"
       \/ timer_ = "expired"]_vars

(***************************************************************************)
(* closed_ ends all three coroutines, whatever each was doing, and with    *)
(* them the last references to the session object.                         *)
(***************************************************************************)
ClosedSessionEnds ==
  closed_ ~> reader \in {"done", "threw"} /\ writer = "done" /\ watchdog = "done"

(***************************************************************************)
(* A client that falls silent is closed, also when it logged in, when its  *)
(* writer is stuck on a full connection, and when an exception ended its   *)
(* reader.                                                                 *)
(***************************************************************************)
SilentClientIsClosed ==
  (reader # "none" /\ [](reader # "read")) ~> closed_

(***************************************************************************)
(* What the registry relies on: see SessionLife.                           *)
(***************************************************************************)
life ==
  CASE reader = "none" \/ reader = "done" -> "idle"
    [] reader = "threw" -> "orphaned"
    [] OTHER -> IF closed_ THEN "closed" ELSE "open"

Life == INSTANCE SessionLife

\* The coroutines open, close and reap the session as SessionLife says.
ImplementsLife == Life!Spec

=============================================================================
