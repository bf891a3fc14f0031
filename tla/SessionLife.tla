---------------------------- MODULE SessionLife ----------------------------
(***************************************************************************)
(* What one session promises the rest of the server: it takes its slot     *)
(* when it is accepted, is closed, and is reaped (close_connection) once   *)
(* and only after it was closed.  An exception that ends the reader leaves *)
(* an orphan, which is never reaped.                                       *)
(***************************************************************************)
VARIABLE life  \* "idle", "open", "closed" or "orphaned"

Init == life = "idle"

Open == life = "idle" /\ life' = "open"

Close == life = "open" /\ life' = "closed"

\* The reader closes and reaps in one step when it is the one that closes.
Reap == life \in {"open", "closed"} /\ life' = "idle"

Orphan == life = "open" /\ life' = "orphaned"

Next == Open \/ Close \/ Reap \/ Orphan

Spec == Init /\ [][Next]_life

=============================================================================
