----------------------------- MODULE UnitOfWork -----------------------------
(***************************************************************************)
(* What SQLAlchemy's session does with a row that the hub reads, changes   *)
(* and commits, as far as concurrent requests of the hub depend on it      *)
(* (database/connection.py opens one session per request).                 *)
(*                                                                         *)
(* A row is a function from columns to values.  The session remembers the  *)
(* values it has read; commit writes the columns whose value differs from  *)
(* the one read, and forgets what it has read.                             *)
(***************************************************************************)

\* Faulty: the whole row is written back as it was read.
FlushWholeRow(row, read, new) == new

\* The row after the commit of new by a session that had read `read'.
Flush(row, read, new) ==
    [c \in DOMAIN row |-> IF new[c] # read[c] THEN new[c] ELSE row[c]]
=============================================================================
