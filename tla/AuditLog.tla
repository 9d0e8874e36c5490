------------------------------- MODULE AuditLog --------------------------------
(***************************************************************************)
(* The audit log (src/pkg/log): the record written when a handler has      *)
(* returned, the daily removal of expired records, and the time window of  *)
(* the list (src/pkg/util/sql.go).                                         *)
(*                                                                         *)
(* Time is counted in minutes, because the window ends at a minute.  A     *)
(* record expires DefaultAuditLogValidPeriod days after it was made; the   *)
(* audit_log.valid_period of the configuration file is read by nobody.     *)
(* What a record says is left to the module that composes this one.  The   *)
(* equality filters of the list, which only narrow it, are left out.       *)
(***************************************************************************)
EXTENDS Integers

CONSTANTS Day,                         \* the minutes of a day
          DefaultAuditLogValidPeriod,  \* in days
          MaxNow                       \* bound on the time

ASSUME TimeAssumption ==
    Day \in Nat \ {0} /\ DefaultAuditLogValidPeriod \in Nat /\ MaxNow \in Nat

VARIABLES log,  \* gr_audit_log
          now   \* the minute it is

audit == <<log, now>>

Period == DefaultAuditLogValidPeriod * Day
Date(t) == t \div Day

--------------------------------------------------------------------------------
(* Writing and removing *)

\* Mutant: DELETE falls through to the default case.
AuditedWithoutDelete == {"POST", "PUT", "ACTION"}

\* The requests that are recorded; a POST with an action is recorded under the name of
\* the action.
Audited == {"POST", "PUT", "DELETE", "ACTION"}

\* The record of an AuditLoggerHandler that is called now.
Stamped(record) == [what |-> record, create_time |-> now, expire |-> now + Period]

\* AuditLoggerHandler inserts the record.
InsertAuditLog(record) ==
    /\ log' = log \cup {Stamped(record)}
    /\ UNCHANGED now

\* Mutant: what was created before now is deleted.
CleanByCreation ==
    /\ log' = {r \in log : r.create_time >= now}
    /\ UNCHANGED now

\* "delete from gr_audit_log where expire < now()".  Whether a record that expires in
\* this minute is deleted depends on the seconds.  The ticker of each process runs from
\* its start, so it may tick at any minute.
Clean ==
    /\ \E gone \in SUBSET {r \in log : r.expire = now} :
           log' = {r \in log : r.expire >= now} \ gone
    /\ UNCHANGED now

Tick ==
    /\ now < MaxNow
    /\ now' = now + 1
    /\ UNCHANGED log

--------------------------------------------------------------------------------
(* Listing *)

\* Mutant: today is one of the days the list goes back.
DefaultFromTooLate == Date(now) - DefaultAuditLogValidPeriod + 1

\* The dates the list starts and ends at, unless the request filters by them.
DefaultFrom == Date(now) - DefaultAuditLogValidPeriod
DefaultTo == Date(now)

\* The minutes between "from 00:00" and "to 23:59".  The last of them is over at
\* 23:59:00, so no record of it is in the window.
Window(from, to) == (from * Day) .. (to * Day + Day - 2)

List(from, to) == {r \in log : r.create_time \in Window(from, to)}

--------------------------------------------------------------------------------
(* Properties *)

AuditTypeOK ==
    /\ now \in 0..MaxNow
    /\ \A r \in log :
        /\ r.create_time \in 0..now
        /\ r.expire = r.create_time + Period

\* A record is kept for the whole valid period, counted from when it was made: only
\* the daily delete removes records, and only those that have expired.
KeptForTheValidPeriod ==
    [][\A r \in log : now < r.create_time + Period => r \in log']_audit

\* The list without filters shows every record that has not expired, but for those of
\* the last minute of today: the window goes back as many days as a record is valid,
\* and from the beginning of that day.
DefaultListIsComplete ==
    \A r \in log :
        \/ now > r.expire
        \/ r \in List(DefaultFrom, DefaultTo)
        \/ r.create_time = Date(now) * Day + Day - 1
================================================================================
