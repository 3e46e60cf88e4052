---------------------------- MODULE SessionManager ----------------------------
(***************************************************************************)
(* Usage sessions: internal/agent/session_manager.go and the sessions      *)
(* table of internal/store/store.go.                                       *)
(*                                                                         *)
(* Each agent owns a SessionManager.  After a poll it compares the values  *)
(* with those of the poll before: a change opens a session or keeps it     *)
(* open, a poll without change closes it once the idle timeout is over.    *)
(* The row lives in the database, its id in memory; a crash loses the id,  *)
(* and the next start closes what it finds open.                           *)
(*                                                                         *)
(* Time is counted in ticks of at most one poll interval.                  *)
(***************************************************************************)
EXTENDS Naturals, FiniteSets, Sequences

CONSTANTS Agents,       \* agents, each with its SessionManager
          Values,       \* values a poll reports
          IdleTimeout,  \* SessionManager.idleTimeout
          Interval,     \* the polling interval
          MaxGap,       \* the longest time between two polls of an agent
          MaxTime,      \* bound on the clock
          MaxErrors,    \* bound on failing SQL statements
          MaxRestarts,  \* bound on crashes
          Null

ASSUME SessionAssumption ==
  /\ Values \subseteq Nat
  /\ IdleTimeout \in Nat
  /\ Interval \in Nat \ {0} /\ MaxGap \in Nat \ {0} /\ Interval <= MaxGap
  /\ MaxTime \in Nat /\ MaxErrors \in Nat /\ MaxRestarts \in Nat
  /\ Null \notin Nat

VARIABLES
  now,
  sessions,   \* the sessions table: rows in the order of their creation
  sm,         \* per agent the fields of its SessionManager
  pc,         \* per agent: in Run but between polls, stopped, or in ReportPoll
  polled,     \* per agent the time of its latest poll
  activity,   \* history: per row the time of the latest change it covers
  widest,     \* history: per row the longest time between two such changes
  leaked,     \* history: rows whose close failed
  errors, restarts

vars == <<now, sessions, sm, pc, polled, activity, widest, leaked, errors,
          restarts>>

Fresh == [sid |-> Null, lastActivity |-> 0, prev |-> Null, old |-> Null]

(* CreateSession's row: it starts at the poll that saw the change, with the  *)
(* values of the poll before.                                                *)
Row(a) == [agent |-> a, start |-> polled[a], end |-> Null, count |-> 0,
           from |-> sm[a].old, max |-> 0]

Init ==
  /\ now = 0
  /\ sessions = <<>>
  /\ sm = [a \in Agents |-> Fresh]
  /\ pc = [a \in Agents |-> "run"]
  /\ polled = [a \in Agents |-> 0]
  /\ activity = <<>>
  /\ widest = <<>>
  /\ leaked = {}
  /\ errors = 0 /\ restarts = 0

Larger(x, y) == IF x >= y THEN x ELSE y

(* A statement fails: the error is logged and the caller goes on.            *)
Fails == errors < MaxErrors /\ errors' = errors + 1
Succeeds == UNCHANGED errors

-------------------------------------------------------------------------------
(* Every other agent must have had its poll by the time it is due.           *)
TimeFor(t) ==
  /\ t \in now..MaxTime
  /\ \A a \in Agents : pc[a] = "run" => t <= polled[a] + MaxGap

(* ReportPoll with the value v, up to its first SQL statement.  A change     *)
(* opens or keeps a session; without one the session is counted into, or     *)
(* closed once the timeout is over.  "refresh" is for a faulty variant.      *)
ReportPollAs(a, v, changed, refresh) ==
  LET s == sm[a]
      t == now'
  IN /\ pc[a] = "run"
     /\ \E u \in (polled[a] + 1)..MaxTime : TimeFor(u) /\ now' = u
     /\ polled' = [polled EXCEPT ![a] = t]
     /\ sm' = [sm EXCEPT ![a].prev = v,
                         ![a].old = IF changed THEN s.prev ELSE @,
                         ![a].lastActivity = IF changed \/ refresh THEN t ELSE @]
     /\ pc' = [pc EXCEPT ![a] =
                 IF s.sid = Null THEN IF changed THEN "create" ELSE "run"
                 ELSE IF ~changed /\ t - s.lastActivity > IdleTimeout THEN "close"
                 ELSE "count"]
     /\ IF changed /\ s.sid # Null
          THEN /\ activity' = [activity EXCEPT ![s.sid] = t]
               /\ widest' = [widest EXCEPT ![s.sid] =
                               Larger(@, t - activity[s.sid])]
          ELSE UNCHANGED <<activity, widest>>
     /\ UNCHANGED <<sessions, leaked, errors, restarts>>

(* The first poll is the baseline and no change.                             *)
Changed(a, v) == sm[a].prev # Null /\ v # sm[a].prev

(* A faulty poll: one without a change restarts the idle timeout.            *)
ReportPollRefreshes(a, v) ==
  ReportPollAs(a, v, Changed(a, v), now' - sm[a].lastActivity <= IdleTimeout)

ReportPoll(a, v) == ReportPollAs(a, v, Changed(a, v), FALSE)

(* CreateSession; if it fails the manager has no session.                    *)
CreateSession(a) ==
  /\ pc[a] = "create"
  /\ \/ /\ Succeeds
        /\ sessions' = Append(sessions, Row(a))
        /\ sm' = [sm EXCEPT ![a].sid = Len(sessions) + 1]
        /\ pc' = [pc EXCEPT ![a] = "count"]
        /\ activity' = Append(activity, polled[a])
        /\ widest' = Append(widest, 0)
     \/ /\ Fails
        /\ pc' = [pc EXCEPT ![a] = "run"]
        /\ UNCHANGED <<sessions, sm, activity, widest>>
  /\ UNCHANGED <<now, polled, leaked, restarts>>

(* IncrementSnapshotCount, then UpdateSessionMaxRequests.                    *)
Count(a) ==
  /\ pc[a] = "count"
  /\ \/ /\ Succeeds
        /\ sessions' = [sessions EXCEPT ![sm[a].sid].count = @ + 1]
     \/ /\ Fails
        /\ UNCHANGED sessions
  /\ pc' = [pc EXCEPT ![a] = "max"]
  /\ UNCHANGED <<now, sm, polled, activity, widest, leaked, restarts>>

(* A faulty update: it writes the latest value, not the maximum.             *)
UpdateMaxOverwrites(a) ==
  /\ pc[a] = "max"
  /\ sessions' = [sessions EXCEPT ![sm[a].sid].max = sm[a].prev]
  /\ pc' = [pc EXCEPT ![a] = "run"]
  /\ UNCHANGED <<now, sm, polled, activity, widest, leaked, errors, restarts>>

UpdateMax(a) ==
  /\ pc[a] = "max"
  /\ \/ /\ Succeeds
        /\ sessions' = [sessions EXCEPT ![sm[a].sid].max = Larger(@, sm[a].prev)]
     \/ /\ Fails
        /\ UNCHANGED sessions
  /\ pc' = [pc EXCEPT ![a] = "run"]
  /\ UNCHANGED <<now, sm, polled, activity, widest, leaked, restarts>>

(* A faulty close: the manager keeps the id of the row it closed.            *)
CloseSessionKeepsId(a) ==
  /\ pc[a] \in {"close", "closing"}
  /\ sessions' = [sessions EXCEPT ![sm[a].sid].end = now]
  /\ pc' = [pc EXCEPT ![a] = IF @ = "close" THEN "run" ELSE "stopped"]
  /\ UNCHANGED <<now, sm, polled, activity, widest, leaked, errors, restarts>>

(* closeSession forgets the id whether or not the statement succeeds.        *)
CloseSession(a) ==
  /\ pc[a] \in {"close", "closing"}
  /\ \/ /\ Succeeds
        /\ sessions' = [sessions EXCEPT ![sm[a].sid].end =
                          IF pc[a] = "close" THEN polled[a] ELSE now]
        /\ UNCHANGED leaked
     \/ /\ Fails
        /\ leaked' = leaked \cup {sm[a].sid}
        /\ UNCHANGED sessions
  /\ sm' = [sm EXCEPT ![a].sid = Null]
  /\ pc' = [pc EXCEPT ![a] = IF @ = "close" THEN "run" ELSE "stopped"]
  /\ UNCHANGED <<now, polled, activity, widest, restarts>>

(* The context is cancelled between polls: Run returns and its deferred call *)
(* of Close closes an open session.                                          *)
Stop(a) ==
  /\ pc[a] = "run"
  /\ now' \in now..MaxTime
  /\ TimeFor(now')
  /\ pc' = [pc EXCEPT ![a] = IF sm[a].sid = Null THEN "stopped" ELSE "closing"]
  /\ UNCHANGED <<sessions, sm, polled, activity, widest, leaked, errors, restarts>>

(* The provider is switched on again: main hands out the same agent, whose   *)
(* SessionManager still has the values of its last poll.                     *)
Start(a) ==
  /\ pc[a] = "stopped"
  /\ now' \in now..MaxTime
  /\ TimeFor(now')
  /\ pc' = [pc EXCEPT ![a] = "run"]
  /\ polled' = [polled EXCEPT ![a] = now']
  /\ UNCHANGED <<sessions, sm, activity, widest, leaked, errors, restarts>>

(* A faulty start of the daemon: orphaned sessions stay open.                *)
RestartLeavesOpen ==
  /\ restarts < MaxRestarts
  /\ restarts' = restarts + 1
  /\ now' \in now..MaxTime
  /\ sm' = [a \in Agents |-> Fresh]
  /\ pc' = [a \in Agents |-> "run"]
  /\ polled' = [a \in Agents |-> now']
  /\ UNCHANGED <<sessions, activity, widest, leaked, errors>>

(* The daemon dies.  At its next start CloseOrphanedSessions ends every open *)
(* row at the time of that start, before any agent runs.                     *)
Restart ==
  /\ restarts < MaxRestarts
  /\ restarts' = restarts + 1
  /\ now' \in now..MaxTime
  /\ \/ /\ Succeeds
        /\ sessions' = [i \in DOMAIN sessions |->
             IF sessions[i].end = Null THEN [sessions[i] EXCEPT !.end = now']
                                       ELSE sessions[i]]
        /\ UNCHANGED leaked
     \/ /\ Fails
        /\ leaked' = leaked \cup {i \in DOMAIN sessions : sessions[i].end = Null}
        /\ UNCHANGED sessions
  /\ sm' = [a \in Agents |-> Fresh]
  /\ pc' = [a \in Agents |-> "run"]
  /\ polled' = [a \in Agents |-> now']
  /\ UNCHANGED <<activity, widest>>

Next ==
  \/ \E a \in Agents :
       \/ \E v \in Values : ReportPoll(a, v)
       \/ CreateSession(a) \/ Count(a) \/ UpdateMax(a) \/ CloseSession(a) \/ Stop(a) \/ Start(a)
  \/ Restart

Spec == Init /\ [][Next]_vars

-------------------------------------------------------------------------------
Times == 0..MaxTime
Rows == DOMAIN sessions
Open(i) == sessions[i].end = Null

TypeOK ==
  /\ now \in Times
  /\ \A i \in Rows :
       sessions[i] \in [agent : Agents, start : Times, end : Times \cup {Null},
                       count : Nat, from : Values, max : Values \cup {0}]
  /\ sm \in [Agents -> [sid : Rows \cup {Null}, lastActivity : Times,
                        prev : Values \cup {Null}, old : Values \cup {Null}]]
  /\ pc \in [Agents -> {"run", "create", "count", "max", "close", "closing",
                        "stopped"}]
  /\ polled \in [Agents -> Times]
  /\ DOMAIN activity = Rows /\ DOMAIN widest = Rows
  /\ leaked \subseteq Rows
  /\ errors \in 0..MaxErrors /\ restarts \in 0..MaxRestarts

(* The id in memory and the open rows of the table agree: a manager counts   *)
(* into an open row of its own agent, and a row stays open only while its    *)
(* agent holds its id or because closing it failed.                          *)
OpenIsOwned ==
  /\ \A a \in Agents :
       sm[a].sid # Null => Open(sm[a].sid) /\ sessions[sm[a].sid].agent = a
  /\ \A i \in Rows :
       Open(i) => sm[sessions[i].agent].sid = i \/ i \in leaked

(* The sessions of one agent do not overlap: each ends before the next one   *)
(* starts, except one whose close failed.                                    *)
SessionsDisjoint ==
  \A i, j \in Rows :
    (i < j /\ sessions[i].agent = sessions[j].agent /\ i \notin leaked) =>
      /\ ~Open(i)
      /\ sessions[i].start <= sessions[i].end
      /\ sessions[i].end <= sessions[j].start

(* What a session covers is bounded by the longest time without a poll: no   *)
(* two changes in it lie further apart than the timeout and that time.       *)
ActivityGapBounded ==
  \A i \in Rows : widest[i] <= IdleTimeout + MaxGap

(* A closed row is final; its maximum and count only grow before that.       *)
RowsFinal ==
  \A i \in Rows :
    /\ (~Open(i)) => sessions'[i] = sessions[i]
    /\ sessions'[i].max >= sessions[i].max
    /\ sessions'[i].count >= sessions[i].count

RowsAreFinal == [][RowsFinal]_vars

(* session_manager.go:12, a session "closes after an idle timeout with no    *)
(* further changes": with the granularity of a poll, no session joins two    *)
(* changes that lie further apart than that.                                 *)
IdleSessionCloses ==
  \A i \in Rows : widest[i] <= IdleTimeout + Interval

===============================================================================
