----------------------------- MODULE CycleTracker -----------------------------
(***************************************************************************)
(* Reset cycles of the synthetic provider: internal/tracker/tracker.go,    *)
(* driven by internal/agent/agent.go and stored by the reset_cycles table  *)
(* of internal/store/store.go.                                             *)
(*                                                                         *)
(* A poll stores a snapshot of all quotas, then Tracker.Process takes the  *)
(* quotas in order.  For each it reads the active row and either creates   *)
(* the first one, closes it and opens the next (a reset), or updates its   *)
(* peak and delta.  These are separate SQL statements: any of them may     *)
(* fail, which ends Process, and the daemon may die between any two.       *)
(*                                                                         *)
(* Pollers are the goroutines running the agent's poll.  The design has    *)
(* one; AgentManager can let in two, which share the Tracker's memory.     *)
(***************************************************************************)
EXTENDS Integers, FiniteSets, Sequences

CONSTANTS Pollers,      \* goroutines running Agent.Run
          NQuotas,      \* subscription, search, toolcall
          Values,       \* readings of QuotaInfo.Requests
          Hour,         \* ticks per hour: RenewsAt is compared at this precision
          Grace,        \* the grace period of the time-based check, in ticks
          Leads,        \* bound: how far ahead of the poll, or behind it, a
                        \* reported RenewsAt may lie
          Window,       \* how far ahead at most
          MaxTime,      \* bound on the clock
          MaxErrors,    \* bound on failing statements
          MaxRestarts,  \* bound on crashes and restarts
          Null

ASSUME CycleAssumption ==
  /\ NQuotas \in Nat \ {0}
  /\ Values \subseteq Nat
  /\ Hour \in Nat \ {0}
  /\ Grace \in Nat /\ Leads \subseteq Int /\ Window \in Nat
  /\ MaxTime \in Nat /\ MaxErrors \in Nat /\ MaxRestarts \in Nat
  /\ Null \notin Int

Quotas == 1..NQuotas
Times == 0..(MaxTime + Window)

VARIABLES
  now,        \* time of the latest poll
  snaps,      \* quota_snapshots: when, and the value of each quota
  rows,       \* reset_cycles: per quota its rows in the order of their ids
  last,       \* Tracker.last*Requests
  hasLast,    \* Tracker.hasLastValues
  w,          \* per poller: where it is in Process, and its local variables
  announced,  \* per quota, how often onReset was called
  errors, restarts,
  seen,       \* history: per quota the last value processed since the start
  grown       \* history: per quota the rises between such values

vars == <<now, snaps, rows, last, hasLast, w, announced, errors, restarts,
          seen, grown>>

(* One row of reset_cycles; end is NULL while the cycle is active.          *)
Row(start, renews) ==
  [start |-> start, end |-> Null, renews |-> renews, peak |-> 0, delta |-> 0]

(* A poller between polls.                                                  *)
Idle == [pc |-> "idle", q |-> 1, at |-> 0, val |-> <<>>, renews |-> <<>>,
         peak |-> 0, delta |-> 0, end |-> 0]

Active(q) == {i \in DOMAIN rows[q] : rows[q][i].end = Null}

(* QueryActiveCycle scans one row: the first of those with no end.          *)
Cycle(q) == rows[q][CHOOSE i \in Active(q) : \A j \in Active(q) : i <= j]

(* A faulty UPDATE: it forgets "AND cycle_end IS NULL".                     *)
WriteAll(q, peak, delta, end) ==
  rows' = [rows EXCEPT ![q] =
             [i \in DOMAIN rows[q] |->
                [rows[q][i] EXCEPT !.peak = peak, !.delta = delta, !.end = end]]]

(* Both UPDATE statements name the active rows by quota type, not by id.    *)
WriteActive(q, peak, delta, end) ==
  rows' = [rows EXCEPT ![q] =
             [i \in DOMAIN rows[q] |->
                IF i \in Active(q)
                  THEN [rows[q][i] EXCEPT !.peak = peak, !.delta = delta,
                                          !.end = end]
                  ELSE rows[q][i]]]

Init ==
  /\ now = 0
  /\ snaps = {}
  /\ rows = [q \in Quotas |-> <<>>]
  /\ last = [q \in Quotas |-> 0]
  /\ hasLast = FALSE
  /\ w = [p \in Pollers |-> Idle]
  /\ announced = [q \in Quotas |-> 0]
  /\ errors = 0
  /\ restarts = 0
  /\ seen = [q \in Quotas |-> Null]
  /\ grown = [q \in Quotas |-> 0]

-------------------------------------------------------------------------------
(* What the API may report as RenewsAt at t: nothing checks that it is      *)
(* still ahead.                                                             *)
Reported(t) == {r \in Times : r - t \in Leads}

(* Agent.poll: fetch, store the snapshot, call Process.  A poll that is     *)
(* switched off, or whose fetch or insert fails, changes nothing.           *)
Poll(p) ==
  /\ w[p].pc = "idle"
  /\ now < MaxTime
  /\ \E t \in (now + 1)..MaxTime :
     \E v \in [Quotas -> Values], r \in [Quotas -> Reported(t)] :
       /\ now' = t
       /\ snaps' = snaps \cup {[at |-> t, val |-> v]}
       /\ w' = [w EXCEPT ![p] =
                  [Idle EXCEPT !.pc = "query", !.at = t, !.val = v, !.renews = r]]
  /\ UNCHANGED <<rows, last, hasLast, announced, errors, restarts, seen, grown>>

(* History: the value v of quota q has left its mark in the table.          *)
Observe(q, v) ==
  /\ seen' = [seen EXCEPT ![q] = v]
  /\ grown' = [grown EXCEPT ![q] =
                 IF seen[q] # Null /\ v > seen[q] THEN @ + v - seen[q] ELSE @]

(* A faulty end of a quota: hasLastValues is set once the first is done.    *)
AdvanceEarly(p) ==
  LET q == w[p].q
      v == w[p].val[q]
  IN /\ last' = [last EXCEPT ![q] = v]
     /\ Observe(q, v)
     /\ hasLast' = TRUE
     /\ w' = [w EXCEPT ![p] = IF q = NQuotas THEN Idle
                              ELSE [@ EXCEPT !.pc = "query", !.q = q + 1]]

(* The quota is done: the next one, or the end of Process.                  *)
Advance(p) ==
  LET q == w[p].q
      v == w[p].val[q]
  IN /\ last' = [last EXCEPT ![q] = v]
     /\ Observe(q, v)
     /\ IF q = NQuotas
          THEN /\ w' = [w EXCEPT ![p] = Idle]
               /\ hasLast' = TRUE
          ELSE /\ w' = [w EXCEPT ![p].pc = "query", ![p].q = q + 1]
               /\ UNCHANGED hasLast

(* Reset detection: the stored RenewsAt is past, or its hour has changed.   *)
RenewalPast(p) == w[p].at > Cycle(w[p].q).renews + Grace
RenewalHourChanged(p) ==
  Cycle(w[p].q).renews \div Hour # w[p].renews[w[p].q] \div Hour
ResetDetected(p) == RenewalPast(p) \/ RenewalHourChanged(p)

(* What this poll adds to the delta of the cycle it was read into.          *)
Rise(p) ==
  LET q == w[p].q
  IN IF hasLast /\ w[p].val[q] > last[q] THEN w[p].val[q] - last[q] ELSE 0

Larger(a, b) == IF a >= b THEN a ELSE b

QueryNone(p) ==
  /\ w[p].pc = "query"
  /\ Active(w[p].q) = {}
  /\ w' = [w EXCEPT ![p].pc = "create"]
  /\ UNCHANGED <<now, snaps, rows, last, hasLast, announced, errors, restarts,
                 seen, grown>>

(* A reset: the row will end at its RenewsAt if that has passed, else now,  *)
(* with the last rise in its delta and its peak as it is.                   *)
EndOf(p) ==
  LET c == Cycle(w[p].q) IN IF w[p].at > c.renews THEN c.renews ELSE w[p].at

ResetAs(p, end, peak) ==
  /\ w[p].pc = "query"
  /\ Active(w[p].q) # {}
  /\ ResetDetected(p)
  /\ w' = [w EXCEPT ![p].pc = "close",
                    ![p].end = end,
                    ![p].peak = peak,
                    ![p].delta = Cycle(w[p].q).delta + Rise(p)]
  /\ UNCHANGED <<now, snaps, rows, last, hasLast, announced, errors, restarts,
                 seen, grown>>

(* Two faulty resets: the row always ends at its RenewsAt; its peak takes in *)
(* the value of the poll that found the reset.                              *)
QueryResetAtRenewal(p) == ResetAs(p, Cycle(w[p].q).renews, Cycle(w[p].q).peak)
QueryResetNewPeak(p) ==
  ResetAs(p, EndOf(p), Larger(Cycle(w[p].q).peak, w[p].val[w[p].q]))

QueryReset(p) == ResetAs(p, EndOf(p), Cycle(w[p].q).peak)

QuerySame(p) ==
  LET c == Cycle(w[p].q)
      v == w[p].val[w[p].q]
  IN /\ w[p].pc = "query"
     /\ Active(w[p].q) # {}
     /\ ~ResetDetected(p)
     /\ IF hasLast \/ v > c.peak
          THEN /\ w' = [w EXCEPT ![p].pc = "update",
                                 ![p].peak = Larger(c.peak, v),
                                 ![p].delta = c.delta + Rise(p)]
               /\ UNCHANGED <<last, hasLast, seen, grown>>
          ELSE Advance(p)
     /\ UNCHANGED <<now, snaps, rows, announced, errors, restarts>>

(* UpdateCycle for a cycle that goes on.                                    *)
UpdateCycle(p) ==
  /\ w[p].pc = "update"
  /\ WriteActive(w[p].q, w[p].peak, w[p].delta, Null)
  /\ Advance(p)
  /\ UNCHANGED <<now, snaps, announced, errors, restarts>>

(* A faulty close: it writes the statistics but not cycle_end.              *)
CloseCycleKeepsOpen(p) ==
  /\ w[p].pc = "close"
  /\ WriteActive(w[p].q, w[p].peak, w[p].delta, Null)
  /\ w' = [w EXCEPT ![p].pc = "recreate"]
  /\ Observe(w[p].q, w[p].val[w[p].q])
  /\ UNCHANGED <<now, snaps, last, hasLast, announced, errors, restarts>>

(* CloseCycle of the store, for the active row.                             *)
CloseCycle(p) ==
  /\ w[p].pc = "close"
  /\ WriteActive(w[p].q, w[p].peak, w[p].delta, w[p].end)
  /\ w' = [w EXCEPT ![p].pc = "recreate"]
  /\ Observe(w[p].q, w[p].val[w[p].q])
  /\ UNCHANGED <<now, snaps, last, hasLast, announced, errors, restarts>>

(* CreateCycle, for the first row ("create") or after a reset ("recreate"). *)
CreateCycle(p) ==
  LET q == w[p].q
  IN /\ w[p].pc \in {"create", "recreate"}
     /\ rows' = [rows EXCEPT ![q] = Append(@, Row(w[p].at, w[p].renews[q]))]
     /\ w' = [w EXCEPT ![p].pc = IF @ = "create" THEN "peak" ELSE "resetpeak"]
     /\ UNCHANGED <<now, snaps, last, hasLast, announced, errors, restarts,
                    seen, grown>>

(* UpdateCycle with the initial peak; after a reset, onReset follows.       *)
SetInitialPeak(p) ==
  LET q == w[p].q
  IN /\ w[p].pc \in {"peak", "resetpeak"}
     /\ WriteActive(q, w[p].val[q], 0, Null)
     /\ announced' = IF w[p].pc = "resetpeak"
                       THEN [announced EXCEPT ![q] = @ + 1]
                       ELSE announced
     /\ Advance(p)
     /\ UNCHANGED <<now, snaps, errors, restarts>>

(* Any statement may fail: Process returns the error, the remaining quotas  *)
(* are not processed and hasLastValues is not set.  The agent logs it.      *)
StatementFails(p) ==
  /\ w[p].pc # "idle"
  /\ errors < MaxErrors
  /\ errors' = errors + 1
  /\ w' = [w EXCEPT ![p] = Idle]
  /\ UNCHANGED <<now, snaps, rows, last, hasLast, announced, restarts, seen,
                 grown>>

(* The daemon dies, or is stopped, and starts again with a new Tracker.     *)
Restart ==
  /\ restarts < MaxRestarts
  /\ restarts' = restarts + 1
  /\ w' = [p \in Pollers |-> Idle]
  /\ last' = [q \in Quotas |-> 0]
  /\ hasLast' = FALSE
  /\ seen' = [q \in Quotas |-> Null]
  /\ UNCHANGED <<now, snaps, rows, announced, errors, grown>>

PollerStep(p) ==
  \/ Poll(p)
  \/ QueryNone(p) \/ QueryReset(p) \/ QuerySame(p)
  \/ UpdateCycle(p) \/ CloseCycle(p) \/ CreateCycle(p) \/ SetInitialPeak(p)
  \/ StatementFails(p)

Next == (\E p \in Pollers : PollerStep(p)) \/ Restart

Spec == Init /\ [][Next]_vars

-------------------------------------------------------------------------------
RowType ==
  [start : Times, end : Times \cup {Null}, renews : Times, peak : Nat,
   delta : Nat]

PollerType ==
  [pc : {"idle", "query", "create", "peak", "update", "close", "recreate",
         "resetpeak"},
   q : Quotas, at : Times,
   val : [Quotas -> Values] \cup {<<>>}, renews : [Quotas -> Times] \cup {<<>>},
   peak : Nat, delta : Nat, end : Times]

TypeOK ==
  /\ now \in Times
  /\ \A s \in snaps : s.at \in Times /\ s.val \in [Quotas -> Values]
  /\ rows \in [Quotas -> Seq(RowType)]
  /\ last \in [Quotas -> Values \cup {0}]
  /\ hasLast \in BOOLEAN
  /\ w \in [Pollers -> PollerType]
  /\ announced \in [Quotas -> Nat]
  /\ errors \in 0..MaxErrors /\ restarts \in 0..MaxRestarts
  /\ seen \in [Quotas -> Values \cup {Null}]
  /\ grown \in [Quotas -> Nat]

(* QueryActiveCycle, CloseCycle and UpdateCycle all speak of "the" active   *)
(* cycle: a quota never has two, and it is the newest row.                  *)
OneActiveCycle ==
  \A q \in Quotas : Active(q) \subseteq {Len(rows[q])}

(* When a cycle may end at the earliest: at its start, or at its RenewsAt    *)
(* if that had passed when the cycle was opened.                            *)
Earliest(c) == IF c.renews < c.start THEN c.renews ELSE c.start

(* The rows of a quota follow one another in time: each starts no earlier   *)
(* than the one before it starts and ends, and ends no earlier than it      *)
(* starts, whatever failed or crashed between the statements - except that  *)
(* a cycle opened by an answer that lags behind ends at its RenewsAt, which *)
(* lies before its start.                                                   *)
CyclesInOrder ==
  \A q \in Quotas : \A i \in DOMAIN rows[q] :
    LET c == rows[q][i]
    IN c.end # Null =>
         /\ Earliest(c) <= c.end
         /\ i < Len(rows[q]) =>
              /\ c.start <= rows[q][i + 1].start
              /\ c.end <= rows[q][i + 1].start

(* No run states it: the README says how to see it fail.                    *)
EndsAfterStart ==
  \A q \in Quotas : \A i \in DOMAIN rows[q] :
    rows[q][i].end # Null => rows[q][i].start <= rows[q][i].end

(* A value of q stored within [from, to].                                   *)
Stored(q, v, from, to) ==
  \E s \in snaps : s.val[q] = v /\ from <= s.at /\ s.at <= to

(* The grace period after e, or the poll that opened the cycle if that was  *)
(* later.                                                                   *)
Until(c, e) == Larger(c.start, e + Grace)

(* A stored peak is a reading of its own cycle, never one of the cycle      *)
(* before or after: taken no earlier than the start and at most the grace   *)
(* period after the end, or at the very start of a cycle whose RenewsAt had *)
(* passed.  (0 is the peak of a row whose first write failed.)              *)
PeakIsOwnReading ==
  \A q \in Quotas : \A i \in DOMAIN rows[q] :
    LET c == rows[q][i]
    IN c.peak > 0 =>
         Stored(q, c.peak, c.start, IF c.end = Null THEN now ELSE Until(c, c.end))

(* The deltas of a sequence of rows added up, row by row.                   *)
DeltaSums(s) ==
  LET sum[n \in 0..Len(s)] == IF n = 0 THEN 0 ELSE sum[n - 1] + s[n].delta
  IN sum

TotalTracked(q) == DeltaSums(rows[q])[Len(rows[q])]

(* UsageSummary.TotalTracked: when no statement has failed, the deltas of   *)
(* all rows add up to the rises between the values seen since each start,   *)
(* none dropped at a reset and none counted in two cycles.                  *)
DeltaAccounted ==
  errors = 0 =>
    \A q \in Quotas :
      (\A p \in Pollers : w[p].pc = "idle") => TotalTracked(q) = grown[q]

(* A cycle's statistics only grow while it is active and never change once  *)
(* it is closed; a closed cycle is not reopened and no row disappears.      *)
HistoryStable ==
  \A q \in Quotas : \A i \in DOMAIN rows[q] :
    /\ i \in DOMAIN rows'[q]
    /\ rows[q][i].end # Null => rows'[q][i] = rows[q][i]
    /\ rows'[q][i].peak >= rows[q][i].peak
    /\ rows'[q][i].delta >= rows[q][i].delta

HistoryIsStable == [][HistoryStable]_vars

(* tracker.go:26, the callback "is invoked when a quota reset is detected": *)
(* once Process is over and the next cycle is active, every cycle closed    *)
(* before it has been announced.                                            *)
EveryResetAnnounced ==
  (\A p \in Pollers : w[p].pc = "idle") =>
    \A q \in Quotas :
      Active(q) # {} =>
        Cardinality(DOMAIN rows[q] \ Active(q)) <= announced[q]

(* tracker.go:115-119: RenewsAt moving by less than a full window, with the *)
(* stored one still ahead, is drift and no reset.                           *)
DriftStep ==
  \A p \in Pollers :
    (w[p].pc = "query" /\ w'[p].pc = "close") =>
      \/ RenewalPast(p)
      \/ w[p].renews[w[p].q] >= Cycle(w[p].q).renews + Hour
      \/ w[p].renews[w[p].q] < Cycle(w[p].q).renews

DriftIgnored == [][DriftStep]_vars

===============================================================================
