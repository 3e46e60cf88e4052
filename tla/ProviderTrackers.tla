---------------------------- MODULE ProviderTrackers ----------------------------
(***************************************************************************)
(* The reset cycle trackers of internal/tracker other than the synthetic   *)
(* one: one quota of one provider, polled by one agent.                    *)
(*                                                                         *)
(* They share a shape: a poll reads the active row of the quota, decides   *)
(* whether the quota was reset since, and either opens the first row,      *)
(* closes the row and opens the next, or updates the row.  They differ in  *)
(* how a reset is recognised (a reset time compared with the row's or with *)
(* the one in memory, a grace period, a fall or rise of the reading), in   *)
(* what the closing row takes from the poll, and in what is written        *)
(* between resets.  kind says which tracker a behaviour is of.             *)
(*                                                                         *)
(* The upstream meters windows of equal length: usage starts at zero and   *)
(* grows; a balance is topped up at the start and shrinks.                 *)
(*                                                                         *)
(* A poll is one action: nobody else writes the rows of the quota.  stop   *)
(* names the statement at which it ends early, because the statement fails *)
(* or the daemon dies there.  A statement whose failure leaves everything  *)
(* as it was is left out.                                                  *)
(***************************************************************************)
EXTENDS Integers, Sequences, FiniteSets

CONSTANTS Kinds,        \* the trackers a run looks at
          MaxUse,       \* readings are 0..MaxUse
          Margin,       \* "currentUtil+2 < lastUtil", "lastFraction+0.02"
          Drop,         \* "lastFraction+0.1": Antigravity's
          Low,          \* "current < 20": Kimi's
          Window,       \* length of a window, in ticks
          Grace,        \* "2 * time.Minute"
          Minute,       \* "prev.Add(time.Minute)": Kimi's
          Tolerance,    \* "10 * time.Minute"
          Shift,        \* "60 * time.Minute", also OpenCode's 90
          Skews,        \* how far a reported reset time is off, and how long
                        \* after a reset the old window is reported, at most
          PollTimes,    \* when polls may come
          MaxPolls,     \* bound on the polls
          MaxStops,     \* bound on the polls that end early
          MaxRestarts,  \* bound on restarts
          Null

Balances == {"deepseek", "moonshot"}
(* Trackers that compare the reading with the row: the row survives a       *)
(* restart.                                                                 *)
FromRow == {"anthropic", "cursor", "opencode", "zaitokens"}
(* Trackers that want a fall of the reading as well, or else the grace.     *)
FromRowAndFall == {"codex", "gemini"}
(* Trackers that compare reset times with the one in memory.                *)
FromMemory == {"copilot", "antigravity", "minimax"}
(* Trackers whose row has no reset time: they see only the reading.         *)
FromReading == {"zaitime", "openrouter", "grok"} \cup Balances
AllKinds == FromRow \cup FromRowAndFall \cup FromMemory \cup FromReading \cup {"kimi"}

ASSUME TrackersAssumption ==
  /\ Kinds \subseteq AllKinds
  /\ MaxUse \in Nat /\ MaxPolls \in Nat
  /\ MaxStops \in Nat /\ MaxRestarts \in Nat
  /\ PollTimes \subseteq Nat \ {0} /\ PollTimes # {} /\ IsFiniteSet(PollTimes)
  /\ Margin \in Nat /\ Drop \in Nat /\ Low \in Nat
  /\ Grace \in Nat /\ Minute \in Nat /\ Tolerance \in Nat /\ Shift \in Nat
  /\ 2 * Grace <= Tolerance /\ Tolerance <= Shift
  /\ Window \in Nat \ {0}
  /\ Skews \subseteq [jitter : Nat, lag : Nat]
  /\ \A s \in Skews : /\ s.jitter + s.lag <= Grace  \* what the grace is there for
                      /\ Window > Shift + 2 * s.jitter
  /\ Null \notin Int

Values == 0..MaxUse
(* No window lasts longer than it takes to have a poll in the next one.     *)
Wins == UNION {1..(t \div Window + 1) : t \in PollTimes}
Times == UNION {0..(t + 2 * Window) : t \in PollTimes}

VARIABLES
  kind,       \* whose tracker this is
  skew,       \* how exact its upstream is
  now,        \* CapturedAt of the latest snapshot
  win, used,  \* the upstream at that time: its window and meter
  rows,       \* the rows of <provider>_reset_cycles for the quota
  last,       \* lastValues, lastFractions, lastUsed, lastBalance ...
  lastReset,  \* lastResets, lastResetTimes, lastResetAt
  hasLast,    \* hasLast, hasLastValues: a Process has succeeded
  polls, stops, restarts,
  told,       \* history: per window, how often onReset was called for it
  hist        \* history: what became of the readings, per row

memory == <<last, lastReset, hasLast>>
vars == <<kind, skew, now, win, used, rows, last, lastReset, hasLast, polls, stops,
          restarts, told, hist>>

Row(start, renews, peak) ==
  [start |-> start, end |-> Null, renews |-> renews, peak |-> peak, delta |-> 0]

NoReadings == [wins |-> {}, top |-> 0, val |-> Null,
               reborn |-> FALSE, cut |-> FALSE, idle |-> FALSE, fell |-> FALSE]

Init ==
  /\ kind \in Kinds /\ skew \in Skews
  /\ now = 0 /\ win = 1
  /\ used \in IF kind \in Balances THEN Values ELSE {0}
  /\ rows = <<>>
  /\ last = Null /\ lastReset = Null /\ hasLast = FALSE
  /\ polls = 0 /\ stops = 0 /\ restarts = 0
  /\ told = [x \in Wins |-> 0]
  /\ hist = <<>>

-------------------------------------------------------------------------------
(* What the upstream may report at t: the window that runs then, or for a   *)
(* while the one before; a reading that only grows within a window; the     *)
(* window's end give or take the jitter, or none while nothing is used.     *)
(* Every tracker is given jitter, also those that bear none.                *)
Jitter == skew.jitter

Running(x, t) ==
  /\ x >= win
  /\ (x - 1) * Window <= t
  /\ t <= x * Window + skew.lag

Follows(x, u) ==
  x = win => IF kind \in Balances THEN u <= used ELSE u >= used

ResetTimes(x, u) ==
  IF kind \in FromReading THEN {Null}
  ELSE {x * Window + j : j \in (-Jitter)..Jitter} \cup (IF u = 0 THEN {Null} ELSE {})

Readings(t, x, u) ==
  {[at |-> t, win |-> x, used |-> u, resets |-> e] : e \in ResetTimes(x, u)}

(* The active row; one with no end.  Before the first poll there is none.   *)
Live == rows # <<>> /\ rows[Len(rows)].end = Null
Cycle == IF Live THEN rows[Len(rows)] ELSE Row(0, Null, 0)

Known == hasLast /\ last # Null

Larger(a, b) == IF a >= b THEN a ELSE b
Abs(a) == IF a < 0 THEN -a ELSE a

(* The row's reset time lies behind the poll, at all or by the grace.  The  *)
(* faulty one: without the grace period.                                    *)
Passed(r) == Cycle.renews # Null /\ r.at > Cycle.renews
LongPassedGraceless(r) == Cycle.renews # Null /\ r.at > Cycle.renews
LongPassed(r) == Cycle.renews # Null /\ r.at > Cycle.renews + Grace

(* A reset time was there before, and moved by more than tol; or is new.    *)
Moved(from, r, tol) ==
  from # Null /\ r.resets # Null /\ Abs(r.resets - from) > tol
Appeared(r) == Cycle.renews = Null /\ r.resets # Null

(* A faulty end: the reset time even if it is ahead.                        *)
EndOfAhead(r) == IF Cycle.renews # Null THEN Cycle.renews ELSE r.at

(* A cycle ends at its reset time if that has passed, else at the poll.     *)
EndOf(r) == IF Passed(r) THEN Cycle.renews ELSE r.at

(* What the poll adds to the delta: usage that grew, a balance that shrank. *)
Rise(r) ==
  LET d == IF kind \in Balances THEN last - r.used ELSE r.used - last
  IN IF Known /\ d > 0 THEN d ELSE 0

(* The row with this reading in its statistics; without a value from before *)
(* only the peak can grow.                                                  *)
Updated(r) == [Cycle EXCEPT !.peak = Larger(@, r.used), !.delta = @ + Rise(r)]

(* The row as a reset closes it: as it was, or with the reading that found  *)
(* the reset in its statistics if the tracker has a value from before.      *)
Closed(end) == [Cycle EXCEPT !.end = end]
ClosedWith(r) == IF Known THEN [Updated(r) EXCEPT !.end = EndOf(r)]
                 ELSE Closed(EndOf(r))

(* The window a reading tells of: none while the upstream is idle.          *)
Tells(r) ==
  IF r.resets = Null /\ r.used = 0 /\ kind \notin FromReading THEN {} ELSE {r.win}

(* A change of the reading that only a new window explains: usage halved,   *)
(* and fell by more than the margin Codex and Gemini leave, or a balance    *)
(* grew by half.                                                            *)
Sharp(from, to) ==
  IF kind \in Balances
    THEN IF from = 0 THEN to > 0 ELSE 2 * to >= 3 * from
    ELSE /\ 2 * to < from
         /\ kind \in FromRowAndFall => to + Margin < from

(* History: reading r was counted in a row.                                 *)
Count(h, r) ==
  [h EXCEPT !.wins = @ \cup Tells(r), !.top = Larger(@, r.used),
            !.val = IF Tells(r) = {} THEN @ ELSE r.used,
            !.idle = @ \/ Tells(r) = {},
            !.fell = @ \/ (h.val # Null /\ Tells(r) # {} /\ Sharp(h.val, r.used))]

(* A faulty memory: no tracker keeps a reset time that is not repeated.     *)
RememberAll(r) == last' = r.used /\ lastReset' = r.resets /\ hasLast' = TRUE

(* The end of a quota, and of Process: the reading goes to memory.  Copilot *)
(* remembers that there was no reset time, the others keep the last one.    *)
Remember(r) ==
  /\ last' = r.used
  /\ lastReset' = IF r.resets # Null \/ kind = "copilot" THEN r.resets ELSE lastReset
  /\ hasLast' = TRUE

Announce(r) ==
  told' = [x \in Wins |-> IF x \in Tells(r) THEN told[x] + 1 ELSE told[x]]

(* A statement fails: memory stays as it is and nothing is announced.       *)
Stop == stops' = stops + 1 /\ UNCHANGED <<memory, told>>

Replaced(row) == [rows EXCEPT ![Len(rows)] = row]
Counted(r) == [hist EXCEPT ![Len(hist)] = Count(@, r)]

(* cycle == nil: a row is created, then given its first peak, except where  *)
(* the INSERT holds the peak.                                               *)
OpenFirst(r, renews, stop) ==
  /\ ~Live
  /\ \/ /\ stop = "none"
        /\ rows' = Append(rows, Row(r.at, renews, r.used))
        /\ hist' = Append(hist, Count(NoReadings, r))
        /\ Remember(r)
        /\ UNCHANGED <<stops, told>>
     \/ /\ stop = "peak" /\ kind \notin {"grok", "kimi"}
        /\ rows' = Append(rows, Row(r.at, renews, 0))
        /\ hist' = Append(hist, NoReadings)
        /\ Stop

(* A faulty reset: it is announced as soon as the new row exists.           *)
CloseAndOpenEager(r, renews, closed, stop) ==
  /\ stop \in {"none", "peak"} /\ kind \notin {"grok", "kimi"}
  /\ rows' = Append(Replaced(closed), Row(r.at, renews, IF stop = "none" THEN r.used ELSE 0))
  /\ hist' = Append(hist, IF stop = "none" THEN Count(NoReadings, r) ELSE NoReadings)
  /\ Announce(r)
  /\ IF stop = "none" THEN Remember(r) /\ UNCHANGED stops
                      ELSE stops' = stops + 1 /\ UNCHANGED memory

(* resetDetected: close, create, set the first peak, remember, announce.    *)
CloseAndOpen(r, renews, closed, stop) ==
  /\ \/ /\ stop = "none"
        /\ rows' = Append(Replaced(closed), Row(r.at, renews, r.used))
        /\ hist' = Append(hist, Count(NoReadings, r))
        /\ Remember(r)
        /\ Announce(r)
        /\ UNCHANGED stops
     \/ /\ stop = "create"
        /\ rows' = Replaced(closed)
        /\ UNCHANGED hist
        /\ Stop
     \/ /\ stop = "peak" /\ kind \notin {"grok", "kimi"}
        /\ rows' = Append(Replaced(closed), Row(r.at, renews, 0))
        /\ hist' = Append(hist, NoReadings)
        /\ Stop

(* No reset: the row becomes kept, or half if the last statement fails.     *)
GoOn(r, kept, half, stop) ==
  /\ \/ /\ stop = "none"
        /\ rows' = Replaced(kept)
        /\ hist' = Counted(r)
        /\ Remember(r)
        /\ UNCHANGED <<stops, told>>
     \/ /\ stop = "write" /\ kind \in FromRowAndFall /\ r.resets # Null
        /\ rows' = Replaced(half)
        /\ lastReset' = r.resets
        /\ stops' = stops + 1
        /\ UNCHANGED <<hist, last, hasLast, told>>

(* processQuota for a quota with or without an active row.                  *)
Process(r, stop, reset, renews, closed, kept, half) ==
  \/ OpenFirst(r, renews, stop)
  \/ Live /\ reset /\ CloseAndOpen(r, renews, closed, stop)
  \/ Live /\ ~reset /\ GoOn(r, kept, half, stop)

-------------------------------------------------------------------------------
(* A faulty comparison, with the reset time in memory.                      *)
RowResetFromMemory(r, tol) ==
  LongPassed(r) \/ Moved(lastReset, r, tol) \/ Appeared(r)

(* One definition per tracker.  Anthropic and Cursor: the row's reset time  *)
(* has passed by the grace, or moved by more than the tolerance, or appears.*)
RowReset(r, tol) == LongPassed(r) \/ Moved(Cycle.renews, r, tol) \/ Appeared(r)

AnthropicProcess(r, stop) ==
  /\ kind = "anthropic"
  /\ Process(r, stop, RowReset(r, Tolerance), r.resets, ClosedWith(r),
             Updated(r), Cycle)

CursorProcess(r, stop) ==
  /\ kind = "cursor"
  /\ Process(r, stop, RowReset(r, Tolerance), r.resets, ClosedWith(r),
             Updated(r), Cycle)

(* OpenCode: a passed reset time counts only if the one reported is not     *)
(* ahead of the poll; otherwise it has to move by the larger tolerance.     *)
OpenCodeProcess(r, stop) ==
  LET ahead == r.resets # Null /\ r.resets > r.at
      reset == \/ LongPassed(r) /\ ~ahead
               \/ Moved(Cycle.renews, r, Shift)
               \/ Appeared(r)
  IN /\ kind = "opencode"
     /\ Process(r, stop, reset, r.resets, ClosedWith(r), Updated(r), Cycle)

(* Z.ai tokens: any change of the reset time is a reset.                    *)
ZaiTokensProcess(r, stop) ==
  /\ kind = "zaitokens"
  /\ Process(r, stop, RowReset(r, 0), r.resets, ClosedWith(r), Updated(r), Cycle)

(* Codex and Gemini: a reset time that moves is a reset only if usage falls *)
(* by more than two points; else the row takes the new reset time, and its  *)
(* statistics - which are left alone if Process has succeeded before but    *)
(* not with this quota.                                                     *)
ShiftAndFall(r) ==
  LET from == IF lastReset # Null THEN lastReset ELSE Cycle.renews
  IN Cycle.renews # Null /\ Moved(from, r, Shift) /\ Known /\ r.used + Margin < last

RolledTo(r) == IF r.resets = Null THEN Cycle ELSE [Cycle EXCEPT !.renews = r.resets]

RollingKept(r) ==
  IF hasLast /\ last = Null THEN RolledTo(r)
  ELSE [RolledTo(r) EXCEPT !.peak = Updated(r).peak, !.delta = Updated(r).delta]

CodexProcess(r, stop) ==
  /\ kind = "codex"
  /\ Process(r, stop, LongPassed(r) \/ ShiftAndFall(r), r.resets, ClosedWith(r),
             RollingKept(r), RolledTo(r))

GeminiProcess(r, stop) ==
  /\ kind = "gemini"
  /\ Process(r, stop, LongPassed(r) \/ ShiftAndFall(r), r.resets, ClosedWith(r),
             RollingKept(r), RolledTo(r))

(* Copilot: the reset date differs from the remembered one, or the row's    *)
(* has passed and usage fell.                                               *)
CopilotProcess(r, stop) ==
  LET reset == \/ Moved(lastReset, r, 0)
               \/ Passed(r) /\ last # Null /\ r.used < last
  IN /\ kind = "copilot"
     /\ Process(r, stop, reset, r.resets, Closed(EndOf(r)), Updated(r), Cycle)

(* Antigravity: the remembered reset time moved, or usage fell by more than *)
(* ten points, or fell at all once the row's reset time has passed.         *)
AntigravityProcess(r, stop) ==
  LET reset == \/ Moved(lastReset, r, Tolerance)
               \/ Known /\ r.used + Drop < last
               \/ Passed(r) /\ last # Null /\ r.used < last
  IN /\ kind = "antigravity"
     /\ Process(r, stop, reset, r.resets, Closed(EndOf(r)), Updated(r), Cycle)

(* MiniMax: the remembered reset time moved, or usage fell below 60%.       *)
MiniMaxProcess(r, stop) ==
  LET reset == \/ Moved(lastReset, r, Tolerance)
               \/ Known /\ last > 0 /\ r.used < (6 * last) \div 10
  IN /\ kind = "minimax"
     /\ Process(r, stop, reset, r.resets, Closed(EndOf(r)), Updated(r), Cycle)

Halved(r) == Known /\ last > 0 /\ 2 * r.used < last

(* Kimi: usage halved, or the remembered reset time moved ahead by more     *)
(* than a minute and usage is low or fell.  The row is not written between  *)
(* resets, and ends at the poll.                                            *)
KimiProcess(r, stop) ==
  LET ahead == lastReset # Null /\ r.resets # Null /\ r.resets > lastReset + Minute
      reset == Halved(r) \/ (ahead /\ (r.used < Low \/ (Known /\ r.used < last)))
  IN /\ kind = "kimi"
     /\ Process(r, stop, reset, r.resets, Closed(r.at), Cycle, Cycle)

(* Grok: usage halved; the row is not written between resets either.        *)
GrokProcess(r, stop) ==
  /\ kind = "grok"
  /\ Process(r, stop, Halved(r), Null, Closed(r.at), Cycle, Cycle)

ZaiTimeProcess(r, stop) ==
  /\ kind = "zaitime"
  /\ Process(r, stop, Halved(r), Null, Closed(r.at), Updated(r), Cycle)

OpenRouterProcess(r, stop) ==
  /\ kind = "openrouter"
  /\ Process(r, stop, Halved(r), Null, Closed(r.at), Updated(r), Cycle)

(* A faulty top-up: a balance of zero never grows by half.                  *)
ToppedUpFromSome(r) == Known /\ last > 0 /\ 2 * r.used >= 3 * last

(* DeepSeek and Moonshot: the balance grew by half, or from nothing.        *)
ToppedUp(r) ==
  Known /\ IF last = 0 THEN r.used > 0 ELSE 2 * r.used >= 3 * last

DeepSeekProcess(r, stop) ==
  /\ kind = "deepseek"
  /\ Process(r, stop, ToppedUp(r), Null, Closed(r.at), Updated(r), Cycle)

MoonshotProcess(r, stop) ==
  /\ kind = "moonshot"
  /\ Process(r, stop, ToppedUp(r), Null, Closed(r.at), Updated(r), Cycle)

AnyProcess(r, stop) ==
  \/ AnthropicProcess(r, stop) \/ CursorProcess(r, stop)
  \/ OpenCodeProcess(r, stop) \/ ZaiTokensProcess(r, stop)
  \/ CodexProcess(r, stop) \/ GeminiProcess(r, stop)
  \/ CopilotProcess(r, stop) \/ AntigravityProcess(r, stop)
  \/ MiniMaxProcess(r, stop) \/ KimiProcess(r, stop) \/ GrokProcess(r, stop)
  \/ ZaiTimeProcess(r, stop) \/ OpenRouterProcess(r, stop)
  \/ DeepSeekProcess(r, stop) \/ MoonshotProcess(r, stop)

-------------------------------------------------------------------------------
Later == {t \in PollTimes : t > now}

Poll ==
  /\ polls < MaxPolls
  /\ polls' = polls + 1
  /\ \E t \in Later, x \in Wins, u \in Values :
       /\ Running(x, t) /\ Follows(x, u)
       /\ now' = t /\ win' = x /\ used' = u
       /\ \E r \in Readings(t, x, u),
             stop \in {"none"} \cup
                      (IF stops < MaxStops THEN {"create", "peak", "write"} ELSE {}) :
            AnyProcess(r, stop)
  /\ UNCHANGED <<kind, skew, restarts>>

(* A snapshot without this quota: Process succeeds with the others.  MiniMax *)
(* closes the rows of models that are gone, without a word to anyone; that  *)
(* UPDATE may fail, which is logged.                                        *)
PollWithout ==
  /\ kind \in {"anthropic", "cursor", "opencode", "codex", "gemini", "copilot",
               "antigravity", "minimax"}
  /\ polls < MaxPolls
  /\ polls' = polls + 1
  /\ \E t \in Later :
       /\ now' = t
       /\ IF kind = "minimax"
            THEN /\ Live
                 /\ rows' = Replaced(Closed(t))
                 /\ hist' = [hist EXCEPT ![Len(hist)].cut = TRUE]
                 /\ UNCHANGED hasLast
            ELSE hasLast' = TRUE /\ UNCHANGED <<rows, hist>>
  /\ UNCHANGED <<kind, skew, win, used, last, lastReset, stops, restarts, told>>

(* The daemon is started again: a new tracker, whose maps are empty.        *)
Restart ==
  /\ restarts < MaxRestarts
  /\ restarts' = restarts + 1
  /\ last' = Null /\ lastReset' = Null /\ hasLast' = FALSE
  /\ hist' = IF Live THEN [hist EXCEPT ![Len(hist)].reborn = TRUE] ELSE hist
  /\ UNCHANGED <<kind, skew, now, win, used, rows, polls, stops, told>>

Next == Poll \/ PollWithout \/ Restart

Spec == Init /\ [][Next]_vars

-------------------------------------------------------------------------------
RowType ==
  [start : Times, end : Times \cup {Null}, renews : Times \cup {Null},
   peak : Nat, delta : Nat]

TypeOK ==
  /\ kind \in Kinds /\ skew \in Skews /\ now \in Times /\ win \in Wins /\ used \in Values
  /\ rows \in Seq(RowType) /\ Len(hist) = Len(rows)
  /\ last \in Values \cup {Null} /\ lastReset \in Times \cup {Null}
  /\ hasLast \in BOOLEAN
  /\ polls \in 0..MaxPolls /\ stops \in 0..MaxStops /\ restarts \in 0..MaxRestarts
  /\ told \in [Wins -> Nat]

(* How far the reset time of one window may move between two polls without  *)
(* being taken for a reset: Z.ai tokens and Copilot take any difference for *)
(* one (zai_tracker.go:120, copilot_tracker.go:112), Kimi more than a       *)
(* minute (kimi_tracker.go:110), the others more than their tolerance.      *)
Bearable ==
  CASE kind \in {"zaitokens", "copilot"} -> 0
    [] kind = "kimi" -> Minute
    [] OTHER -> Tolerance

JitterBorne == 2 * skew.jitter <= Bearable

(* A tracker whose upstream is as exact as it needs never splits a window:  *)
(* whatever the lag at a reset, restarts and statements that failed, the    *)
(* readings of one window are not counted in two rows.  (MiniMax may cut    *)
(* one short when the model leaves the plan.)  Without that premise no run  *)
(* states NeverSplit or NeverToldTwice: the README says who fails them.     *)
NeverSplit ==
  \A i, j \in DOMAIN rows :
    (i < j /\ ~hist[i].cut) => hist[i].wins \cap hist[j].wins = {}

OneCyclePerWindow == JitterBorne => NeverSplit

(* "even if app was offline" (anthropic_tracker.go:93): trackers that       *)
(* compare with the row never count the readings of two windows in one row, *)
(* however long nobody polled and whenever the daemon was restarted.        *)
OneWindowPerCycle ==
  kind \in FromRow => \A i \in DOMAIN rows : Cardinality(hist[i].wins) <= 1

(* Trackers that compare reset times in memory merge two windows only if    *)
(* the daemon was restarted while the row was active - or, with Copilot, if *)
(* a reading without reset time overwrote the one in memory.                *)
MergedOnlyAcrossRestart ==
  kind \in FromMemory =>
    \A i \in DOMAIN rows :
      Cardinality(hist[i].wins) > 1 =>
        hist[i].reborn \/ (kind = "copilot" /\ hist[i].idle)

(* No tracker goes on with a row when the reading changed in the way that   *)
(* only a new window explains (Sharp), unless it was restarted in between - *)
(* or it is Codex, Gemini or Copilot, which the one reading without reset   *)
(* time that showed the fall may have led past it.  A fall within the two   *)
(* points that Codex and Gemini leave to the upstream is not sharp: inside  *)
(* the grace they pass over it.                                             *)
SharpChangeSeen ==
  \A i \in DOMAIN rows :
    hist[i].fell =>
      \/ hist[i].reborn
      \/ kind \in FromRowAndFall \cup {"copilot"} /\ hist[i].idle

(* onReset is called at most once for a window by a tracker whose upstream  *)
(* is as exact as it needs, also when the statements around it failed and   *)
(* the next poll finds the same reset again.                                *)
NeverToldTwice == \A x \in Wins : told[x] <= 1

AnnouncedOnce == JitterBorne => NeverToldTwice

(* Whatever a tracker decides and whichever statement fails, the table it   *)
(* leaves is a cycle log: createCycle, closeCycle and updateCycle are never *)
(* called in an order that reopens, overlaps or rewrites a cycle.           *)
Entries(s) ==
  [i \in DOMAIN s |-> [start |-> s[i].start, end |-> s[i].end,
                       peak |-> s[i].peak, delta |-> s[i].delta]]

Log == INSTANCE CycleLog WITH log <- Entries(rows)

LogSpec == Log!Spec

(* grok_tracker.go:139-140: "for ongoing we just keep in memory.  On next   *)
(* reset the final peak/delta will be written."  The tracker does not do    *)
(* what its comment says: the row that ends keeps the peak it was opened    *)
(* with.  No run states it; the README says how to see it fail.            *)
FinalPeakWritten ==
  kind = "grok" =>
    \A i \in DOMAIN rows : rows[i].end # Null => rows[i].peak >= hist[i].top
=================================================================================
