------------------------- MODULE ProviderTrackers_proofs -------------------------
(***************************************************************************)
(* That every tracker of ProviderTrackers is well typed, leaves a cycle log *)
(* (CycleLog) and counts the upstream's windows right, for any readings,   *)
(* clock, jitter and number of polls, statements that fail and restarts.   *)
(***************************************************************************)
EXTENDS ProviderTrackers, SequenceTheorems, FiniteSetTheorems, TLAPS

(* A row that has ended did not end after the latest poll.                  *)
EndedBefore(s, t) ==
  s # <<>> /\ s[Len(s)].end # Null => s[Len(s)].end <= t

(* h is a sequence of n elements.                                           *)
OfLength(h, n) == DOMAIN h = 1..n /\ h = [i \in 1..n |-> h[i]]

(* The inductive invariant.                                                 *)
IInv ==
  /\ TypeOK
  /\ now \in PollTimes \cup {0}
  /\ OfLength(hist, Len(rows))
  /\ EndedBefore(rows, now)

-------------------------------------------------------------------------------
(* Facts of the constants.                                                  *)
LEMMA Measures == Margin \in Nat /\ Drop \in Nat /\ Low \in Nat /\ Minute \in Nat
BY TrackersAssumption DEF TrackersAssumption

LEMMA Numbers ==
  /\ Window \in Nat /\ Window # 0 /\ Shift \in Nat /\ Grace \in Nat
  /\ MaxUse \in Nat /\ MaxPolls \in Nat /\ MaxStops \in Nat /\ MaxRestarts \in Nat
  /\ \A t \in PollTimes : t \in Nat /\ t # 0
  /\ Null \notin Int
BY TrackersAssumption DEF TrackersAssumption

LEMMA SkewFacts ==
  ASSUME NEW s \in Skews
  PROVE  s.jitter \in Nat /\ s.lag \in Nat /\ Window > Shift + 2 * s.jitter
BY TrackersAssumption DEF TrackersAssumption

LEMMA TimesAreNat == Times \subseteq Nat
<1> SUFFICES ASSUME NEW t \in PollTimes, NEW n \in 0..(t + 2 * Window) PROVE n \in Nat
  BY DEF Times
<1> QED
  BY Numbers

LEMMA InTimes ==
  ASSUME NEW t \in PollTimes, NEW n \in Nat, n <= t + 2 * Window
  PROVE  n \in Times
<1>1. n \in 0..(t + 2 * Window)
  BY Numbers
<1> QED
  BY <1>1 DEF Times

LEMMA ZeroIsATime == 0 \in Times
<1>1. PICK t \in PollTimes : TRUE
  BY TrackersAssumption DEF TrackersAssumption
<1>2. 0 <= t + 2 * Window
  BY Numbers
<1> QED
  BY <1>2, InTimes

LEMMA WinsArePositive == Wins \subseteq Nat \ {0}
<1> SUFFICES ASSUME NEW t \in PollTimes, NEW x \in 1..(t \div Window + 1)
             PROVE  x \in Nat \ {0}
  BY DEF Wins
<1> QED
  OBVIOUS

LEMMA OneIsAWindow == 1 \in Wins
<1>1. PICK t \in PollTimes : TRUE
  BY TrackersAssumption DEF TrackersAssumption
<1>2. t \in Nat /\ Window \in Nat \ {0}
  BY Numbers
<1>3. t \div Window \in Nat
  BY <1>2
<1>4. 1 \in 1..(t \div Window + 1)
  BY <1>3
<1> QED
  BY <1>4 DEF Wins

(* A window begins Window before it ends.                                   *)
LEMMA WindowLength ==
  ASSUME NEW x \in Nat, x # 0, NEW w \in Nat, w # 0
  PROVE  x * w \in Nat /\ (x - 1) * w = x * w - w /\ x * w >= w
OBVIOUS

-------------------------------------------------------------------------------
(* Sequences of rows.                                                       *)
LEMMA LastRow ==
  ASSUME NEW s \in Seq(RowType), s # <<>>
  PROVE  /\ Len(s) \in Nat /\ Len(s) # 0 /\ DOMAIN s = 1..Len(s)
         /\ Len(s) \in DOMAIN s /\ s[Len(s)] \in RowType
<1>1. Len(s) \in Nat /\ Len(s) # 0 /\ DOMAIN s = 1..Len(s)
  BY EmptySeq, LenProperties
<1>2. Len(s) \in DOMAIN s
  BY <1>1
<1> QED
  BY <1>1, <1>2, ElementOfSeq

LEMMA ReplacedRows ==
  ASSUME NEW s \in Seq(RowType), s # <<>>, NEW row \in RowType,
         NEW n, n = Len(s)
  PROVE  LET u == [s EXCEPT ![n] = row]
         IN /\ u \in Seq(RowType) /\ Len(u) = Len(s) /\ u # <<>>
            /\ u[n] = row
            /\ \A i \in 1..(n - 1) : u[i] = s[i]
<1>1. n \in 1..Len(s) /\ n \in Nat /\ DOMAIN s = 1..n
  BY LastRow
<1> DEFINE u == [s EXCEPT ![n] = row]
<1>2. u \in Seq(RowType) /\ Len(u) = Len(s) /\ u[n] = row
      /\ \A i \in 1..Len(s) : i # n => u[i] = s[i]
  BY <1>1, ExceptSeq
<1>3. u # <<>>
  BY <1>1, <1>2, LastRow, EmptySeq
<1> HIDE DEF u
<1>4. \A i \in 1..(n - 1) : u[i] = s[i]
  BY <1>1, <1>2
<1> QED
  BY <1>2, <1>3, <1>4 DEF u

LEMMA AppendedRows ==
  ASSUME NEW s \in Seq(RowType), NEW row \in RowType
  PROVE  LET u == Append(s, row)
         IN /\ u \in Seq(RowType) /\ Len(u) = Len(s) + 1 /\ u # <<>>
            /\ u[Len(u)] = row
            /\ \A i \in 1..Len(s) : u[i] = s[i]
<1>1. Len(s) \in Nat
  BY LenProperties
<1> DEFINE u == Append(s, row)
<1>2. u \in Seq(RowType) /\ Len(u) = Len(s) + 1 /\ u[Len(s) + 1] = row
      /\ \A i \in 1..Len(s) : u[i] = s[i]
  BY AppendProperties
<1> HIDE DEF u
<1>3. u # <<>>
  BY <1>1, <1>2, EmptySeq
<1> QED
  BY <1>2, <1>3 DEF u

(* The entries of the log are the rows without their renewal.               *)
LEMMA EntriesOf ==
  ASSUME NEW s \in Seq(RowType)
  PROVE  /\ DOMAIN Entries(s) = 1..Len(s) /\ Len(Entries(s)) = Len(s)
         /\ (Entries(s) = <<>> <=> s = <<>>)
         /\ \A i \in 1..Len(s) :
              /\ Entries(s)[i] \in Log!Entry
              /\ Entries(s)[i].start = s[i].start /\ Entries(s)[i].end = s[i].end
              /\ Entries(s)[i].peak = s[i].peak /\ Entries(s)[i].delta = s[i].delta
<1>1. Len(s) \in Nat /\ DOMAIN s = 1..Len(s) /\ \A i \in 1..Len(s) : s[i] \in RowType
  BY LenProperties, ElementOfSeq
<1>2. \A i \in 1..Len(s) :
        Entries(s)[i] = [start |-> s[i].start, end |-> s[i].end,
                         peak |-> s[i].peak, delta |-> s[i].delta]
  BY <1>1 DEF Entries
<1>3. \A i \in 1..Len(s) : Entries(s)[i] \in Log!Entry
  <2> SUFFICES ASSUME NEW i \in 1..Len(s) PROVE Entries(s)[i] \in Log!Entry
    OBVIOUS
  <2>1. s[i] \in RowType
    BY <1>1
  <2>2. s[i].start \in Times /\ s[i].end \in Times \cup {Null}
        /\ s[i].peak \in Nat /\ s[i].delta \in Nat
    BY <2>1 DEF RowType
  <2> DEFINE e == [start |-> s[i].start, end |-> s[i].end,
                   peak |-> s[i].peak, delta |-> s[i].delta]
  <2>3. e \in Log!Entry
    BY <2>2 DEF Log!Entry
  <2>4. Entries(s)[i] = e
    BY <1>2
  <2> HIDE DEF e
  <2> QED
    BY <2>3, <2>4
<1>4. Entries(s) \in [1..Len(s) -> Log!Entry]
  BY <1>1, <1>2, <1>3 DEF Entries
<1>5. Entries(s) \in Seq(Log!Entry)
  BY <1>1, <1>4, SeqDef
<1>6. DOMAIN Entries(s) = 1..Len(s) /\ Len(Entries(s)) = Len(s)
  BY <1>1, <1>4, <1>5, LenProperties
<1>7. (Entries(s) = <<>> <=> s = <<>>)
  <2>1. s = <<>> <=> Len(s) = 0
    BY EmptySeq
  <2>2. Entries(s) = <<>> <=> Len(Entries(s)) = 0
    BY <1>5, EmptySeq
  <2> QED
    BY <1>6, <2>1, <2>2
<1> QED
  BY <1>2, <1>3, <1>6, <1>7

-------------------------------------------------------------------------------
(* What a tracker may make of the active row.                               *)
Continues(row) ==
  /\ row \in RowType
  /\ row.start = Cycle.start /\ row.peak >= Cycle.peak /\ row.delta >= Cycle.delta

(* What a step has to do for it to be one of the log.                       *)
LogStep == Log!Next \/ UNCHANGED Entries(rows)

LEMMA LiveRow ==
  ASSUME rows \in Seq(RowType), Live
  PROVE  /\ rows # <<>> /\ Len(rows) \in Nat /\ Len(rows) # 0
         /\ rows[Len(rows)] = Cycle /\ Cycle \in RowType /\ Cycle.end = Null
BY LastRow DEF Live, Cycle

LEMMA OpenIsALogStep ==
  ASSUME rows \in Seq(RowType), EndedBefore(rows, now), now \in Nat, ~Live,
         NEW row \in RowType, row.end = Null, now <= row.start,
         rows' = Append(rows, row)
  PROVE  /\ rows' \in Seq(RowType) /\ Len(rows') = Len(rows) + 1
         /\ rows' # <<>> /\ rows'[Len(rows')].end = Null
         /\ Log!Open
<1> DEFINE u == Append(rows, row)
           n == Len(rows)
<1>1. /\ u \in Seq(RowType) /\ Len(u) = n + 1 /\ u # <<>>
      /\ u[Len(u)] = row /\ u[n + 1] = row
      /\ \A i \in 1..n : u[i] = rows[i]
  BY AppendedRows
<1>2. n \in Nat /\ (rows = <<>> <=> n = 0)
  BY EmptySeq, LenProperties
<1>3. rows' = u
  OBVIOUS
<1> HIDE DEF u
<1> DEFINE E == Entries(rows)
           F == Entries(u)
<1>4. /\ Len(E) = n /\ (E = <<>> <=> rows = <<>>)
      /\ \A i \in 1..n : E[i] \in Log!Entry /\ E[i].end = rows[i].end
  BY EntriesOf
<1>5. /\ Len(F) = n + 1 /\ F[n + 1] \in Log!Entry
      /\ F[n + 1].end = Null /\ F[n + 1].start = row.start
  BY <1>1, <1>2, EntriesOf
<1>6. \A i \in 1..n : F[i] = E[i]
  <2> SUFFICES ASSUME NEW i \in 1..n PROVE F[i] = E[i]
    OBVIOUS
  <2>1. i \in DOMAIN u /\ i \in DOMAIN rows
    BY <1>1, <1>2, LenProperties
  <2> QED
    BY <1>1, <2>1 DEF Entries
<1>7. rows # <<>> => rows[n].end # Null /\ rows[n].end <= now
  BY DEF Live, EndedBefore
<1>8. rows # <<>> => E[n].end # Null /\ E[n].end <= row.start
  <2> SUFFICES ASSUME rows # <<>> PROVE E[n].end # Null /\ E[n].end <= row.start
    OBVIOUS
  <2>1. E[n].end = rows[n].end /\ E[n].end # Null /\ E[n].end <= now
    BY <1>2, <1>4, <1>7
  <2>2. E[n].end \in Nat /\ row.start \in Nat
    <3>1. E[n].end \in Times
      BY <1>2, <1>4, <2>1 DEF Log!Entry
    <3> QED
      BY <3>1, TimesAreNat DEF RowType
  <2> QED
    BY <2>1, <2>2
<1> HIDE DEF E, F
<1>9. ~Log!IsOpen(E)
  BY <1>4, <1>8 DEF Log!IsOpen, Log!Newest
<1>10. Len(F) = Len(E) + 1 /\ \A i \in 1..Len(E) : F[i] = E[i]
  BY <1>4, <1>5, <1>6
<1>11. Log!Newest(F) \in Log!Entry /\ Log!Newest(F).end = Null
  BY <1>5 DEF Log!Newest
<1>12. E # <<>> => Log!Newest(E).end <= Log!Newest(F).start
  BY <1>4, <1>5, <1>8 DEF Log!Newest
<1>13. Log!Open
  BY <1>3, <1>9, <1>10, <1>11, <1>12 DEF Log!Open, Log!Keeps, E, F
<1> QED
  BY <1>1, <1>3, <1>13

(* The entries when the active row goes on or ends.                         *)
LEMMA ReplacedEntries ==
  ASSUME rows \in Seq(RowType), Live, NEW row, Continues(row)
  PROVE  LET u == Replaced(row)
             n == Len(rows)
         IN /\ u \in Seq(RowType) /\ Len(u) = n /\ u # <<>> /\ u[n] = row
            /\ Len(Entries(rows)) = n /\ Len(Entries(u)) = n
            /\ Log!IsOpen(Entries(rows))
            /\ \A i \in 1..(n - 1) : Entries(u)[i] = Entries(rows)[i]
            /\ Entries(u)[n].end = row.end
            /\ Log!Grown(Entries(rows)[n], Entries(u)[n])
<1> DEFINE u == Replaced(row)
           n == Len(rows)
           E == Entries(rows)
           F == Entries(u)
<1>1. /\ n \in Nat /\ n # 0 /\ rows # <<>> /\ rows[n] = Cycle
      /\ Cycle \in RowType /\ Cycle.end = Null
  BY LiveRow
<1>2. row \in RowType
  BY DEF Continues
<1>3. /\ u \in Seq(RowType) /\ Len(u) = n /\ u # <<>> /\ u[n] = row
      /\ \A i \in 1..(n - 1) : u[i] = rows[i]
  BY <1>1, <1>2, ReplacedRows DEF Replaced
<1> HIDE DEF u
<1>4. Len(E) = n /\ (E = <<>> <=> rows = <<>>) /\ E[n].end = rows[n].end
      /\ E[n].start = rows[n].start /\ E[n].peak = rows[n].peak
      /\ E[n].delta = rows[n].delta
  BY <1>1, EntriesOf
<1>5. Len(F) = n /\ F[n].end = row.end /\ F[n] \in Log!Entry
      /\ F[n].start = row.start /\ F[n].peak = row.peak /\ F[n].delta = row.delta
  BY <1>1, <1>3, EntriesOf
<1>6. Log!IsOpen(E)
  BY <1>1, <1>4 DEF Log!IsOpen, Log!Newest
<1>7. \A i \in 1..(n - 1) : F[i] = E[i]
  <2> SUFFICES ASSUME NEW i \in 1..(n - 1) PROVE F[i] = E[i]
    OBVIOUS
  <2>1. i \in DOMAIN u /\ i \in DOMAIN rows
    BY <1>1, <1>3, LenProperties
  <2> QED
    BY <1>3, <2>1 DEF Entries
<1>8. Log!Grown(E[n], F[n])
  BY <1>1, <1>4, <1>5 DEF Log!Grown, Continues
<1> QED
  BY <1>3, <1>4, <1>5, <1>6, <1>7, <1>8 DEF u

LEMMA WriteIsALogStep ==
  ASSUME rows \in Seq(RowType), Live, NEW row, Continues(row),
         rows' = Replaced(row)
  PROVE  /\ rows' \in Seq(RowType) /\ Len(rows') = Len(rows)
         /\ rows' # <<>> /\ rows'[Len(rows')] = row
         /\ Log!Write
<1> DEFINE E == Entries(rows)
           F == Entries(rows')
           n == Len(rows)
<1>1. /\ rows' \in Seq(RowType) /\ Len(rows') = n /\ rows' # <<>> /\ rows'[n] = row
      /\ Len(E) = n /\ Len(F) = n /\ Log!IsOpen(E)
      /\ \A i \in 1..(n - 1) : F[i] = E[i]
      /\ Log!Grown(E[n], F[n])
  BY ReplacedEntries
<1> HIDE DEF E, F
<1>2. Log!Write
  BY <1>1 DEF Log!Write, Log!Keeps, Log!Newest, E, F
<1> QED
  BY <1>1, <1>2

LEMMA RollIsALogStep ==
  ASSUME rows \in Seq(RowType), Live, NEW closed, Continues(closed), closed.end # Null,
         NEW row \in RowType, row.end = Null, closed.end <= row.start,
         rows' = Append(Replaced(closed), row)
  PROVE  /\ rows' \in Seq(RowType) /\ Len(rows') = Len(rows) + 1
         /\ rows' # <<>> /\ rows'[Len(rows')].end = Null
         /\ Log!Roll
<1> DEFINE v == Replaced(closed)
           u == Append(v, row)
           n == Len(rows)
           E == Entries(rows)
           V == Entries(v)
           F == Entries(u)
<1>1. n \in Nat /\ n # 0
  BY LiveRow
<1>2. /\ v \in Seq(RowType) /\ Len(v) = n
      /\ Len(E) = n /\ Len(V) = n /\ Log!IsOpen(E)
      /\ \A i \in 1..(n - 1) : V[i] = E[i]
      /\ V[n].end = closed.end
      /\ Log!Grown(E[n], V[n])
  BY ReplacedEntries
<1> HIDE DEF v
<1>3. /\ u \in Seq(RowType) /\ Len(u) = n + 1 /\ u # <<>> /\ u[n + 1] = row
      /\ \A i \in 1..n : u[i] = v[i]
  BY <1>2, AppendedRows
<1>4. rows' = u
  BY DEF v
<1> HIDE DEF u
<1>5. \A i \in 1..n : F[i] = V[i]
  <2> SUFFICES ASSUME NEW i \in 1..n PROVE F[i] = V[i]
    OBVIOUS
  <2>1. i \in DOMAIN u /\ i \in DOMAIN v
    BY <1>1, <1>2, <1>3, LenProperties
  <2> QED
    BY <1>3, <2>1 DEF Entries
<1>6. /\ Len(F) = n + 1 /\ F[n + 1] \in Log!Entry
      /\ F[n + 1].end = Null /\ F[n + 1].start = row.start
  BY <1>1, <1>3, EntriesOf
<1> HIDE DEF E, V, F
<1>7. F[n] = V[n] /\ \A i \in 1..(n - 1) : F[i] = E[i]
  <2>1. n \in 1..n /\ \A i \in 1..(n - 1) : i \in 1..n
    BY <1>1
  <2>2. \A i \in 1..(n - 1) : V[i] = E[i]
    BY <1>2
  <2> HIDE DEF n
  <2> QED
    BY <1>5, <2>1, <2>2
<1>8. Log!Grown(E[n], F[n]) /\ F[n].end = closed.end
  BY <1>2, <1>7
<1>9. Log!Roll
  BY <1>2, <1>4, <1>6, <1>7, <1>8 DEF Log!Roll, Log!Keeps, Log!Newest, E, F
<1> QED
  BY <1>3, <1>4, <1>9

-------------------------------------------------------------------------------
(* The history has an element per row.                                      *)
LEMMA LengthIs ==
  ASSUME NEW h, NEW n \in Nat, OfLength(h, n)
  PROVE  h \in Seq({h[i] : i \in 1..n}) /\ Len(h) = n
<1> DEFINE S == {h[i] : i \in 1..n}
<1>1. [i \in 1..n |-> h[i]] \in [1..n -> S]
  OBVIOUS
<1>2. h \in [1..n -> S] /\ DOMAIN h = 1..n
  BY <1>1 DEF OfLength
<1> HIDE DEF S
<1>3. h \in Seq(S)
  BY <1>2, SeqDef
<1>4. Len(h) = n
  BY <1>2, <1>3, LenProperties
<1> QED
  BY <1>3, <1>4 DEF S

LEMMA OfLengthAppend ==
  ASSUME NEW h, NEW n \in Nat, OfLength(h, n), NEW x
  PROVE  OfLength(Append(h, x), n + 1)
<1> DEFINE S == {h[i] : i \in 1..n} \cup {x}
           g == Append(h, x)
<1>1. h \in Seq({h[i] : i \in 1..n}) /\ Len(h) = n
  BY LengthIs
<1>2. h \in Seq(S)
  <2>1. h \in [1..n -> S]
    BY DEF OfLength
  <2> HIDE DEF S
  <2> QED
    BY <2>1, SeqDef
<1>3. x \in S
  OBVIOUS
<1> HIDE DEF S
<1>4. g \in Seq(S) /\ Len(g) = n + 1
  BY <1>1, <1>2, <1>3, AppendProperties
<1> HIDE DEF g
<1>5. g \in [1..(n + 1) -> S]
  BY <1>4, LenProperties
<1>6. OfLength(g, n + 1)
  BY <1>5 DEF OfLength
<1> QED
  BY <1>6 DEF g

LEMMA OfLengthExcept ==
  ASSUME NEW h, NEW n \in Nat, OfLength(h, n), NEW m, NEW x
  PROVE  OfLength([h EXCEPT ![m] = x], n)
BY DEF OfLength

-------------------------------------------------------------------------------
(* What a poll reports.                                                     *)
Reported(r) ==
  /\ r.at \in PollTimes /\ now < r.at
  /\ r.used \in Values
  /\ r.resets \in Times \cup {Null}

LEMMA JitterFacts ==
  ASSUME TypeOK
  PROVE  Jitter \in Nat /\ Window > 2 * Jitter
<1>1. skew.jitter \in Nat /\ Window > Shift + 2 * skew.jitter
  BY SkewFacts DEF TypeOK
<1>2. Window \in Nat /\ Window # 0 /\ Shift \in Nat
  BY Numbers
<1> QED
  BY <1>1, <1>2 DEF Jitter

LEMMA ReadingIsReported ==
  ASSUME IInv, NEW t \in Later, NEW x \in Wins, NEW u \in Values, Running(x, t),
         NEW r \in Readings(t, x, u)
  PROVE  Reported(r) /\ r.at = t /\ r.win = x /\ r.used = u
<1>1. PICK e \in ResetTimes(x, u) : r = [at |-> t, win |-> x, used |-> u, resets |-> e]
  BY DEF Readings
<1>2. r.at = t /\ r.win = x /\ r.used = u /\ r.resets = e
  BY <1>1
<1>3. t \in PollTimes /\ now < t
  BY DEF Later
<1>4. e \in Times \cup {Null}
  <2> SUFFICES ASSUME NEW j \in (-Jitter)..Jitter PROVE x * Window + j \in Times
    BY DEF ResetTimes
  <2>1. Jitter \in Nat /\ Window > 2 * Jitter /\ Window \in Nat /\ Window # 0 /\ t \in Nat
    BY <1>3, JitterFacts, Numbers DEF IInv
  <2>2. x \in Nat /\ x # 0
    BY WinsArePositive
  <2>3. /\ x * Window \in Nat /\ (x - 1) * Window = x * Window - Window
        /\ x * Window >= Window
    BY <2>1, <2>2, WindowLength
  <2>4. (x - 1) * Window <= t
    BY DEF Running
  <2> DEFINE w == x * Window
  <2>5. w - Window <= t /\ w \in Nat /\ w >= Window
    BY <2>3, <2>4
  <2> HIDE DEF w
  <2>6. w + j \in Nat /\ w + j <= t + 2 * Window
    BY <2>1, <2>5
  <2>7. w + j \in Times
    BY <1>3, <2>6, InTimes
  <2> QED
    BY <2>7 DEF w
<1> QED
  BY <1>2, <1>3, <1>4 DEF Reported

LEMMA RowIsTyped ==
  ASSUME NEW r, Reported(r), NEW renews \in Times \cup {Null}, NEW p \in Nat
  PROVE  /\ Row(r.at, renews, p) \in RowType
         /\ Row(r.at, renews, p).end = Null /\ Row(r.at, renews, p).start = r.at
<1>1. r.at \in Times
  <2>1. r.at \in PollTimes /\ r.at \in Nat /\ r.at <= r.at + 2 * Window
    BY Numbers DEF Reported
  <2> QED
    BY <2>1, InTimes
<1> QED
  BY <1>1 DEF Row, RowType

-------------------------------------------------------------------------------
(* What a step of a tracker keeps of the invariant: the memory, ...         *)
MemoryTyped ==
  /\ last \in Values \cup {Null} /\ lastReset \in Times \cup {Null}
  /\ hasLast \in BOOLEAN
  /\ stops \in 0..MaxStops /\ told \in [Wins -> Nat]

(* ... the rows, their history, and that the step is one of the log.        *)
RowsKept ==
  /\ LogStep
  /\ rows' \in Seq(RowType) /\ OfLength(hist', Len(rows'))
  /\ EndedBefore(rows', now')

MayStop(stop) == stop = "none" \/ stops < MaxStops

LEMMA RememberTyped ==
  ASSUME IInv, NEW r, Reported(r), Remember(r)
  PROVE  /\ last' \in Values \cup {Null} /\ lastReset' \in Times \cup {Null}
         /\ hasLast' \in BOOLEAN
BY DEF Remember, Reported, IInv, TypeOK

LEMMA AnnounceTyped ==
  ASSUME IInv, NEW r, Announce(r)
  PROVE  told' \in [Wins -> Nat]
BY DEF Announce, IInv, TypeOK

LEMMA StopTyped ==
  ASSUME IInv, NEW stop, stop # "none", MayStop(stop), Stop
  PROVE  MemoryTyped'
<1>1. stops' \in 0..MaxStops
  BY Numbers DEF Stop, MayStop, IInv, TypeOK
<1> QED
  BY <1>1 DEF Stop, memory, MemoryTyped, IInv, TypeOK

LEMMA UntouchedTyped ==
  ASSUME IInv
  PROVE  /\ UNCHANGED stops => stops' \in 0..MaxStops
         /\ UNCHANGED told => told' \in [Wins -> Nat]
         /\ UNCHANGED hasLast => hasLast' \in BOOLEAN
         /\ UNCHANGED last => last' \in Values \cup {Null}
         /\ UNCHANGED lastReset => lastReset' \in Times \cup {Null}
BY DEF IInv, TypeOK

LEMMA InvFacts ==
  ASSUME IInv
  PROVE  /\ rows \in Seq(RowType) /\ Len(rows) \in Nat /\ EndedBefore(rows, now)
         /\ now \in Nat
         /\ OfLength(hist, Len(rows)) /\ Len(hist) = Len(rows)
<1>1. rows \in Seq(RowType) /\ Len(rows) \in Nat
  BY LenProperties DEF IInv, TypeOK
<1>2. now \in Nat
  BY Numbers DEF IInv
<1> QED
  BY <1>1, <1>2 DEF IInv, TypeOK

(* Entering a row.                                                          *)
LEMMA EntersRow ==
  ASSUME IInv, ~Live, NEW r, Reported(r), now' = r.at,
         NEW renews \in Times \cup {Null}, NEW p \in Nat, NEW x,
         rows' = Append(rows, Row(r.at, renews, p)), hist' = Append(hist, x)
  PROVE  RowsKept
<1> DEFINE row == Row(r.at, renews, p)
<1>1. row \in RowType /\ row.end = Null /\ row.start = r.at
  BY RowIsTyped
<1>2. now <= row.start
  <2>1. r.at \in Nat /\ now \in Nat /\ now < r.at
    BY InvFacts, Numbers DEF Reported
  <2> QED
    BY <1>1, <2>1
<1> HIDE DEF row
<1>3. rows' = Append(rows, row)
  BY DEF row
<1>4. /\ rows' \in Seq(RowType) /\ Len(rows') = Len(rows) + 1
      /\ rows' # <<>> /\ rows'[Len(rows')].end = Null
      /\ Log!Open
  BY <1>1, <1>2, <1>3, InvFacts, OpenIsALogStep
<1>5. OfLength(hist', Len(rows'))
  BY <1>4, InvFacts, OfLengthAppend
<1> QED
  BY <1>4, <1>5 DEF RowsKept, LogStep, Log!Next, EndedBefore

(* Ending the active row and entering the next.                             *)
LEMMA RollsRow ==
  ASSUME IInv, Live, NEW r, Reported(r), now' = r.at,
         NEW renews \in Times \cup {Null}, NEW p \in Nat, NEW x,
         NEW closed, Continues(closed), closed.end # Null, closed.end <= r.at,
         rows' = Append(Replaced(closed), Row(r.at, renews, p)),
         hist' = Append(hist, x)
  PROVE  RowsKept
<1> DEFINE row == Row(r.at, renews, p)
<1>1. row \in RowType /\ row.end = Null /\ row.start = r.at
  BY RowIsTyped
<1> HIDE DEF row
<1>2. rows' = Append(Replaced(closed), row)
  BY DEF row
<1>3. closed.end <= row.start
  BY <1>1
<1>4. /\ rows' \in Seq(RowType) /\ Len(rows') = Len(rows) + 1
      /\ rows' # <<>> /\ rows'[Len(rows')].end = Null
      /\ Log!Roll
  BY <1>1, <1>2, <1>3, InvFacts, RollIsALogStep
<1>5. OfLength(hist', Len(rows'))
  BY <1>4, InvFacts, OfLengthAppend
<1> QED
  BY <1>4, <1>5 DEF RowsKept, LogStep, Log!Next, EndedBefore

(* Writing the active row.                                                  *)
LEMMA WritesRow ==
  ASSUME IInv, Live, NEW row, Continues(row), row.end # Null => row.end <= now',
         rows' = Replaced(row), OfLength(hist', Len(rows))
  PROVE  RowsKept
<1>1. /\ rows' \in Seq(RowType) /\ Len(rows') = Len(rows)
      /\ rows' # <<>> /\ rows'[Len(rows')] = row
      /\ Log!Write
  BY InvFacts, WriteIsALogStep
<1> QED
  BY <1>1 DEF RowsKept, LogStep, Log!Next, EndedBefore

-------------------------------------------------------------------------------
(* processQuota, by its three ways.                                         *)
LEMMA OpenFirstKeeps ==
  ASSUME IInv, NEW r, Reported(r), now' = r.at, NEW renews \in Times \cup {Null},
         NEW stop, MayStop(stop), OpenFirst(r, renews, stop)
  PROVE  RowsKept /\ MemoryTyped'
<1>1. ~Live /\ r.used \in Nat /\ 0 \in Nat
  BY Numbers DEF OpenFirst, Reported, Values
<1>2. CASE /\ stop = "none"
           /\ rows' = Append(rows, Row(r.at, renews, r.used))
           /\ hist' = Append(hist, Count(NoReadings, r))
           /\ Remember(r)
           /\ UNCHANGED <<stops, told>>
  <2>1. RowsKept
    BY <1>1, <1>2, EntersRow
  <2>2. MemoryTyped'
    BY <1>2, RememberTyped, UntouchedTyped DEF MemoryTyped
  <2> QED
    BY <2>1, <2>2
<1>3. CASE /\ stop = "peak"
           /\ rows' = Append(rows, Row(r.at, renews, 0))
           /\ hist' = Append(hist, NoReadings)
           /\ Stop
  <2>1. RowsKept
    BY <1>1, <1>3, EntersRow
  <2>2. MemoryTyped'
    BY <1>3, StopTyped
  <2> QED
    BY <2>1, <2>2
<1> QED
  BY <1>2, <1>3 DEF OpenFirst

LEMMA CloseAndOpenKeeps ==
  ASSUME IInv, Live, NEW r, Reported(r), now' = r.at, NEW renews \in Times \cup {Null},
         NEW closed, Continues(closed), closed.end # Null, closed.end <= r.at,
         NEW stop, MayStop(stop), CloseAndOpen(r, renews, closed, stop)
  PROVE  RowsKept /\ MemoryTyped'
<1>1. r.used \in Nat /\ 0 \in Nat
  BY Numbers DEF Reported, Values
<1>2. CASE /\ stop = "none"
           /\ rows' = Append(Replaced(closed), Row(r.at, renews, r.used))
           /\ hist' = Append(hist, Count(NoReadings, r))
           /\ Remember(r)
           /\ Announce(r)
           /\ UNCHANGED stops
  <2>1. RowsKept
    BY <1>1, <1>2, RollsRow
  <2>2. MemoryTyped'
    BY <1>2, RememberTyped, AnnounceTyped, UntouchedTyped DEF MemoryTyped
  <2> QED
    BY <2>1, <2>2
<1>3. CASE /\ stop = "create"
           /\ rows' = Replaced(closed)
           /\ UNCHANGED hist
           /\ Stop
  <2>1. OfLength(hist', Len(rows))
    BY <1>3, InvFacts
  <2>2. RowsKept
    BY <1>3, <2>1, WritesRow
  <2>3. MemoryTyped'
    BY <1>3, StopTyped
  <2> QED
    BY <2>2, <2>3
<1>4. CASE /\ stop = "peak"
           /\ rows' = Append(Replaced(closed), Row(r.at, renews, 0))
           /\ hist' = Append(hist, NoReadings)
           /\ Stop
  <2>1. RowsKept
    BY <1>1, <1>4, RollsRow
  <2>2. MemoryTyped'
    BY <1>4, StopTyped
  <2> QED
    BY <2>1, <2>2
<1> QED
  BY <1>2, <1>3, <1>4 DEF CloseAndOpen

LEMMA GoOnKeeps ==
  ASSUME IInv, Live, NEW r, Reported(r), now' = r.at,
         NEW kept, Continues(kept), kept.end = Null,
         NEW half, Continues(half), half.end = Null,
         NEW stop, MayStop(stop), GoOn(r, kept, half, stop)
  PROVE  RowsKept /\ MemoryTyped'
<1>1. CASE /\ stop = "none"
           /\ rows' = Replaced(kept)
           /\ hist' = Counted(r)
           /\ Remember(r)
           /\ UNCHANGED <<stops, told>>
  <2>1. OfLength(hist', Len(rows))
    BY <1>1, InvFacts, OfLengthExcept DEF Counted
  <2>2. RowsKept
    BY <1>1, <2>1, WritesRow
  <2>3. MemoryTyped'
    BY <1>1, RememberTyped, UntouchedTyped DEF MemoryTyped
  <2> QED
    BY <2>2, <2>3
<1>2. CASE /\ stop = "write" /\ r.resets # Null
           /\ rows' = Replaced(half)
           /\ lastReset' = r.resets
           /\ stops' = stops + 1
           /\ UNCHANGED <<hist, last, hasLast, told>>
  <2>1. OfLength(hist', Len(rows))
    BY <1>2, InvFacts
  <2>2. RowsKept
    BY <1>2, <2>1, WritesRow
  <2>3. stops' \in 0..MaxStops
    BY <1>2, Numbers DEF MayStop, IInv, TypeOK
  <2>4. lastReset' \in Times \cup {Null}
    BY <1>2 DEF Reported
  <2>5. MemoryTyped'
    BY <1>2, <2>3, <2>4, UntouchedTyped DEF MemoryTyped
  <2> QED
    BY <2>2, <2>5
<1> QED
  BY <1>1, <1>2 DEF GoOn

-------------------------------------------------------------------------------
(* What the trackers make of the active row.                                *)
LEMMA RowFields ==
  ASSUME NEW row \in RowType
  PROVE  /\ row.start \in Times /\ row.end \in Times \cup {Null}
         /\ row.renews \in Times \cup {Null} /\ row.peak \in Nat /\ row.delta \in Nat
BY DEF RowType

LEMMA NumbersOf ==
  ASSUME IInv, NEW r, Reported(r)
  PROVE  Rise(r) \in Nat /\ r.used \in Nat /\ r.at \in Nat
<1>1. r.used \in Nat /\ r.at \in Nat
  BY Numbers DEF Reported, Values
<1>2. last # Null => last \in Int
  BY Numbers DEF IInv, TypeOK, Values
<1>3. Rise(r) \in Nat
  BY <1>1, <1>2 DEF Rise, Known
<1> QED
  BY <1>1, <1>3

LEMMA CycleContinues ==
  ASSUME IInv, Live
  PROVE  Continues(Cycle) /\ Cycle.end = Null
<1>1. Cycle \in RowType /\ Cycle.end = Null
  BY InvFacts, LiveRow
<1> QED
  BY <1>1, RowFields DEF Continues

LEMMA UpdatedContinues ==
  ASSUME IInv, Live, NEW r, Reported(r)
  PROVE  Continues(Updated(r)) /\ Updated(r).end = Null
<1>1. Cycle \in RowType /\ Cycle.end = Null
  BY InvFacts, LiveRow
<1>2. Rise(r) \in Nat /\ r.used \in Nat /\ Cycle.peak \in Nat /\ Cycle.delta \in Nat
  BY <1>1, NumbersOf, RowFields
<1> DEFINE c == Cycle
           p == Larger(c.peak, r.used)
           d == c.delta + Rise(r)
           u == [c EXCEPT !.peak = p, !.delta = d]
<1>3. p \in Nat /\ p >= c.peak /\ d \in Nat /\ d >= c.delta
  BY <1>2 DEF Larger
<1>4. Updated(r) = u
  BY DEF Updated
<1> HIDE DEF c, p, d
<1>5. u \in RowType /\ u.start = c.start /\ u.peak = p /\ u.delta = d /\ u.end = c.end
  BY <1>1, <1>3 DEF RowType, c
<1> HIDE DEF u
<1> QED
  BY <1>1, <1>3, <1>4, <1>5 DEF Continues, c

LEMMA ClosedContinues ==
  ASSUME NEW row, Continues(row), NEW e \in Times
  PROVE  LET u == [row EXCEPT !.end = e]
         IN Continues(u) /\ u.end = e /\ u.end # Null
<1> DEFINE u == [row EXCEPT !.end = e]
<1>1. row \in RowType
  BY DEF Continues
<1>2. u \in RowType /\ u.start = row.start /\ u.peak = row.peak /\ u.delta = row.delta
      /\ u.end = e
  BY <1>1 DEF RowType
<1>3. e # Null
  BY TimesAreNat, Numbers
<1> HIDE DEF u
<1>4. Continues(u) /\ u.end = e /\ u.end # Null
  BY <1>2, <1>3 DEF Continues
<1> QED
  BY <1>4 DEF u

LEMMA EndIsPast ==
  ASSUME IInv, Live, NEW r, Reported(r)
  PROVE  EndOf(r) \in Times /\ EndOf(r) <= r.at /\ r.at \in Times
<1>1. Cycle \in RowType
  BY InvFacts, LiveRow
<1>2. r.at \in Nat /\ r.at \in Times
  <2>1. r.at \in PollTimes /\ r.at \in Nat /\ r.at <= r.at + 2 * Window
    BY Numbers DEF Reported
  <2> QED
    BY <2>1, InTimes
<1>3. Cycle.renews # Null => Cycle.renews \in Nat /\ Cycle.renews \in Times
  BY <1>1, RowFields, TimesAreNat
<1> QED
  BY <1>2, <1>3 DEF EndOf, Passed

LEMMA ClosedRow ==
  ASSUME IInv, Live, NEW r, Reported(r)
  PROVE  /\ Continues(Closed(EndOf(r)))
         /\ Closed(EndOf(r)).end # Null /\ Closed(EndOf(r)).end <= r.at
         /\ Continues(Closed(r.at))
         /\ Closed(r.at).end # Null /\ Closed(r.at).end <= r.at
<1>1. Continues(Cycle)
  BY CycleContinues
<1>2. EndOf(r) \in Times /\ EndOf(r) <= r.at /\ r.at \in Times /\ r.at \in Nat
  BY EndIsPast, NumbersOf
<1>3. /\ Continues(Closed(EndOf(r)))
      /\ Closed(EndOf(r)).end = EndOf(r) /\ Closed(EndOf(r)).end # Null
  BY <1>1, <1>2, ClosedContinues DEF Closed
<1>4. /\ Continues(Closed(r.at))
      /\ Closed(r.at).end = r.at /\ Closed(r.at).end # Null
  BY <1>1, <1>2, ClosedContinues DEF Closed
<1>5. r.at <= r.at
  BY <1>2
<1> QED
  BY <1>2, <1>3, <1>4, <1>5

LEMMA ClosedWithRow ==
  ASSUME IInv, Live, NEW r, Reported(r)
  PROVE  /\ Continues(ClosedWith(r))
         /\ ClosedWith(r).end # Null /\ ClosedWith(r).end <= r.at
<1>1. EndOf(r) \in Times /\ EndOf(r) <= r.at
  BY EndIsPast
<1>2. CASE Known
  <2>1. ClosedWith(r) = [Updated(r) EXCEPT !.end = EndOf(r)]
    BY <1>2 DEF ClosedWith
  <2>2. Continues(Updated(r))
    BY UpdatedContinues
  <2>3. Continues(ClosedWith(r)) /\ ClosedWith(r).end = EndOf(r) /\ ClosedWith(r).end # Null
    BY <1>1, <2>1, <2>2, ClosedContinues
  <2> QED
    BY <1>1, <2>3
<1>3. CASE ~Known
  BY <1>3, ClosedRow DEF ClosedWith
<1> QED
  BY <1>2, <1>3

LEMMA RolledContinues ==
  ASSUME IInv, Live, NEW r, Reported(r)
  PROVE  Continues(RolledTo(r)) /\ RolledTo(r).end = Null
<1>1. Continues(Cycle) /\ Cycle.end = Null /\ Cycle \in RowType
  BY CycleContinues DEF Continues
<1>2. CASE r.resets = Null
  BY <1>1, <1>2 DEF RolledTo
<1>3. CASE r.resets # Null
  <2> DEFINE c == Cycle
             u == [c EXCEPT !.renews = r.resets]
  <2>1. r.resets \in Times
    BY <1>3 DEF Reported
  <2>2. u \in RowType /\ u.start = c.start /\ u.peak = c.peak /\ u.delta = c.delta
        /\ u.end = c.end
    BY <1>1, <2>1 DEF RowType
  <2>3. RolledTo(r) = u
    BY <1>3 DEF RolledTo
  <2> HIDE DEF u
  <2> QED
    BY <1>1, <2>2, <2>3 DEF Continues
<1> QED
  BY <1>2, <1>3

LEMMA RollingContinues ==
  ASSUME IInv, Live, NEW r, Reported(r)
  PROVE  Continues(RollingKept(r)) /\ RollingKept(r).end = Null
<1>1. Continues(RolledTo(r)) /\ RolledTo(r).end = Null
  BY RolledContinues
<1>2. Continues(Updated(r))
  BY UpdatedContinues
<1>3. CASE hasLast /\ last = Null
  BY <1>1, <1>3 DEF RollingKept
<1>4. CASE ~(hasLast /\ last = Null)
  <2> DEFINE c == RolledTo(r)
             p == Updated(r).peak
             d == Updated(r).delta
             u == [c EXCEPT !.peak = p, !.delta = d]
  <2>1. /\ c \in RowType /\ c.start = Cycle.start /\ c.end = Null
        /\ p \in Nat /\ d \in Nat /\ p >= Cycle.peak /\ d >= Cycle.delta
    BY <1>1, <1>2, RowFields DEF Continues
  <2>2. RollingKept(r) = u
    BY <1>4 DEF RollingKept
  <2> HIDE DEF c, p, d
  <2>3. u \in RowType /\ u.start = c.start /\ u.peak = p /\ u.delta = d /\ u.end = c.end
    BY <2>1 DEF RowType
  <2> HIDE DEF u
  <2> QED
    BY <2>1, <2>2, <2>3 DEF Continues
<1> QED
  BY <1>3, <1>4

-------------------------------------------------------------------------------
(* Process of every tracker.                                                *)
LEMMA ProcessKeeps ==
  ASSUME IInv, NEW r, Reported(r), now' = r.at, NEW stop, MayStop(stop),
         AnyProcess(r, stop)
  PROVE  RowsKept /\ MemoryTyped'
<1>1. r.resets \in Times \cup {Null} /\ Null \in Times \cup {Null}
  BY DEF Reported
<1>3. Live => /\ Continues(ClosedWith(r))
              /\ ClosedWith(r).end # Null /\ ClosedWith(r).end <= r.at
  BY ClosedWithRow
<1>4. Live => /\ Continues(Closed(EndOf(r)))
              /\ Closed(EndOf(r)).end # Null /\ Closed(EndOf(r)).end <= r.at
              /\ Continues(Closed(r.at))
              /\ Closed(r.at).end # Null /\ Closed(r.at).end <= r.at
  BY ClosedRow
<1>5. Live => Continues(Updated(r)) /\ Updated(r).end = Null
  BY UpdatedContinues
<1>6. Live => /\ Continues(RolledTo(r)) /\ RolledTo(r).end = Null
              /\ Continues(RollingKept(r)) /\ RollingKept(r).end = Null
  BY RolledContinues, RollingContinues
<1>7. Live => Continues(Cycle) /\ Cycle.end = Null
  BY CycleContinues
<1>10. ASSUME AnthropicProcess(r, stop) PROVE RowsKept /\ MemoryTyped'
  BY <1>1, <1>3, <1>5, <1>7, <1>10, OpenFirstKeeps, CloseAndOpenKeeps, GoOnKeeps
     DEF AnthropicProcess, Process
<1>11. ASSUME CursorProcess(r, stop) PROVE RowsKept /\ MemoryTyped'
  BY <1>1, <1>3, <1>5, <1>7, <1>11, OpenFirstKeeps, CloseAndOpenKeeps, GoOnKeeps
     DEF CursorProcess, Process
<1>12. ASSUME OpenCodeProcess(r, stop) PROVE RowsKept /\ MemoryTyped'
  BY <1>1, <1>3, <1>5, <1>7, <1>12, OpenFirstKeeps, CloseAndOpenKeeps, GoOnKeeps
     DEF OpenCodeProcess, Process
<1>13. ASSUME ZaiTokensProcess(r, stop) PROVE RowsKept /\ MemoryTyped'
  BY <1>1, <1>3, <1>5, <1>7, <1>13, OpenFirstKeeps, CloseAndOpenKeeps, GoOnKeeps
     DEF ZaiTokensProcess, Process
<1>14. ASSUME CodexProcess(r, stop) PROVE RowsKept /\ MemoryTyped'
  BY <1>1, <1>3, <1>6, <1>14, OpenFirstKeeps, CloseAndOpenKeeps, GoOnKeeps
     DEF CodexProcess, Process
<1>15. ASSUME GeminiProcess(r, stop) PROVE RowsKept /\ MemoryTyped'
  BY <1>1, <1>3, <1>6, <1>15, OpenFirstKeeps, CloseAndOpenKeeps, GoOnKeeps
     DEF GeminiProcess, Process
<1>16. ASSUME CopilotProcess(r, stop) PROVE RowsKept /\ MemoryTyped'
  BY <1>1, <1>4, <1>5, <1>7, <1>16, OpenFirstKeeps, CloseAndOpenKeeps, GoOnKeeps
     DEF CopilotProcess, Process
<1>17. ASSUME AntigravityProcess(r, stop) PROVE RowsKept /\ MemoryTyped'
  BY <1>1, <1>4, <1>5, <1>7, <1>17, OpenFirstKeeps, CloseAndOpenKeeps, GoOnKeeps
     DEF AntigravityProcess, Process
<1>18. ASSUME MiniMaxProcess(r, stop) PROVE RowsKept /\ MemoryTyped'
  BY <1>1, <1>4, <1>5, <1>7, <1>18, OpenFirstKeeps, CloseAndOpenKeeps, GoOnKeeps
     DEF MiniMaxProcess, Process
<1>19. ASSUME KimiProcess(r, stop) PROVE RowsKept /\ MemoryTyped'
  BY <1>1, <1>4, <1>7, <1>19, OpenFirstKeeps, CloseAndOpenKeeps, GoOnKeeps
     DEF KimiProcess, Process
<1>20. ASSUME GrokProcess(r, stop) PROVE RowsKept /\ MemoryTyped'
  BY <1>1, <1>4, <1>7, <1>20, OpenFirstKeeps, CloseAndOpenKeeps, GoOnKeeps
     DEF GrokProcess, Process
<1>21. ASSUME ZaiTimeProcess(r, stop) PROVE RowsKept /\ MemoryTyped'
  BY <1>1, <1>4, <1>5, <1>7, <1>21, OpenFirstKeeps, CloseAndOpenKeeps, GoOnKeeps
     DEF ZaiTimeProcess, Process
<1>22. ASSUME OpenRouterProcess(r, stop) PROVE RowsKept /\ MemoryTyped'
  BY <1>1, <1>4, <1>5, <1>7, <1>22, OpenFirstKeeps, CloseAndOpenKeeps, GoOnKeeps
     DEF OpenRouterProcess, Process
<1>23. ASSUME DeepSeekProcess(r, stop) PROVE RowsKept /\ MemoryTyped'
  BY <1>1, <1>4, <1>5, <1>7, <1>23, OpenFirstKeeps, CloseAndOpenKeeps, GoOnKeeps
     DEF DeepSeekProcess, Process
<1>24. ASSUME MoonshotProcess(r, stop) PROVE RowsKept /\ MemoryTyped'
  BY <1>1, <1>4, <1>5, <1>7, <1>24, OpenFirstKeeps, CloseAndOpenKeeps, GoOnKeeps
     DEF MoonshotProcess, Process
<1> QED
  BY <1>10, <1>11, <1>12, <1>13, <1>14, <1>15, <1>16, <1>17, <1>18, <1>19, <1>20, <1>21, <1>22, <1>23, <1>24 DEF AnyProcess

-------------------------------------------------------------------------------
(* Every step keeps the invariant and is one of the log.                    *)
LEMMA PollKeeps ==
  ASSUME IInv, Poll
  PROVE  IInv' /\ LogStep
<1>1. PICK t \in Later, x \in Wins, u \in Values :
        /\ Running(x, t) /\ Follows(x, u)
        /\ now' = t /\ win' = x /\ used' = u
        /\ \E r \in Readings(t, x, u),
              stop \in {"none"} \cup
                       (IF stops < MaxStops THEN {"create", "peak", "write"} ELSE {}) :
             AnyProcess(r, stop)
  BY DEF Poll
<1>2. PICK r \in Readings(t, x, u),
           stop \in {"none"} \cup
                    (IF stops < MaxStops THEN {"create", "peak", "write"} ELSE {}) :
             AnyProcess(r, stop)
  BY <1>1
<1>3. Reported(r) /\ r.at = t
  BY <1>1, ReadingIsReported
<1>4. MayStop(stop)
  BY DEF MayStop
<1>5. RowsKept /\ MemoryTyped'
  BY <1>1, <1>2, <1>3, <1>4, ProcessKeeps
<1>6. now' \in PollTimes /\ now' \in Times
  <2>1. t \in PollTimes /\ t \in Nat /\ t <= t + 2 * Window
    BY Numbers DEF Later
  <2> QED
    BY <1>1, <2>1, InTimes
<1>7. polls' \in 0..MaxPolls
  BY Numbers DEF Poll, IInv, TypeOK
<1>8. Len(hist') = Len(rows')
  <2>1. Len(rows') \in Nat
    BY <1>5, LenProperties DEF RowsKept
  <2> QED
    BY <1>5, <2>1, LengthIs DEF RowsKept
<1>9. TypeOK'
  BY <1>1, <1>5, <1>6, <1>7, <1>8 DEF Poll, RowsKept, MemoryTyped, IInv, TypeOK
<1> QED
  BY <1>5, <1>6, <1>9 DEF RowsKept, IInv

LEMMA PollWithoutKeeps ==
  ASSUME IInv, PollWithout
  PROVE  IInv' /\ LogStep
<1>1. PICK t \in Later :
        /\ now' = t
        /\ IF kind = "minimax"
             THEN /\ Live
                  /\ rows' = Replaced(Closed(t))
                  /\ hist' = [hist EXCEPT ![Len(hist)].cut = TRUE]
                  /\ UNCHANGED hasLast
             ELSE hasLast' = TRUE /\ UNCHANGED <<rows, hist>>
  BY DEF PollWithout
<1>2. t \in PollTimes /\ t \in Nat /\ now \in Nat /\ now < t /\ t \in Times
  <2>1. t \in PollTimes /\ t \in Nat /\ now < t /\ t <= t + 2 * Window
    BY Numbers DEF Later
  <2> QED
    BY <2>1, InTimes, InvFacts
<1>3. RowsKept
  <2>1. CASE kind = "minimax"
    <3>1. Continues(Cycle)
      BY <1>1, <2>1, CycleContinues
    <3>2. Continues(Closed(t)) /\ Closed(t).end = t
      BY <1>2, <3>1, ClosedContinues DEF Closed
    <3>3. Closed(t).end <= now'
      BY <1>1, <1>2, <3>2
    <3>4. OfLength(hist', Len(rows))
      <4>1. hist' = [hist EXCEPT ![Len(hist)] = [hist[Len(hist)] EXCEPT !.cut = TRUE]]
        BY <1>1, <2>1
      <4>2. OfLength(hist, Len(rows)) /\ Len(rows) \in Nat
        BY InvFacts
      <4> QED
        BY <4>1, <4>2, OfLengthExcept
    <3>5. Live /\ rows' = Replaced(Closed(t))
      BY <1>1, <2>1
    <3> QED
      BY <3>2, <3>3, <3>4, <3>5, WritesRow
  <2>2. CASE kind # "minimax"
    <3>1. UNCHANGED <<rows, hist>>
      BY <1>1, <2>2
    <3>2. EndedBefore(rows', now')
      <4>1. rows # <<>> => rows[Len(rows)].end \in Times \cup {Null}
        BY InvFacts, LastRow, RowFields
      <4>2. rows # <<>> /\ rows[Len(rows)].end # Null =>
              rows[Len(rows)].end \in Nat /\ rows[Len(rows)].end <= now
        BY <4>1, TimesAreNat, InvFacts DEF EndedBefore
      <4> QED
        BY <1>1, <1>2, <3>1, <4>2 DEF EndedBefore
    <3>3. rows' \in Seq(RowType) /\ OfLength(hist', Len(rows'))
      BY <3>1, InvFacts
    <3> QED
      BY <3>1, <3>2, <3>3 DEF RowsKept, LogStep
  <2> QED
    BY <2>1, <2>2
<1>4. MemoryTyped'
  BY <1>1, UntouchedTyped DEF PollWithout, MemoryTyped, IInv, TypeOK
<1>5. polls' \in 0..MaxPolls
  BY Numbers DEF PollWithout, IInv, TypeOK
<1>6. Len(hist') = Len(rows')
  <2>1. Len(rows') \in Nat
    BY <1>3, LenProperties DEF RowsKept
  <2> QED
    BY <1>3, <2>1, LengthIs DEF RowsKept
<1>7. TypeOK'
  BY <1>1, <1>2, <1>3, <1>4, <1>5, <1>6
     DEF PollWithout, RowsKept, MemoryTyped, IInv, TypeOK
<1> QED
  BY <1>1, <1>2, <1>3, <1>7 DEF RowsKept, IInv

LEMMA RestartKeeps ==
  ASSUME IInv, Restart
  PROVE  IInv' /\ LogStep
<1>1. OfLength(hist', Len(rows))
  BY InvFacts, OfLengthExcept DEF Restart
<1>2. Len(hist') = Len(rows)
  BY <1>1, InvFacts, LengthIs
<1>3. restarts' \in 0..MaxRestarts
  BY Numbers DEF Restart, IInv, TypeOK
<1>4. TypeOK'
  BY <1>2, <1>3 DEF Restart, IInv, TypeOK
<1>5. LogStep
  BY DEF Restart, LogStep
<1> QED
  BY <1>1, <1>4, <1>5 DEF Restart, IInv, EndedBefore

LEMMA InitIInv == Init => IInv
<1> SUFFICES ASSUME Init PROVE IInv
  OBVIOUS
<1>1. rows = <<>> /\ hist = <<>> /\ rows \in Seq(RowType) /\ Len(rows) = 0
  BY EmptySeq DEF Init
<1>2. OfLength(hist, Len(rows)) /\ Len(hist) = Len(rows)
  BY <1>1 DEF OfLength
<1>3. used \in Values
  BY Numbers DEF Init, Values
<1>4. told \in [Wins -> Nat]
  BY DEF Init
<1>5. /\ polls \in 0..MaxPolls /\ stops \in 0..MaxStops /\ restarts \in 0..MaxRestarts
  BY Numbers DEF Init
<1>6. TypeOK
  BY <1>1, <1>2, <1>3, <1>4, <1>5, ZeroIsATime, OneIsAWindow DEF Init, TypeOK
<1> QED
  BY <1>1, <1>2, <1>6 DEF Init, IInv, EndedBefore

LEMMA NextKeeps ==
  ASSUME IInv, [Next]_vars
  PROVE  IInv' /\ LogStep
<1>1. CASE Poll
  BY <1>1, PollKeeps
<1>2. CASE PollWithout
  BY <1>2, PollWithoutKeeps
<1>3. CASE Restart
  BY <1>3, RestartKeeps
<1>4. CASE UNCHANGED vars
  BY <1>4 DEF vars, IInv, TypeOK, OfLength, EndedBefore, LogStep
<1> QED
  BY <1>1, <1>2, <1>3, <1>4 DEF Next

-------------------------------------------------------------------------------
THEOREM Invariance == Spec => []IInv
<1>1. IInv /\ [Next]_vars => IInv'
  BY NextKeeps
<1> QED
  BY <1>1, InitIInv, PTL DEF Spec

(* The fields of a tracker and its rows are well typed in every state (the  *)
(* maps, cycle and quota arguments of the fifteen Process functions).       *)
THEOREM TypeCorrect == Spec => []TypeOK
<1>1. IInv => TypeOK
  BY DEF IInv
<1> QED
  BY <1>1, Invariance, PTL

(* Every tracker implements the cycle log: whatever it takes for a reset,   *)
(* whichever statement of createCycle, closeCycle and updateCycle fails and *)
(* whenever the daemon is restarted, cycles follow one another, only the    *)
(* newest is open, its statistics only grow, and one that has ended never   *)
(* changes.                                                                 *)
THEOREM TrackersKeepLog == Spec => LogSpec
<1>1. Init => Log!Init
  <2>1. Init => rows = <<>> /\ rows \in Seq(RowType)
    BY EmptySeq DEF Init
  <2> QED
    BY <2>1, EntriesOf DEF Log!Init
<1>2. IInv /\ [Next]_vars => [Log!Next]_(Entries(rows))
  BY NextKeeps DEF LogStep
<1> QED
  BY <1>1, <1>2, Invariance, PTL DEF Spec, LogSpec, Log!Spec
-------------------------------------------------------------------------------
(* Which readings a row has counted.                                        *)

(* Reset time e is that of window x, give or take J.                        *)
Near(e, x, J) == e \in Int /\ x * Window - J <= e /\ e <= x * Window + J

(* l is no more than what is used, or no less than the balance.             *)
NotBeyond(l) == IF kind \in Balances THEN l >= used ELSE l <= used

AtMostOne(S) == \A x, y \in S : x = y

HistType ==
  [wins : SUBSET Nat, top : Int, val : Values \cup {Null},
   reborn : BOOLEAN, cut : BOOLEAN, idle : BOOLEAN, fell : BOOLEAN]

(* No window ahead of the upstream is counted, or announced uncounted.      *)
NothingAhead ==
  /\ \A x \in Wins : told[x] > 0 => \E i \in 1..Len(rows) : x \in hist[i].wins
  /\ \A i \in 1..Len(rows) :
       /\ hist[i] \in HistType
       /\ \A x \in hist[i].wins : x <= win
       /\ hist[i].cut => kind = "minimax"

(* The upstream's window was counted ...                                    *)
Seen == JitterBorne /\ \E i \in 1..Len(rows) : win \in hist[i].wins

(* ... and what the tracker compares with belongs to that window.           *)
RememberedAreOf(x) == lastReset = Null \/ Near(lastReset, x, Jitter)

Settled ==
  /\ JitterBorne
  /\ kind \in FromRow \cup FromRowAndFall =>
       Live /\ Near(Cycle.renews, win, Jitter)
  /\ kind \in FromRowAndFall \cup FromMemory \cup {"kimi"} => RememberedAreOf(win)
  /\ kind \notin FromRow \cup FromRowAndFall => last = Null \/ NotBeyond(last)

SettledWhenSeen == Seen => Settled

(* A row that has counted the upstream's window is the active one.          *)
SeenInActive ==
  JitterBorne =>
    \A i \in 1..Len(rows) :
      win \in hist[i].wins /\ ~hist[i].cut => i = Len(rows) /\ Live

(* What h, the history of the active row, has counted is window y or        *)
(* nothing, and its latest value is not beyond u if that is used in y.      *)
CountsOnly(h, y, w, u) ==
  /\ y <= w /\ h.wins \subseteq {y}
  /\ h.val # Null /\ y = w => h.val <= u

Newest == hist[Len(rows)]

(* The active row of the trackers, by what they compare with.               *)
RowTracks ==
  kind \in FromRow /\ Live =>
    /\ Cycle.renews = Null => Newest.wins = {} /\ Newest.val = Null
    /\ Cycle.renews # Null =>
         \E y \in Wins : Near(Cycle.renews, y, Jitter) /\ CountsOnly(Newest, y, win, used)

MemoryTracks ==
  kind \in FromMemory /\ Live =>
    \/ Newest.reborn \/ (kind = "copilot" /\ Newest.idle)
    \/ Newest.wins = {} /\ Newest.val = Null
    \/ \E y \in Wins : Near(lastReset, y, Jitter) /\ CountsOnly(Newest, y, win, used)

FallTracks ==
  kind \in FromRowAndFall /\ Live =>
    \/ Newest.reborn \/ Newest.idle \/ Newest.val = Null
    \/ /\ Known /\ last = Newest.val /\ last <= used + Margin /\ Cycle.renews # Null
       /\ \E y \in Wins : y <= win /\ Near(lastReset, y, Jitter)

ReadingTracks ==
  kind \in FromReading \cup {"kimi"} /\ Live =>
    Newest.reborn \/ Newest.val = Null \/ (Known /\ last = Newest.val)

(* OneWindowPerCycle and MergedOnlyAcrossRestart without the cardinality.   *)
RowsOfOneWindow ==
  \A i \in 1..Len(rows) :
    /\ kind \in FromRow => AtMostOne(hist[i].wins)
    /\ kind \in FromMemory =>
         \/ AtMostOne(hist[i].wins)
         \/ hist[i].reborn \/ (kind = "copilot" /\ hist[i].idle)

(* The inductive invariant of what is counted.                              *)
CInv ==
  /\ NothingAhead /\ SettledWhenSeen /\ SeenInActive
  /\ RowTracks /\ MemoryTracks /\ FallTracks /\ ReadingTracks
  /\ RowsOfOneWindow
  /\ OneCyclePerWindow /\ SharpChangeSeen /\ AnnouncedOnce

-------------------------------------------------------------------------------
(* Windows and reset times.                                                 *)
LEMMA Multiples ==
  ASSUME NEW x \in Nat, NEW k \in Nat, k # 0, NEW w \in Nat
  PROVE  (x + k) * w = x * w + k * w /\ k * w >= w /\ x * w \in Nat
OBVIOUS

LEMMA WindowsApart ==
  ASSUME NEW x \in Wins, NEW y \in Wins, x < y
  PROVE  /\ x * Window \in Nat /\ y * Window \in Nat
         /\ x * Window + Window <= y * Window
<1>1. x \in Nat /\ y \in Nat /\ Window \in Nat
  BY WinsArePositive, Numbers
<1> DEFINE k == y - x
<1>2. k \in Nat /\ k # 0 /\ y = x + k
  BY <1>1
<1> HIDE DEF k
<1>3. (x + k) * Window = x * Window + k * Window /\ k * Window >= Window
      /\ x * Window \in Nat
  BY <1>1, <1>2, Multiples
<1>4. k * Window \in Nat
  BY <1>1, <1>2
<1> DEFINE a == x * Window
           b == k * Window
<1>5. y * Window = a + b
  BY <1>2, <1>3
<1>6. a \in Nat /\ b \in Nat /\ b >= Window
  BY <1>3, <1>4
<1> HIDE DEF a, b
<1>7. a + b \in Nat /\ a + Window <= a + b
  BY <1>1, <1>6
<1> QED
  BY <1>3, <1>5, <1>7 DEF a

LEMMA JitterBounds ==
  ASSUME TypeOK
  PROVE  /\ Jitter \in Nat /\ skew.lag \in Nat /\ Shift \in Nat /\ Tolerance \in Nat
         /\ Grace \in Nat /\ Window \in Nat
         /\ Window > Shift + 2 * Jitter /\ Jitter + skew.lag <= Grace
         /\ 2 * Jitter <= Tolerance /\ Tolerance <= Shift
         /\ JitterBorne /\ kind \in {"zaitokens", "copilot"} => 2 * Jitter <= 0
         /\ JitterBorne /\ kind = "kimi" => 2 * Jitter <= Minute
<1>1. /\ skew.jitter \in Nat /\ skew.lag \in Nat
      /\ Window > Shift + 2 * skew.jitter /\ skew.jitter + skew.lag <= Grace
  BY TrackersAssumption DEF TrackersAssumption, TypeOK
<1>2. /\ Shift \in Nat /\ Tolerance \in Nat /\ Grace \in Nat /\ Window \in Nat
      /\ 2 * Grace <= Tolerance /\ Tolerance <= Shift
  BY TrackersAssumption DEF TrackersAssumption
<1>3. Jitter = skew.jitter
  BY DEF Jitter
<1>4. /\ JitterBorne /\ kind \in {"zaitokens", "copilot"} => 2 * Jitter <= 0
      /\ JitterBorne /\ kind = "kimi" => 2 * Jitter <= Minute
  BY DEF Jitter, JitterBorne, Bearable
<1> QED
  BY <1>1, <1>2, <1>3, <1>4

(* Two reset times of one window differ by no more than twice the jitter,   *)
(* and two of different windows by more than the largest tolerance.         *)
LEMMA NearClose ==
  ASSUME NEW x \in Wins, NEW J \in Nat, NEW e, Near(e, x, J), NEW f, Near(f, x, J)
  PROVE  e \in Int /\ f \in Int /\ Abs(f - e) <= 2 * J
<1> DEFINE a == x * Window
<1>1. a \in Nat
  BY WinsArePositive, Numbers
<1>2. e \in Int /\ f \in Int /\ a - J <= e /\ e <= a + J /\ a - J <= f /\ f <= a + J
  BY DEF Near
<1> HIDE DEF a
<1> QED
  BY <1>1, <1>2 DEF Abs

LEMMA NearFar ==
  ASSUME TypeOK, NEW x \in Wins, NEW y \in Wins, x < y,
         NEW e, Near(e, x, Jitter), NEW f, Near(f, y, Jitter)
  PROVE  Abs(f - e) > Shift /\ Abs(e - f) > Shift /\ f > e
<1> DEFINE a == x * Window
           b == y * Window
<1>1. a \in Nat /\ b \in Nat /\ a + Window <= b
  BY WindowsApart
<1>2. /\ e \in Int /\ f \in Int /\ a - Jitter <= e /\ e <= a + Jitter
      /\ b - Jitter <= f /\ f <= b + Jitter
  BY DEF Near
<1>3. Jitter \in Nat /\ Window \in Nat /\ Shift \in Nat /\ Window > Shift + 2 * Jitter
  BY JitterBounds
<1> HIDE DEF a, b
<1>4. f - e > Shift
  BY <1>1, <1>2, <1>3
<1> QED
  BY <1>2, <1>3, <1>4 DEF Abs

LEMMA NearSame ==
  ASSUME TypeOK, NEW x \in Wins, NEW y \in Wins,
         NEW e, Near(e, x, Jitter), NEW f, Near(f, y, Jitter), Abs(f - e) <= Shift
  PROVE  x = y
<1>1. x \in Nat /\ y \in Nat /\ e \in Int /\ f \in Int /\ Shift \in Nat
  BY WinsArePositive, Numbers DEF Near
<1>2. Abs(f - e) \in Int
  BY <1>1 DEF Abs
<1>3. ~(x < y) /\ ~(y < x)
  BY <1>1, <1>2, NearFar
<1> QED
  BY <1>1, <1>3

-------------------------------------------------------------------------------
(* What a poll has to do with the upstream.                                 *)
Polled(r) ==
  /\ Reported(r) /\ now' = r.at /\ win' = r.win /\ used' = r.used
  /\ r.win \in Wins /\ r.win >= win /\ r.at <= r.win * Window + skew.lag
  /\ Follows(r.win, r.used)
  /\ kind \in FromReading => r.resets = Null
  /\ kind \notin FromReading /\ r.resets # Null => Near(r.resets, r.win, Jitter)
  /\ kind \notin FromReading /\ r.resets = Null => r.used = 0
  /\ UNCHANGED <<kind, skew>>

LEMMA ReadingIsPolled ==
  ASSUME IInv, NEW t \in Later, NEW x \in Wins, NEW u \in Values, Running(x, t),
         Follows(x, u), NEW r \in Readings(t, x, u),
         now' = t, win' = x, used' = u, UNCHANGED <<kind, skew>>
  PROVE  Polled(r)
<1>1. Reported(r) /\ r.at = t /\ r.win = x /\ r.used = u
  BY ReadingIsReported
<1>2. PICK e \in ResetTimes(x, u) : r = [at |-> t, win |-> x, used |-> u, resets |-> e]
  BY DEF Readings
<1>3. r.resets = e
  BY <1>2
<1>4. x >= win /\ t <= x * Window + skew.lag
  BY DEF Running
<1>5. kind \in FromReading => e = Null
  BY DEF ResetTimes
<1>6. kind \notin FromReading /\ e # Null => Near(e, x, Jitter)
  <2> SUFFICES ASSUME NEW j \in (-Jitter)..Jitter PROVE Near(x * Window + j, x, Jitter)
    BY DEF ResetTimes
  <2> DEFINE a == x * Window
  <2>1. a \in Nat /\ Jitter \in Nat
    BY WinsArePositive, Numbers, JitterBounds DEF IInv
  <2> HIDE DEF a
  <2>2. a + j \in Int /\ a - Jitter <= a + j /\ a + j <= a + Jitter
    BY <2>1
  <2> QED
    BY <2>2 DEF Near, a
<1>7. kind \notin FromReading /\ e = Null => u = 0
  <2> SUFFICES ASSUME kind \notin FromReading, e = Null, u # 0 PROVE FALSE
    OBVIOUS
  <2>1. PICK j \in (-Jitter)..Jitter : e = x * Window + j
    BY DEF ResetTimes
  <2>2. x * Window \in Int /\ j \in Int
    BY WinsArePositive, Numbers, JitterBounds DEF IInv
  <2> QED
    BY <2>1, <2>2, Numbers
<1> QED
  BY <1>1, <1>3, <1>4, <1>5, <1>6, <1>7 DEF Polled

LEMMA TellsWhat ==
  ASSUME NEW r, Polled(r)
  PROVE  /\ Tells(r) = {} \/ Tells(r) = {r.win}
         /\ kind \in FromReading => Tells(r) = {r.win}
         /\ kind \notin FromReading => (Tells(r) = {} <=> r.resets = Null)
         /\ r.win \in Nat
BY WinsArePositive DEF Polled, Tells

LEMMA CountFields ==
  ASSUME NEW h \in HistType, NEW r, Polled(r)
  PROVE  LET g == Count(h, r)
         IN /\ g \in HistType /\ g.wins = h.wins \cup Tells(r)
            /\ g.val = IF Tells(r) = {} THEN h.val ELSE r.used
            /\ g.reborn = h.reborn /\ g.cut = h.cut
            /\ g.idle = (h.idle \/ Tells(r) = {})
            /\ g.fell = (h.fell \/ (h.val # Null /\ Tells(r) # {} /\ Sharp(h.val, r.used)))
<1> DEFINE w == h.wins \cup Tells(r)
           p == Larger(h.top, r.used)
           v == IF Tells(r) = {} THEN h.val ELSE r.used
           i == h.idle \/ Tells(r) = {}
           f == h.fell \/ (h.val # Null /\ Tells(r) # {} /\ Sharp(h.val, r.used))
<1>1. r.used \in Values /\ r.used \in Int /\ Tells(r) \in SUBSET Nat
  BY TellsWhat, Numbers DEF Polled, Reported, Values
<1>2. /\ h.wins \in SUBSET Nat /\ h.top \in Int /\ h.val \in Values \cup {Null}
      /\ h.idle \in BOOLEAN /\ h.fell \in BOOLEAN /\ h.reborn \in BOOLEAN /\ h.cut \in BOOLEAN
  BY DEF HistType
<1>3. /\ w \in SUBSET Nat /\ p \in Int /\ v \in Values \cup {Null}
      /\ i \in BOOLEAN /\ f \in BOOLEAN
  BY <1>1, <1>2 DEF Larger
<1>4. Count(h, r) = [h EXCEPT !.wins = w, !.top = p, !.val = v, !.idle = i, !.fell = f]
  BY DEF Count
<1> HIDE DEF w, p, v, i, f
<1> DEFINE g == [h EXCEPT !.wins = w, !.top = p, !.val = v, !.idle = i, !.fell = f]
<1>5. /\ g \in HistType /\ g.wins = w /\ g.val = v /\ g.reborn = h.reborn /\ g.cut = h.cut
      /\ g.idle = i /\ g.fell = f
  BY <1>3 DEF HistType
<1> HIDE DEF g
<1> QED
  BY <1>4, <1>5 DEF g, w, v, i, f

LEMMA NoReadingsFields ==
  /\ NoReadings \in HistType /\ NoReadings.wins = {} /\ NoReadings.val = Null
  /\ NoReadings.reborn = FALSE /\ NoReadings.cut = FALSE
  /\ NoReadings.idle = FALSE /\ NoReadings.fell = FALSE
BY DEF NoReadings, HistType

-------------------------------------------------------------------------------
(* What a step makes of the rows: a new one with history g and reset time   *)
(* e, the active one going on with them, or the active one ended.           *)
NewRow(g, e) ==
  /\ Len(rows') = Len(rows) + 1 /\ hist'[Len(rows')] = g
  /\ \A i \in 1..Len(rows) : hist'[i] = hist[i]
  /\ Live' /\ Cycle'.renews = e

SameRows(g) ==
  /\ Len(rows') = Len(rows) /\ hist'[Len(rows)] = g
  /\ \A i \in 1..(Len(rows) - 1) : hist'[i] = hist[i]

SameRow(g, e) == SameRows(g) /\ Live' /\ Cycle'.renews = e

RowEnds(g) == SameRows(g) /\ ~Live'

LEMMA HistoryAppend ==
  ASSUME NEW h, NEW n \in Nat, NEW x, NEW g, OfLength(h, n), g = Append(h, x)
  PROVE  g[n + 1] = x
<1> DEFINE S == {h[i] : i \in 1..n} \cup {x}
<1>1. h \in Seq({h[i] : i \in 1..n}) /\ Len(h) = n
  BY LengthIs
<1>2. h \in Seq(S)
  <2>1. h \in [1..n -> S]
    BY DEF OfLength
  <2> HIDE DEF S
  <2> QED
    BY <2>1, SeqDef
<1>3. x \in S
  OBVIOUS
<1> HIDE DEF S
<1> QED
  BY <1>1, <1>2, <1>3, AppendProperties

LEMMA HistoryKept ==
  ASSUME NEW h, NEW n \in Nat, NEW x, NEW g, NEW j \in 1..n,
         OfLength(h, n), g = Append(h, x)
  PROVE  g[j] = h[j]
<1> DEFINE S == {h[i] : i \in 1..n} \cup {x}
<1>1. h \in Seq({h[i] : i \in 1..n}) /\ Len(h) = n
  BY LengthIs
<1>2. h \in Seq(S)
  <2>1. h \in [1..n -> S]
    BY DEF OfLength
  <2> HIDE DEF S
  <2> QED
    BY <2>1, SeqDef
<1>3. x \in S
  OBVIOUS
<1> HIDE DEF S
<1> QED
  BY <1>1, <1>2, <1>3, AppendProperties

LEMMA HistoryExcept ==
  ASSUME NEW h, NEW n \in Nat, OfLength(h, n), NEW m \in 1..n, NEW x
  PROVE  /\ [h EXCEPT ![m] = x][m] = x
         /\ \A i \in 1..n : i # m => [h EXCEPT ![m] = x][i] = h[i]
BY DEF OfLength

LEMMA LiveLength ==
  ASSUME IInv, Live
  PROVE  Len(rows) \in Nat /\ Len(rows) \in 1..Len(rows) /\ Cycle \in RowType
         /\ Cycle = rows[Len(rows)] /\ Len(hist) = Len(rows) /\ hist[Len(rows)] = Newest
         /\ \A i \in 1..(Len(rows) - 1) : i \in 1..Len(rows) /\ i # Len(rows)
<1>1. Len(rows) \in Nat /\ Len(rows) # 0 /\ Cycle \in RowType /\ Cycle = rows[Len(rows)]
  BY InvFacts, LiveRow
<1>2. Len(rows) \in 1..Len(rows)
        /\ \A i \in 1..(Len(rows) - 1) : i \in 1..Len(rows) /\ i # Len(rows)
  BY <1>1
<1> QED
  BY <1>1, <1>2, InvFacts DEF Newest

LEMMA AppendsRow ==
  ASSUME IInv, NEW s \in Seq(RowType), Len(s) = Len(rows),
         NEW row \in RowType, row.end = Null,
         rows' = Append(s, row), NEW g, hist' = Append(hist, g)
  PROVE  NewRow(g, row.renews)
<1> DEFINE u == Append(s, row)
<1>1. u \in Seq(RowType) /\ Len(u) = Len(s) + 1 /\ u # <<>> /\ u[Len(u)] = row
  BY AppendedRows
<1>2. Len(rows) \in Nat /\ OfLength(hist, Len(rows))
  BY InvFacts
<1>3. hist'[Len(rows) + 1] = g /\ \A i \in 1..Len(rows) : hist'[i] = hist[i]
  <2> DEFINE n == Len(rows)
             k == hist'
  <2>1. n \in Nat /\ OfLength(hist, n) /\ k = Append(hist, g)
    BY <1>2
  <2> HIDE DEF n, k
  <2>2. k[n + 1] = g
    BY <2>1, HistoryAppend
  <2>3. \A i \in 1..n : k[i] = hist[i]
    BY <2>1, HistoryKept
  <2> QED
    BY <2>2, <2>3 DEF n, k
<1>4. rows' = u
  OBVIOUS
<1> HIDE DEF u
<1>5. Len(rows') = Len(rows) + 1 /\ rows' # <<>> /\ rows'[Len(rows')] = row
  BY <1>1, <1>4
<1>6. Live' /\ Cycle'.renews = row.renews
  BY <1>5 DEF Live, Cycle
<1> QED
  BY <1>3, <1>5, <1>6 DEF NewRow

LEMMA WritesTheRow ==
  ASSUME IInv, Live, NEW row \in RowType, rows' = Replaced(row)
  PROVE  /\ Len(rows') = Len(rows)
         /\ row.end = Null => Live' /\ Cycle'.renews = row.renews
         /\ row.end # Null => ~Live'
<1> DEFINE u == [rows EXCEPT ![Len(rows)] = row]
<1>1. rows \in Seq(RowType) /\ rows # <<>>
  BY InvFacts, LiveRow
<1>2. u \in Seq(RowType) /\ Len(u) = Len(rows) /\ u # <<>> /\ u[Len(rows)] = row
  BY <1>1, ReplacedRows
<1>3. rows' = u
  BY DEF Replaced
<1> HIDE DEF u
<1>4. Len(rows') = Len(rows) /\ rows' # <<>> /\ rows'[Len(rows')] = row
  BY <1>2, <1>3
<1> QED
  BY <1>4 DEF Live, Cycle

LEMMA KeepsHistory ==
  ASSUME IInv, Live, Len(rows') = Len(rows), NEW g,
         \/ hist' = [hist EXCEPT ![Len(hist)] = g]
         \/ hist' = hist /\ g = hist[Len(rows)]
  PROVE  SameRows(g)
<1>1. /\ Len(rows) \in Nat /\ Len(rows) \in 1..Len(rows) /\ Len(hist) = Len(rows)
      /\ \A i \in 1..(Len(rows) - 1) : i \in 1..Len(rows) /\ i # Len(rows)
      /\ OfLength(hist, Len(rows))
  BY LiveLength, InvFacts
<1>2. CASE hist' = [hist EXCEPT ![Len(hist)] = g]
  <2>1. /\ hist'[Len(rows)] = g
        /\ \A i \in 1..Len(rows) : i # Len(rows) => hist'[i] = hist[i]
    BY <1>1, <1>2, HistoryExcept
  <2> QED
    BY <1>1, <2>1 DEF SameRows
<1>3. CASE hist' = hist /\ g = hist[Len(rows)]
  BY <1>3 DEF SameRows
<1> QED
  BY <1>2, <1>3

-------------------------------------------------------------------------------
(* The ways a poll can go.  What it enters is not counted anywhere yet:     *)
(* the window is new, or has been counted in rows of MiniMax cut short.     *)
Unseen(r) == r.win = win => ~Seen
OnlyCut(r) ==
  r.win = win /\ Seen =>
    kind = "minimax" /\ \A i \in 1..Len(rows) : win \in hist[i].wins => hist[i].cut

Opens(r) ==
  /\ OnlyCut(r) /\ NewRow(Count(NoReadings, r), r.resets)
  /\ Remember(r) /\ told' = told

OpensBare(r) ==
  /\ OnlyCut(r) /\ NewRow(NoReadings, r.resets)
  /\ UNCHANGED memory /\ told' = told

Rolls(r) ==
  /\ Unseen(r) /\ NewRow(Count(NoReadings, r), r.resets)
  /\ Remember(r) /\ Announce(r)

Ends(r) ==
  /\ Live /\ Unseen(r) /\ RowEnds(Newest)
  /\ UNCHANGED memory /\ told' = told

(* What a tracker that sees no reset has not found.                         *)
Overlooks(r) ==
  /\ kind \in FromRow /\ r.resets # Null =>
       Cycle.renews # Null /\ Abs(r.resets - Cycle.renews) <= Shift
  /\ kind \in FromMemory => ~Moved(lastReset, r, Shift)
  /\ kind \in FromRowAndFall => ~ShiftAndFall(r)
  /\ kind \in FromReading \cup {"kimi"} => ~(Known /\ Sharp(last, r.used))

(* The reset time that the row of a tracker that goes on has then.          *)
RenewedTo(r) ==
  IF kind \in FromRowAndFall /\ r.resets # Null THEN r.resets ELSE Cycle.renews

GoesOn(r) ==
  /\ Live /\ Overlooks(r)
  /\ SameRow(Count(Newest, r), RenewedTo(r))
  /\ Remember(r) /\ told' = told

GoesHalf(r) ==
  /\ Live /\ Overlooks(r) /\ kind \in FromRowAndFall /\ r.resets # Null
  /\ SameRow(Newest, r.resets) /\ lastReset' = r.resets
  /\ UNCHANGED <<last, hasLast, told>>

PollGoes(r) ==
  Opens(r) \/ OpensBare(r) \/ Rolls(r) \/ Ends(r) \/ GoesOn(r) \/ GoesHalf(r)

LEMMA OpensHow ==
  ASSUME IInv, NEW r, Polled(r), NEW stop, OpenFirst(r, r.resets, stop), SeenInActive,
         NothingAhead, Seen => Settled
  PROVE  PollGoes(r)
<1>1. ~Live /\ r.used \in Nat /\ 0 \in Nat /\ Reported(r) /\ r.resets \in Times \cup {Null}
  BY Numbers DEF OpenFirst, Polled, Reported, Values
<1>2. OnlyCut(r)
  <2> SUFFICES ASSUME r.win = win, Seen
               PROVE  kind = "minimax" /\ \A i \in 1..Len(rows) : win \in hist[i].wins => hist[i].cut
    BY DEF OnlyCut
  <2>1. \A i \in 1..Len(rows) : win \in hist[i].wins => hist[i].cut
    BY <1>1 DEF SeenInActive, Seen
  <2>2. kind = "minimax"
    BY <2>1 DEF NothingAhead, Seen
  <2> QED
    BY <2>1, <2>2
<1>3. \A p \in Nat : Row(r.at, r.resets, p) \in RowType /\ Row(r.at, r.resets, p).end = Null
                     /\ Row(r.at, r.resets, p).renews = r.resets
  BY <1>1, RowIsTyped DEF Row
<1>4. rows \in Seq(RowType)
  BY InvFacts
<1>5. CASE /\ rows' = Append(rows, Row(r.at, r.resets, r.used))
           /\ hist' = Append(hist, Count(NoReadings, r))
           /\ Remember(r)
           /\ UNCHANGED <<stops, told>>
  <2>1. NewRow(Count(NoReadings, r), r.resets)
    BY <1>1, <1>3, <1>4, <1>5, AppendsRow
  <2> QED
    BY <1>2, <1>5, <2>1 DEF PollGoes, Opens
<1>6. CASE /\ rows' = Append(rows, Row(r.at, r.resets, 0))
           /\ hist' = Append(hist, NoReadings)
           /\ Stop
  <2>1. NewRow(NoReadings, r.resets)
    BY <1>1, <1>3, <1>4, <1>6, AppendsRow
  <2> QED
    BY <1>2, <1>6, <2>1 DEF PollGoes, OpensBare, Stop
<1> QED
  BY <1>5, <1>6 DEF OpenFirst

LEMMA ResetsHow ==
  ASSUME IInv, NEW r, Polled(r), Live, Unseen(r), NEW stop,
         NEW closed, Continues(closed), closed.end # Null,
         CloseAndOpen(r, r.resets, closed, stop)
  PROVE  PollGoes(r)
<1>1. r.used \in Nat /\ 0 \in Nat /\ Reported(r) /\ r.resets \in Times \cup {Null}
  BY Numbers DEF Polled, Reported, Values
<1>2. \A p \in Nat : Row(r.at, r.resets, p) \in RowType /\ Row(r.at, r.resets, p).end = Null
                     /\ Row(r.at, r.resets, p).renews = r.resets
  BY <1>1, RowIsTyped DEF Row
<1>3. closed \in RowType
  BY DEF Continues
<1>4. Replaced(closed) \in Seq(RowType) /\ Len(Replaced(closed)) = Len(rows)
  BY <1>3, InvFacts, LiveRow, ReplacedRows DEF Replaced
<1>5. OnlyCut(r)
  BY DEF Unseen, OnlyCut
<1>6. CASE /\ rows' = Append(Replaced(closed), Row(r.at, r.resets, r.used))
           /\ hist' = Append(hist, Count(NoReadings, r))
           /\ Remember(r)
           /\ Announce(r)
           /\ UNCHANGED stops
  <2>1. NewRow(Count(NoReadings, r), r.resets)
    BY <1>1, <1>2, <1>4, <1>6, AppendsRow
  <2> QED
    BY <1>6, <2>1 DEF PollGoes, Rolls
<1>7. CASE /\ rows' = Replaced(closed)
           /\ UNCHANGED hist
           /\ Stop
  <2>1. Len(rows') = Len(rows) /\ ~Live'
    BY <1>3, <1>7, WritesTheRow
  <2>2. SameRows(Newest)
    BY <1>7, <2>1, KeepsHistory DEF Newest
  <2> QED
    BY <1>7, <2>1, <2>2 DEF PollGoes, Ends, RowEnds, Stop
<1>8. CASE /\ rows' = Append(Replaced(closed), Row(r.at, r.resets, 0))
           /\ hist' = Append(hist, NoReadings)
           /\ Stop
  <2>1. NewRow(NoReadings, r.resets)
    BY <1>1, <1>2, <1>4, <1>8, AppendsRow
  <2> QED
    BY <1>5, <1>8, <2>1 DEF PollGoes, OpensBare, Stop
<1> QED
  BY <1>6, <1>7, <1>8 DEF CloseAndOpen

LEMMA GoesHow ==
  ASSUME IInv, NEW r, Polled(r), Live, Overlooks(r), NEW stop,
         NEW kept, Continues(kept), kept.end = Null, kept.renews = RenewedTo(r),
         NEW half, Continues(half), half.end = Null,
         kind \in FromRowAndFall /\ r.resets # Null => half.renews = r.resets,
         GoOn(r, kept, half, stop)
  PROVE  PollGoes(r)
<1>1. kept \in RowType /\ half \in RowType
  BY DEF Continues
<1>2. CASE /\ rows' = Replaced(kept)
           /\ hist' = Counted(r)
           /\ Remember(r)
           /\ UNCHANGED <<stops, told>>
  <2>1. Len(rows') = Len(rows) /\ Live' /\ Cycle'.renews = RenewedTo(r)
    BY <1>1, <1>2, WritesTheRow
  <2>2. Len(hist) = Len(rows)
    BY InvFacts
  <2>3. hist' = [hist EXCEPT ![Len(hist)] = Count(hist[Len(hist)], r)]
    BY <1>2 DEF Counted
  <2>4. hist' = [hist EXCEPT ![Len(hist)] = Count(Newest, r)]
    BY <2>2, <2>3 DEF Newest
  <2>5. SameRows(Count(Newest, r))
    BY <2>1, <2>4, KeepsHistory
  <2> QED
    BY <1>2, <2>1, <2>5 DEF PollGoes, GoesOn, SameRow
<1>3. CASE /\ stop = "write" /\ kind \in FromRowAndFall /\ r.resets # Null
           /\ rows' = Replaced(half)
           /\ lastReset' = r.resets
           /\ stops' = stops + 1
           /\ UNCHANGED <<hist, last, hasLast, told>>
  <2>1. Len(rows') = Len(rows) /\ Live' /\ Cycle'.renews = r.resets
    BY <1>1, <1>3, WritesTheRow
  <2>2. SameRows(Newest)
    BY <1>3, <2>1, KeepsHistory DEF Newest
  <2> QED
    BY <1>3, <2>1, <2>2 DEF PollGoes, GoesHalf, SameRow
<1> QED
  BY <1>2, <1>3 DEF GoOn

-------------------------------------------------------------------------------
(* Which class a tracker belongs to.                                        *)
LEMMA KindClasses ==
  /\ kind \in FromRow => /\ kind \notin FromMemory /\ kind \notin FromRowAndFall
                         /\ kind \notin FromReading /\ kind # "kimi"
  /\ kind \in FromMemory => /\ kind \notin FromRowAndFall
                            /\ kind \notin FromReading /\ kind # "kimi"
  /\ kind \in FromRowAndFall => kind \notin FromReading /\ kind # "kimi"
  /\ kind \in Balances => kind \in FromReading
  /\ kind = "kimi" => kind \notin FromReading
BY DEF FromRow, FromMemory, FromRowAndFall, FromReading, Balances

LEMMA ValuesOf ==
  ASSUME IInv, NEW r, Polled(r)
  PROVE  /\ r.used \in Nat /\ used \in Nat /\ r.at \in Nat /\ win \in Nat /\ r.win \in Nat
         /\ win \in Wins /\ r.win \in Wins /\ win <= r.win
         /\ last # Null => last \in Nat
         /\ lastReset # Null => lastReset \in Nat
         /\ r.resets # Null => r.resets \in Nat
         /\ Live /\ Cycle.renews # Null => Cycle.renews \in Nat
<1>1. /\ used \in Values /\ win \in Wins /\ last \in Values \cup {Null}
      /\ lastReset \in Times \cup {Null}
  BY DEF IInv, TypeOK
<1>2. /\ r.at \in PollTimes /\ r.used \in Values /\ r.resets \in Times \cup {Null}
      /\ r.win \in Wins /\ r.win >= win
  BY DEF Polled, Reported
<1>3. Values \subseteq Nat
  BY Numbers DEF Values
<1>4. Live => Cycle.renews \in Times \cup {Null}
  BY InvFacts, LiveRow, RowFields
<1>5. r.at \in Nat
  BY <1>2, Numbers
<1>6. Wins \subseteq Nat /\ Times \subseteq Nat
  BY TimesAreNat, WinsArePositive
<1>7. win \in Nat /\ r.win \in Nat /\ win <= r.win
  BY <1>1, <1>2, <1>6
<1> QED
  BY <1>1, <1>2, <1>3, <1>4, <1>5, <1>6, <1>7

(* What a reading of the window that the tracker is settled on looks like.  *)
LEMMA NotMovedFrom ==
  ASSUME IInv, NEW r, Polled(r), kind \notin FromReading, NEW from,
         from = Null \/ Near(from, r.win, Jitter), NEW tol \in Nat, 2 * Jitter <= tol
  PROVE  ~Moved(from, r, tol)
<1> SUFFICES ASSUME from # Null, r.resets # Null PROVE ~(Abs(r.resets - from) > tol)
  BY DEF Moved
<1>1. Near(r.resets, r.win, Jitter) /\ Near(from, r.win, Jitter) /\ r.win \in Wins
  BY DEF Polled
<1>2. Jitter \in Nat
  BY JitterBounds DEF IInv
<1>3. r.resets \in Int /\ from \in Int /\ Abs(r.resets - from) <= 2 * Jitter
  BY <1>1, <1>2, NearClose
<1>4. Abs(r.resets - from) \in Int
  BY <1>3 DEF Abs
<1> QED
  BY <1>2, <1>3, <1>4

LEMMA NotLongPassed ==
  ASSUME IInv, NEW r, Polled(r), Near(Cycle.renews, r.win, Jitter)
  PROVE  ~LongPassed(r)
<1> DEFINE a == r.win * Window
           e == Cycle.renews
<1>1. /\ a \in Int /\ e \in Int /\ a - Jitter <= e /\ r.at <= a + skew.lag /\ r.at \in Int
      /\ Jitter \in Nat /\ skew.lag \in Nat /\ Grace \in Nat /\ Jitter + skew.lag <= Grace
  <2>1. r.win \in Nat /\ Window \in Nat /\ r.at \in Int
    BY ValuesOf, Numbers
  <2>2. a \in Int
    BY <2>1
  <2>3. r.at <= a + skew.lag /\ e \in Int /\ a - Jitter <= e
    BY DEF Polled, Near
  <2>4. Jitter \in Nat /\ skew.lag \in Nat /\ Grace \in Nat /\ Jitter + skew.lag <= Grace
    BY JitterBounds DEF IInv
  <2> QED
    BY <2>1, <2>2, <2>3, <2>4
<1> HIDE DEF a
<1>2. ~(r.at > e + Grace)
  BY <1>1
<1> QED
  BY <1>2 DEF LongPassed

LEMMA SettledSees ==
  ASSUME IInv, NEW r, Polled(r), Settled, r.win = win
  PROVE  /\ kind \in FromRow \cup FromRowAndFall =>
              /\ ~LongPassed(r) /\ ~Appeared(r)
              /\ ~Moved(Cycle.renews, r, Tolerance) /\ ~Moved(Cycle.renews, r, Shift)
              /\ kind = "zaitokens" => ~Moved(Cycle.renews, r, 0)
         /\ kind \in FromRowAndFall => ~Moved(lastReset, r, Shift)
         /\ kind \in FromMemory \cup {"kimi"} =>
              /\ ~Moved(lastReset, r, Tolerance)
              /\ kind = "copilot" => ~Moved(lastReset, r, 0)
              /\ kind = "kimi" => ~Moved(lastReset, r, Minute)
         /\ kind \notin FromRow \cup FromRowAndFall =>
              last = Null \/ IF kind \in Balances THEN last >= r.used ELSE last <= r.used
<1>1. /\ Jitter \in Nat /\ Tolerance \in Nat /\ Shift \in Nat /\ Minute \in Nat
      /\ 2 * Jitter <= Tolerance /\ 2 * Jitter <= Shift
      /\ kind \in {"zaitokens", "copilot"} => 2 * Jitter <= 0
      /\ kind = "kimi" => 2 * Jitter <= Minute
  BY JitterBounds, Measures DEF IInv, Settled
<1>2. CASE kind \in FromRow \cup FromRowAndFall
  <2>1. Near(Cycle.renews, r.win, Jitter) /\ Cycle.renews # Null
    BY <1>2, Numbers DEF Settled, Near
  <2>2. kind \notin FromReading
    BY <1>2, KindClasses
  <2>3. /\ ~Moved(Cycle.renews, r, Tolerance) /\ ~Moved(Cycle.renews, r, Shift)
        /\ kind = "zaitokens" => ~Moved(Cycle.renews, r, 0)
    BY <1>1, <2>1, <2>2, NotMovedFrom
  <2>4. kind \in FromRowAndFall => ~Moved(lastReset, r, Shift)
    <3> SUFFICES ASSUME kind \in FromRowAndFall PROVE ~Moved(lastReset, r, Shift)
      OBVIOUS
    <3>1. lastReset = Null \/ Near(lastReset, r.win, Jitter)
      BY DEF Settled, RememberedAreOf
    <3> QED
      BY <1>1, <2>2, <3>1, NotMovedFrom
  <2>5. ~LongPassed(r) /\ ~Appeared(r)
    BY <2>1, NotLongPassed DEF Appeared
  <2> QED
    BY <1>2, <2>3, <2>4, <2>5, KindClasses
<1>3. CASE kind \notin FromRow \cup FromRowAndFall
  <2>1. last = Null \/ NotBeyond(last)
    BY <1>3 DEF Settled
  <2>2. last = Null \/ IF kind \in Balances THEN last >= r.used ELSE last <= r.used
    BY <2>1, ValuesOf DEF NotBeyond, Polled, Follows
  <2>3. ASSUME kind \in FromMemory \cup {"kimi"}
        PROVE  /\ ~Moved(lastReset, r, Tolerance)
               /\ kind = "copilot" => ~Moved(lastReset, r, 0)
               /\ kind = "kimi" => ~Moved(lastReset, r, Minute)
    <3>1. lastReset = Null \/ Near(lastReset, r.win, Jitter)
      BY <2>3 DEF Settled, RememberedAreOf
    <3>2. kind \notin FromReading
      BY <2>3, KindClasses
    <3> QED
      BY <1>1, <3>1, <3>2, NotMovedFrom
  <2> QED
    BY <1>3, <2>2, <2>3
<1> QED
  BY <1>2, <1>3

LEMMA OverlooksByClass ==
  ASSUME NEW r
  PROVE  /\ kind \in FromRow
            /\ (r.resets # Null =>
                  Cycle.renews # Null /\ Abs(r.resets - Cycle.renews) <= Shift)
            => Overlooks(r)
         /\ kind \in FromMemory /\ ~Moved(lastReset, r, Shift) => Overlooks(r)
         /\ kind \in FromRowAndFall /\ ~ShiftAndFall(r) => Overlooks(r)
         /\ kind \in FromReading \cup {"kimi"} /\ ~(Known /\ Sharp(last, r.used))
            => Overlooks(r)
BY KindClasses DEF Overlooks

LEMMA NotMovedLess ==
  ASSUME NEW r, NEW from, from = Null \/ from \in Nat, r.resets = Null \/ r.resets \in Nat,
         NEW tol \in Nat, tol <= Shift, ~Moved(from, r, tol)
  PROVE  /\ ~Moved(from, r, Shift)
         /\ from # Null /\ r.resets # Null => Abs(r.resets - from) <= Shift
<1> SUFFICES ASSUME from # Null, r.resets # Null PROVE Abs(r.resets - from) <= Shift
  <2>1. Shift \in Nat
    BY Numbers
  <2>2. from # Null /\ r.resets # Null => Abs(r.resets - from) \in Int
    BY DEF Abs
  <2> QED
    BY <2>1, <2>2 DEF Moved
<1>1. from \in Nat /\ r.resets \in Nat
  OBVIOUS
<1>2. Abs(r.resets - from) \in Int /\ Shift \in Nat
  BY <1>1, Numbers DEF Abs
<1>3. ~(Abs(r.resets - from) > tol)
  BY <1>1, Numbers DEF Moved
<1> QED
  BY <1>2, <1>3

(* What a tracker renews its row to.                                        *)
LEMMA Renewals ==
  ASSUME IInv, Live, NEW r, Polled(r)
  PROVE  /\ Updated(r).renews = Cycle.renews
         /\ kind \notin FromRowAndFall => RenewedTo(r) = Cycle.renews
         /\ kind \in FromRowAndFall =>
              RolledTo(r).renews = RenewedTo(r) /\ RollingKept(r).renews = RenewedTo(r)
         /\ r.resets # Null => RolledTo(r).renews = r.resets
<1> DEFINE c == Cycle
<1>1. c \in RowType
  BY LiveLength
<1> HIDE DEF c
<1>2. \A p, d : [c EXCEPT !.peak = p, !.delta = d].renews = c.renews
  BY <1>1 DEF RowType
<1>3. \A e : [c EXCEPT !.renews = e].renews = e
  BY <1>1 DEF RowType
<1>4. Updated(r).renews = Cycle.renews
  BY <1>2 DEF Updated, c
<1>5. /\ r.resets # Null => RolledTo(r).renews = r.resets
      /\ r.resets = Null => RolledTo(r).renews = Cycle.renews
  BY <1>3 DEF RolledTo, c
<1>6. RollingKept(r).renews = RolledTo(r).renews
  <2> DEFINE k == RolledTo(r)
  <2>1. k \in RowType
    BY RolledContinues DEF Polled, Continues
  <2> HIDE DEF k
  <2>2. \A p, d : [k EXCEPT !.peak = p, !.delta = d].renews = k.renews
    BY <2>1 DEF RowType
  <2> QED
    BY <2>2 DEF RollingKept, k
<1> QED
  BY <1>4, <1>5, <1>6 DEF RenewedTo

LEMMA RowResets ==
  ASSUME IInv, SettledWhenSeen, NEW r, Polled(r), Live, kind \in FromRow
  PROVE  /\ RowReset(r, Tolerance) => Unseen(r)
         /\ kind = "zaitokens" /\ RowReset(r, 0) => Unseen(r)
         /\ LongPassed(r) \/ Moved(Cycle.renews, r, Shift) \/ Appeared(r) => Unseen(r)
         /\ ~RowReset(r, Tolerance) => Overlooks(r)
         /\ ~RowReset(r, 0) => Overlooks(r)
         /\ ~(Moved(Cycle.renews, r, Shift) \/ Appeared(r)) => Overlooks(r)
<1>1. Settled /\ r.win = win =>
        /\ ~LongPassed(r) /\ ~Appeared(r)
        /\ ~Moved(Cycle.renews, r, Tolerance) /\ ~Moved(Cycle.renews, r, Shift)
        /\ kind = "zaitokens" => ~Moved(Cycle.renews, r, 0)
  BY SettledSees
<1>2. ~(Settled /\ r.win = win) => Unseen(r)
  BY DEF SettledWhenSeen, Unseen
<1>3. /\ Cycle.renews = Null \/ Cycle.renews \in Nat
      /\ r.resets = Null \/ r.resets \in Nat
      /\ Tolerance \in Nat /\ Tolerance <= Shift /\ Shift \in Nat
  BY ValuesOf, JitterBounds DEF IInv
<1>4. ASSUME NEW tol \in {Tolerance, 0, Shift}, ~Moved(Cycle.renews, r, tol), ~Appeared(r)
      PROVE  Overlooks(r)
  <2>1. tol \in Nat /\ tol <= Shift
    BY <1>3
  <2>2. Cycle.renews # Null /\ r.resets # Null => Abs(r.resets - Cycle.renews) <= Shift
    BY <1>3, <1>4, <2>1, NotMovedLess
  <2>3. r.resets # Null => Cycle.renews # Null
    BY <1>4 DEF Appeared
  <2> QED
    BY <2>2, <2>3, OverlooksByClass
<1> QED
  BY <1>1, <1>2, <1>4 DEF RowReset

LEMMA FallResets ==
  ASSUME IInv, SettledWhenSeen, NEW r, Polled(r), Live, kind \in FromRowAndFall
  PROVE  /\ LongPassed(r) \/ ShiftAndFall(r) => Unseen(r)
         /\ ~(LongPassed(r) \/ ShiftAndFall(r)) => Overlooks(r)
<1>1. Settled /\ r.win = win =>
        /\ ~LongPassed(r)
        /\ ~Moved(Cycle.renews, r, Shift) /\ ~Moved(lastReset, r, Shift)
  BY SettledSees
<1>2. ~(Settled /\ r.win = win) => Unseen(r)
  BY DEF SettledWhenSeen, Unseen
<1>3. Settled /\ r.win = win => ~ShiftAndFall(r)
  BY <1>1 DEF ShiftAndFall
<1> QED
  BY <1>1, <1>2, <1>3, OverlooksByClass

(* A reading that goes on in its window is no fall, no half, no top-up.     *)
LEMMA SixTenths == ASSUME NEW l \in Nat PROVE (6 * l) \div 10 <= l
OBVIOUS

LEMMA MemoryResets ==
  ASSUME IInv, SettledWhenSeen, NEW r, Polled(r), kind \in FromMemory
  PROVE  /\ Moved(lastReset, r, Tolerance) => Unseen(r)
         /\ kind = "copilot" /\ Moved(lastReset, r, 0) => Unseen(r)
         /\ last # Null /\ r.used < last => Unseen(r)
         /\ Known /\ r.used + Drop < last => Unseen(r)
         /\ Known /\ last > 0 /\ r.used < (6 * last) \div 10 => Unseen(r)
         /\ ~Moved(lastReset, r, Tolerance) => Overlooks(r)
         /\ ~Moved(lastReset, r, 0) => Overlooks(r)
<1>1. Settled /\ r.win = win =>
        /\ ~Moved(lastReset, r, Tolerance)
        /\ kind = "copilot" => ~Moved(lastReset, r, 0)
        /\ last = Null \/ last <= r.used
  BY SettledSees, KindClasses
<1>2. ~(Settled /\ r.win = win) => Unseen(r)
  BY DEF SettledWhenSeen, Unseen
<1>3. /\ lastReset = Null \/ lastReset \in Nat
      /\ r.resets = Null \/ r.resets \in Nat
      /\ last = Null \/ last \in Nat
      /\ r.used \in Nat
      /\ Tolerance \in Nat /\ Tolerance <= Shift /\ Shift \in Nat
  BY ValuesOf, JitterBounds DEF IInv
<1>4. ASSUME NEW tol \in {Tolerance, 0}, ~Moved(lastReset, r, tol) PROVE Overlooks(r)
  <2>1. tol \in Nat /\ tol <= Shift
    BY <1>3
  <2>2. ~Moved(lastReset, r, Shift)
    BY <1>3, <1>4, <2>1, NotMovedLess
  <2> QED
    BY <2>2, OverlooksByClass
<1>5. last # Null => (6 * last) \div 10 \in Int /\ (6 * last) \div 10 <= last
  BY <1>3, SixTenths
<1>6. ~(Settled /\ r.win = win) \/ last = Null \/ last <= r.used
  BY <1>1
<1>7. last # Null /\ r.used < last => Unseen(r)
  BY <1>2, <1>3, <1>6
<1>8. /\ Known /\ r.used + Drop < last => Unseen(r)
      /\ Known /\ last > 0 /\ r.used < (6 * last) \div 10 => Unseen(r)
  BY <1>3, <1>5, <1>7, Measures DEF Known
<1> QED
  BY <1>1, <1>2, <1>4, <1>7, <1>8

LEMMA ReadingResets ==
  ASSUME IInv, SettledWhenSeen, NEW r, Polled(r), kind \in FromReading \cup {"kimi"}
  PROVE  /\ kind \notin Balances /\ Halved(r) => Unseen(r)
         /\ kind \in Balances /\ ToppedUp(r) => Unseen(r)
         /\ kind = "kimi" /\ Known /\ r.used < last => Unseen(r)
         /\ kind \notin Balances /\ ~Halved(r) => Overlooks(r)
         /\ kind \in Balances /\ ~ToppedUp(r) => Overlooks(r)
<1>1. Settled /\ r.win = win =>
        last = Null \/ IF kind \in Balances THEN last >= r.used ELSE last <= r.used
  BY SettledSees, KindClasses
<1>2. ~(Settled /\ r.win = win) => Unseen(r)
  BY DEF SettledWhenSeen, Unseen
<1>3. (last = Null \/ last \in Nat) /\ r.used \in Nat
  BY ValuesOf
<1>4. CASE kind \in Balances
  <2>1. ToppedUp(r) => Unseen(r)
    BY <1>1, <1>2, <1>3, <1>4 DEF ToppedUp, Known
  <2>2. ~ToppedUp(r) => ~(Known /\ Sharp(last, r.used))
    BY <1>4 DEF ToppedUp, Sharp
  <2> QED
    BY <1>4, <2>1, <2>2, OverlooksByClass, KindClasses
<1>5. CASE kind \notin Balances
  <2>1. Known /\ r.used < last => Unseen(r)
    BY <1>1, <1>2, <1>3, <1>5 DEF Known
  <2>2. Halved(r) => Known /\ r.used < last
    BY <1>3 DEF Halved, Known
  <2>3. ~Halved(r) => ~(Known /\ Sharp(last, r.used))
    BY <1>3, <1>5 DEF Halved, Known, Sharp
  <2> QED
    BY <1>5, <2>1, <2>2, <2>3, OverlooksByClass
<1> QED
  BY <1>4, <1>5

LEMMA AheadIsUnseen ==
  ASSUME IInv, SettledWhenSeen, NEW r, Polled(r), kind = "kimi",
         lastReset # Null, r.resets # Null, r.resets > lastReset + Minute
  PROVE  Unseen(r)
<1>1. Settled /\ r.win = win => ~Moved(lastReset, r, Minute)
  BY SettledSees
<1>2. lastReset \in Nat /\ r.resets \in Nat
  BY ValuesOf
<1>3. Abs(r.resets - lastReset) > Minute
  BY <1>2, Measures DEF Abs
<1>4. Moved(lastReset, r, Minute)
  BY <1>3 DEF Moved
<1> QED
  BY <1>1, <1>4 DEF SettledWhenSeen, Unseen

-------------------------------------------------------------------------------
(* Process of every tracker goes one of those ways.                         *)
LEMMA EveryTrackerGoes ==
  ASSUME IInv, CInv, NEW r, Polled(r), NEW stop, AnyProcess(r, stop)
  PROVE  PollGoes(r)
<1>1. NothingAhead /\ SeenInActive /\ SettledWhenSeen /\ (Seen => Settled)
  BY DEF CInv, SettledWhenSeen
<1>2. Reported(r) /\ (kind \in FromReading => r.resets = Null)
  BY DEF Polled
<1>3. Live => Continues(ClosedWith(r)) /\ ClosedWith(r).end # Null
  BY <1>2, ClosedWithRow
<1>4. Live => /\ Continues(Closed(EndOf(r))) /\ Closed(EndOf(r)).end # Null
              /\ Continues(Closed(r.at)) /\ Closed(r.at).end # Null
  BY <1>2, ClosedRow
<1>5. Live => Continues(Updated(r)) /\ Updated(r).end = Null
  BY <1>2, UpdatedContinues
<1>6. Live => /\ Continues(RolledTo(r)) /\ RolledTo(r).end = Null
              /\ Continues(RollingKept(r)) /\ RollingKept(r).end = Null
  BY <1>2, RolledContinues, RollingContinues
<1>7. Live => Continues(Cycle) /\ Cycle.end = Null
  BY CycleContinues
<1>8. Live => /\ Updated(r).renews = Cycle.renews
              /\ kind \notin FromRowAndFall => RenewedTo(r) = Cycle.renews
              /\ kind \in FromRowAndFall =>
                   RolledTo(r).renews = RenewedTo(r) /\ RollingKept(r).renews = RenewedTo(r)
              /\ r.resets # Null => RolledTo(r).renews = r.resets
  BY Renewals
<1>10. ASSUME AnthropicProcess(r, stop) PROVE PollGoes(r)
  <2> DEFINE reset == RowReset(r, Tolerance)
  <2>1. kind = "anthropic" /\ kind \in FromRow /\ kind \notin FromRowAndFall
    BY <1>10 DEF AnthropicProcess, FromRow, FromRowAndFall, FromMemory, FromReading, Balances
  <2>2. Process(r, stop, reset, r.resets, ClosedWith(r), Updated(r), Cycle)
    BY <1>10, <1>2, <2>1 DEF AnthropicProcess
  <2>3. Live /\ reset => Unseen(r)
    BY <1>1, <2>1, RowResets
  <2>4. Live /\ ~reset => Overlooks(r)
    BY <1>1, <2>1, RowResets
  <2> HIDE DEF reset
  <2> QED
    BY <1>1, <1>3, <1>5, <1>7, <1>8, <2>1, <2>2, <2>3, <2>4, OpensHow, ResetsHow, GoesHow
       DEF Process
<1>11. ASSUME CursorProcess(r, stop) PROVE PollGoes(r)
  <2> DEFINE reset == RowReset(r, Tolerance)
  <2>1. kind = "cursor" /\ kind \in FromRow /\ kind \notin FromRowAndFall
    BY <1>11 DEF CursorProcess, FromRow, FromRowAndFall, FromMemory, FromReading, Balances
  <2>2. Process(r, stop, reset, r.resets, ClosedWith(r), Updated(r), Cycle)
    BY <1>11, <1>2, <2>1 DEF CursorProcess
  <2>3. Live /\ reset => Unseen(r)
    BY <1>1, <2>1, RowResets
  <2>4. Live /\ ~reset => Overlooks(r)
    BY <1>1, <2>1, RowResets
  <2> HIDE DEF reset
  <2> QED
    BY <1>1, <1>3, <1>5, <1>7, <1>8, <2>1, <2>2, <2>3, <2>4, OpensHow, ResetsHow, GoesHow
       DEF Process
<1>12. ASSUME OpenCodeProcess(r, stop) PROVE PollGoes(r)
  <2> DEFINE reset == \/ LongPassed(r) /\ ~(r.resets # Null /\ r.resets > r.at)
                      \/ Moved(Cycle.renews, r, Shift)
                      \/ Appeared(r)
  <2>1. kind = "opencode" /\ kind \in FromRow /\ kind \notin FromRowAndFall
    BY <1>12 DEF OpenCodeProcess, FromRow, FromRowAndFall, FromMemory, FromReading, Balances
  <2>2. Process(r, stop, reset, r.resets, ClosedWith(r), Updated(r), Cycle)
    BY <1>12, <1>2, <2>1 DEF OpenCodeProcess
  <2>3. Live /\ reset => Unseen(r)
    BY <1>1, <2>1, RowResets
  <2>4. Live /\ ~reset => Overlooks(r)
    BY <1>1, <2>1, RowResets
  <2> HIDE DEF reset
  <2> QED
    BY <1>1, <1>3, <1>5, <1>7, <1>8, <2>1, <2>2, <2>3, <2>4, OpensHow, ResetsHow, GoesHow
       DEF Process
<1>13. ASSUME ZaiTokensProcess(r, stop) PROVE PollGoes(r)
  <2> DEFINE reset == RowReset(r, 0)
  <2>1. kind = "zaitokens" /\ kind \in FromRow /\ kind \notin FromRowAndFall
    BY <1>13 DEF ZaiTokensProcess, FromRow, FromRowAndFall, FromMemory, FromReading, Balances
  <2>2. Process(r, stop, reset, r.resets, ClosedWith(r), Updated(r), Cycle)
    BY <1>13, <1>2, <2>1 DEF ZaiTokensProcess
  <2>3. Live /\ reset => Unseen(r)
    BY <1>1, <2>1, RowResets
  <2>4. Live /\ ~reset => Overlooks(r)
    BY <1>1, <2>1, RowResets
  <2> HIDE DEF reset
  <2> QED
    BY <1>1, <1>3, <1>5, <1>7, <1>8, <2>1, <2>2, <2>3, <2>4, OpensHow, ResetsHow, GoesHow
       DEF Process
<1>14. ASSUME CodexProcess(r, stop) PROVE PollGoes(r)
  <2> DEFINE reset == LongPassed(r) \/ ShiftAndFall(r)
  <2>1. kind = "codex" /\ kind \in FromRowAndFall
    BY <1>14 DEF CodexProcess, FromRow, FromRowAndFall, FromMemory, FromReading, Balances
  <2>2. Process(r, stop, reset, r.resets, ClosedWith(r), RollingKept(r), RolledTo(r))
    BY <1>14, <1>2, <2>1 DEF CodexProcess
  <2>3. Live /\ reset => Unseen(r)
    BY <1>1, <2>1, FallResets
  <2>4. Live /\ ~reset => Overlooks(r)
    BY <1>1, <2>1, FallResets
  <2> HIDE DEF reset
  <2> QED
    BY <1>1, <1>3, <1>6, <1>8, <2>1, <2>2, <2>3, <2>4, OpensHow, ResetsHow, GoesHow
       DEF Process
<1>15. ASSUME GeminiProcess(r, stop) PROVE PollGoes(r)
  <2> DEFINE reset == LongPassed(r) \/ ShiftAndFall(r)
  <2>1. kind = "gemini" /\ kind \in FromRowAndFall
    BY <1>15 DEF GeminiProcess, FromRow, FromRowAndFall, FromMemory, FromReading, Balances
  <2>2. Process(r, stop, reset, r.resets, ClosedWith(r), RollingKept(r), RolledTo(r))
    BY <1>15, <1>2, <2>1 DEF GeminiProcess
  <2>3. Live /\ reset => Unseen(r)
    BY <1>1, <2>1, FallResets
  <2>4. Live /\ ~reset => Overlooks(r)
    BY <1>1, <2>1, FallResets
  <2> HIDE DEF reset
  <2> QED
    BY <1>1, <1>3, <1>6, <1>8, <2>1, <2>2, <2>3, <2>4, OpensHow, ResetsHow, GoesHow
       DEF Process
<1>16. ASSUME CopilotProcess(r, stop) PROVE PollGoes(r)
  <2> DEFINE reset == \/ Moved(lastReset, r, 0)
                      \/ Passed(r) /\ last # Null /\ r.used < last
  <2>1. kind = "copilot" /\ kind \in FromMemory /\ kind \notin FromRowAndFall
    BY <1>16 DEF CopilotProcess, FromRow, FromRowAndFall, FromMemory, FromReading, Balances
  <2>2. Process(r, stop, reset, r.resets, Closed(EndOf(r)), Updated(r), Cycle)
    BY <1>16, <1>2, <2>1 DEF CopilotProcess
  <2>3. Live /\ reset => Unseen(r)
    BY <1>1, <2>1, MemoryResets
  <2>4. Live /\ ~reset => Overlooks(r)
    BY <1>1, <2>1, MemoryResets
  <2> HIDE DEF reset
  <2> QED
    BY <1>1, <1>4, <1>5, <1>7, <1>8, <2>1, <2>2, <2>3, <2>4, OpensHow, ResetsHow, GoesHow
       DEF Process
<1>17. ASSUME AntigravityProcess(r, stop) PROVE PollGoes(r)
  <2> DEFINE reset == \/ Moved(lastReset, r, Tolerance)
                      \/ Known /\ r.used + Drop < last
                      \/ Passed(r) /\ last # Null /\ r.used < last
  <2>1. kind = "antigravity" /\ kind \in FromMemory /\ kind \notin FromRowAndFall
    BY <1>17 DEF AntigravityProcess, FromRow, FromRowAndFall, FromMemory, FromReading, Balances
  <2>2. Process(r, stop, reset, r.resets, Closed(EndOf(r)), Updated(r), Cycle)
    BY <1>17, <1>2, <2>1 DEF AntigravityProcess
  <2>3. Live /\ reset => Unseen(r)
    BY <1>1, <2>1, MemoryResets
  <2>4. Live /\ ~reset => Overlooks(r)
    BY <1>1, <2>1, MemoryResets
  <2> HIDE DEF reset
  <2> QED
    BY <1>1, <1>4, <1>5, <1>7, <1>8, <2>1, <2>2, <2>3, <2>4, OpensHow, ResetsHow, GoesHow
       DEF Process
<1>18. ASSUME MiniMaxProcess(r, stop) PROVE PollGoes(r)
  <2> DEFINE reset == \/ Moved(lastReset, r, Tolerance)
                      \/ Known /\ last > 0 /\ r.used < (6 * last) \div 10
  <2>1. kind = "minimax" /\ kind \in FromMemory /\ kind \notin FromRowAndFall
    BY <1>18 DEF MiniMaxProcess, FromRow, FromRowAndFall, FromMemory, FromReading, Balances
  <2>2. Process(r, stop, reset, r.resets, Closed(EndOf(r)), Updated(r), Cycle)
    BY <1>18, <1>2, <2>1 DEF MiniMaxProcess
  <2>3. Live /\ reset => Unseen(r)
    BY <1>1, <2>1, MemoryResets
  <2>4. Live /\ ~reset => Overlooks(r)
    BY <1>1, <2>1, MemoryResets
  <2> HIDE DEF reset
  <2> QED
    BY <1>1, <1>4, <1>5, <1>7, <1>8, <2>1, <2>2, <2>3, <2>4, OpensHow, ResetsHow, GoesHow
       DEF Process
<1>19. ASSUME KimiProcess(r, stop) PROVE PollGoes(r)
  <2> DEFINE reset == \/ Halved(r)
                      \/ /\ lastReset # Null /\ r.resets # Null /\ r.resets > lastReset + Minute
                         /\ r.used < Low \/ (Known /\ r.used < last)
  <2>1. kind = "kimi" /\ kind \in {"kimi"} /\ kind \notin Balances /\ kind \notin FromRowAndFall
    BY <1>19 DEF KimiProcess, FromRow, FromRowAndFall, FromMemory, FromReading, Balances
  <2>2. Process(r, stop, reset, r.resets, Closed(r.at), Cycle, Cycle)
    BY <1>19, <1>2, <2>1 DEF KimiProcess
  <2>3. Live /\ reset => Unseen(r)
    BY <1>1, <2>1, ReadingResets, AheadIsUnseen
  <2>4. Live /\ ~reset => Overlooks(r)
    BY <1>1, <2>1, ReadingResets
  <2> HIDE DEF reset
  <2> QED
    BY <1>1, <1>4, <1>7, <1>8, <2>1, <2>2, <2>3, <2>4, OpensHow, ResetsHow, GoesHow
       DEF Process
<1>20. ASSUME GrokProcess(r, stop) PROVE PollGoes(r)
  <2> DEFINE reset == Halved(r)
  <2>1. kind = "grok" /\ kind \in FromReading /\ kind \notin Balances /\ kind \notin FromRowAndFall
    BY <1>20 DEF GrokProcess, FromRow, FromRowAndFall, FromMemory, FromReading, Balances
  <2>2. Process(r, stop, reset, r.resets, Closed(r.at), Cycle, Cycle)
    BY <1>20, <1>2, <2>1 DEF GrokProcess
  <2>3. Live /\ reset => Unseen(r)
    BY <1>1, <2>1, ReadingResets
  <2>4. Live /\ ~reset => Overlooks(r)
    BY <1>1, <2>1, ReadingResets
  <2> HIDE DEF reset
  <2> QED
    BY <1>1, <1>4, <1>7, <1>8, <2>1, <2>2, <2>3, <2>4, OpensHow, ResetsHow, GoesHow
       DEF Process
<1>21. ASSUME ZaiTimeProcess(r, stop) PROVE PollGoes(r)
  <2> DEFINE reset == Halved(r)
  <2>1. kind = "zaitime" /\ kind \in FromReading /\ kind \notin Balances /\ kind \notin FromRowAndFall
    BY <1>21 DEF ZaiTimeProcess, FromRow, FromRowAndFall, FromMemory, FromReading, Balances
  <2>2. Process(r, stop, reset, r.resets, Closed(r.at), Updated(r), Cycle)
    BY <1>21, <1>2, <2>1 DEF ZaiTimeProcess
  <2>3. Live /\ reset => Unseen(r)
    BY <1>1, <2>1, ReadingResets
  <2>4. Live /\ ~reset => Overlooks(r)
    BY <1>1, <2>1, ReadingResets
  <2> HIDE DEF reset
  <2> QED
    BY <1>1, <1>4, <1>5, <1>7, <1>8, <2>1, <2>2, <2>3, <2>4, OpensHow, ResetsHow, GoesHow
       DEF Process
<1>22. ASSUME OpenRouterProcess(r, stop) PROVE PollGoes(r)
  <2> DEFINE reset == Halved(r)
  <2>1. kind = "openrouter" /\ kind \in FromReading /\ kind \notin Balances /\ kind \notin FromRowAndFall
    BY <1>22 DEF OpenRouterProcess, FromRow, FromRowAndFall, FromMemory, FromReading, Balances
  <2>2. Process(r, stop, reset, r.resets, Closed(r.at), Updated(r), Cycle)
    BY <1>22, <1>2, <2>1 DEF OpenRouterProcess
  <2>3. Live /\ reset => Unseen(r)
    BY <1>1, <2>1, ReadingResets
  <2>4. Live /\ ~reset => Overlooks(r)
    BY <1>1, <2>1, ReadingResets
  <2> HIDE DEF reset
  <2> QED
    BY <1>1, <1>4, <1>5, <1>7, <1>8, <2>1, <2>2, <2>3, <2>4, OpensHow, ResetsHow, GoesHow
       DEF Process
<1>23. ASSUME DeepSeekProcess(r, stop) PROVE PollGoes(r)
  <2> DEFINE reset == ToppedUp(r)
  <2>1. kind = "deepseek" /\ kind \in FromReading /\ kind \in Balances /\ kind \notin FromRowAndFall
    BY <1>23 DEF DeepSeekProcess, FromRow, FromRowAndFall, FromMemory, FromReading, Balances
  <2>2. Process(r, stop, reset, r.resets, Closed(r.at), Updated(r), Cycle)
    BY <1>23, <1>2, <2>1 DEF DeepSeekProcess
  <2>3. Live /\ reset => Unseen(r)
    BY <1>1, <2>1, ReadingResets
  <2>4. Live /\ ~reset => Overlooks(r)
    BY <1>1, <2>1, ReadingResets
  <2> HIDE DEF reset
  <2> QED
    BY <1>1, <1>4, <1>5, <1>7, <1>8, <2>1, <2>2, <2>3, <2>4, OpensHow, ResetsHow, GoesHow
       DEF Process
<1>24. ASSUME MoonshotProcess(r, stop) PROVE PollGoes(r)
  <2> DEFINE reset == ToppedUp(r)
  <2>1. kind = "moonshot" /\ kind \in FromReading /\ kind \in Balances /\ kind \notin FromRowAndFall
    BY <1>24 DEF MoonshotProcess, FromRow, FromRowAndFall, FromMemory, FromReading, Balances
  <2>2. Process(r, stop, reset, r.resets, Closed(r.at), Updated(r), Cycle)
    BY <1>24, <1>2, <2>1 DEF MoonshotProcess
  <2>3. Live /\ reset => Unseen(r)
    BY <1>1, <2>1, ReadingResets
  <2>4. Live /\ ~reset => Overlooks(r)
    BY <1>1, <2>1, ReadingResets
  <2> HIDE DEF reset
  <2> QED
    BY <1>1, <1>4, <1>5, <1>7, <1>8, <2>1, <2>2, <2>3, <2>4, OpensHow, ResetsHow, GoesHow
       DEF Process
<1> QED
  BY <1>10, <1>11, <1>12, <1>13, <1>14, <1>15, <1>16, <1>17, <1>18, <1>19, <1>20, <1>21, <1>22, <1>23, <1>24 DEF AnyProcess

-------------------------------------------------------------------------------
(* What a step makes of the history: that of the newest row is g, which has *)
(* counted C besides what it had, and the others are as they were.          *)
Becomes(g, C) ==
  /\ Len(rows') \in Nat /\ Len(rows') # 0
  /\ Len(rows') = Len(rows) \/ Len(rows') = Len(rows) + 1
  /\ hist'[Len(rows')] = g /\ g \in HistType
  /\ \A i \in 1..Len(rows') :
       i # Len(rows') => i \in 1..Len(rows) /\ hist'[i] = hist[i]
  /\ Len(rows') = Len(rows) => g.wins = Newest.wins \cup C
  /\ Len(rows') # Len(rows) => g.wins = C /\ ~g.cut

LEMMA NewestIsTyped ==
  ASSUME IInv, Live, NothingAhead
  PROVE  Newest \in HistType /\ Len(rows) \in 1..Len(rows)
BY LiveLength DEF NothingAhead, Newest

LEMMA NewRowBecomes ==
  ASSUME IInv, NEW g, NEW e, NewRow(g, e), g \in HistType, ~g.cut
  PROVE  Becomes(g, g.wins) /\ Len(rows') = Len(rows) + 1
<1> DEFINE n == Len(rows)
           m == Len(rows')
<1>1. n \in Nat /\ m = n + 1 /\ hist'[m] = g /\ \A i \in 1..n : hist'[i] = hist[i]
  BY InvFacts DEF NewRow
<1> HIDE DEF n, m
<1>2. m \in Nat /\ m # 0 /\ m # n /\ \A i \in 1..m : i # m => i \in 1..n
  BY <1>1
<1> QED
  BY <1>1, <1>2 DEF Becomes, n, m

LEMMA SameRowsBecome ==
  ASSUME IInv, Live, NEW g, NEW C, SameRows(g), g \in HistType,
         g.wins = Newest.wins \cup C
  PROVE  Becomes(g, C) /\ Len(rows') = Len(rows)
<1> DEFINE n == Len(rows)
           m == Len(rows')
<1>1. n \in Nat /\ n \in 1..n /\ m = n /\ hist'[m] = g
      /\ \A i \in 1..(n - 1) : hist'[i] = hist[i]
  BY LiveLength DEF SameRows
<1> HIDE DEF n, m
<1>2. m # 0 /\ \A i \in 1..m : i # m => i \in 1..n /\ i \in 1..(n - 1)
  BY <1>1
<1> QED
  BY <1>1, <1>2 DEF Becomes, n, m

(* How each way of a poll becomes.                                          *)
LEMMA OpensBecomes ==
  ASSUME IInv, NEW r, Polled(r), NewRow(Count(NoReadings, r), r.resets)
  PROVE  LET g == Count(NoReadings, r)
         IN /\ Becomes(g, Tells(r)) /\ Len(rows') = Len(rows) + 1
            /\ g.wins = Tells(r) /\ g.val = (IF Tells(r) = {} THEN Null ELSE r.used)
            /\ g.fell = FALSE /\ g.cut = FALSE
<1> DEFINE g == Count(NoReadings, r)
<1>1. /\ g \in HistType /\ g.wins = NoReadings.wins \cup Tells(r)
      /\ g.val = IF Tells(r) = {} THEN NoReadings.val ELSE r.used
      /\ g.cut = NoReadings.cut
      /\ g.fell = (NoReadings.fell \/ (NoReadings.val # Null /\ Tells(r) # {}
                                       /\ Sharp(NoReadings.val, r.used)))
  BY NoReadingsFields, CountFields
<1>2. g.wins = Tells(r) /\ g.val = (IF Tells(r) = {} THEN Null ELSE r.used)
      /\ g.fell = FALSE /\ g.cut = FALSE
  BY <1>1, NoReadingsFields
<1> HIDE DEF g
<1>3. Becomes(g, g.wins) /\ Len(rows') = Len(rows) + 1
  <2>1. NewRow(g, r.resets)
    BY DEF g
  <2> QED
    BY <1>1, <1>2, <2>1, NewRowBecomes
<1> QED
  BY <1>2, <1>3 DEF g

LEMMA BareBecomes ==
  ASSUME IInv, NEW r, NewRow(NoReadings, r.resets)
  PROVE  Becomes(NoReadings, {}) /\ Len(rows') = Len(rows) + 1
<1>1. Becomes(NoReadings, NoReadings.wins) /\ Len(rows') = Len(rows) + 1
  BY NoReadingsFields, NewRowBecomes
<1> QED
  BY <1>1, NoReadingsFields

LEMMA SameBecomes ==
  ASSUME IInv, Live, NothingAhead, SameRows(Newest)
  PROVE  Becomes(Newest, {}) /\ Len(rows') = Len(rows)
<1>1. Newest \in HistType /\ Newest.wins = Newest.wins \cup {}
  BY NewestIsTyped
<1> QED
  BY <1>1, SameRowsBecome

LEMMA CountBecomes ==
  ASSUME IInv, Live, NothingAhead, NEW r, Polled(r), SameRows(Count(Newest, r))
  PROVE  Becomes(Count(Newest, r), Tells(r)) /\ Len(rows') = Len(rows)
<1> DEFINE g == Count(Newest, r)
<1>1. g \in HistType /\ g.wins = Newest.wins \cup Tells(r)
  BY NewestIsTyped, CountFields
<1>2. SameRows(g)
  OBVIOUS
<1> HIDE DEF g
<1>3. Becomes(g, Tells(r)) /\ Len(rows') = Len(rows)
  BY <1>1, <1>2, SameRowsBecome
<1> QED
  BY <1>3 DEF g

LEMMA JitterStays ==
  ASSUME NEW r, Polled(r)
  PROVE  Jitter' = Jitter /\ kind' = kind /\ (JitterBorne' <=> JitterBorne)
BY DEF Polled, Jitter, JitterBorne, Bearable

(* A window that is counted now and was counted before is the upstream's.   *)
LEMMA CountedBefore ==
  ASSUME IInv, NothingAhead, NEW r, Polled(r), NEW i \in 1..Len(rows),
         r.win \in hist[i].wins
  PROVE  r.win = win /\ (JitterBorne => Seen)
<1>1. r.win <= win
  BY DEF NothingAhead
<1>2. r.win = win
  BY <1>1, ValuesOf
<1> QED
  BY <1>2 DEF Seen

LEMMA SeenAgain ==
  ASSUME IInv, NothingAhead, NEW r, Polled(r), NEW g, NEW C, Becomes(g, C), Seen'
  PROVE  r.win \in C \/ (r.win = win /\ Seen)
<1>0. JitterBorne
  BY JitterStays DEF Seen
<1>1. PICK i \in 1..Len(rows') : r.win \in hist'[i].wins
  BY DEF Seen, Polled
<1>2. CASE i # Len(rows')
  <2>1. i \in 1..Len(rows) /\ r.win \in hist[i].wins
    BY <1>1, <1>2 DEF Becomes
  <2> QED
    BY <1>0, <2>1, CountedBefore
<1>3. CASE i = Len(rows')
  <2>1. r.win \in g.wins
    BY <1>1, <1>3 DEF Becomes
  <2>2. CASE Len(rows') = Len(rows)
    <3>1. r.win \in C \/ r.win \in Newest.wins
      BY <2>1, <2>2 DEF Becomes
    <3>2. i \in 1..Len(rows) /\ Newest = hist[i]
      BY <1>3, <2>2 DEF Newest
    <3> QED
      BY <1>0, <3>1, <3>2, CountedBefore
  <2>3. CASE Len(rows') # Len(rows)
    BY <2>1, <2>3 DEF Becomes
  <2> QED
    BY <2>2, <2>3
<1> QED
  BY <1>2, <1>3

-------------------------------------------------------------------------------
(* What every poll keeps of what was counted.                               *)
LEMMA StillCounted ==
  ASSUME IInv, NEW g, NEW C, Becomes(g, C), NEW i \in 1..Len(rows), NEW x \in hist[i].wins
  PROVE  \E j \in 1..Len(rows') : x \in hist'[j].wins
<1> DEFINE n == Len(rows)
           m == Len(rows')
<1>1. n \in Nat /\ m \in Nat /\ (m = n \/ m = n + 1) /\ i \in 1..n
  BY InvFacts DEF Becomes
<1>2. i \in 1..m
  BY <1>1
<1>3. CASE i # m
  BY <1>2, <1>3 DEF Becomes
<1>4. CASE i = m
  <2>1. m = n
    BY <1>1, <1>4
  <2>2. x \in g.wins /\ hist'[m] = g
    BY <1>4, <2>1 DEF Becomes, Newest
  <2> QED
    BY <1>2, <1>4, <2>2
<1> QED
  BY <1>3, <1>4

LEMMA NothingAheadKept ==
  ASSUME IInv, NothingAhead, NEW r, Polled(r), NEW g, NEW C, Becomes(g, C),
         C \subseteq {r.win}, g.cut => kind = "minimax",
         told' = told \/ (Announce(r) /\ Tells(r) \subseteq C)
  PROVE  NothingAhead'
<1>1. ASSUME NEW x \in Wins, told'[x] > 0
      PROVE  \E i \in 1..Len(rows') : x \in hist'[i].wins
  <2>1. CASE told[x] > 0
    <3>1. PICK i \in 1..Len(rows) : x \in hist[i].wins
      BY <2>1 DEF NothingAhead
    <3> QED
      BY <3>1, StillCounted
  <2>2. CASE ~(told[x] > 0)
    <3>1. Announce(r) /\ Tells(r) \subseteq C
      BY <1>1, <2>2
    <3>2. x \in Tells(r)
      BY <1>1, <2>2, <3>1 DEF Announce
    <3>3. x \in g.wins /\ hist'[Len(rows')] = g /\ Len(rows') \in 1..Len(rows')
      BY <3>1, <3>2 DEF Becomes
    <3> QED
      BY <3>3
  <2> QED
    BY <2>1, <2>2
<1>2. ASSUME NEW i \in 1..Len(rows')
      PROVE  /\ hist'[i] \in HistType
             /\ \A x \in hist'[i].wins : x <= win'
             /\ hist'[i].cut => kind' = "minimax"
  <2>1. kind' = kind /\ win' = r.win /\ win \in Nat /\ r.win \in Nat /\ win <= r.win
    BY ValuesOf DEF Polled
  <2>2. \A j \in 1..Len(rows) : /\ hist[j] \in HistType
                                /\ \A x \in hist[j].wins : x \in Nat /\ x <= win
                                /\ hist[j].cut => kind = "minimax"
    BY DEF NothingAhead, HistType
  <2>3. CASE i # Len(rows')
    <3>1. i \in 1..Len(rows) /\ hist'[i] = hist[i]
      BY <2>3 DEF Becomes
    <3>2. \A x \in hist[i].wins : x <= r.win
      BY <2>1, <2>2, <3>1
    <3> QED
      BY <2>1, <2>2, <3>1, <3>2
  <2>4. CASE i = Len(rows')
    <3>1. hist'[i] = g /\ g \in HistType
      BY <2>4 DEF Becomes
    <3>2. \A x \in g.wins : x <= r.win
      <4> SUFFICES ASSUME NEW x \in g.wins PROVE x <= r.win
        OBVIOUS
      <4>1. CASE x = r.win
        BY <2>1, <4>1
      <4>2. CASE x # r.win
        <5>1. x \in Newest.wins /\ Len(rows') = Len(rows)
          BY <4>2 DEF Becomes
        <5> QED
          BY <2>1, <2>2, <2>4, <5>1 DEF Newest
      <4> QED
        BY <4>1, <4>2
    <3> QED
      BY <2>1, <3>1, <3>2
  <2> QED
    BY <2>3, <2>4
<1> QED
  BY <1>1, <1>2 DEF NothingAhead

LEMMA SeenInActiveKept ==
  ASSUME IInv, NothingAhead, SeenInActive, NEW r, Polled(r), NEW g, NEW C, Becomes(g, C),
         C \subseteq {r.win},
         Len(rows') # Len(rows) => OnlyCut(r),
         Live' \/ (Unseen(r) /\ C = {})
  PROVE  SeenInActive'
<1> SUFFICES ASSUME JitterBorne, NEW i \in 1..Len(rows'), r.win \in hist'[i].wins, ~hist'[i].cut
             PROVE  i = Len(rows') /\ Live'
  BY JitterStays DEF SeenInActive, Polled
<1>1. i = Len(rows')
  <2> SUFFICES ASSUME i # Len(rows') PROVE FALSE
    OBVIOUS
  <2>1. i \in 1..Len(rows) /\ hist'[i] = hist[i]
    BY DEF Becomes
  <2>2. r.win = win /\ Seen
    BY <2>1, CountedBefore
  <2>3. i = Len(rows)
    BY <2>1, <2>2 DEF SeenInActive
  <2>4. OnlyCut(r)
    BY <2>3
  <2> QED
    BY <2>1, <2>2, <2>4 DEF OnlyCut
<1>2. Live'
  <2> SUFFICES ASSUME Unseen(r), C = {} PROVE FALSE
    OBVIOUS
  <2>1. Seen'
    BY JitterStays DEF Seen, Polled
  <2> QED
    BY <2>1, SeenAgain DEF Unseen
<1> QED
  BY <1>1, <1>2

LEMMA OneCycleKept ==
  ASSUME IInv, IInv', NothingAhead, SeenInActive, OneCyclePerWindow, NEW r, Polled(r),
         NEW g, NEW C, Becomes(g, C), C \subseteq {r.win},
         Len(rows') # Len(rows) => OnlyCut(r)
  PROVE  OneCyclePerWindow'
<1> DEFINE n == Len(rows)
           m == Len(rows')
<1>1. DOMAIN rows = 1..n /\ n \in Nat /\ m \in Nat /\ (m = n \/ m = n + 1)
  BY InvFacts, LenProperties DEF Becomes
<1>2. DOMAIN rows' = 1..m
  <2>1. rows' \in Seq(RowType)
    BY DEF IInv, TypeOK
  <2> QED
    BY <2>1, LenProperties
<1> SUFFICES ASSUME JitterBorne, NEW i \in 1..m, NEW j \in 1..m, i < j, ~hist'[i].cut,
                    NEW x, x \in hist'[i].wins, x \in hist'[j].wins
             PROVE  FALSE
  BY <1>2, JitterStays DEF OneCyclePerWindow, NeverSplit
<1>3. i # m /\ i \in 1..n /\ hist'[i] = hist[i]
  <2>1. i # m
    BY <1>1
  <2> QED
    BY <2>1 DEF Becomes
<1>4. CASE j # m
  <2>1. j \in 1..n /\ hist'[j] = hist[j]
    BY <1>4 DEF Becomes
  <2> QED
    BY <1>1, <1>3, <2>1 DEF OneCyclePerWindow, NeverSplit
<1>5. CASE j = m
  <2>1. x \in g.wins
    BY <1>5 DEF Becomes
  <2>2. CASE x \in Newest.wins /\ m = n
    <3>1. j \in 1..n /\ x \in hist[j].wins
      BY <1>5, <2>2 DEF Newest
    <3> QED
      BY <1>1, <1>3, <3>1 DEF OneCyclePerWindow, NeverSplit
  <2>3. CASE x = r.win
    <3>1. r.win = win /\ Seen
      BY <1>3, <2>3, CountedBefore
    <3>2. i = n
      BY <1>3, <2>3, <3>1 DEF SeenInActive
    <3>3. m # n
      BY <1>3, <3>2
    <3> QED
      BY <1>3, <2>3, <3>1, <3>3 DEF OnlyCut
  <2> QED
    BY <1>1, <2>1, <2>2, <2>3 DEF Becomes
<1> QED
  BY <1>4, <1>5

LEMMA AnnouncedOnceKept ==
  ASSUME IInv, NothingAhead, AnnouncedOnce, NEW r, Polled(r),
         told' = told \/ (Announce(r) /\ Unseen(r))
  PROVE  AnnouncedOnce'
<1> SUFFICES ASSUME JitterBorne, NEW x \in Wins PROVE told'[x] <= 1
  BY JitterStays DEF AnnouncedOnce, NeverToldTwice
<1>1. told[x] \in Nat /\ told[x] <= 1
  BY DEF IInv, TypeOK, AnnouncedOnce, NeverToldTwice
<1>2. CASE told' = told
  BY <1>1, <1>2
<1>3. CASE Announce(r) /\ Unseen(r)
  <2>1. CASE x \in Tells(r)
    <3>1. x = r.win
      BY <2>1, TellsWhat
    <3>2. ~(told[x] > 0)
      <4> SUFFICES ASSUME told[x] > 0 PROVE FALSE
        OBVIOUS
      <4>1. PICK i \in 1..Len(rows) : r.win \in hist[i].wins
        BY <3>1 DEF NothingAhead
      <4>2. r.win = win /\ Seen
        BY <4>1, CountedBefore
      <4> QED
        BY <1>3, <4>2 DEF Unseen
    <3>3. told'[x] = told[x] + 1
      BY <1>3, <2>1 DEF Announce
    <3> QED
      BY <1>1, <3>2, <3>3
  <2>2. CASE x \notin Tells(r)
    BY <1>1, <1>3, <2>2 DEF Announce
  <2> QED
    BY <2>1, <2>2
<1> QED
  BY <1>2, <1>3

-------------------------------------------------------------------------------
(* What the active row has counted, as a tracker goes on.                   *)
LEMMA SameWindow ==
  ASSUME IInv, NEW r, Polled(r), kind \notin FromReading, kind \notin Balances,
         NEW from, NEW y \in Wins, Near(from, y, Jitter), y <= win,
         r.resets # Null, Abs(r.resets - from) <= Shift
  PROVE  y = r.win /\ r.win = win /\ used <= r.used
<1>1. Near(r.resets, r.win, Jitter) /\ r.win \in Wins
  BY DEF Polled
<1>2. y = r.win
  BY <1>1, NearSame DEF IInv
<1>3. r.win = win
  BY <1>2, ValuesOf
<1> QED
  BY <1>2, <1>3 DEF Polled, Follows

(* Nothing counted yet, or only window y up to a value: so it stays while   *)
(* the upstream is idle.                                                    *)
LEMMA StaysCounted ==
  ASSUME IInv, NEW r, Polled(r), kind \notin Balances, NEW h \in HistType,
         NEW y \in Wins, CountsOnly(h, y, win, used),
         NEW g, g.wins = h.wins, g.val = h.val
  PROVE  CountsOnly(g, y, r.win, r.used)
<1>1. /\ y \in Nat /\ win \in Nat /\ r.win \in Nat /\ win <= r.win
      /\ r.used \in Nat /\ used \in Nat
  BY ValuesOf, WinsArePositive
<1>2. win' = r.win /\ used' = r.used
  BY DEF Polled
<1>3. y <= r.win
  BY <1>1 DEF CountsOnly
<1>4. ASSUME h.val # Null, y = r.win PROVE h.val <= r.used
  <2>1. y = win /\ r.win = win
    BY <1>1, <1>4 DEF CountsOnly
  <2>2. h.val <= used /\ used <= r.used
    BY <1>4, <2>1 DEF CountsOnly, Polled, Follows
  <2>3. h.val \in Nat
    BY <1>4, Numbers DEF HistType, Values
  <2> QED
    BY <1>1, <2>2, <2>3
<1> QED
  BY <1>2, <1>3, <1>4 DEF CountsOnly

LEMMA FreshlyCounted ==
  ASSUME IInv, NEW r, Polled(r), NEW g, g.wins \subseteq {r.win},
         g.val = Null \/ g.val = r.used
  PROVE  CountsOnly(g, r.win, r.win, r.used)
<1>1. r.win \in Nat /\ r.used \in Nat /\ win' = r.win /\ used' = r.used
  BY ValuesOf DEF Polled
<1> QED
  BY <1>1 DEF CountsOnly


LEMMA NewestIs ==
  ASSUME NEW g, NEW C, Becomes(g, C) PROVE Newest' = g
BY DEF Becomes, Newest

(* Trackers that compare with the row.                                      *)
LEMMA RowTracksKept ==
  ASSUME IInv, NothingAhead, RowTracks, NEW r, Polled(r), PollGoes(r)
  PROVE  RowTracks'
<1> SUFFICES ASSUME kind \in FromRow, Live'
             PROVE  /\ Cycle'.renews = Null => Newest'.wins = {} /\ Newest'.val = Null
                    /\ Cycle'.renews # Null =>
                         \E y \in Wins : Near(Cycle'.renews, y, Jitter) /\ CountsOnly(Newest', y, r.win, r.used)
  BY JitterStays DEF RowTracks, Polled
<1>1. kind \notin FromReading /\ kind \notin Balances /\ kind \notin FromRowAndFall
  BY KindClasses
<1>2. r.win \in Wins /\ (r.resets # Null => Near(r.resets, r.win, Jitter))
      /\ (Tells(r) = {} <=> r.resets = Null) /\ (Tells(r) = {} \/ Tells(r) = {r.win})
  BY <1>1, TellsWhat DEF Polled
<1>3. CASE NewRow(Count(NoReadings, r), r.resets)
  <2> DEFINE g == Count(NoReadings, r)
  <2>1. /\ Newest' = g /\ g.wins = Tells(r)
        /\ g.val = (IF Tells(r) = {} THEN Null ELSE r.used)
    BY <1>3, OpensBecomes, NewestIs
  <2>2. Cycle'.renews = r.resets
    BY <1>3 DEF NewRow
  <2> HIDE DEF g
  <2>3. CountsOnly(g, r.win, r.win, r.used)
    BY <1>2, <2>1, FreshlyCounted
  <2>4. CountsOnly(Newest', r.win, r.win, r.used)
    BY <2>1, <2>3
  <2> QED
    BY <1>2, <2>1, <2>2, <2>4
<1>4. CASE NewRow(NoReadings, r.resets)
  <2> DEFINE g == NoReadings
  <2>1. Newest' = g /\ g.wins = {} /\ g.val = Null
    BY <1>4, BareBecomes, NewestIs, NoReadingsFields
  <2>2. Cycle'.renews = r.resets
    BY <1>4 DEF NewRow
  <2> HIDE DEF g
  <2>3. CountsOnly(g, r.win, r.win, r.used)
    BY <2>1, FreshlyCounted
  <2>4. CountsOnly(Newest', r.win, r.win, r.used)
    BY <2>1, <2>3
  <2> QED
    BY <1>2, <2>1, <2>2, <2>4
<1>5. CASE GoesOn(r)
  <2> DEFINE g == Count(Newest, r)
  <2>1. Live /\ Newest \in HistType
    BY <1>5, NewestIsTyped DEF GoesOn
  <2>2. /\ g.wins = Newest.wins \cup Tells(r)
        /\ g.val = IF Tells(r) = {} THEN Newest.val ELSE r.used
    BY <2>1, CountFields
  <2>3. Newest' = g
    BY <1>5, <2>1, CountBecomes, NewestIs DEF GoesOn, SameRow
  <2>4. Cycle'.renews = Cycle.renews
    BY <1>1, <1>5 DEF GoesOn, SameRow, RenewedTo
  <2> HIDE DEF g
  <2>5. CASE r.resets = Null
    <3>1. g.wins = Newest.wins /\ g.val = Newest.val
      BY <1>2, <2>2, <2>5
    <3>2. CASE Cycle.renews = Null
      BY <2>1, <2>3, <2>4, <3>1, <3>2 DEF RowTracks
    <3>3. CASE Cycle.renews # Null
      <4>1. PICK y \in Wins : Near(Cycle.renews, y, Jitter) /\ CountsOnly(Newest, y, win, used)
        BY <2>1, <3>3 DEF RowTracks
      <4>2. CountsOnly(g, y, r.win, r.used)
        BY <1>1, <2>1, <3>1, <4>1, StaysCounted
      <4>3. CountsOnly(Newest', y, r.win, r.used)
        BY <2>3, <4>2
      <4> QED
        BY <2>4, <3>3, <4>1, <4>3
    <3> QED
      BY <3>2, <3>3
  <2>6. CASE r.resets # Null
    <3>1. Cycle.renews # Null /\ Abs(r.resets - Cycle.renews) <= Shift
      BY <1>5, <2>6 DEF GoesOn, Overlooks
    <3>2. PICK y \in Wins : Near(Cycle.renews, y, Jitter) /\ CountsOnly(Newest, y, win, used)
      BY <2>1, <3>1 DEF RowTracks
    <3>3. y = r.win
      BY <1>1, <2>6, <3>1, <3>2, SameWindow DEF CountsOnly
    <3>4. g.wins \subseteq {r.win} /\ g.val = r.used
      BY <1>2, <2>2, <2>6, <3>2, <3>3 DEF CountsOnly
    <3>5. CountsOnly(g, r.win, r.win, r.used)
      BY <3>4, FreshlyCounted
    <3>6. CountsOnly(Newest', r.win, r.win, r.used)
      BY <2>3, <3>5
    <3> QED
      BY <2>4, <3>1, <3>2, <3>3, <3>6
  <2> QED
    BY <2>5, <2>6
<1> QED
  BY <1>1, <1>3, <1>4, <1>5
     DEF PollGoes, Opens, OpensBare, Rolls, Ends, RowEnds, GoesHalf

(* Trackers that compare with the reset time in memory.                     *)
LEMMA MemoryTracksKept ==
  ASSUME IInv, NothingAhead, MemoryTracks, NEW r, Polled(r), PollGoes(r)
  PROVE  MemoryTracks'
<1> SUFFICES ASSUME kind \in FromMemory, Live'
             PROVE  \/ Newest'.reborn \/ (kind = "copilot" /\ Newest'.idle)
                    \/ Newest'.wins = {} /\ Newest'.val = Null
                    \/ \E y \in Wins : /\ Near(lastReset', y, Jitter)
                                       /\ CountsOnly(Newest', y, r.win, r.used)
  BY JitterStays DEF MemoryTracks, Polled
<1>1. kind \notin FromReading /\ kind \notin Balances /\ kind \notin FromRowAndFall
  BY KindClasses
<1>2. r.win \in Wins /\ (r.resets # Null => Near(r.resets, r.win, Jitter))
      /\ (Tells(r) = {} <=> r.resets = Null) /\ (Tells(r) = {} \/ Tells(r) = {r.win})
  BY <1>1, TellsWhat DEF Polled
<1>3. CASE NewRow(Count(NoReadings, r), r.resets) /\ Remember(r)
  <2> DEFINE g == Count(NoReadings, r)
  <2>1. /\ Newest' = g /\ g.wins = Tells(r)
        /\ g.val = (IF Tells(r) = {} THEN Null ELSE r.used)
    BY <1>3, OpensBecomes, NewestIs
  <2> HIDE DEF g
  <2>2. CASE r.resets = Null
    BY <1>2, <2>1, <2>2
  <2>3. CASE r.resets # Null
    <3>1. CountsOnly(g, r.win, r.win, r.used)
      BY <1>2, <2>1, FreshlyCounted
    <3>2. Near(lastReset', r.win, Jitter)
      BY <1>2, <1>3, <2>3 DEF Remember
    <3> QED
      BY <1>2, <2>1, <3>1, <3>2
  <2> QED
    BY <2>2, <2>3
<1>4. CASE NewRow(NoReadings, r.resets)
  BY <1>4, BareBecomes, NewestIs, NoReadingsFields
<1>5. CASE GoesOn(r)
  <2> DEFINE g == Count(Newest, r)
  <2>1. Live /\ Newest \in HistType
    BY <1>5, NewestIsTyped DEF GoesOn
  <2>2. /\ g.wins = Newest.wins \cup Tells(r)
        /\ g.val = IF Tells(r) = {} THEN Newest.val ELSE r.used
        /\ g.reborn = Newest.reborn /\ g.idle = (Newest.idle \/ Tells(r) = {})
    BY <2>1, CountFields
  <2>3. Newest' = g
    BY <1>5, <2>1, CountBecomes, NewestIs DEF GoesOn, SameRow
  <2>4. Remember(r) /\ ~Moved(lastReset, r, Shift)
    BY <1>5 DEF GoesOn, Overlooks
  <2> HIDE DEF g
  <2>5. CASE Newest.reborn \/ (kind = "copilot" /\ Newest.idle)
    BY <2>2, <2>3, <2>5
  <2>6. CASE Newest.wins = {} /\ Newest.val = Null
    <3>1. CASE r.resets = Null
      BY <1>2, <2>2, <2>3, <2>6, <3>1
    <3>2. CASE r.resets # Null
      <4>1. g.wins \subseteq {r.win} /\ g.val = r.used
        BY <1>2, <2>2, <2>6, <3>2
      <4>2. CountsOnly(g, r.win, r.win, r.used)
        BY <4>1, FreshlyCounted
      <4>3. Near(lastReset', r.win, Jitter)
        BY <1>2, <2>4, <3>2 DEF Remember
      <4> QED
        BY <1>2, <2>3, <4>2, <4>3
    <3> QED
      BY <3>1, <3>2
  <2>7. ASSUME NEW y \in Wins, Near(lastReset, y, Jitter), CountsOnly(Newest, y, win, used)
        PROVE  \/ kind = "copilot" /\ g.idle
               \/ \E z \in Wins : /\ Near(lastReset', z, Jitter)
                                  /\ CountsOnly(g, z, r.win, r.used)
    <3>1. CASE r.resets = Null
      <4>1. g.wins = Newest.wins /\ g.val = Newest.val
        BY <1>2, <2>2, <3>1
      <4>2. CountsOnly(g, y, r.win, r.used)
        BY <1>1, <2>1, <2>7, <4>1, StaysCounted
      <4>3. CASE kind = "copilot"
        BY <1>2, <2>2, <3>1, <4>3
      <4>4. CASE kind # "copilot"
        <5>1. lastReset' = lastReset
          BY <2>4, <3>1, <4>4 DEF Remember
        <5> QED
          BY <2>7, <4>2, <5>1
      <4> QED
        BY <4>3, <4>4
    <3>2. CASE r.resets # Null
      <4>1. lastReset # Null
        BY <2>7, Numbers DEF Near
      <4>2. Abs(r.resets - lastReset) <= Shift
        BY <2>4, <3>2, <4>1, ValuesOf, Numbers, NotMovedLess
      <4>3. y = r.win
        BY <1>1, <2>7, <3>2, <4>2, SameWindow DEF CountsOnly
      <4>4. g.wins \subseteq {r.win} /\ g.val = r.used
        BY <1>2, <2>2, <2>7, <3>2, <4>3 DEF CountsOnly
      <4>5. CountsOnly(g, r.win, r.win, r.used)
        BY <4>4, FreshlyCounted
      <4>6. Near(lastReset', r.win, Jitter)
        BY <1>2, <2>4, <3>2 DEF Remember
      <4> QED
        BY <1>2, <4>5, <4>6
    <3> QED
      BY <3>1, <3>2
  <2> QED
    BY <2>1, <2>3, <2>5, <2>6, <2>7 DEF MemoryTracks
<1> QED
  BY <1>1, <1>3, <1>4, <1>5
     DEF PollGoes, Opens, OpensBare, Rolls, Ends, RowEnds, GoesHalf

(* Codex and Gemini.                                                        *)
LEMMA NotFallen ==
  ASSUME IInv, NEW r, Polled(r), kind \in FromRowAndFall, r.resets # Null,
         Known, last <= used + Margin, Cycle.renews # Null,
         NEW y \in Wins, y <= win, Near(lastReset, y, Jitter), ~ShiftAndFall(r)
  PROVE  last <= r.used + Margin
<1> SUFFICES ASSUME ~(last <= r.used + Margin) PROVE FALSE
  OBVIOUS
<1>1. last \in Nat /\ r.used \in Nat /\ used \in Nat /\ Margin \in Nat
  BY ValuesOf, Measures DEF Known
<1>2. lastReset # Null /\ lastReset \in Nat /\ r.resets \in Nat
  BY ValuesOf, Numbers DEF Near
<1>3. ~Moved(lastReset, r, Shift)
  BY <1>1, <1>2 DEF ShiftAndFall
<1>4. Abs(r.resets - lastReset) <= Shift
  BY <1>2, <1>3, Numbers, NotMovedLess
<1>5. used <= r.used
  BY <1>4, SameWindow, KindClasses
<1> QED
  BY <1>1, <1>5

LEMMA FallTracksKept ==
  ASSUME IInv, NothingAhead, FallTracks, NEW r, Polled(r), PollGoes(r)
  PROVE  FallTracks'
<1> SUFFICES ASSUME kind \in FromRowAndFall, Live'
             PROVE  \/ Newest'.reborn \/ Newest'.idle \/ Newest'.val = Null
                    \/ /\ hasLast' /\ last' # Null
                       /\ last' = Newest'.val /\ last' <= r.used + Margin
                       /\ Cycle'.renews # Null
                       /\ \E y \in Wins : y <= r.win /\ Near(lastReset', y, Jitter)
  BY JitterStays DEF FallTracks, Polled, Known
<1>1. kind \notin FromReading /\ kind \notin Balances
  BY KindClasses
<1>2. r.win \in Wins /\ (r.resets # Null => Near(r.resets, r.win, Jitter))
      /\ (Tells(r) = {} <=> r.resets = Null)
      /\ r.used \in Nat /\ r.win \in Nat /\ r.used # Null
  BY <1>1, TellsWhat, ValuesOf, Numbers DEF Polled
<1>3. ASSUME Remember(r), r.resets # Null, Newest'.val = r.used, Cycle'.renews # Null
      PROVE  /\ hasLast' /\ last' # Null
             /\ last' = Newest'.val /\ last' <= r.used + Margin
             /\ Cycle'.renews # Null
             /\ \E y \in Wins : y <= r.win /\ Near(lastReset', y, Jitter)
  <2>1. hasLast' /\ last' = r.used /\ lastReset' = r.resets
    BY <1>3 DEF Remember
  <2>2. r.win <= r.win /\ r.used <= r.used + Margin
    BY <1>2, Measures
  <2> QED
    BY <1>2, <1>3, <2>1, <2>2
<1>4. CASE NewRow(Count(NoReadings, r), r.resets) /\ Remember(r)
  <2> DEFINE g == Count(NoReadings, r)
  <2>1. Newest' = g /\ g.val = (IF Tells(r) = {} THEN Null ELSE r.used)
    BY <1>4, OpensBecomes, NewestIs
  <2>2. Cycle'.renews = r.resets
    BY <1>4 DEF NewRow
  <2> HIDE DEF g
  <2> QED
    BY <1>2, <1>3, <1>4, <2>1, <2>2
<1>5. CASE NewRow(NoReadings, r.resets)
  BY <1>5, BareBecomes, NewestIs, NoReadingsFields
<1>6. CASE GoesOn(r)
  <2> DEFINE g == Count(Newest, r)
  <2>1. Live /\ Newest \in HistType
    BY <1>6, NewestIsTyped DEF GoesOn
  <2>2. /\ g.val = IF Tells(r) = {} THEN Newest.val ELSE r.used
        /\ g.idle = (Newest.idle \/ Tells(r) = {})
    BY <2>1, CountFields
  <2>3. Newest' = g
    BY <1>6, <2>1, CountBecomes, NewestIs DEF GoesOn, SameRow
  <2>4. Remember(r) /\ Cycle'.renews = RenewedTo(r)
    BY <1>6 DEF GoesOn, SameRow
  <2> HIDE DEF g
  <2>5. CASE r.resets = Null
    BY <1>2, <2>2, <2>3, <2>5
  <2>6. CASE r.resets # Null
    BY <1>2, <1>3, <2>2, <2>3, <2>4, <2>6 DEF RenewedTo
  <2> QED
    BY <2>5, <2>6
<1>7. CASE GoesHalf(r)
  <2>1. Live /\ Newest' = Newest
    BY <1>7, SameBecomes, NewestIs DEF GoesHalf, SameRow
  <2>2. /\ Cycle'.renews = r.resets /\ r.resets # Null /\ lastReset' = r.resets
        /\ last' = last /\ hasLast' = hasLast /\ ~ShiftAndFall(r)
    BY <1>7 DEF GoesHalf, SameRow, Overlooks
  <2>3. CASE Newest.reborn \/ Newest.idle \/ Newest.val = Null
    BY <2>1, <2>3
  <2>4. CASE /\ Known /\ last = Newest.val /\ last <= used + Margin /\ Cycle.renews # Null
             /\ \E y \in Wins : y <= win /\ Near(lastReset, y, Jitter)
    <3>1. last <= r.used + Margin
      BY <2>2, <2>4, NotFallen
    <3>2. r.win <= r.win
      BY <1>2
    <3> QED
      BY <1>2, <2>1, <2>2, <2>4, <3>1, <3>2 DEF Known
  <2> QED
    BY <2>1, <2>3, <2>4 DEF FallTracks
<1> QED
  BY <1>4, <1>5, <1>6, <1>7
     DEF PollGoes, Opens, OpensBare, Rolls, Ends, RowEnds

(* Trackers that see only the reading.                                      *)
LEMMA ReadingTracksKept ==
  ASSUME IInv, NothingAhead, ReadingTracks, NEW r, Polled(r), PollGoes(r)
  PROVE  ReadingTracks'
<1> SUFFICES ASSUME kind \in FromReading \cup {"kimi"}, Live'
             PROVE  \/ Newest'.reborn \/ Newest'.val = Null
                    \/ hasLast' /\ last' # Null /\ last' = Newest'.val
  BY JitterStays DEF ReadingTracks, Known
<1>1. kind \notin FromRowAndFall
  BY KindClasses
<1>2. r.used \in Nat /\ r.used # Null
  BY ValuesOf, Numbers
<1>3. CASE NewRow(Count(NoReadings, r), r.resets) /\ Remember(r)
  <2> DEFINE g == Count(NoReadings, r)
  <2>1. Newest' = g /\ g.val = (IF Tells(r) = {} THEN Null ELSE r.used)
    BY <1>3, OpensBecomes, NewestIs
  <2> HIDE DEF g
  <2> QED
    BY <1>2, <1>3, <2>1 DEF Remember
<1>4. CASE NewRow(NoReadings, r.resets)
  BY <1>4, BareBecomes, NewestIs, NoReadingsFields
<1>5. CASE GoesOn(r)
  <2> DEFINE g == Count(Newest, r)
  <2>1. Live /\ Newest \in HistType
    BY <1>5, NewestIsTyped DEF GoesOn
  <2>2. /\ g.val = IF Tells(r) = {} THEN Newest.val ELSE r.used
        /\ g.reborn = Newest.reborn
    BY <2>1, CountFields
  <2>3. Newest' = g
    BY <1>5, <2>1, CountBecomes, NewestIs DEF GoesOn, SameRow
  <2>4. Remember(r) /\ ~(Known /\ Sharp(last, r.used))
    BY <1>5 DEF GoesOn, Overlooks
  <2> HIDE DEF g
  <2>5. CASE Tells(r) # {}
    BY <1>2, <2>2, <2>3, <2>4, <2>5 DEF Remember
  <2>6. CASE Tells(r) = {}
    <3>1. kind = "kimi" /\ r.used = 0
      BY <2>6, TellsWhat, KindClasses DEF Polled, Tells
    <3>2. CASE Newest.reborn \/ Newest.val = Null
      BY <2>2, <2>3, <2>6, <3>2
    <3>3. CASE Known /\ last = Newest.val
      <4>1. last \in Nat
        BY <3>3, ValuesOf DEF Known
      <4>2. ~(0 < last)
        BY <2>4, <3>1, <3>3, <4>1 DEF Sharp, Balances, FromRowAndFall
      <4>3. last = 0
        BY <4>1, <4>2
      <4> QED
        BY <1>2, <2>2, <2>3, <2>4, <2>6, <3>1, <3>3, <4>3 DEF Remember
    <3> QED
      BY <2>1, <3>2, <3>3 DEF ReadingTracks
  <2> QED
    BY <2>5, <2>6
<1> QED
  BY <1>1, <1>3, <1>4, <1>5
     DEF PollGoes, Opens, OpensBare, Rolls, Ends, RowEnds, GoesHalf

-------------------------------------------------------------------------------
(* A tracker is settled on a window as soon as it is counted, and stays so. *)
LEMMA FreshlySettled ==
  ASSUME IInv, JitterBorne, NEW r, Polled(r), Remember(r), Tells(r) # {},
         kind \in FromRow \cup FromRowAndFall =>
           Live' /\ Near(Cycle'.renews, r.win, Jitter)
  PROVE  Settled'
<1>1. kind' = kind /\ Jitter' = Jitter /\ win' = r.win /\ used' = r.used /\ r.used \in Nat
  BY JitterStays, ValuesOf DEF Polled
<1>2. NotBeyond(last)'
  BY <1>1 DEF NotBeyond, Remember
<1>3. ASSUME kind \notin FromReading PROVE RememberedAreOf(win)'
  <2>1. r.resets # Null /\ Near(r.resets, r.win, Jitter)
    BY <1>3, TellsWhat DEF Polled
  <2>2. lastReset' = r.resets
    BY <2>1 DEF Remember
  <2> QED
    BY <1>1, <2>1, <2>2 DEF RememberedAreOf
<1> QED
  BY <1>1, <1>2, <1>3, KindClasses, JitterStays DEF Settled

LEMMA StaysSettled ==
  ASSUME IInv, NEW r, Polled(r), Settled, r.win = win,
         Remember(r) \/ UNCHANGED memory,
         kind \in FromRow \cup FromRowAndFall => Live' /\ Cycle'.renews = Cycle.renews,
         Tells(r) = {} \/ UNCHANGED memory
  PROVE  Settled'
<1>1. /\ kind' = kind /\ Jitter' = Jitter /\ win' = win /\ used' = r.used
      /\ r.used \in Nat /\ used \in Nat /\ (last # Null => last \in Nat)
  BY JitterStays, ValuesOf DEF Polled
<1>2. ASSUME kind \notin FromRow \cup FromRowAndFall
      PROVE  (last = Null \/ NotBeyond(last))'
  <2>1. CASE Remember(r)
    BY <1>1, <2>1 DEF NotBeyond, Remember
  <2>2. CASE UNCHANGED memory
    <3>1. last' = last /\ (last = Null \/ NotBeyond(last))
      BY <1>2, <2>2 DEF memory, Settled
    <3>2. IF kind \in Balances THEN r.used <= used ELSE r.used >= used
      BY DEF Polled, Follows
    <3> QED
      BY <1>1, <3>1, <3>2 DEF NotBeyond
  <2> QED
    BY <2>1, <2>2
<1>3. ASSUME kind \in FromRowAndFall \cup FromMemory \cup {"kimi"}
      PROVE  RememberedAreOf(win)'
  <2>1. lastReset = Null \/ Near(lastReset, win, Jitter)
    BY <1>3 DEF Settled, RememberedAreOf
  <2>2. lastReset' = lastReset \/ lastReset' = Null
    <3>1. CASE UNCHANGED memory
      BY <3>1 DEF memory
    <3>2. CASE Remember(r) /\ Tells(r) = {}
      <4>1. r.resets = Null
        BY <1>3, <3>2, TellsWhat, KindClasses
      <4> QED
        BY <3>2, <4>1 DEF Remember
    <3> QED
      BY <3>1, <3>2
  <2> QED
    BY <1>1, <2>1, <2>2 DEF RememberedAreOf
<1>4. kind \in FromRow \cup FromRowAndFall => Near(Cycle.renews, win, Jitter)
  BY DEF Settled
<1> QED
  BY <1>1, <1>2, <1>3, <1>4, JitterStays DEF Settled

LEMMA SettledKept ==
  ASSUME IInv, NothingAhead, SettledWhenSeen, RowTracks, NEW r, Polled(r), PollGoes(r)
  PROVE  SettledWhenSeen'
<1> SUFFICES ASSUME Seen' PROVE Settled'
  BY DEF SettledWhenSeen
<1>0. JitterBorne
  BY JitterStays DEF Seen
<1>1. /\ Tells(r) = {} \/ Tells(r) = {r.win}
      /\ kind \notin FromReading => (Tells(r) = {} <=> r.resets = Null)
      /\ kind \notin FromReading /\ r.resets # Null => Near(r.resets, r.win, Jitter)
  BY TellsWhat DEF Polled
<1>2. Seen => Settled
  BY DEF SettledWhenSeen
<1>3. CASE Opens(r) \/ Rolls(r)
  <2>1. /\ OnlyCut(r) /\ Remember(r) /\ Becomes(Count(NoReadings, r), Tells(r))
        /\ Live' /\ Cycle'.renews = r.resets
    BY <1>3, OpensBecomes DEF Opens, Rolls, NewRow, OnlyCut, Unseen
  <2>2. CASE Tells(r) # {}
    BY <1>0, <1>1, <2>1, <2>2, FreshlySettled, KindClasses
  <2>3. CASE Tells(r) = {}
    <3>1. r.win = win /\ Seen
      BY <2>1, <2>3, SeenAgain
    <3>2. kind = "minimax"
      BY <2>1, <3>1 DEF OnlyCut
    <3>3. kind \notin FromRow \cup FromRowAndFall
      BY <3>2 DEF FromRow, FromRowAndFall
    <3> QED
      BY <1>2, <2>1, <2>3, <3>1, <3>3, StaysSettled
  <2> QED
    BY <2>2, <2>3
<1>4. CASE OpensBare(r)
  <2>1. OnlyCut(r) /\ UNCHANGED memory /\ Becomes(NoReadings, {})
    BY <1>4, BareBecomes DEF OpensBare
  <2>2. r.win = win /\ Seen
    BY <2>1, SeenAgain
  <2>3. kind = "minimax"
    BY <2>1, <2>2 DEF OnlyCut
  <2>4. kind \notin FromRow \cup FromRowAndFall
    BY <2>3 DEF FromRow, FromRowAndFall
  <2> QED
    BY <1>2, <2>1, <2>2, <2>4, StaysSettled
<1>5. CASE Ends(r)
  <2>1. Unseen(r) /\ Becomes(Newest, {})
    BY <1>5, SameBecomes DEF Ends, RowEnds
  <2> QED
    BY <2>1, SeenAgain DEF Unseen
<1>6. CASE GoesOn(r)
  <2>1. /\ Live /\ Overlooks(r) /\ Remember(r)
        /\ Live' /\ Cycle'.renews = RenewedTo(r)
        /\ Becomes(Count(Newest, r), Tells(r))
    BY <1>6, CountBecomes DEF GoesOn, SameRow
  <2>2. CASE Tells(r) # {}
    <3>1. ASSUME kind \in FromRow PROVE Near(Cycle'.renews, r.win, Jitter)
      <4>1. /\ r.resets # Null /\ Cycle.renews # Null
            /\ Abs(r.resets - Cycle.renews) <= Shift
            /\ Cycle'.renews = Cycle.renews
        BY <1>1, <2>1, <2>2, <3>1, KindClasses DEF Overlooks, RenewedTo
      <4>2. PICK y \in Wins : Near(Cycle.renews, y, Jitter) /\ y <= win
        BY <2>1, <3>1, <4>1 DEF RowTracks, CountsOnly
      <4>3. y = r.win
        BY <3>1, <4>1, <4>2, SameWindow, KindClasses
      <4> QED
        BY <4>1, <4>2, <4>3
    <3>2. ASSUME kind \in FromRowAndFall PROVE Near(Cycle'.renews, r.win, Jitter)
      BY <1>1, <2>1, <2>2, <3>2, KindClasses DEF RenewedTo
    <3> QED
      BY <1>0, <2>1, <2>2, <3>1, <3>2, FreshlySettled
  <2>3. CASE Tells(r) = {}
    <3>1. r.win = win /\ Seen
      BY <2>1, <2>3, SeenAgain
    <3>2. kind \in FromRow \cup FromRowAndFall => Cycle'.renews = Cycle.renews
      BY <1>1, <2>1, <2>3, KindClasses DEF RenewedTo
    <3> QED
      BY <1>2, <2>1, <2>3, <3>1, <3>2, StaysSettled
  <2> QED
    BY <2>2, <2>3
<1>7. CASE GoesHalf(r)
  <2>1. /\ Live' /\ Cycle'.renews = r.resets /\ lastReset' = r.resets /\ r.resets # Null
        /\ kind \in FromRowAndFall /\ Becomes(Newest, {})
    BY <1>7, SameBecomes DEF GoesHalf, SameRow
  <2>2. r.win = win
    BY <2>1, SeenAgain
  <2>3. Near(r.resets, win, Jitter)
    BY <1>1, <2>1, <2>2, KindClasses
  <2>4. kind' = kind /\ Jitter' = Jitter /\ win' = win
    BY <2>2, JitterStays DEF Polled
  <2> QED
    BY <1>0, <2>1, <2>3, <2>4, KindClasses, JitterStays DEF Settled, RememberedAreOf
<1> QED
  BY <1>3, <1>4, <1>5, <1>6, <1>7 DEF PollGoes

-------------------------------------------------------------------------------
(* A row goes on over a change of the reading only where it is excused.     *)
Excused(h) ==
  h.reborn \/ (kind \in FromRowAndFall \cup {"copilot"} /\ h.idle)

LEMMA NoSharpChange ==
  ASSUME IInv, CInv, NEW r, Polled(r), Live, Overlooks(r),
         Newest.val # Null, Tells(r) # {}, Sharp(Newest.val, r.used)
  PROVE  Excused(Newest)
<1>1. /\ Newest \in HistType /\ Newest.val \in Nat
      /\ used \in Nat /\ r.used \in Nat /\ win \in Nat
  <2>1. Newest \in HistType
    BY NewestIsTyped DEF CInv
  <2>2. Newest.val \in Nat
    BY <2>1, Numbers DEF HistType, Values
  <2> QED
    BY <2>1, <2>2, ValuesOf
<1>2. kind \notin Balances => r.used < Newest.val
  BY <1>1 DEF Sharp
<1>3. kind \notin FromReading => r.resets # Null /\ kind \notin Balances
  BY TellsWhat, KindClasses
<1>4. kind \in AllKinds
  BY TrackersAssumption DEF TrackersAssumption, IInv, TypeOK
<1>5. ASSUME kind \notin FromReading, NEW from, NEW y \in Wins, Near(from, y, Jitter),
             CountsOnly(Newest, y, win, used), Abs(r.resets - from) <= Shift
      PROVE  FALSE
  <2>1. y = r.win /\ r.win = win /\ used <= r.used
    BY <1>3, <1>5, SameWindow DEF CountsOnly
  <2>2. Newest.val <= used
    BY <1>5, <2>1 DEF CountsOnly
  <2> QED
    BY <1>1, <1>2, <1>3, <1>5, <2>1, <2>2
<1>6. CASE kind \in FromRow
  <2>1. kind \notin FromReading /\ r.resets # Null
    BY <1>3, <1>6, KindClasses
  <2>2. Cycle.renews # Null /\ Abs(r.resets - Cycle.renews) <= Shift
    BY <1>6, <2>1 DEF Overlooks
  <2>3. PICK y \in Wins : Near(Cycle.renews, y, Jitter) /\ CountsOnly(Newest, y, win, used)
    BY <1>6, <2>2 DEF CInv, RowTracks
  <2> QED
    BY <1>5, <2>1, <2>2, <2>3
<1>7. CASE kind \in FromMemory
  <2>1. kind \notin FromReading /\ r.resets # Null /\ ~Moved(lastReset, r, Shift)
    BY <1>3, <1>7, KindClasses DEF Overlooks
  <2> SUFFICES ASSUME NEW y \in Wins, Near(lastReset, y, Jitter),
                      CountsOnly(Newest, y, win, used)
               PROVE  FALSE
    BY <1>7 DEF CInv, MemoryTracks, Excused
  <2>2. lastReset # Null
    BY Numbers DEF Near
  <2>3. Abs(r.resets - lastReset) <= Shift
    BY <2>1, <2>2, ValuesOf, Numbers, NotMovedLess
  <2> QED
    BY <1>5, <2>1, <2>3
<1>8. CASE kind \in FromRowAndFall
  <2>1. r.resets # Null /\ ~ShiftAndFall(r)
    BY <1>3, <1>8, KindClasses DEF Overlooks
  <2> SUFFICES ASSUME Known, last = Newest.val, last <= used + Margin, Cycle.renews # Null,
                      NEW y \in Wins, y <= win, Near(lastReset, y, Jitter)
               PROVE  FALSE
    BY <1>8 DEF CInv, FallTracks, Excused
  <2>2. last <= r.used + Margin
    BY <1>8, <2>1, NotFallen
  <2>3. r.used + Margin < Newest.val
    BY <1>3, <1>8, KindClasses DEF Sharp
  <2> QED
    BY <1>1, <2>2, <2>3, Measures
<1>9. CASE kind \in FromReading \cup {"kimi"}
  BY <1>9 DEF CInv, ReadingTracks, Excused, Overlooks
<1> QED
  BY <1>4, <1>6, <1>7, <1>8, <1>9 DEF AllKinds

LEMMA RowIndices ==
  ASSUME IInv
  PROVE  DOMAIN rows = 1..Len(rows)
BY InvFacts, LenProperties

LEMMA SharpChangeKept ==
  ASSUME IInv, IInv', CInv, NEW r, Polled(r), PollGoes(r)
  PROVE  SharpChangeSeen'
<1>0. DOMAIN rows' = 1..Len(rows')
  BY LenProperties DEF IInv, TypeOK
<1> SUFFICES ASSUME NEW i \in 1..Len(rows'), hist'[i].fell PROVE Excused(hist'[i])
  BY <1>0, JitterStays DEF SharpChangeSeen, Excused
<1>1. \A j \in 1..Len(rows) : hist[j].fell => Excused(hist[j])
  BY RowIndices DEF CInv, SharpChangeSeen, Excused
<1>2. NothingAhead
  BY DEF CInv
<1>3. ASSUME NEW g, NEW C, Becomes(g, C), g.fell => Excused(g) PROVE Excused(hist'[i])
  <2>1. CASE i # Len(rows')
    BY <1>1, <1>3, <2>1 DEF Becomes
  <2>2. CASE i = Len(rows')
    BY <1>3, <2>2 DEF Becomes
  <2> QED
    BY <2>1, <2>2
<1>4. CASE Opens(r) \/ Rolls(r)
  <2> DEFINE g == Count(NoReadings, r)
  <2>1. Becomes(g, Tells(r)) /\ g.fell = FALSE
    BY <1>4, OpensBecomes DEF Opens, Rolls
  <2> HIDE DEF g
  <2> QED
    BY <1>3, <2>1
<1>5. CASE OpensBare(r)
  <2> DEFINE g == NoReadings
  <2>1. Becomes(g, {}) /\ g.fell = FALSE
    BY <1>5, BareBecomes, NoReadingsFields DEF OpensBare
  <2> HIDE DEF g
  <2> QED
    BY <1>3, <2>1
<1>6. ASSUME Live PROVE Newest.fell => Excused(Newest)
  BY <1>1, <1>2, <1>6, NewestIsTyped DEF Newest
<1>7. CASE Ends(r) \/ GoesHalf(r)
  <2>1. Live /\ Becomes(Newest, {})
    BY <1>2, <1>7, SameBecomes DEF Ends, RowEnds, GoesHalf, SameRow
  <2> QED
    BY <1>3, <1>6, <2>1
<1>8. CASE GoesOn(r)
  <2> DEFINE g == Count(Newest, r)
  <2>1. Live /\ Overlooks(r) /\ Newest \in HistType /\ Becomes(g, Tells(r))
    BY <1>2, <1>8, NewestIsTyped, CountBecomes DEF GoesOn, SameRow
  <2>2. /\ g.reborn = Newest.reborn
        /\ g.idle = (Newest.idle \/ Tells(r) = {})
        /\ g.fell = (Newest.fell \/ (Newest.val # Null /\ Tells(r) # {}
                                     /\ Sharp(Newest.val, r.used)))
    BY <2>1, CountFields
  <2> HIDE DEF g
  <2>3. g.fell => Excused(Newest)
    BY <1>6, <2>1, <2>2, NoSharpChange
  <2>4. Excused(Newest) => Excused(g)
    BY <2>2 DEF Excused
  <2> QED
    BY <1>3, <2>1, <2>3, <2>4
<1> QED
  BY <1>4, <1>5, <1>7, <1>8 DEF PollGoes

(* The newest row counts one window, by what the tracker compares with.     *)
OneWindowOf(h) ==
  /\ kind \in FromRow => AtMostOne(h.wins)
  /\ kind \in FromMemory =>
       AtMostOne(h.wins) \/ h.reborn \/ (kind = "copilot" /\ h.idle)

LEMMA RowsOfOneWindowKept ==
  ASSUME IInv, CInv, NEW r, Polled(r), PollGoes(r), RowTracks', MemoryTracks'
  PROVE  RowsOfOneWindow'
<1> SUFFICES ASSUME NEW i \in 1..Len(rows') PROVE OneWindowOf(hist'[i])
  BY JitterStays DEF RowsOfOneWindow, OneWindowOf
<1>1. \A j \in 1..Len(rows) : OneWindowOf(hist[j])
  BY DEF CInv, RowsOfOneWindow, OneWindowOf
<1>2. NothingAhead
  BY DEF CInv
<1>3. PICK g, C : Becomes(g, C) /\ (Live' \/ (Live /\ Len(rows') = Len(rows) /\ g = Newest))
  <2>1. CASE Opens(r) \/ Rolls(r)
    BY <2>1, OpensBecomes DEF Opens, Rolls, NewRow
  <2>2. CASE OpensBare(r)
    BY <2>2, BareBecomes DEF OpensBare, NewRow
  <2>3. CASE Ends(r) \/ GoesHalf(r)
    BY <1>2, <2>3, SameBecomes DEF Ends, RowEnds, GoesHalf, SameRow
  <2>4. CASE GoesOn(r)
    BY <1>2, <2>4, CountBecomes DEF GoesOn, SameRow
  <2> QED
    BY <2>1, <2>2, <2>3, <2>4 DEF PollGoes
<1>4. CASE i # Len(rows')
  BY <1>1, <1>3, <1>4 DEF Becomes
<1>5. CASE i = Len(rows')
  <2>1. hist'[i] = g /\ Newest' = g
    BY <1>3, <1>5, NewestIs DEF Becomes
  <2>2. CASE Live'
    <3>1. OneWindowOf(Newest)'
      BY <2>2 DEF RowTracks, MemoryTracks, CountsOnly, OneWindowOf, AtMostOne
    <3> QED
      BY <2>1, <3>1, JitterStays DEF OneWindowOf
  <2>3. CASE Live /\ Len(rows') = Len(rows) /\ g = Newest
    BY <1>1, <1>2, <2>1, <2>3, NewestIsTyped DEF Newest
  <2> QED
    BY <1>3, <2>2, <2>3
<1> QED
  BY <1>4, <1>5

-------------------------------------------------------------------------------
(* Every poll keeps the invariant of what is counted.                       *)
LEMMA PollKeepsHistory ==
  ASSUME IInv, IInv', CInv, NEW r, Polled(r), PollGoes(r)
  PROVE  NothingAhead' /\ SeenInActive' /\ OneCyclePerWindow' /\ AnnouncedOnce'
<1>1. NothingAhead /\ SeenInActive /\ OneCyclePerWindow /\ AnnouncedOnce
  BY DEF CInv
<1>2. Tells(r) \subseteq {r.win} /\ {} \subseteq {r.win} /\ Tells(r) \subseteq Tells(r)
  BY TellsWhat
<1>3. CASE Opens(r) \/ Rolls(r)
  <2> DEFINE g == Count(NoReadings, r)
  <2>1. /\ OnlyCut(r) /\ Becomes(g, Tells(r)) /\ g.cut = FALSE /\ Live'
        /\ told' = told \/ (Announce(r) /\ Unseen(r))
    BY <1>3, OpensBecomes DEF Opens, Rolls, NewRow, OnlyCut, Unseen
  <2> HIDE DEF g
  <2>2. NothingAhead'
    BY <1>1, <1>2, <2>1, NothingAheadKept
  <2>3. SeenInActive' /\ OneCyclePerWindow'
    BY <1>1, <1>2, <2>1, SeenInActiveKept, OneCycleKept
  <2>4. AnnouncedOnce'
    BY <1>1, <2>1, AnnouncedOnceKept
  <2> QED
    BY <2>2, <2>3, <2>4
<1>4. CASE OpensBare(r)
  <2> DEFINE g == NoReadings
  <2>1. OnlyCut(r) /\ Becomes(g, {}) /\ g.cut = FALSE /\ Live' /\ told' = told
    BY <1>4, BareBecomes, NoReadingsFields DEF OpensBare, NewRow
  <2> HIDE DEF g
  <2>2. NothingAhead'
    BY <1>1, <1>2, <2>1, NothingAheadKept
  <2>3. SeenInActive' /\ OneCyclePerWindow'
    BY <1>1, <1>2, <2>1, SeenInActiveKept, OneCycleKept
  <2>4. AnnouncedOnce'
    BY <1>1, <2>1, AnnouncedOnceKept
  <2> QED
    BY <2>2, <2>3, <2>4
<1>5. ASSUME Live PROVE Newest.cut => kind = "minimax"
  BY <1>1, <1>5, NewestIsTyped DEF NothingAhead, Newest
<1>6. CASE Ends(r) \/ GoesHalf(r)
  <2>1. /\ Live /\ Becomes(Newest, {}) /\ Len(rows') = Len(rows) /\ told' = told
        /\ Live' \/ Unseen(r)
    BY <1>1, <1>6, SameBecomes DEF Ends, RowEnds, GoesHalf, SameRow
  <2>2. NothingAhead'
    BY <1>1, <1>2, <1>5, <2>1, NothingAheadKept
  <2>3. SeenInActive' /\ OneCyclePerWindow'
    BY <1>1, <1>2, <2>1, SeenInActiveKept, OneCycleKept
  <2>4. AnnouncedOnce'
    BY <1>1, <2>1, AnnouncedOnceKept
  <2> QED
    BY <2>2, <2>3, <2>4
<1>7. CASE GoesOn(r)
  <2> DEFINE g == Count(Newest, r)
  <2>1. /\ Live /\ Newest \in HistType /\ Becomes(g, Tells(r)) /\ Len(rows') = Len(rows)
        /\ told' = told /\ Live'
    BY <1>1, <1>7, NewestIsTyped, CountBecomes DEF GoesOn, SameRow
  <2>2. g.cut = Newest.cut
    BY <2>1, CountFields
  <2> HIDE DEF g
  <2>3. NothingAhead'
    BY <1>1, <1>2, <1>5, <2>1, <2>2, NothingAheadKept
  <2>4. SeenInActive' /\ OneCyclePerWindow'
    BY <1>1, <1>2, <2>1, SeenInActiveKept, OneCycleKept
  <2>5. AnnouncedOnce'
    BY <1>1, <2>1, AnnouncedOnceKept
  <2> QED
    BY <2>3, <2>4, <2>5
<1> QED
  BY <1>3, <1>4, <1>6, <1>7 DEF PollGoes

LEMMA PollCounts ==
  ASSUME IInv, CInv, Poll
  PROVE  CInv'
<1>1. PICK t \in Later, x \in Wins, u \in Values :
        /\ Running(x, t) /\ Follows(x, u)
        /\ now' = t /\ win' = x /\ used' = u
        /\ \E r \in Readings(t, x, u),
              stop \in {"none"} \cup
                       (IF stops < MaxStops THEN {"create", "peak", "write"} ELSE {}) :
             AnyProcess(r, stop)
  BY DEF Poll
<1>2. PICK r \in Readings(t, x, u),
           stop \in {"none"} \cup
                    (IF stops < MaxStops THEN {"create", "peak", "write"} ELSE {}) :
             AnyProcess(r, stop)
  BY <1>1
<1>3. Polled(r)
  BY <1>1, ReadingIsPolled DEF Poll
<1>4. PollGoes(r) /\ IInv'
  BY <1>2, <1>3, EveryTrackerGoes, PollKeeps
<1>5. NothingAhead' /\ SeenInActive' /\ OneCyclePerWindow' /\ AnnouncedOnce'
  BY <1>3, <1>4, PollKeepsHistory
<1>6. NothingAhead /\ RowTracks /\ MemoryTracks /\ FallTracks /\ ReadingTracks /\ SettledWhenSeen
  BY DEF CInv
<1>7. RowTracks' /\ MemoryTracks' /\ FallTracks' /\ ReadingTracks'
  BY <1>3, <1>4, <1>6, RowTracksKept, MemoryTracksKept, FallTracksKept, ReadingTracksKept
<1>8. SettledWhenSeen'
  BY <1>3, <1>4, <1>6, SettledKept
<1>9. RowsOfOneWindow' /\ SharpChangeSeen'
  BY <1>3, <1>4, <1>7, RowsOfOneWindowKept, SharpChangeKept
<1> QED
  BY <1>5, <1>7, <1>8, <1>9 DEF CInv

-------------------------------------------------------------------------------
(* The other steps.  When the upstream stays where it is and nothing new is *)
(* counted, all that matters is what becomes of the active row and of the   *)
(* memory.                                                                  *)
LEMMA QuietKeeps ==
  ASSUME IInv, IInv', CInv, UNCHANGED <<kind, skew, win, used, told>>, Len(rows') = Len(rows),
         \A i \in 1..Len(rows) :
           /\ hist'[i] \in HistType /\ hist'[i].wins = hist[i].wins
           /\ hist'[i].fell => hist[i].fell
           /\ hist[i].reborn => hist'[i].reborn
           /\ hist[i].idle => hist'[i].idle
           /\ hist[i].cut => hist'[i].cut
           /\ hist'[i].cut => hist[i].cut \/ kind = "minimax"
           /\ ~hist'[i].cut /\ i = Len(rows) => (Live => Live')
  PROVE  /\ NothingAhead' /\ SeenInActive' /\ OneCyclePerWindow' /\ AnnouncedOnce'
         /\ RowsOfOneWindow' /\ SharpChangeSeen' /\ (Seen' => Seen)
<1>1. DOMAIN rows = 1..Len(rows) /\ DOMAIN rows' = 1..Len(rows)
  BY RowIndices, LenProperties DEF IInv, TypeOK
<1>0. JitterBorne' <=> JitterBorne
  BY DEF JitterBorne, Bearable
<1>2. NothingAhead'
  BY DEF CInv, NothingAhead
<1>3. SeenInActive'
  BY <1>0 DEF CInv, SeenInActive
<1>4. OneCyclePerWindow' /\ AnnouncedOnce'
  BY <1>0, <1>1 DEF CInv, OneCyclePerWindow, AnnouncedOnce, NeverSplit, NeverToldTwice
<1>5. RowsOfOneWindow'
  BY DEF CInv, RowsOfOneWindow
<1>6. SharpChangeSeen'
  BY <1>1 DEF CInv, SharpChangeSeen
<1>7. Seen' => Seen
  BY <1>0 DEF Seen
<1> QED
  BY <1>2, <1>3, <1>4, <1>5, <1>6, <1>7

(* A field of an entry of the history set to TRUE.                          *)
LEMMA Marked ==
  ASSUME NEW h \in HistType
  PROVE  /\ LET g == [h EXCEPT !.cut = TRUE]
            IN /\ g \in HistType /\ g.wins = h.wins /\ g.val = h.val /\ g.cut = TRUE
               /\ g.fell = h.fell /\ g.reborn = h.reborn /\ g.idle = h.idle
         /\ LET g == [h EXCEPT !.reborn = TRUE]
            IN /\ g \in HistType /\ g.wins = h.wins /\ g.val = h.val /\ g.reborn = TRUE
               /\ g.fell = h.fell /\ g.cut = h.cut /\ g.idle = h.idle
BY DEF HistType

LEMMA PollWithoutCounts ==
  ASSUME IInv, CInv, PollWithout
  PROVE  CInv'
<1>1. IInv'
  BY PollWithoutKeeps
<1>2. UNCHANGED <<kind, skew, win, used, last, lastReset, told>>
  BY DEF PollWithout
<1>3. Jitter' = Jitter /\ (JitterBorne' <=> JitterBorne)
  BY <1>2 DEF Jitter, JitterBorne, Bearable
<1>4. NothingAhead /\ \A i \in 1..Len(rows) : hist[i] \in HistType
  BY DEF CInv, NothingAhead
<1>5. CASE kind = "minimax"
  <2>1. PICK t \in Later : /\ Live /\ rows' = Replaced(Closed(t))
                           /\ hist' = [hist EXCEPT ![Len(hist)].cut = TRUE]
    BY <1>5 DEF PollWithout
  <2> DEFINE g == [Newest EXCEPT !.cut = TRUE]
  <2>2. /\ Len(rows) \in Nat /\ Len(rows) \in 1..Len(rows) /\ Len(hist) = Len(rows)
        /\ hist[Len(rows)] = Newest /\ Newest \in HistType
        /\ \A i \in 1..Len(rows) : i # Len(rows) => i \in 1..(Len(rows) - 1)
    <3>1. Len(rows) \in Nat /\ Len(rows) \in 1..Len(rows) /\ Len(hist) = Len(rows)
          /\ hist[Len(rows)] = Newest
      BY <2>1, LiveLength
    <3> QED
      BY <1>4, <3>1
  <2>3. /\ g \in HistType /\ g.wins = Newest.wins /\ g.cut = TRUE
        /\ g.fell = Newest.fell /\ g.reborn = Newest.reborn /\ g.idle = Newest.idle
    BY <2>2, Marked
  <2>4. hist' = [hist EXCEPT ![Len(hist)] = g]
    BY <2>1, <2>2
  <2>5. Closed(t) \in RowType /\ Closed(t).end # Null
    <3>1. t \in Times
      <4>1. t \in PollTimes /\ t \in Nat /\ t <= t + 2 * Window
        BY Numbers DEF Later
      <4> QED
        BY <4>1, InTimes
    <3> QED
      BY <2>1, <3>1, CycleContinues, ClosedContinues DEF Closed, Continues
  <2>6. Len(rows') = Len(rows) /\ ~Live'
    BY <2>1, <2>5, WritesTheRow
  <2> HIDE DEF g
  <2>7. SameRows(g)
    BY <2>1, <2>4, <2>6, KeepsHistory
  <2>8. \A i \in 1..Len(rows) :
          /\ hist'[i] \in HistType /\ hist'[i].wins = hist[i].wins
          /\ hist'[i].fell => hist[i].fell
          /\ hist[i].reborn => hist'[i].reborn
          /\ hist[i].idle => hist'[i].idle
          /\ hist[i].cut => hist'[i].cut
          /\ hist'[i].cut => hist[i].cut \/ kind = "minimax"
          /\ ~hist'[i].cut /\ i = Len(rows) => (Live => Live')
    <3> SUFFICES ASSUME NEW i \in 1..Len(rows)
                 PROVE  \/ i # Len(rows) /\ hist'[i] = hist[i]
                        \/ i = Len(rows) /\ hist'[i] = g /\ hist[i] = Newest
      BY <1>4, <1>5, <2>3
    <3> QED
      BY <2>2, <2>7 DEF SameRows
  <2>9. /\ NothingAhead' /\ SeenInActive' /\ OneCyclePerWindow' /\ AnnouncedOnce'
        /\ RowsOfOneWindow' /\ SharpChangeSeen' /\ (Seen' => Seen)
    BY <1>1, <1>2, <2>6, <2>8, QuietKeeps
  <2>10. SettledWhenSeen'
    <3>1. kind \notin FromRow /\ kind \notin FromRowAndFall
      BY <1>5 DEF FromRow, FromRowAndFall
    <3>2. Settled => Settled'
      BY <1>2, <1>3, <3>1 DEF Settled, RememberedAreOf, NotBeyond
    <3> QED
      BY <2>9, <3>2 DEF CInv, SettledWhenSeen
  <2> QED
    BY <2>6, <2>9, <2>10 DEF CInv, RowTracks, MemoryTracks, FallTracks, ReadingTracks
<1>6. CASE kind # "minimax"
  <2>1. hasLast' = TRUE /\ rows' = rows /\ hist' = hist
    BY <1>6 DEF PollWithout
  <2>2. Newest' = Newest /\ Cycle' = Cycle /\ (Live' <=> Live) /\ (Known => Known')
    BY <1>2, <2>1 DEF Newest, Cycle, Live, Known
  <2>3. /\ NothingAhead' /\ SeenInActive' /\ OneCyclePerWindow' /\ AnnouncedOnce'
        /\ RowsOfOneWindow' /\ SharpChangeSeen' /\ (Seen' => Seen)
    BY <1>1, <1>2, <1>4, <2>1, <2>2, QuietKeeps
  <2>4. SettledWhenSeen'
    <3>1. Settled => Settled'
      BY <1>2, <1>3, <2>2 DEF Settled, RememberedAreOf, NotBeyond
    <3> QED
      BY <2>3, <3>1 DEF CInv, SettledWhenSeen
  <2>5. RowTracks'
    BY <1>2, <1>3, <2>2 DEF CInv, RowTracks
  <2>6. MemoryTracks'
    BY <1>2, <1>3, <2>2 DEF CInv, MemoryTracks
  <2>7. FallTracks' /\ ReadingTracks'
    BY <1>2, <1>3, <2>2 DEF CInv, FallTracks, ReadingTracks
  <2> QED
    BY <2>3, <2>4, <2>5, <2>6, <2>7 DEF CInv
<1> QED
  BY <1>5, <1>6

LEMMA RestartCounts ==
  ASSUME IInv, CInv, Restart
  PROVE  CInv'
<1>1. IInv'
  BY RestartKeeps
<1>2. /\ UNCHANGED <<kind, skew, win, used, told>> /\ rows' = rows
      /\ last' = Null /\ lastReset' = Null
  BY DEF Restart
<1>3. Jitter' = Jitter /\ Cycle' = Cycle /\ (Live' <=> Live) /\ (JitterBorne' <=> JitterBorne)
  BY <1>2 DEF Jitter, Cycle, Live, JitterBorne, Bearable
<1>4. NothingAhead /\ \A i \in 1..Len(rows) : hist[i] \in HistType
  BY DEF CInv, NothingAhead
<1>5. /\ \A i \in 1..Len(rows) :
           /\ hist'[i] \in HistType /\ hist'[i].wins = hist[i].wins
           /\ hist'[i].val = hist[i].val
           /\ hist'[i].fell = hist[i].fell /\ hist'[i].idle = hist[i].idle
           /\ hist'[i].cut = hist[i].cut
           /\ hist[i].reborn => hist'[i].reborn
           /\ i = Len(rows) /\ Live => hist'[i].reborn
  <2>1. CASE ~Live
    <3>1. hist' = hist
      BY <2>1 DEF Restart
    <3> QED
      BY <1>4, <2>1, <3>1
  <2>2. CASE Live
    <3> DEFINE g == [Newest EXCEPT !.reborn = TRUE]
    <3>1. /\ Len(rows) \in Nat /\ Len(rows) \in 1..Len(rows) /\ Len(hist) = Len(rows)
          /\ hist[Len(rows)] = Newest /\ Newest \in HistType
          /\ \A i \in 1..Len(rows) : i # Len(rows) => i \in 1..(Len(rows) - 1)
      <4>1. Len(rows) \in Nat /\ Len(rows) \in 1..Len(rows) /\ Len(hist) = Len(rows)
            /\ hist[Len(rows)] = Newest
        BY <2>2, LiveLength
      <4> QED
        BY <1>4, <4>1
    <3>2. /\ g \in HistType /\ g.wins = Newest.wins /\ g.val = Newest.val /\ g.reborn = TRUE
          /\ g.fell = Newest.fell /\ g.cut = Newest.cut /\ g.idle = Newest.idle
      BY <3>1, Marked
    <3>3. hist' = [hist EXCEPT ![Len(hist)] = g]
      BY <2>2, <3>1 DEF Restart
    <3> HIDE DEF g
    <3>4. SameRows(g)
      BY <1>2, <2>2, <3>3, KeepsHistory
    <3> SUFFICES ASSUME NEW i \in 1..Len(rows)
                 PROVE  \/ i # Len(rows) /\ hist'[i] = hist[i]
                        \/ i = Len(rows) /\ hist'[i] = g /\ hist[i] = Newest
      BY <1>4, <3>2
    <3> QED
      BY <3>1, <3>4 DEF SameRows
  <2> QED
    BY <2>1, <2>2
<1>6. /\ NothingAhead' /\ SeenInActive' /\ OneCyclePerWindow' /\ AnnouncedOnce'
      /\ RowsOfOneWindow' /\ SharpChangeSeen' /\ (Seen' => Seen)
  BY <1>1, <1>2, <1>3, <1>5, QuietKeeps
<1>7. SettledWhenSeen'
  <2>1. Settled => Settled'
    BY <1>2, <1>3 DEF Settled, RememberedAreOf
  <2> QED
    BY <1>6, <2>1 DEF CInv, SettledWhenSeen
<1>8. Live => /\ Newest'.reborn /\ Newest'.wins = Newest.wins /\ Newest'.val = Newest.val
              /\ Newest \in HistType
  BY <1>2, <1>4, <1>5, LiveLength DEF Newest
<1>9. RowTracks'
  BY <1>2, <1>3, <1>8 DEF CInv, RowTracks, CountsOnly
<1>10. MemoryTracks' /\ FallTracks' /\ ReadingTracks'
  BY <1>2, <1>3, <1>8 DEF MemoryTracks, FallTracks, ReadingTracks
<1> QED
  BY <1>6, <1>7, <1>9, <1>10 DEF CInv

LEMMA InitCounts == Init => CInv
<1> SUFFICES ASSUME Init PROVE CInv
  OBVIOUS
<1>1. rows = <<>> /\ Len(rows) = 0 /\ DOMAIN rows = {} /\ ~Live /\ 1..Len(rows) = {}
  <2>1. rows = <<>>
    BY DEF Init
  <2> QED
    BY <2>1 DEF Live
<1>2. \A x \in Wins : told[x] = 0
  BY DEF Init
<1>3. NothingAhead /\ SettledWhenSeen /\ SeenInActive /\ RowsOfOneWindow
  BY <1>1, <1>2 DEF NothingAhead, SettledWhenSeen, Seen, SeenInActive, RowsOfOneWindow
<1>4. RowTracks /\ MemoryTracks /\ FallTracks /\ ReadingTracks
  BY <1>1 DEF RowTracks, MemoryTracks, FallTracks, ReadingTracks
<1>5. OneCyclePerWindow /\ SharpChangeSeen /\ AnnouncedOnce
  BY <1>1, <1>2
     DEF OneCyclePerWindow, SharpChangeSeen, AnnouncedOnce, NeverSplit, NeverToldTwice
<1> QED
  BY <1>3, <1>4, <1>5 DEF CInv

LEMMA NextCounts ==
  ASSUME IInv, CInv, [Next]_vars
  PROVE  CInv'
<1>1. CASE UNCHANGED vars
  <2>1. /\ UNCHANGED <<kind, skew, win, used, rows, last, lastReset, hasLast, told, hist>>
    BY <1>1 DEF vars
  <2>2. /\ Jitter' = Jitter /\ Cycle' = Cycle /\ (Live' <=> Live) /\ Newest' = Newest
        /\ JitterBorne' <=> JitterBorne
    BY <2>1 DEF Jitter, Cycle, Live, Newest, JitterBorne, Bearable
  <2>3. Seen' = Seen /\ Settled' = Settled /\ Known' = Known
    BY <2>1, <2>2 DEF Seen, Settled, RememberedAreOf, NotBeyond, Known
  <2>4. NothingAhead' /\ SettledWhenSeen' /\ SeenInActive' /\ RowsOfOneWindow'
    BY <2>1, <2>2, <2>3 DEF CInv, NothingAhead, SettledWhenSeen, SeenInActive, RowsOfOneWindow
  <2>5. RowTracks' /\ MemoryTracks' /\ FallTracks' /\ ReadingTracks'
    BY <2>1, <2>2, <2>3 DEF CInv, RowTracks, MemoryTracks, FallTracks, ReadingTracks
  <2>6. OneCyclePerWindow' /\ SharpChangeSeen' /\ AnnouncedOnce'
    BY <2>1, <2>2
       DEF CInv, OneCyclePerWindow, SharpChangeSeen, AnnouncedOnce, NeverSplit, NeverToldTwice
  <2> QED
    BY <2>4, <2>5, <2>6 DEF CInv
<1> QED
  BY <1>1, PollCounts, PollWithoutCounts, RestartCounts DEF Next

-------------------------------------------------------------------------------
THEOREM CountInvariance == Spec => []CInv
<1>1. IInv /\ CInv /\ [Next]_vars => CInv'
  BY NextCounts
<1> QED
  BY <1>1, Invariance, InitCounts, PTL DEF Spec

(* A tracker whose upstream reports reset times as exactly as the tracker   *)
(* needs (for Z.ai tokens and Copilot without jitter, for Kimi within half  *)
(* a minute, for the others within the grace) splits no window: whatever    *)
(* the lag at a reset, the statements that fail and the restarts, the       *)
(* readings of a window are counted in one row - as long as MiniMax does    *)
(* not end a row because its model has left the plan.                       *)
THEOREM WindowsStayWhole == Spec => []OneCyclePerWindow
<1>1. CInv => OneCyclePerWindow
  BY DEF CInv
<1> QED
  BY <1>1, CountInvariance, PTL

LEMMA AtMostOneIsSmall ==
  ASSUME NEW S, AtMostOne(S)
  PROVE  Cardinality(S) = 0 \/ Cardinality(S) = 1
<1>1. CASE S = {}
  BY <1>1, FS_EmptySet
<1>2. CASE S # {}
  <2>1. PICK x : x \in S
    BY <1>2
  <2>2. S = {x}
    BY <2>1 DEF AtMostOne
  <2> QED
    BY <2>2, FS_Singleton
<1> QED
  BY <1>1, <1>2

(* A tracker that compares the reading with the row (Anthropic, Cursor,     *)
(* OpenCode, Z.ai's tokens) never counts two windows in one row, however    *)
(* long nobody polled and whenever the daemon was restarted: the row's      *)
(* reset time is that of the window counted.                                *)
THEOREM RowsHoldOneWindow == Spec => []OneWindowPerCycle
<1>1. IInv /\ CInv => OneWindowPerCycle
  <2> SUFFICES ASSUME IInv, CInv, kind \in FromRow, NEW i \in DOMAIN rows
               PROVE  Cardinality(hist[i].wins) <= 1
    BY DEF OneWindowPerCycle
  <2>1. AtMostOne(hist[i].wins)
    BY RowIndices DEF CInv, RowsOfOneWindow
  <2> QED
    BY <2>1, AtMostOneIsSmall
<1> QED
  BY <1>1, Invariance, CountInvariance, PTL

(* A tracker that compares with the reset time in memory merges two windows *)
(* only if it was restarted while the row was active, or if it is Copilot's *)
(* and a reading without reset time overwrote the one in memory.            *)
THEOREM MemoryHoldsOneWindow == Spec => []MergedOnlyAcrossRestart
<1>1. IInv /\ CInv => MergedOnlyAcrossRestart
  <2> SUFFICES ASSUME IInv, CInv, kind \in FromMemory, NEW i \in DOMAIN rows,
                      Cardinality(hist[i].wins) > 1
               PROVE  hist[i].reborn \/ (kind = "copilot" /\ hist[i].idle)
    BY DEF MergedOnlyAcrossRestart
  <2>1. ~AtMostOne(hist[i].wins)
    BY AtMostOneIsSmall
  <2> QED
    BY <2>1, RowIndices DEF CInv, RowsOfOneWindow
<1> QED
  BY <1>1, Invariance, CountInvariance, PTL

(* A fall of the reading that only a new window explains - for Codex and    *)
(* Gemini one of more than two points - ends the row, for every tracker     *)
(* that was not restarted while the row was active and, with Codex, Gemini  *)
(* and Copilot, saw a reset time in every reading of it.                    *)
THEOREM FallEndsRow == Spec => []SharpChangeSeen
<1>1. CInv => SharpChangeSeen
  BY DEF CInv
<1> QED
  BY <1>1, CountInvariance, PTL

(* A tracker whose upstream is as exact as it needs calls onReset at most   *)
(* once for a window, also when a statement around it fails and the next    *)
(* poll finds the same reset again.                                         *)
THEOREM ResetsToldOnce == Spec => []AnnouncedOnce
<1>1. CInv => AnnouncedOnce
  BY DEF CInv
<1> QED
  BY <1>1, CountInvariance, PTL
=================================================================================
