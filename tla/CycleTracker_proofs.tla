-------------------------- MODULE CycleTracker_proofs --------------------------
(***************************************************************************)
(* The cycle table under one poller, for every number of quotas, every set *)
(* of readings and every bound on time, errors and restarts.               *)
(*                                                                         *)
(* OneActiveCycle and CyclesInOrder are not inductive: a statement writes  *)
(* what an earlier one read, so one has to know that the row is still as   *)
(* it was then (Fresh), and that no row lies in the future (Past).  Both   *)
(* are lost with a second poller, and so are the theorems.  Nothing is      *)
(* assumed of the renewals the API reports: they may lie in the past.       *)
(*                                                                         *)
(* On IInv rest three more results: whose readings the peaks are (PInv),   *)
(* that the deltas add up to what was seen (DInv; the sum is a recursive   *)
(* function over the rows, and what it yields is shown by induction), and  *)
(* that the rows of each quota are a CycleLog.                             *)
(***************************************************************************)
EXTENDS CycleTracker, SequenceTheorems, WellFoundedInduction, TLAPS

(* No row begins or ends after the last poll.                               *)
Past ==
  \A q \in Quotas : \A i \in 1..Len(rows[q]) :
    /\ rows[q][i].start <= now
    /\ rows[q][i].end # Null => rows[q][i].end <= now

(* What a poller read is still so when it writes.                           *)
Fresh(p) ==
  LET q == w[p].q
      n == Len(rows[q])
      c == rows[q][n]
  IN /\ w[p].pc # "idle" =>
          /\ w[p].at = now
          /\ w[p].val \in [Quotas -> Values]
          /\ w[p].renews \in [Quotas -> Times]
     /\ w[p].pc \in {"create", "recreate"} => Active(q) = {}
     /\ w[p].pc \in {"peak", "resetpeak"} =>
          n \in Active(q) /\ c.peak = 0 /\ c.delta = 0
     /\ w[p].pc \in {"update", "close"} =>
          n \in Active(q) /\ c.peak <= w[p].peak /\ c.delta <= w[p].delta
     /\ w[p].pc = "close" => Earliest(c) <= w[p].end /\ w[p].end <= now

IInv(p) == TypeOK /\ OneActiveCycle /\ CyclesInOrder /\ Past /\ Fresh(p)

(* What is in the peaks: the last instant a reading of row c may be of is   *)
(* known before the row ends, since a later poll would find the reset.      *)
LastPoll(c) == Until(c, IF c.end = Null THEN c.renews ELSE c.end)

PeaksAreOwn ==
  \A q \in Quotas : \A i \in 1..Len(rows[q]) :
    LET c == rows[q][i]
    IN c.peak > 0 => Stored(q, c.peak, c.start, LastPoll(c))

SnapsPast == \A s \in snaps : s.at <= now

(* What the poller is about to write as peak is such a reading.             *)
PeakIsFresh(p) ==
  LET q == w[p].q
      c == rows[q][Len(rows[q])]
  IN /\ w[p].pc # "idle" => [at |-> w[p].at, val |-> w[p].val] \in snaps
     /\ w[p].pc \in {"peak", "resetpeak"} => c.start = w[p].at
     /\ w[p].pc = "update" /\ w[p].peak > 0 =>
          Stored(q, w[p].peak, c.start, Until(c, c.renews))
     /\ w[p].pc = "close" /\ w[p].peak > 0 =>
          Stored(q, w[p].peak, c.start, Until(c, w[p].end))

PInv(p) == PeaksAreOwn /\ SnapsPast /\ PeakIsFresh(p)

(* What Process knows of quota x: the value of the last poll it counted,    *)
(* which the table holds; or nothing, before the first poll since the start *)
(* has come to x.  In a reset the old row has the rise before last has it.  *)
Counted(p, x) ==
  LET q == w[p].q
  IN IF x = q /\ w[p].pc \in {"recreate", "resetpeak"}
       THEN seen[x] = w[p].val[x]
     ELSE IF hasLast \/ x < q
       THEN seen[x] = last[x] /\ Active(x) # {}
     ELSE seen[x] = Null

(* A first row is only created before the first poll is over, and what is   *)
(* about to be written adds to the row the rise that has not been counted.  *)
RiseIsFresh(p) ==
  LET q == w[p].q
  IN /\ w[p].pc \in {"create", "peak"} => ~hasLast
     /\ w[p].pc \in {"update", "close"} =>
          w[p].delta = rows[q][Len(rows[q])].delta + Rise(p)

DInv(p) ==
  errors = 0 =>
    /\ w[p].pc = "idle" => w[p].q = 1
    /\ \A x \in Quotas : TotalTracked(x) = grown[x]
    /\ \A x \in Quotas : Counted(p, x)
    /\ RiseIsFresh(p)

(* The rows of a quota as the cycle log shows them.                         *)
Entries(s) ==
  [i \in DOMAIN s |-> [start |-> s[i].start, end |-> s[i].end,
                       peak |-> s[i].peak, delta |-> s[i].delta]]

Log(q) == INSTANCE CycleLog WITH log <- Entries(rows[q])


-------------------------------------------------------------------------------
LEMMA ReadingIsNat == \A x \in Values \cup {0} : x \in Nat
  BY CycleAssumption DEF CycleAssumption

(* A function on 1..n is a sequence of n elements.                          *)
LEMMA FunctionIsSequence ==
  ASSUME NEW S, NEW n \in Nat, NEW g \in [1..n -> S]
  PROVE  g \in Seq(S) /\ Len(g) = n
<1>1. g \in Seq(S)
  BY SeqDef
<1>2. Len(g) \in Nat /\ DOMAIN g = 1..Len(g) /\ DOMAIN g = 1..n
  BY <1>1, LenProperties
<1>3. n <= Len(g)
  BY <1>2
<1>4. Len(g) <= n
  BY <1>2
<1> QED
  BY <1>1, <1>2, <1>3, <1>4

(* What the UPDATE of the active rows leaves behind.                        *)
LEMMA WriteActiveRows ==
  ASSUME rows \in [Quotas -> Seq(RowType)], NEW q \in Quotas,
         NEW pk \in Nat, NEW d \in Nat, NEW e \in Times \cup {Null},
         WriteActive(q, pk, d, e)
  PROVE  /\ rows' \in [Quotas -> Seq(RowType)]
         /\ \A x \in Quotas \ {q} : rows'[x] = rows[x]
         /\ Len(rows'[q]) = Len(rows[q])
         /\ \A i \in 1..Len(rows[q]) :
              IF i \in Active(q)
                THEN /\ rows'[q][i].start = rows[q][i].start
                     /\ rows'[q][i].renews = rows[q][i].renews
                     /\ rows'[q][i].end = e
                     /\ rows'[q][i].peak = pk
                     /\ rows'[q][i].delta = d
                ELSE rows'[q][i] = rows[q][i]
<1> DEFINE f(i) == IF i \in Active(q)
                     THEN [rows[q][i] EXCEPT !.peak = pk, !.delta = d, !.end = e]
                     ELSE rows[q][i]
           s == [i \in 1..Len(rows[q]) |-> f(i)]
<1>1. /\ rows[q] \in Seq(RowType)
      /\ DOMAIN rows[q] = 1..Len(rows[q])
      /\ Len(rows[q]) \in Nat
  BY LenProperties
<1>2. rows' = [rows EXCEPT ![q] = s]
  BY <1>1 DEF WriteActive
<1>3. \A i \in 1..Len(rows[q]) : rows[q][i] \in RowType
  BY <1>1, ElementOfSeq
<1>4. \A i \in 1..Len(rows[q]) : f(i) \in RowType
  BY <1>3 DEF RowType
<1>5. s \in Seq(RowType) /\ Len(s) = Len(rows[q])
  <2>1. s \in [1..Len(rows[q]) -> RowType]
    BY <1>4
  <2> HIDE DEF s
  <2> QED
    BY <1>1, <2>1, FunctionIsSequence
<1>6. rows'[q] = s /\ rows' \in [Quotas -> Seq(RowType)]
  BY <1>2, <1>5
<1>7. \A i \in 1..Len(rows[q]) : rows'[q][i] = f(i)
  BY <1>6
<1>8. \A i \in 1..Len(rows[q]) :
        i \in Active(q) =>
          /\ f(i).start = rows[q][i].start
          /\ f(i).renews = rows[q][i].renews
          /\ f(i).end = e
          /\ f(i).peak = pk
          /\ f(i).delta = d
  BY <1>3 DEF RowType
<1>9. Len(rows'[q]) = Len(rows[q])
  BY <1>5, <1>6
<1> HIDE DEF f, s
<1>10. \A x \in Quotas \ {q} : rows'[x] = rows[x]
  BY <1>2
<1>11. \A i \in 1..Len(rows[q]) : i \notin Active(q) => rows'[q][i] = rows[q][i]
  BY <1>7 DEF f
<1> QED
  BY <1>6, <1>7, <1>8, <1>9, <1>10, <1>11

(* What CreateCycle leaves behind.                                          *)
LEMMA AppendRow ==
  ASSUME rows \in [Quotas -> Seq(RowType)], NEW q \in Quotas,
         NEW c \in RowType, rows' = [rows EXCEPT ![q] = Append(@, c)]
  PROVE  /\ rows' \in [Quotas -> Seq(RowType)]
         /\ \A x \in Quotas \ {q} : rows'[x] = rows[x]
         /\ Len(rows'[q]) = Len(rows[q]) + 1
         /\ \A i \in 1..Len(rows[q]) : rows'[q][i] = rows[q][i]
         /\ rows'[q][Len(rows[q]) + 1] = c
<1>1. rows[q] \in Seq(RowType)
  OBVIOUS
<1>2. rows'[q] = Append(rows[q], c)
  OBVIOUS
<1>3. /\ Append(rows[q], c) \in Seq(RowType)
      /\ Len(Append(rows[q], c)) = Len(rows[q]) + 1
      /\ \A i \in 1..Len(rows[q]) : Append(rows[q], c)[i] = rows[q][i]
      /\ Append(rows[q], c)[Len(rows[q]) + 1] = c
  BY <1>1, AppendProperties
<1>4. rows' \in [Quotas -> Seq(RowType)]
  BY <1>2, <1>3
<1>5. \A x \in Quotas \ {q} : rows'[x] = rows[x]
  OBVIOUS
<1> QED
  BY <1>2, <1>3, <1>4, <1>5

(* The table as the invariant uses it: rows by number, typed.               *)
LEMMA RowFacts ==
  ASSUME rows \in [Quotas -> Seq(RowType)], NEW q \in Quotas
  PROVE  /\ Len(rows[q]) \in Nat
         /\ DOMAIN rows[q] = 1..Len(rows[q])
         /\ \A i \in 1..Len(rows[q]) : rows[q][i] \in RowType
         /\ Active(q) = {i \in 1..Len(rows[q]) : rows[q][i].end = Null}
<1>1. rows[q] \in Seq(RowType)
  OBVIOUS
<1> QED
  BY <1>1, LenProperties, ElementOfSeq DEF Active

(* Where there is one active cycle, QueryActiveCycle returns it.            *)
LEMMA CycleIsLast ==
  ASSUME rows \in [Quotas -> Seq(RowType)], NEW q \in Quotas,
         Active(q) \subseteq {Len(rows[q])}, Active(q) # {}
  PROVE  /\ Active(q) = {Len(rows[q])}
         /\ Cycle(q) = rows[q][Len(rows[q])]
         /\ Len(rows[q]) \in 1..Len(rows[q])
<1>1. Active(q) = {Len(rows[q])}
  OBVIOUS
<1>2. Len(rows[q]) \in 1..Len(rows[q])
  BY <1>1, RowFacts
<1>3. (CHOOSE i \in Active(q) : \A j \in Active(q) : i <= j) = Len(rows[q])
  <2>1. \A j \in {Len(rows[q])} : Len(rows[q]) <= j
    BY RowFacts
  <2> QED
    BY <1>1, <2>1
<1> QED
  BY <1>1, <1>2, <1>3 DEF Cycle

(* A step that leaves the table alone keeps what is true of it.             *)
LEMMA RowsKept ==
  ASSUME TypeOK, OneActiveCycle, CyclesInOrder, Past,
         rows' = rows, now' \in Nat, now <= now'
  PROVE  OneActiveCycle' /\ CyclesInOrder' /\ Past'
<1> USE CycleAssumption DEF CycleAssumption
<1>1. OneActiveCycle'
  BY DEF OneActiveCycle, Active
<1>2. CyclesInOrder'
  BY DEF CyclesInOrder
<1>3. Past'
  <2> SUFFICES ASSUME NEW q \in Quotas, NEW i \in 1..Len(rows[q])
               PROVE  /\ rows[q][i].start <= now'
                      /\ rows[q][i].end # Null => rows[q][i].end <= now'
    BY DEF Past
  <2>1. rows[q][i] \in RowType
    BY RowFacts DEF TypeOK
  <2> QED
    BY SMTT(30), <2>1 DEF Past, TypeOK, RowType, Times
<1> QED
  BY <1>1, <1>2, <1>3

-------------------------------------------------------------------------------
LEMMA InitIInv ==
  ASSUME NEW p, Pollers = {p}, Init
  PROVE  IInv(p)
<1> USE CycleAssumption DEF CycleAssumption
<1>1. \A q \in Quotas : rows[q] = <<>> /\ Len(rows[q]) = 0 /\ DOMAIN rows[q] = {}
  BY EmptySeq DEF Init
<1>2. TypeOK
  <2>1. <<>> \in Seq(RowType)
    BY EmptySeq
  <2>2. Idle \in PollerType
    BY DEF Idle, PollerType, Quotas, Times
  <2>3. rows \in [Quotas -> Seq(RowType)] /\ w \in [Pollers -> PollerType]
    BY <2>1, <2>2 DEF Init
  <2>4. /\ now \in Times
        /\ \A s \in snaps : s.at \in Times /\ s.val \in [Quotas -> Values]
        /\ errors \in 0..MaxErrors /\ restarts \in 0..MaxRestarts
    BY DEF Init, Times
  <2>5. /\ last \in [Quotas -> Values \cup {0}]
        /\ hasLast \in BOOLEAN
        /\ announced \in [Quotas -> Nat]
        /\ seen \in [Quotas -> Values \cup {Null}]
        /\ grown \in [Quotas -> Nat]
    BY DEF Init
  <2> QED
    BY <2>3, <2>4, <2>5 DEF TypeOK
<1>3. OneActiveCycle /\ CyclesInOrder /\ Past
  BY <1>1 DEF OneActiveCycle, CyclesInOrder, Past, Active
<1>4. Fresh(p)
  BY DEF Fresh, Init, Idle
<1> QED
  BY <1>2, <1>3, <1>4 DEF IInv

(* The history variables stay typed.                                        *)
LEMMA ObserveFacts ==
  ASSUME TypeOK, NEW q \in Quotas, NEW f \in [Quotas -> Values],
         Observe(q, f[q])
  PROVE  seen' \in [Quotas -> Values \cup {Null}] /\ grown' \in [Quotas -> Nat]
<1> DEFINE v == f[q]
<1>1. v \in Values /\ v \in Nat
  BY ReadingIsNat
<1>2. seen' \in [Quotas -> Values \cup {Null}]
  BY <1>1 DEF Observe, TypeOK
<1>3. (seen[q] \in Nat \/ seen[q] = Null) /\ grown[q] \in Nat
  BY ReadingIsNat DEF TypeOK
<1> HIDE DEF v
<1>4. CASE seen[q] # Null /\ v > seen[q]
  <2>1. grown[q] + v - seen[q] \in Nat
    BY <1>1, <1>3, <1>4
  <2>2. grown' = [grown EXCEPT ![q] = grown[q] + v - seen[q]]
    BY <1>4 DEF Observe, v
  <2> QED
    BY <1>2, <2>1, <2>2 DEF TypeOK
<1>5. CASE ~(seen[q] # Null /\ v > seen[q])
  <2>1. grown' = [grown EXCEPT ![q] = grown[q]]
    BY <1>5 DEF Observe, v
  <2> QED
    BY <1>2, <1>3, <2>1 DEF TypeOK
<1> QED
  BY <1>4, <1>5

(* The end of a quota: typed, and the poll goes on with the next or ends.   *)
LEMMA AdvanceFacts ==
  ASSUME NEW p, Pollers = {p}, TypeOK, Fresh(p), w[p].pc # "idle", Advance(p)
  PROVE  /\ last' \in [Quotas -> Values \cup {0}]
         /\ seen' \in [Quotas -> Values \cup {Null}]
         /\ grown' \in [Quotas -> Nat]
         /\ hasLast' \in BOOLEAN
         /\ w' \in [Pollers -> PollerType]
         /\ w'[p].pc \in {"idle", "query"}
         /\ w'[p].pc = "query" =>
              /\ w'[p].at = w[p].at
              /\ w'[p].val = w[p].val
              /\ w'[p].renews = w[p].renews
<1> USE CycleAssumption DEF CycleAssumption
<1> DEFINE q == w[p].q
           v == w[p].val[q]
<1>1. w[p] \in PollerType /\ q \in Quotas /\ v \in Values /\ v \in Nat
  BY DEF TypeOK, Fresh, PollerType
<1>2. last' \in [Quotas -> Values \cup {0}]
  BY <1>1 DEF Advance, TypeOK
<1>3. seen' \in [Quotas -> Values \cup {Null}] /\ grown' \in [Quotas -> Nat]
  BY <1>1, ObserveFacts DEF Advance, Fresh
<1>5. hasLast' \in BOOLEAN
  BY DEF Advance, TypeOK
<1>6. CASE q = NQuotas
  <2>1. Idle \in PollerType /\ Idle.pc = "idle"
    BY DEF Idle, PollerType, Quotas, Times
  <2>2. w' = [w EXCEPT ![p] = Idle]
    BY <1>6 DEF Advance
  <2>3. w' \in [Pollers -> PollerType] /\ w'[p].pc = "idle"
    BY <2>1, <2>2 DEF TypeOK
  <2> QED
    BY <1>2, <1>3, <1>5, <2>3
<1>7. CASE q # NQuotas
  <2>1. w' = [w EXCEPT ![p].pc = "query", ![p].q = q + 1]
    BY <1>7 DEF Advance
  <2>2. q + 1 \in Quotas
    BY <1>1, <1>7 DEF Quotas
  <2>3. /\ w' \in [Pollers -> PollerType]
        /\ w'[p].pc = "query"
        /\ w'[p].at = w[p].at
        /\ w'[p].val = w[p].val
        /\ w'[p].renews = w[p].renews
    BY <1>1, <2>1, <2>2 DEF TypeOK, PollerType
  <2> QED
    BY <1>2, <1>3, <1>5, <2>3
<1> QED
  BY <1>6, <1>7

LEMMA ReportedIsTime ==
  ASSUME NEW t, NEW r \in [Quotas -> Reported(t)]
  PROVE  r \in [Quotas -> Times]
BY DEF Reported

LEMMA PollKeeps ==
  ASSUME NEW p, Pollers = {p}, IInv(p), Poll(p)
  PROVE  IInv(p)'
<1> USE CycleAssumption DEF CycleAssumption, IInv
<1>1. PICK t \in (now + 1)..MaxTime,
           v \in [Quotas -> Values],
           r \in [Quotas -> Times] :
        /\ now' = t
        /\ snaps' = snaps \cup {[at |-> t, val |-> v]}
        /\ w' = [w EXCEPT ![p] =
                   [Idle EXCEPT !.pc = "query", !.at = t, !.val = v, !.renews = r]]
  BY ReportedIsTime DEF Poll
<1>2. UNCHANGED <<rows, last, hasLast, announced, errors, restarts, seen, grown>>
  BY DEF Poll
<1>3. t \in Times /\ t \in Nat /\ now < t
  BY DEF TypeOK, Times
<1>5. /\ w' \in [Pollers -> PollerType]
      /\ w'[p].pc = "query"
      /\ w'[p].at = t
      /\ w'[p].val = v
      /\ w'[p].renews = r
  <2> DEFINE x == [Idle EXCEPT !.pc = "query", !.at = t, !.val = v,
                               !.renews = r]
  <2>1. 1 \in Quotas /\ 0 \in Times /\ r \in [Quotas -> Times]
    BY DEF Quotas, Times
  <2>2. /\ x \in PollerType
        /\ x.pc = "query" /\ x.at = t /\ x.val = v /\ x.renews = r
    BY <1>3, <2>1 DEF Idle, PollerType
  <2>3. w' = [w EXCEPT ![p] = x]
    BY <1>1
  <2> HIDE DEF x
  <2> QED
    BY <2>2, <2>3 DEF TypeOK
<1>6. TypeOK'
  BY <1>1, <1>2, <1>3, <1>5 DEF TypeOK
<1>7. OneActiveCycle' /\ CyclesInOrder' /\ Past'
  BY SMTT(30), <1>1, <1>2, <1>3, RowsKept DEF TypeOK, Times
<1>8. Fresh(p)'
  BY <1>1, <1>5 DEF Fresh
<1> QED
  BY <1>6, <1>7, <1>8

LEMMA QueryNoneKeeps ==
  ASSUME NEW p, Pollers = {p}, IInv(p), QueryNone(p)
  PROVE  IInv(p)'
<1> USE CycleAssumption DEF CycleAssumption, IInv
<1>0. w \in [Pollers -> PollerType]
  BY DEF TypeOK
<1>1. /\ w' \in [Pollers -> PollerType]
      /\ w'[p].pc = "create" /\ w'[p].q = w[p].q
      /\ w'[p].at = w[p].at /\ w'[p].val = w[p].val
      /\ w'[p].renews = w[p].renews
      /\ Active(w[p].q) = {}
      /\ w[p].pc = "query"
  <2>1. /\ w' = [w EXCEPT ![p].pc = "create"]
        /\ Active(w[p].q) = {}
        /\ w[p].pc = "query"
    BY DEF QueryNone
  <2> QED
    BY <1>0, <2>1 DEF PollerType
<1>2. UNCHANGED <<now, snaps, rows, last, hasLast, announced, errors, restarts,
                  seen, grown>>
  BY DEF QueryNone
<1>3. TypeOK'
  BY <1>1, <1>2 DEF TypeOK
<1>4. OneActiveCycle' /\ CyclesInOrder' /\ Past'
  BY <1>2, RowsKept DEF TypeOK, Times
<1>5. Fresh(p)'
  BY <1>1, <1>2 DEF Fresh, Active
<1> QED
  BY <1>3, <1>4, <1>5

(* A reset was found: the end lies between the start of the cycle and now,  *)
(* because a cycle is renewed no earlier than it starts.                    *)
LEMMA QueryResetKeeps ==
  ASSUME NEW p, Pollers = {p}, IInv(p), QueryReset(p)
  PROVE  IInv(p)'
<1> USE CycleAssumption DEF CycleAssumption, IInv
<1> DEFINE q == w[p].q
           n == Len(rows[q])
           c == rows[q][n]
<1>1. /\ w[p].pc = "query"
      /\ w' = [w EXCEPT ![p].pc = "close", ![p].end = EndOf(p),
                        ![p].peak = Cycle(q).peak,
                        ![p].delta = Cycle(q).delta + Rise(p)]
      /\ UNCHANGED <<now, snaps, rows, last, hasLast, announced, errors,
                     restarts, seen, grown>>
      /\ Active(q) # {}
  BY DEF QueryReset, ResetAs
<1>2. w[p] \in PollerType /\ q \in Quotas
  BY DEF TypeOK, PollerType
<1>3. Cycle(q) = c /\ n \in Active(q) /\ n \in 1..n
  <2>1. rows \in [Quotas -> Seq(RowType)] /\ Active(q) \subseteq {n}
    BY <1>2 DEF TypeOK, OneActiveCycle
  <2> QED
    BY <1>1, <1>2, <2>1, CycleIsLast
<1>4. c \in RowType
  BY <1>2, <1>3, RowFacts DEF TypeOK
<1>5. /\ EndOf(p) \in Times /\ Earliest(c) <= EndOf(p) /\ EndOf(p) <= now
  <2>1. c.start <= now
    BY <1>2, <1>3 DEF Past
  <2>2. c.start \in Times /\ c.renews \in Times
    BY <1>4 DEF RowType
  <2>3. w[p].at = now /\ now \in Times
    BY <1>1 DEF Fresh, TypeOK
  <2> HIDE DEF c
  <2> QED
    BY <1>3, <2>1, <2>2, <2>3 DEF EndOf, Times, Earliest
<1>6. Rise(p) \in Nat
  <2>1. w[p].val \in [Quotas -> Values] /\ last \in [Quotas -> Values \cup {0}]
    BY <1>1 DEF Fresh, TypeOK
  <2>2. w[p].val[q] \in Values \cup {0} /\ last[q] \in Values \cup {0}
    BY <1>2, <2>1
  <2>3. w[p].val[q] \in Nat /\ last[q] \in Nat
    BY <2>2, ReadingIsNat
  <2> QED
    BY <2>3 DEF Rise
<1>7. c.peak \in Nat /\ c.delta \in Nat /\ c.delta + Rise(p) \in Nat
      /\ c.delta <= c.delta + Rise(p)
  <2> HIDE DEF c
  <2>1. c.peak \in Nat /\ c.delta \in Nat
    BY <1>4 DEF RowType
  <2> QED
    BY <2>1, <1>6
<1> HIDE DEF c
<1>8. /\ w' \in [Pollers -> PollerType]
      /\ w'[p].pc = "close" /\ w'[p].q = q
      /\ w'[p].end = EndOf(p)
      /\ w'[p].peak = c.peak
      /\ w'[p].delta = c.delta + Rise(p)
      /\ w'[p].at = w[p].at /\ w'[p].val = w[p].val
      /\ w'[p].renews = w[p].renews
  BY <1>1, <1>2, <1>3, <1>5, <1>7 DEF TypeOK, PollerType
<1>9. TypeOK'
  BY <1>1, <1>8 DEF TypeOK
<1>10. OneActiveCycle' /\ CyclesInOrder' /\ Past'
  BY <1>1, RowsKept DEF TypeOK, Times
<1>11. Fresh(p)'
  <2>1. /\ w[p].at = now
        /\ w[p].val \in [Quotas -> Values]
        /\ w[p].renews \in [Quotas -> Times]
    BY <1>1 DEF Fresh
  <2>2. rows' = rows /\ now' = now
    BY <1>1
  <2> DEFINE k == Len(rows'[w'[p].q])
             d == rows'[w'[p].q][k]
  <2>3. k \in Active(w[p].q)'
    BY <1>3, <1>8, <2>2 DEF Active
  <2>4. d = c
    BY <1>8, <2>2 DEF c
  <2>5. d.peak <= w'[p].peak /\ d.delta <= w'[p].delta
    BY <1>4, <1>7, <1>8, <2>4 DEF RowType
  <2>6. Earliest(d) <= w'[p].end /\ w'[p].end <= now'
    BY <1>5, <1>8, <2>2, <2>4
  <2>7. /\ w'[p].at = now'
        /\ w'[p].val \in [Quotas -> Values]
        /\ w'[p].renews \in [Quotas -> Times]
    BY <1>8, <2>1, <2>2
  <2> QED
    BY <1>8, <2>3, <2>5, <2>6, <2>7 DEF Fresh
<1> QED
  BY <1>9, <1>10, <1>11

LEMMA QuerySameKeeps ==
  ASSUME NEW p, Pollers = {p}, IInv(p), QuerySame(p)
  PROVE  IInv(p)'
<1> USE CycleAssumption DEF CycleAssumption, IInv
<1> DEFINE q == w[p].q
           n == Len(rows[q])
           c == rows[q][n]
           v == w[p].val[q]
<1>1. /\ w[p].pc = "query" /\ Active(q) # {}
      /\ UNCHANGED <<now, snaps, rows, announced, errors, restarts>>
  BY DEF QuerySame
<1>2. w[p] \in PollerType /\ q \in Quotas
  BY DEF TypeOK, PollerType
<1>3. Cycle(q) = c /\ n \in Active(q) /\ n \in 1..n
  <2>1. rows \in [Quotas -> Seq(RowType)] /\ Active(q) \subseteq {n}
    BY <1>2 DEF TypeOK, OneActiveCycle
  <2> QED
    BY <1>1, <1>2, <2>1, CycleIsLast
<1>4. c \in RowType
  BY <1>2, <1>3, RowFacts DEF TypeOK
<1>5. OneActiveCycle' /\ CyclesInOrder' /\ Past'
  BY <1>1, RowsKept DEF TypeOK, Times
<1>6. CASE hasLast \/ v > Cycle(q).peak
  <2>1. /\ w' = [w EXCEPT ![p].pc = "update",
                          ![p].peak = Larger(Cycle(q).peak, v),
                          ![p].delta = Cycle(q).delta + Rise(p)]
        /\ UNCHANGED <<last, hasLast, seen, grown>>
    BY <1>6 DEF QuerySame
  <2>2. v \in Nat /\ last[q] \in Nat
    <3>1. /\ w[p].val \in [Quotas -> Values]
          /\ last \in [Quotas -> Values \cup {0}]
      BY <1>1 DEF Fresh, TypeOK
    <3>2. v \in Values \cup {0} /\ last[q] \in Values \cup {0}
      BY <1>2, <3>1
    <3> QED
      BY <3>2, ReadingIsNat
  <2>3. Rise(p) \in Nat
    BY <2>2 DEF Rise
  <2>4. /\ c.peak \in Nat /\ Larger(c.peak, v) \in Nat
        /\ c.peak <= Larger(c.peak, v)
        /\ c.delta \in Nat /\ c.delta + Rise(p) \in Nat
        /\ c.delta <= c.delta + Rise(p)
    <3>1. c.peak \in Nat /\ c.delta \in Nat
      BY <1>4 DEF RowType
    <3> HIDE DEF c, v
    <3> QED
      BY <2>2, <2>3, <3>1 DEF Larger
  <2> HIDE DEF c, v
  <2>5. /\ w' \in [Pollers -> PollerType]
        /\ w'[p].pc = "update" /\ w'[p].q = q
        /\ w'[p].peak = Larger(c.peak, v)
        /\ w'[p].delta = c.delta + Rise(p)
        /\ w'[p].at = w[p].at /\ w'[p].val = w[p].val
        /\ w'[p].renews = w[p].renews
    BY <1>2, <1>3, <2>1, <2>4 DEF TypeOK, PollerType
  <2>6. TypeOK'
    BY <1>1, <2>1, <2>5 DEF TypeOK
  <2>7. Fresh(p)'
    BY <1>1, <1>3, <2>4, <2>5 DEF Fresh, Active, c
  <2> QED
    BY <1>5, <2>6, <2>7
<1>7. CASE ~(hasLast \/ v > Cycle(q).peak)
  <2>1. Advance(p)
    BY <1>7 DEF QuerySame
  <2>2. TypeOK'
    BY <1>1, <2>1, AdvanceFacts DEF TypeOK
  <2>3. Fresh(p)'
    BY <1>1, <2>1, AdvanceFacts DEF Fresh
  <2> QED
    BY <1>5, <2>2, <2>3
<1> QED
  BY <1>6, <1>7

(* A write to the active row, the newest, keeps the table in order; the end *)
(* it may set lies between the start of the row and now.                    *)
LEMMA WriteKeeps ==
  ASSUME NEW p, Pollers = {p}, IInv(p), w[p].pc # "idle",
         Len(rows[w[p].q]) \in Active(w[p].q),
         NEW pk \in Nat, NEW d \in Nat, NEW e \in Times \cup {Null},
         e = Null \/ (Earliest(rows[w[p].q][Len(rows[w[p].q])]) <= e /\ e <= now),
         WriteActive(w[p].q, pk, d, e), now' = now
  PROVE  /\ rows' \in [Quotas -> Seq(RowType)]
         /\ OneActiveCycle' /\ CyclesInOrder' /\ Past'
         /\ e # Null => \A i \in DOMAIN rows'[w[p].q] : rows'[w[p].q][i].end # Null
<1> USE CycleAssumption DEF CycleAssumption, IInv
<1> DEFINE q == w[p].q
           n == Len(rows[q])
<1>1. q \in Quotas /\ rows \in [Quotas -> Seq(RowType)]
  BY DEF TypeOK, PollerType
<1>2. /\ Active(q) = {n} /\ n \in 1..n /\ n \in Nat
      /\ rows[q][n].end = Null
      /\ \A i \in 1..n : rows[q][i] \in RowType
  BY <1>1, RowFacts DEF OneActiveCycle, Active
<1>3. /\ rows' \in [Quotas -> Seq(RowType)]
      /\ \A x \in Quotas \ {q} : rows'[x] = rows[x]
      /\ Len(rows'[q]) = n
      /\ \A i \in 1..n :
           IF i \in Active(q)
             THEN /\ rows'[q][i].start = rows[q][i].start
                  /\ rows'[q][i].renews = rows[q][i].renews
                  /\ rows'[q][i].end = e
                  /\ rows'[q][i].peak = pk
                  /\ rows'[q][i].delta = d
             ELSE rows'[q][i] = rows[q][i]
  BY <1>1, WriteActiveRows
<1>4. /\ rows'[q][n].start = rows[q][n].start
      /\ rows'[q][n].renews = rows[q][n].renews
      /\ rows'[q][n].end = e
      /\ \A i \in 1..n : i # n => rows'[q][i] = rows[q][i] /\ rows[q][i].end # Null
  <2>1. \A i \in 1..n : i \in Active(q) <=> i = n
    BY <1>2
  <2>2. \A i \in 1..n : i \notin Active(q) => rows[q][i].end # Null
    BY <1>1, RowFacts
  <2> QED
    BY <1>2, <1>3, <2>1, <2>2
<1>5. \A x \in Quotas : DOMAIN rows'[x] = 1..Len(rows'[x])
  BY <1>3, LenProperties
<1>6. \A i \in DOMAIN rows'[q] : rows'[q][i].end = Null => i = n /\ e = Null
  BY <1>1, <1>3, <1>4, <1>5
<1>6a. e = Null \/ Earliest(rows'[q][n]) <= e
  BY <1>4 DEF Earliest
<1>7. OneActiveCycle'
  <2> SUFFICES ASSUME NEW x \in Quotas, NEW i \in DOMAIN rows'[x],
                      rows'[x][i].end = Null
               PROVE  i = Len(rows'[x])
    BY DEF OneActiveCycle, Active
  <2>1. CASE x = q
    BY <2>1, <1>3, <1>6
  <2>2. CASE x # q
    <3>1. rows'[x] = rows[x]
      BY <2>2, <1>3
    <3> QED
      BY <3>1 DEF OneActiveCycle, Active
  <2> QED
    BY <2>1, <2>2
<1>8. CyclesInOrder'
  <2> SUFFICES ASSUME NEW x \in Quotas, NEW i \in DOMAIN rows'[x],
                      rows'[x][i].end # Null
               PROVE  /\ Earliest(rows'[x][i]) <= rows'[x][i].end
                      /\ i < Len(rows'[x]) =>
                           /\ rows'[x][i].start <= rows'[x][i + 1].start
                           /\ rows'[x][i].end <= rows'[x][i + 1].start
    BY DEF CyclesInOrder
  <2>1. CASE x # q
    BY <2>1, <1>3 DEF CyclesInOrder
  <2>2. CASE x = q /\ i = n
    <3> HIDE DEF q, n
    <3>1. rows'[x][i].end = e /\ rows'[x][i] = rows'[q][n]
      BY <2>2, <1>4
    <3>2. e # Null
      BY <3>1
    <3>3. Earliest(rows'[q][n]) <= e
      BY <3>2, <1>6a
    <3>4. ~(i < Len(rows'[x]))
      BY <2>2, <1>2, <1>3
    <3> QED
      BY <3>1, <3>3, <3>4
  <2>3. CASE x = q /\ i # n
    <3>0. i \in 1..n /\ n \in Nat /\ i # n
      BY <2>3, <1>2, <1>3, <1>5
    <3>1. i \in 1..n /\ i < n /\ i + 1 \in 1..n
      <4> HIDE DEF n
      <4> QED
        BY <3>0
    <3>2. rows'[q][i] = rows[q][i] /\ rows'[q][i + 1].start = rows[q][i + 1].start
      <4> HIDE DEF q, n
      <4>1. rows'[q][i] = rows[q][i]
        BY <3>1, <1>4
      <4>2. i + 1 = n \/ i + 1 # n
        OBVIOUS
      <4> QED
        BY <3>1, <1>4, <4>1, <4>2
    <3>3. i \in DOMAIN rows[q] /\ i < Len(rows[q])
      BY <3>1, <1>1, RowFacts
    <3>4. rows[q][i].end # Null
      BY <2>3, <3>2
    <3>5. /\ Earliest(rows[q][i]) <= rows[q][i].end
          /\ rows[q][i].start <= rows[q][i + 1].start
          /\ rows[q][i].end <= rows[q][i + 1].start
      BY <1>1, <3>3, <3>4 DEF CyclesInOrder
    <3> QED
      BY <2>3, <3>2, <3>5
  <2> QED
    BY <2>1, <2>2, <2>3
<1>9. Past'
  <2> SUFFICES ASSUME NEW x \in Quotas, NEW i \in 1..Len(rows'[x])
               PROVE  /\ rows'[x][i].start <= now
                      /\ rows'[x][i].end # Null => rows'[x][i].end <= now
    BY DEF Past
  <2>1. CASE x # q
    BY <2>1, <1>3 DEF Past
  <2>2. CASE x = q /\ i = n
    BY <2>2, <1>1, <1>2, <1>4 DEF Past
  <2>3. CASE x = q /\ i # n
    BY <2>3, <1>1, <1>3, <1>4 DEF Past
  <2> QED
    BY <2>1, <2>2, <2>3
<1> QED
  BY <1>3, <1>6, <1>7, <1>8, <1>9

LEMMA UpdateCycleKeeps ==
  ASSUME NEW p, Pollers = {p}, IInv(p), UpdateCycle(p)
  PROVE  IInv(p)'
<1> USE DEF IInv
<1>1. /\ w[p].pc = "update"
      /\ WriteActive(w[p].q, w[p].peak, w[p].delta, Null)
      /\ Advance(p)
      /\ UNCHANGED <<now, snaps, announced, errors, restarts>>
  BY DEF UpdateCycle
<1>2. w[p].peak \in Nat /\ w[p].delta \in Nat
  BY DEF TypeOK, PollerType
<1>3. Len(rows[w[p].q]) \in Active(w[p].q)
  BY <1>1 DEF Fresh
<1>4. rows' \in [Quotas -> Seq(RowType)] /\ OneActiveCycle' /\ CyclesInOrder' /\ Past'
  BY <1>1, <1>2, <1>3, WriteKeeps
<1>5. TypeOK'
  BY <1>1, <1>4, AdvanceFacts DEF TypeOK
<1>6. Fresh(p)'
  BY <1>1, AdvanceFacts DEF Fresh
<1> QED
  BY <1>4, <1>5, <1>6

LEMMA CloseCycleKeeps ==
  ASSUME NEW p, Pollers = {p}, IInv(p), CloseCycle(p)
  PROVE  IInv(p)'
<1> USE CycleAssumption DEF CycleAssumption, IInv
<1> DEFINE q == w[p].q
<1>1. /\ w[p].pc = "close"
      /\ WriteActive(q, w[p].peak, w[p].delta, w[p].end)
      /\ w' = [w EXCEPT ![p].pc = "recreate"]
      /\ Observe(q, w[p].val[q])
      /\ UNCHANGED <<now, snaps, last, hasLast, announced, errors, restarts>>
  BY DEF CloseCycle
<1>2. w[p] \in PollerType /\ w[p].peak \in Nat /\ w[p].delta \in Nat
      /\ w[p].end \in Times /\ q \in Quotas
  BY DEF TypeOK, PollerType
<1>3. /\ Len(rows[q]) \in Active(q)
      /\ Earliest(rows[q][Len(rows[q])]) <= w[p].end /\ w[p].end <= now
  BY <1>1 DEF Fresh
<1>4. /\ rows' \in [Quotas -> Seq(RowType)]
      /\ OneActiveCycle' /\ CyclesInOrder' /\ Past'
      /\ \A i \in DOMAIN rows'[q] : rows'[q][i].end # Null
  <2>1. w[p].end # Null /\ w[p].end \in Times \cup {Null}
    BY <1>2 DEF Times
  <2> QED
    BY <1>1, <1>2, <1>3, <2>1, WriteKeeps
<1>5. /\ w' \in [Pollers -> PollerType]
      /\ w'[p].pc = "recreate" /\ w'[p].q = q
      /\ w'[p].at = w[p].at /\ w'[p].val = w[p].val
      /\ w'[p].renews = w[p].renews
  BY <1>1, <1>2 DEF TypeOK, PollerType
<1>6. seen' \in [Quotas -> Values \cup {Null}] /\ grown' \in [Quotas -> Nat]
  BY <1>1, <1>2, ObserveFacts DEF Fresh
<1>7. TypeOK'
  BY <1>1, <1>4, <1>5, <1>6 DEF TypeOK
<1>8. Fresh(p)'
  <2>1. /\ w[p].at = now
        /\ w[p].val \in [Quotas -> Values]
        /\ w[p].renews \in [Quotas -> Times]
    BY <1>1 DEF Fresh
  <2> QED
    BY SMTT(30), <1>1, <1>4, <1>5, <2>1 DEF Fresh, Active
<1> QED
  BY <1>4, <1>7, <1>8

(* The new row is the only active one, and starts after the old ones ended. *)
LEMMA CreateCycleKeeps ==
  ASSUME NEW p, Pollers = {p}, IInv(p), CreateCycle(p)
  PROVE  IInv(p)'
<1> USE CycleAssumption DEF CycleAssumption, IInv
<1> DEFINE q == w[p].q
           n == Len(rows[q])
           c == Row(w[p].at, w[p].renews[q])
<1>1. /\ w[p].pc \in {"create", "recreate"}
      /\ rows' = [rows EXCEPT ![q] = Append(@, c)]
      /\ w' = [w EXCEPT ![p].pc = IF w[p].pc = "create" THEN "peak"
                                  ELSE "resetpeak"]
      /\ UNCHANGED <<now, snaps, last, hasLast, announced, errors, restarts,
                     seen, grown>>
  BY DEF CreateCycle, TypeOK
<1>2. /\ w[p] \in PollerType /\ q \in Quotas
      /\ rows \in [Quotas -> Seq(RowType)]
      /\ now \in Times
  BY DEF TypeOK, PollerType
<1>3. /\ w[p].at = now
      /\ w[p].val \in [Quotas -> Values]
      /\ w[p].renews \in [Quotas -> Times]
      /\ Active(q) = {}
  BY <1>1 DEF Fresh
<1>4. /\ c \in RowType /\ c.start = now /\ c.end = Null
      /\ c.peak = 0 /\ c.delta = 0
  BY <1>2, <1>3 DEF Row, RowType
<1> HIDE DEF c
<1>5. /\ rows' \in [Quotas -> Seq(RowType)]
      /\ \A x \in Quotas \ {q} : rows'[x] = rows[x]
      /\ Len(rows'[q]) = n + 1
      /\ \A i \in 1..n : rows'[q][i] = rows[q][i]
      /\ rows'[q][n + 1] = c
  BY <1>1, <1>2, <1>4, AppendRow
<1>6. /\ n \in Nat
      /\ \A i \in 1..n : rows[q][i] \in RowType /\ rows[q][i].end # Null
      /\ DOMAIN rows[q] = 1..n
  BY <1>2, <1>3, RowFacts
<1>7. \A x \in Quotas : DOMAIN rows'[x] = 1..Len(rows'[x])
  BY <1>5, LenProperties
<1> HIDE DEF n
<1>8. OneActiveCycle'
  <2> SUFFICES ASSUME NEW x \in Quotas, NEW i \in DOMAIN rows'[x],
                      rows'[x][i].end = Null
               PROVE  i = Len(rows'[x])
    BY DEF OneActiveCycle, Active
  <2>1. CASE x = q
    BY <2>1, <1>5, <1>6, <1>7
  <2>2. CASE x # q
    BY <2>2, <1>5 DEF OneActiveCycle, Active
  <2> QED
    BY <2>1, <2>2
<1>9. CyclesInOrder'
  <2> SUFFICES ASSUME NEW x \in Quotas, NEW i \in DOMAIN rows'[x],
                      rows'[x][i].end # Null
               PROVE  /\ Earliest(rows'[x][i]) <= rows'[x][i].end
                      /\ i < Len(rows'[x]) =>
                           /\ rows'[x][i].start <= rows'[x][i + 1].start
                           /\ rows'[x][i].end <= rows'[x][i + 1].start
    BY DEF CyclesInOrder
  <2>1. CASE x # q
    BY <2>1, <1>5 DEF CyclesInOrder
  <2>2. CASE x = q
    <3>1. i \in 1..n
      BY <2>2, <1>4, <1>5, <1>6, <1>7
    <3>2. rows'[q][i] = rows[q][i] /\ Earliest(rows[q][i]) <= rows[q][i].end
      BY <2>2, <3>1, <1>2, <1>5, <1>6 DEF CyclesInOrder
    <3>3. CASE i = n
      BY <2>2, <3>1, <3>2, <3>3, <1>2, <1>4, <1>5, <1>6 DEF Past, n
    <3>4. CASE i # n
      <4>1. i < n /\ i + 1 \in 1..n
        BY <3>1, <3>4, <1>6
      <4>2. rows[q][i].end <= rows[q][i + 1].start /\ rows[q][i].start <= rows[q][i + 1].start
        BY <3>1, <4>1, <1>2, <1>6 DEF CyclesInOrder, n
      <4> QED
        BY <2>2, <3>2, <4>1, <4>2, <1>5
    <3> QED
      BY <3>3, <3>4
  <2> QED
    BY <2>1, <2>2
<1>10. Past'
  <2> SUFFICES ASSUME NEW x \in Quotas, NEW i \in 1..Len(rows'[x])
               PROVE  /\ rows'[x][i].start <= now
                      /\ rows'[x][i].end # Null => rows'[x][i].end <= now
    BY <1>1 DEF Past
  <2>1. CASE x # q
    BY <2>1, <1>5 DEF Past
  <2>2. CASE x = q /\ i = n + 1
    BY <2>2, <1>2, <1>4, <1>5 DEF Times
  <2>3. CASE x = q /\ i # n + 1
    <3>1. i \in 1..n
      BY <2>3, <1>5, <1>6
    <3> QED
      BY <2>3, <3>1, <1>2, <1>5 DEF Past, n
  <2> QED
    BY <2>1, <2>2, <2>3
<1>11. /\ w' \in [Pollers -> PollerType]
       /\ w'[p].pc \in {"peak", "resetpeak"} /\ w'[p].q = q
       /\ w'[p].at = w[p].at /\ w'[p].val = w[p].val
       /\ w'[p].renews = w[p].renews
  BY <1>1, <1>2 DEF TypeOK, PollerType
<1>12. TypeOK'
  BY <1>1, <1>5, <1>11 DEF TypeOK
<1>13. Fresh(p)'
  <2>1. n + 1 \in DOMAIN rows'[q]
    BY <1>2, <1>5, <1>6, <1>7
  <2> DEFINE k == Len(rows'[w'[p].q])
             d == rows'[w'[p].q][k]
  <2>2. k = n + 1 /\ d = c
    BY <1>5, <1>11
  <2>3. k \in Active(w[p].q)'
    BY <1>4, <1>11, <2>1, <2>2 DEF Active
  <2>4. /\ w'[p].at = now'
        /\ w'[p].val \in [Quotas -> Values]
        /\ w'[p].renews \in [Quotas -> Times]
    BY <1>1, <1>3, <1>11
  <2> QED
    BY <1>4, <1>11, <2>2, <2>3, <2>4 DEF Fresh
<1> QED
  BY <1>8, <1>9, <1>10, <1>12, <1>13

LEMMA SetInitialPeakKeeps ==
  ASSUME NEW p, Pollers = {p}, IInv(p), SetInitialPeak(p)
  PROVE  IInv(p)'
<1> USE DEF IInv
<1> DEFINE q == w[p].q
<1>1. /\ w[p].pc \in {"peak", "resetpeak"}
      /\ WriteActive(q, w[p].val[q], 0, Null)
      /\ Advance(p)
      /\ UNCHANGED <<now, snaps, errors, restarts>>
      /\ \/ announced' = [announced EXCEPT ![q] = @ + 1]
         \/ announced' = announced
  BY DEF SetInitialPeak
<1>2. q \in Quotas /\ w[p].val \in [Quotas -> Values] /\ w[p].val[q] \in Nat
  BY <1>1, ReadingIsNat DEF Fresh, TypeOK, PollerType
<1>3. Len(rows[q]) \in Active(q)
  BY <1>1 DEF Fresh
<1>4. rows' \in [Quotas -> Seq(RowType)] /\ OneActiveCycle' /\ CyclesInOrder' /\ Past'
  BY <1>1, <1>2, <1>3, WriteKeeps
<1>5. announced' \in [Quotas -> Nat]
  <2>1. announced \in [Quotas -> Nat]
    BY DEF TypeOK
  <2>2. CASE announced' = [announced EXCEPT ![q] = @ + 1]
    <3>1. announced[q] + 1 \in Nat
      BY <1>2, <2>1
    <3> QED
      BY <2>1, <2>2, <3>1
  <2> QED
    BY <1>1, <2>1, <2>2
<1>6. TypeOK'
  BY <1>1, <1>4, <1>5, AdvanceFacts DEF TypeOK
<1>7. Fresh(p)'
  BY <1>1, AdvanceFacts DEF Fresh
<1> QED
  BY <1>4, <1>6, <1>7

(* A failing statement or a crash ends the poll and leaves the table as the *)
(* statements before it left it.                                            *)
LEMMA StopKeeps ==
  ASSUME NEW p, Pollers = {p}, IInv(p), StatementFails(p) \/ Restart
  PROVE  IInv(p)'
<1> USE CycleAssumption DEF CycleAssumption, IInv
<1>1. Idle \in PollerType /\ Idle.pc = "idle"
  BY DEF Idle, PollerType, Quotas, Times
<1>2. /\ w' \in [Pollers -> PollerType] /\ w'[p].pc = "idle"
      /\ UNCHANGED <<now, snaps, rows, announced, grown>>
  BY <1>1 DEF StatementFails, Restart, TypeOK
<1>3. OneActiveCycle' /\ CyclesInOrder' /\ Past'
  BY <1>2, RowsKept DEF TypeOK, Times
<1>4. /\ last' \in [Quotas -> Values \cup {0}]
      /\ hasLast' \in BOOLEAN
      /\ seen' \in [Quotas -> Values \cup {Null}]
      /\ errors' \in 0..MaxErrors /\ restarts' \in 0..MaxRestarts
  <2>1. CASE StatementFails(p)
    BY <2>1 DEF StatementFails, TypeOK
  <2>2. CASE Restart
    <3>1. last' \in [Quotas -> Values \cup {0}]
      BY <2>2 DEF Restart
    <3>2. seen' \in [Quotas -> Values \cup {Null}]
      BY <2>2 DEF Restart
    <3>3. hasLast' \in BOOLEAN /\ errors' \in 0..MaxErrors
      BY <2>2 DEF Restart, TypeOK
    <3>4. restarts' \in 0..MaxRestarts
      BY <2>2 DEF Restart, TypeOK
    <3> QED
      BY <3>1, <3>2, <3>3, <3>4
  <2> QED
    BY <2>1, <2>2
<1>5. TypeOK'
  BY <1>2, <1>4 DEF TypeOK
<1>6. Fresh(p)'
  BY <1>2 DEF Fresh
<1> QED
  BY <1>3, <1>5, <1>6

LEMMA NextIInv ==
  ASSUME NEW p, Pollers = {p}, IInv(p), [Next]_vars
  PROVE  IInv(p)'
<1>1. CASE PollerStep(p)
  BY <1>1, PollKeeps, QueryNoneKeeps, QueryResetKeeps, QuerySameKeeps,
     UpdateCycleKeeps, CloseCycleKeeps, CreateCycleKeeps, SetInitialPeakKeeps,
     StopKeeps DEF PollerStep
<1>2. CASE Restart
  BY <1>2, StopKeeps
<1>3. CASE UNCHANGED vars
  BY <1>3 DEF vars, IInv, TypeOK, OneActiveCycle, CyclesInOrder, Past, Fresh,
              Active
<1> QED
  BY <1>1, <1>2, <1>3 DEF Next

(* A write to the active row leaves the closed ones as they are, and its     *)
(* peak and delta are not below those that were read.                       *)
LEMMA WriteIsStable ==
  ASSUME NEW p, Pollers = {p}, IInv(p), w[p].pc # "idle",
         Len(rows[w[p].q]) \in Active(w[p].q),
         NEW pk \in Nat, NEW d \in Nat, NEW e \in Times \cup {Null},
         rows[w[p].q][Len(rows[w[p].q])].peak <= pk,
         rows[w[p].q][Len(rows[w[p].q])].delta <= d,
         WriteActive(w[p].q, pk, d, e)
  PROVE  HistoryStable
<1> USE DEF IInv
<1> DEFINE q == w[p].q
           n == Len(rows[q])
<1>1. q \in Quotas /\ rows \in [Quotas -> Seq(RowType)]
  BY DEF TypeOK, PollerType
<1>2. Active(q) = {n}
  BY <1>1 DEF OneActiveCycle
<1>3. /\ rows' \in [Quotas -> Seq(RowType)]
      /\ \A x \in Quotas \ {q} : rows'[x] = rows[x]
      /\ Len(rows'[q]) = n
      /\ rows'[q][n].peak = pk /\ rows'[q][n].delta = d
      /\ \A i \in 1..n : i # n => rows'[q][i] = rows[q][i]
  <2>1. n \in 1..n
    BY <1>1, <1>2, RowFacts
  <2> QED
    BY <1>1, <1>2, <2>1, WriteActiveRows
<1>4. SUFFICES ASSUME NEW x \in Quotas, NEW i \in DOMAIN rows[x]
               PROVE  /\ i \in DOMAIN rows'[x]
                      /\ rows[x][i].end # Null => rows'[x][i] = rows[x][i]
                      /\ rows'[x][i].peak >= rows[x][i].peak
                      /\ rows'[x][i].delta >= rows[x][i].delta
  BY DEF HistoryStable
<1>5. i \in 1..Len(rows[x]) /\ rows[x][i] \in RowType
  BY <1>1, RowFacts
<1>6. DOMAIN rows'[x] = 1..Len(rows'[x]) /\ i \in DOMAIN rows'[x]
  BY <1>3, <1>5, LenProperties
<1>7. CASE x = q /\ i = n
  <2>1. rows[q][n].end = Null
    BY <1>2 DEF Active
  <2>2. rows[q][n].peak \in Nat /\ rows[q][n].delta \in Nat
    BY <1>5, <1>7 DEF RowType
  <2> QED
    BY <1>3, <1>6, <1>7, <2>1, <2>2
<1>8. CASE ~(x = q /\ i = n)
  <2>1. rows'[x][i] = rows[x][i]
    BY <1>3, <1>5, <1>8
  <2> QED
    BY <1>5, <1>6, <2>1 DEF RowType
<1> QED
  BY <1>7, <1>8

LEMMA StepIsStable ==
  ASSUME NEW p, Pollers = {p}, IInv(p), [Next]_vars
  PROVE  HistoryStable \/ UNCHANGED vars
<1> USE DEF IInv
<1>1. ASSUME rows' = rows PROVE HistoryStable
  <2>1. \A x \in Quotas : \A i \in DOMAIN rows[x] : rows[x][i] \in RowType
    BY RowFacts DEF TypeOK
  <2> QED
    BY <1>1, <2>1 DEF HistoryStable, RowType
<1>2. CASE Poll(p) \/ QueryNone(p) \/ QueryReset(p) \/ QuerySame(p)
           \/ StatementFails(p) \/ Restart
  BY <1>1, <1>2 DEF Poll, QueryNone, QueryReset, ResetAs, QuerySame,
                    StatementFails, Restart
<1>3. CASE UpdateCycle(p)
  BY <1>3, WriteIsStable DEF UpdateCycle, Fresh, TypeOK, PollerType
<1>4. CASE CloseCycle(p)
  BY <1>4, WriteIsStable DEF CloseCycle, Fresh, TypeOK, PollerType
<1>5. CASE CreateCycle(p)
  <2> DEFINE q == w[p].q
             c == Row(w[p].at, w[p].renews[q])
  <2>1. /\ rows' = [rows EXCEPT ![q] = Append(@, c)]
        /\ w[p].at = now /\ w[p].renews \in [Quotas -> Times]
    BY <1>5 DEF CreateCycle, Fresh
  <2>2. /\ q \in Quotas /\ now \in Times
        /\ rows \in [Quotas -> Seq(RowType)]
    BY DEF TypeOK, PollerType
  <2>3. c \in RowType
    BY <2>1, <2>2 DEF Row, RowType
  <2> HIDE DEF c
  <2>4. /\ rows' \in [Quotas -> Seq(RowType)]
        /\ \A x \in Quotas \ {q} : rows'[x] = rows[x]
        /\ Len(rows'[q]) = Len(rows[q]) + 1
        /\ \A i \in 1..Len(rows[q]) : rows'[q][i] = rows[q][i]
    BY <2>1, <2>2, <2>3, AppendRow
  <2> SUFFICES ASSUME NEW x \in Quotas, NEW i \in DOMAIN rows[x]
               PROVE  /\ i \in DOMAIN rows'[x]
                      /\ rows'[x][i] = rows[x][i]
                      /\ rows[x][i].peak \in Nat /\ rows[x][i].delta \in Nat
    BY DEF HistoryStable
  <2>5. /\ i \in 1..Len(rows[x]) /\ Len(rows[x]) \in Nat
        /\ rows[x][i] \in RowType
    BY <2>2, RowFacts
  <2>6. DOMAIN rows'[x] = 1..Len(rows'[x])
    BY <2>4, LenProperties
  <2>7. i \in DOMAIN rows'[x] /\ rows'[x][i] = rows[x][i]
    BY <2>4, <2>5, <2>6
  <2> QED
    BY <2>5, <2>7 DEF RowType
<1>6. CASE SetInitialPeak(p)
  <2>1. /\ WriteActive(w[p].q, w[p].val[w[p].q], 0, Null)
        /\ w[p].pc \in {"peak", "resetpeak"}
    BY <1>6 DEF SetInitialPeak
  <2>2. w[p].val[w[p].q] \in Nat
    BY <2>1, ReadingIsNat DEF Fresh, TypeOK, PollerType
  <2>3. /\ Len(rows[w[p].q]) \in Active(w[p].q)
        /\ rows[w[p].q][Len(rows[w[p].q])].peak = 0
        /\ rows[w[p].q][Len(rows[w[p].q])].delta = 0
    BY <2>1 DEF Fresh
  <2> DEFINE v == w[p].val[w[p].q]
             old == rows[w[p].q][Len(rows[w[p].q])]
  <2>4. old.peak <= v /\ old.delta <= 0 /\ w[p].pc # "idle"
    BY <2>1, <2>2, <2>3
  <2>5. v \in Nat /\ 0 \in Nat /\ Null \in Times \cup {Null}
    BY <2>2
  <2> QED
    BY <2>1, <2>3, <2>4, <2>5, WriteIsStable
<1> QED
  BY <1>2, <1>3, <1>4, <1>5, <1>6 DEF Next, PollerStep

-------------------------------------------------------------------------------
LEMMA Inductive ==
  ASSUME NEW p, Pollers = {p}
  PROVE  Spec => []IInv(p)
<1>1. Init => IInv(p)
  BY InitIInv
<1>2. IInv(p) /\ [Next]_vars => IInv(p)'
  BY NextIInv
<1> QED
  BY <1>1, <1>2, PTL DEF Spec

(* Every state one poller reaches is well typed.                            *)
THEOREM TypeCorrect ==
  ASSUME NEW p, Pollers = {p}
  PROVE  Spec => []TypeOK
<1>1. IInv(p) => TypeOK
  BY DEF IInv
<1> QED
  BY <1>1, Inductive, PTL

(* With one poller a quota never has two active cycles, so the statements   *)
(* that name "the" active row by its quota mean the row that was read.      *)
THEOREM ActiveIsUnique ==
  ASSUME NEW p, Pollers = {p}
  PROVE  Spec => []OneActiveCycle
<1>1. IInv(p) => OneActiveCycle
  BY DEF IInv
<1> QED
  BY <1>1, Inductive, PTL

(* With one poller the cycles of a quota follow one another in time, at     *)
(* whatever statement a poll fails and the daemon dies.                     *)
THEOREM CyclesFollow ==
  ASSUME NEW p, Pollers = {p}
  PROVE  Spec => []CyclesInOrder
<1>1. IInv(p) => CyclesInOrder
  BY DEF IInv
<1> QED
  BY <1>1, Inductive, PTL

(* With one poller a closed cycle never changes again and the statistics of *)
(* the active one never shrink.                                             *)
THEOREM HistoryStays ==
  ASSUME NEW p, Pollers = {p}
  PROVE  Spec => HistoryIsStable
<1>1. IInv(p) /\ [Next]_vars => [HistoryStable]_vars
  BY StepIsStable
<1> QED
  BY <1>1, Inductive, PTL DEF Spec, HistoryIsStable
-------------------------------------------------------------------------------
(* The peaks.                                                               *)
LEMMA PeaksKept ==
  ASSUME PeaksAreOwn, rows' = rows, snaps \subseteq snaps'
  PROVE  PeaksAreOwn'
<1> SUFFICES ASSUME NEW q \in Quotas, NEW i \in 1..Len(rows[q]),
                    rows[q][i].peak > 0
             PROVE  \E s \in snaps' :
                      /\ s.val[q] = rows[q][i].peak
                      /\ rows[q][i].start <= s.at /\ s.at <= LastPoll(rows[q][i])
  BY DEF PeaksAreOwn, Stored, LastPoll
<1>1. Stored(q, rows[q][i].peak, rows[q][i].start, LastPoll(rows[q][i]))
  BY DEF PeaksAreOwn
<1> QED
  BY <1>1 DEF Stored

(* A peak written to the active row has to be a reading of it.              *)
LEMMA WrittenPeakIsOwn ==
  ASSUME NEW p, Pollers = {p}, IInv(p), PeaksAreOwn, w[p].pc # "idle",
         Len(rows[w[p].q]) \in Active(w[p].q),
         NEW pk \in Nat, NEW d \in Nat, NEW e \in Times \cup {Null},
         pk > 0 => Stored(w[p].q, pk, rows[w[p].q][Len(rows[w[p].q])].start,
                          Until(rows[w[p].q][Len(rows[w[p].q])],
                                IF e = Null THEN rows[w[p].q][Len(rows[w[p].q])].renews
                                ELSE e)),
         WriteActive(w[p].q, pk, d, e), snaps' = snaps
  PROVE  PeaksAreOwn'
<1> USE DEF IInv
<1> DEFINE q == w[p].q
           n == Len(rows[q])
<1>1. q \in Quotas /\ rows \in [Quotas -> Seq(RowType)]
  BY DEF TypeOK, PollerType
<1>2. Active(q) = {n}
  BY <1>1 DEF OneActiveCycle
<1>3. n \in 1..n
  BY <1>1, <1>2, RowFacts
<1>4. /\ \A x \in Quotas \ {q} : rows'[x] = rows[x]
      /\ Len(rows'[q]) = n
      /\ rows'[q][n].start = rows[q][n].start
      /\ rows'[q][n].renews = rows[q][n].renews
      /\ rows'[q][n].end = e
      /\ rows'[q][n].peak = pk
      /\ \A i \in 1..n : i # n => rows'[q][i] = rows[q][i]
  BY SMTT(30), <1>1, <1>2, <1>3, WriteActiveRows
<1> SUFFICES ASSUME NEW x \in Quotas, NEW i \in 1..Len(rows'[x]),
                    rows'[x][i].peak > 0
             PROVE  \E s \in snaps :
                      /\ s.val[x] = rows'[x][i].peak
                      /\ rows'[x][i].start <= s.at
                      /\ s.at <= LastPoll(rows'[x][i])
  BY DEF PeaksAreOwn, Stored, LastPoll
<1>5. CASE x = q /\ i = n
  <2>1. Stored(q, pk, rows[q][n].start, Until(rows[q][n], IF e = Null THEN rows[q][n].renews ELSE e))
    BY <1>4, <1>5
  <2>2. LastPoll(rows'[x][i]) = Until(rows[q][n], IF e = Null THEN rows[q][n].renews ELSE e)
    BY <1>4, <1>5 DEF LastPoll, Until
  <2> HIDE DEF n, q
  <2> QED
    BY <1>4, <1>5, <2>1, <2>2 DEF Stored
<1>6. CASE ~(x = q /\ i = n)
  <2>1. rows'[x][i] = rows[x][i] /\ i \in 1..Len(rows[x])
    BY <1>4, <1>6
  <2>2. Stored(x, rows[x][i].peak, rows[x][i].start, LastPoll(rows[x][i]))
    BY <2>1 DEF PeaksAreOwn
  <2> QED
    BY <2>1, <2>2 DEF Stored
<1> QED
  BY <1>5, <1>6

(* Between two statements only the poller's variables change.               *)
LEMMA PollPeak ==
  ASSUME NEW p, Pollers = {p}, IInv(p), PInv(p), Poll(p)
  PROVE  PInv(p)'
<1> USE DEF IInv, PInv
<1>1. PICK t \in (now + 1)..MaxTime,
           v \in [Quotas -> Values],
           r \in [Quotas -> Times] :
        /\ now' = t
        /\ snaps' = snaps \cup {[at |-> t, val |-> v]}
        /\ w' = [w EXCEPT ![p] =
                   [Idle EXCEPT !.pc = "query", !.at = t, !.val = v, !.renews = r]]
  BY ReportedIsTime DEF Poll
<1>2. rows' = rows
  BY DEF Poll
<1>3. PeaksAreOwn'
  BY <1>1, <1>2, PeaksKept
<1>4. SnapsPast'
  <2>1. now \in Nat /\ now < t /\ t \in Nat
    BY CycleAssumption DEF CycleAssumption, TypeOK, Times
  <2>2. \A s \in snaps : s.at \in Nat
    BY CycleAssumption DEF CycleAssumption, TypeOK, Times
  <2> SUFFICES ASSUME NEW s \in snaps' PROVE s.at <= t
    BY <1>1 DEF SnapsPast
  <2>3. CASE s \in snaps
    BY <2>1, <2>2, <2>3 DEF SnapsPast
  <2>4. CASE s = [at |-> t, val |-> v]
    BY <2>1, <2>4
  <2> QED
    BY <1>1, <2>3, <2>4
<1>5. w'[p].pc = "query" /\ w'[p].at = t /\ w'[p].val = v
  <2> DEFINE y == [Idle EXCEPT !.pc = "query", !.at = t, !.val = v, !.renews = r]
  <2>1. y.pc = "query" /\ y.at = t /\ y.val = v
    BY DEF Idle
  <2> HIDE DEF y
  <2> QED
    BY <1>1, <2>1 DEF TypeOK, y
<1>6. PeakIsFresh(p)'
  BY <1>1, <1>5 DEF PeakIsFresh
<1> QED
  BY <1>3, <1>4, <1>6

(* The end of a quota leaves nothing to be written.                         *)
LEMMA AdvanceIsFresh ==
  ASSUME NEW p, Pollers = {p}, TypeOK, Fresh(p), PeakIsFresh(p), w[p].pc # "idle",
         Advance(p), snaps' = snaps
  PROVE  PeakIsFresh(p)'
BY AdvanceFacts DEF PeakIsFresh

LEMMA QueryNonePeak ==
  ASSUME NEW p, Pollers = {p}, IInv(p), PInv(p), QueryNone(p)
  PROVE  PInv(p)'
<1> USE DEF IInv, PInv
<1>1. UNCHANGED <<now, snaps, rows>> /\ w[p].pc = "query"
  BY DEF QueryNone
<1>2. /\ w'[p].pc = "create" /\ w'[p].at = w[p].at /\ w'[p].val = w[p].val
  BY DEF QueryNone, TypeOK, PollerType
<1>3. PeaksAreOwn' /\ SnapsPast'
  BY <1>1, PeaksKept DEF SnapsPast
<1>4. PeakIsFresh(p)'
  BY <1>1, <1>2 DEF PeakIsFresh
<1> QED
  BY <1>3, <1>4

(* Stretching the time of a stored reading.                                 *)
LEMMA StoredTill ==
  ASSUME NEW q, NEW v, NEW f, NEW t \in Int, NEW u \in Int,
         Stored(q, v, f, t), \A s \in snaps : s.at <= t => s.at <= u
  PROVE  Stored(q, v, f, u)
BY DEF Stored

(* A cycle ends at its renewal or now, and its peak is a reading taken      *)
(* before the grace period after either is over.                            *)
LEMMA QueryResetPeak ==
  ASSUME NEW p, Pollers = {p}, IInv(p), PInv(p), QueryReset(p)
  PROVE  PInv(p)'
<1> USE DEF IInv, PInv
<1> DEFINE q == w[p].q
           n == Len(rows[q])
           c == rows[q][n]
<1>1. /\ w[p].pc = "query"
      /\ w' = [w EXCEPT ![p].pc = "close", ![p].end = EndOf(p),
                        ![p].peak = Cycle(q).peak,
                        ![p].delta = Cycle(q).delta + Rise(p)]
      /\ UNCHANGED <<now, snaps, rows>>
      /\ Active(q) # {}
  BY DEF QueryReset, ResetAs
<1>2. w[p] \in PollerType /\ q \in Quotas /\ rows \in [Quotas -> Seq(RowType)]
  BY DEF TypeOK, PollerType
<1>3. Cycle(q) = c /\ n \in Active(q) /\ n \in 1..n
  BY <1>1, <1>2, CycleIsLast DEF OneActiveCycle
<1>4. c \in RowType /\ c.end = Null
  BY <1>2, <1>3, RowFacts
<1>5. /\ w'[p].pc = "close" /\ w'[p].q = q
      /\ w'[p].end = EndOf(p)
      /\ w'[p].peak = c.peak
      /\ w'[p].at = w[p].at /\ w'[p].val = w[p].val
  BY <1>1, <1>2, <1>3 DEF TypeOK, PollerType
<1>6. PeaksAreOwn' /\ SnapsPast'
  BY <1>1, PeaksKept DEF SnapsPast
<1>7. ASSUME c.peak > 0 PROVE Stored(q, c.peak, c.start, Until(c, EndOf(p)))
  <2>1. Stored(q, c.peak, c.start, Until(c, c.renews))
    BY <1>2, <1>3, <1>4, <1>7 DEF PeaksAreOwn, LastPoll
  <2>2. /\ w[p].at = now /\ now \in Int /\ c.renews \in Int /\ Grace \in Nat
        /\ c.start \in Int
        /\ \A s \in snaps : s.at <= now /\ s.at \in Int
    <3>1. w[p].at = now /\ (\A s \in snaps : s.at <= now)
          /\ c.renews \in Times /\ c.start \in Times
      BY <1>1, <1>4 DEF Fresh, SnapsPast, RowType
    <3>2. now \in Times /\ \A s \in snaps : s.at \in Times
      BY DEF TypeOK
    <3>3. Times \subseteq Int /\ Grace \in Nat
      BY CycleAssumption DEF CycleAssumption, Times
    <3> QED
      BY <3>1, <3>2, <3>3
  <2> HIDE DEF c
  <2>3. EndOf(p) = c.renews \/ EndOf(p) = now
    BY <1>3, <2>2 DEF EndOf
  <2>4. \A s \in snaps : s.at <= Until(c, c.renews) => s.at <= Until(c, EndOf(p))
    BY <2>2, <2>3 DEF Until, Larger
  <2>5. Until(c, c.renews) \in Int /\ Until(c, EndOf(p)) \in Int
    BY <2>2, <2>3 DEF Until, Larger
  <2> HIDE DEF q
  <2> QED
    BY <2>1, <2>4, <2>5, StoredTill
<1>8. PeakIsFresh(p)'
  <2>1. c.peak > 0 => \E s \in snaps : /\ s.val[q] = c.peak /\ c.start <= s.at
                                       /\ s.at <= Until(c, EndOf(p))
    BY <1>7 DEF Stored
  <2>2. [at |-> w[p].at, val |-> w[p].val] \in snaps
    BY <1>1 DEF PeakIsFresh
  <2>3. snaps' = snaps /\ rows'[w'[p].q][Len(rows'[w'[p].q])] = c
    BY <1>1, <1>5
  <2> HIDE DEF c
  <2> QED
    BY <1>5, <2>1, <2>2, <2>3 DEF PeakIsFresh, Stored
<1> QED
  BY <1>6, <1>8

(* A reading that is no reset was taken before the grace period was over.   *)
LEMMA QuerySamePeak ==
  ASSUME NEW p, Pollers = {p}, IInv(p), PInv(p), QuerySame(p)
  PROVE  PInv(p)'
<1> USE DEF IInv, PInv
<1> DEFINE q == w[p].q
           n == Len(rows[q])
           c == rows[q][n]
           v == w[p].val[q]
<1>1. /\ w[p].pc = "query" /\ Active(q) # {} /\ ~RenewalPast(p)
      /\ UNCHANGED <<now, snaps, rows>>
  BY DEF QuerySame, ResetDetected
<1>2. w[p] \in PollerType /\ q \in Quotas /\ rows \in [Quotas -> Seq(RowType)]
  BY DEF TypeOK, PollerType
<1>3. Cycle(q) = c /\ n \in Active(q) /\ n \in 1..n
  BY <1>1, <1>2, CycleIsLast DEF OneActiveCycle
<1>4. c \in RowType /\ c.end = Null
  BY <1>2, <1>3, RowFacts
<1>5. PeaksAreOwn' /\ SnapsPast'
  BY <1>1, PeaksKept DEF SnapsPast
<1>6. CASE hasLast \/ v > Cycle(q).peak
  <2>1. w' = [w EXCEPT ![p].pc = "update",
                       ![p].peak = Larger(Cycle(q).peak, v),
                       ![p].delta = Cycle(q).delta + Rise(p)]
    BY <1>6 DEF QuerySame
  <2>2. /\ w'[p].pc = "update" /\ w'[p].q = q
        /\ w'[p].peak = Larger(c.peak, v)
        /\ w'[p].at = w[p].at /\ w'[p].val = w[p].val
    BY <1>2, <1>3, <2>1 DEF TypeOK, PollerType
  <2>3. ASSUME Larger(c.peak, v) > 0
        PROVE  \E s \in snaps : /\ s.val[q] = Larger(c.peak, v) /\ c.start <= s.at
                                /\ s.at <= Until(c, c.renews)
    <3>1. CASE Larger(c.peak, v) = c.peak
      <4>1. Stored(q, c.peak, c.start, Until(c, c.renews))
        BY <1>2, <1>3, <1>4, <2>3, <3>1 DEF PeaksAreOwn, LastPoll
      <4> QED
        BY <3>1, <4>1 DEF Stored
    <3>2. CASE Larger(c.peak, v) = v
      <4>1. /\ [at |-> now, val |-> w[p].val] \in snaps
            /\ w[p].at = now
        BY <1>1 DEF PeakIsFresh, Fresh
      <4>2. c.start <= now
        BY <1>2, <1>3 DEF Past
      <4>3. now <= Until(c, c.renews)
        <5>1. /\ now \in Int /\ c.renews \in Int /\ c.start \in Int /\ Grace \in Nat
              /\ ~(now > c.renews + Grace)
          BY SMTT(30), <1>1, <1>3, <1>4, <4>1, CycleAssumption
             DEF CycleAssumption, TypeOK, RowType, Times, RenewalPast
        <5> HIDE DEF c
        <5> QED
          BY <5>1 DEF Until, Larger
      <4> HIDE DEF c
      <4> QED
        BY <3>2, <4>1, <4>2, <4>3
    <3> QED
      BY <3>1, <3>2 DEF Larger
  <2>4. PeakIsFresh(p)'
    <3>1. w[p].pc # "idle" => [at |-> w[p].at, val |-> w[p].val] \in snaps
      BY DEF PeakIsFresh
    <3> HIDE DEF v
    <3> QED
      BY <1>1, <2>2, <2>3, <3>1 DEF PeakIsFresh, Stored
  <2> QED
    BY <1>5, <2>4
<1>7. CASE ~(hasLast \/ v > Cycle(q).peak)
  <2>1. Advance(p)
    BY <1>7 DEF QuerySame
  <2> QED
    BY <1>1, <1>5, <2>1, AdvanceIsFresh
<1> QED
  BY <1>6, <1>7

LEMMA UpdateCyclePeak ==
  ASSUME NEW p, Pollers = {p}, IInv(p), PInv(p), UpdateCycle(p)
  PROVE  PInv(p)'
<1> USE DEF IInv, PInv
<1>1. /\ w[p].pc = "update"
      /\ WriteActive(w[p].q, w[p].peak, w[p].delta, Null)
      /\ Advance(p) /\ now' = now /\ snaps' = snaps
  BY DEF UpdateCycle
<1>2. w[p].peak \in Nat /\ w[p].delta \in Nat
  BY DEF TypeOK, PollerType
<1>3. /\ Len(rows[w[p].q]) \in Active(w[p].q)
      /\ w[p].peak > 0 =>
           Stored(w[p].q, w[p].peak, rows[w[p].q][Len(rows[w[p].q])].start,
                  Until(rows[w[p].q][Len(rows[w[p].q])], rows[w[p].q][Len(rows[w[p].q])].renews))
  BY <1>1 DEF Fresh, PeakIsFresh
<1>4. PeaksAreOwn'
  BY <1>1, <1>2, <1>3, WrittenPeakIsOwn
<1> QED
  BY <1>1, <1>4, AdvanceIsFresh DEF SnapsPast

LEMMA CloseCyclePeak ==
  ASSUME NEW p, Pollers = {p}, IInv(p), PInv(p), CloseCycle(p)
  PROVE  PInv(p)'
<1> USE DEF IInv, PInv
<1>1. /\ w[p].pc = "close"
      /\ WriteActive(w[p].q, w[p].peak, w[p].delta, w[p].end)
      /\ w' = [w EXCEPT ![p].pc = "recreate"]
      /\ now' = now /\ snaps' = snaps
  BY DEF CloseCycle
<1>2. /\ w[p] \in PollerType /\ w[p].peak \in Nat /\ w[p].delta \in Nat
      /\ w[p].end \in Times /\ w[p].end # Null
  BY CycleAssumption DEF CycleAssumption, TypeOK, PollerType, Times
<1>3. /\ Len(rows[w[p].q]) \in Active(w[p].q)
      /\ w[p].peak > 0 =>
           Stored(w[p].q, w[p].peak, rows[w[p].q][Len(rows[w[p].q])].start,
                  Until(rows[w[p].q][Len(rows[w[p].q])], w[p].end))
  BY <1>1 DEF Fresh, PeakIsFresh
<1>4. PeaksAreOwn'
  BY <1>1, <1>2, <1>3, WrittenPeakIsOwn
<1>5. w'[p].pc = "recreate" /\ w'[p].at = w[p].at /\ w'[p].val = w[p].val
  BY <1>1, <1>2 DEF TypeOK, PollerType
<1>6. PeakIsFresh(p)'
  BY <1>1, <1>5 DEF PeakIsFresh
<1> QED
  BY <1>1, <1>4, <1>6 DEF SnapsPast

(* A new row has no peak yet.                                               *)
LEMMA CreateCyclePeak ==
  ASSUME NEW p, Pollers = {p}, IInv(p), PInv(p), CreateCycle(p)
  PROVE  PInv(p)'
<1> USE DEF IInv, PInv
<1> DEFINE q == w[p].q
           n == Len(rows[q])
           c == Row(w[p].at, w[p].renews[q])
<1>1. /\ w[p].pc \in {"create", "recreate"}
      /\ rows' = [rows EXCEPT ![q] = Append(@, c)]
      /\ w' = [w EXCEPT ![p].pc = IF w[p].pc = "create" THEN "peak"
                                  ELSE "resetpeak"]
      /\ now' = now /\ snaps' = snaps
  BY DEF CreateCycle, TypeOK
<1>2. w[p] \in PollerType /\ q \in Quotas /\ rows \in [Quotas -> Seq(RowType)]
  BY DEF TypeOK, PollerType
<1>3. c \in RowType /\ c.start = w[p].at /\ c.peak = 0
  BY <1>1, <1>2 DEF Fresh, TypeOK, Row, RowType
<1> HIDE DEF c
<1>4. /\ \A x \in Quotas \ {q} : rows'[x] = rows[x]
      /\ Len(rows'[q]) = n + 1 /\ n \in Nat
      /\ \A i \in 1..n : rows'[q][i] = rows[q][i]
      /\ rows'[q][n + 1] = c
  BY <1>1, <1>2, <1>3, AppendRow, RowFacts
<1>5. PeaksAreOwn'
  <2> SUFFICES ASSUME NEW x \in Quotas, NEW i \in 1..Len(rows'[x]),
                      rows'[x][i].peak > 0
               PROVE  \E s \in snaps :
                        /\ s.val[x] = rows'[x][i].peak
                        /\ rows'[x][i].start <= s.at
                        /\ s.at <= LastPoll(rows'[x][i])
    BY <1>1 DEF PeaksAreOwn, Stored, LastPoll
  <2>1. i \in 1..Len(rows[x]) /\ rows'[x][i] = rows[x][i]
    <3>1. CASE x = q
      <4>1. i # n + 1
        BY <1>3, <1>4, <3>1
      <4> HIDE DEF n
      <4>2. i \in 1..n
        BY <1>4, <3>1, <4>1
      <4> QED
        BY <1>4, <3>1, <4>2 DEF n
    <3>2. CASE x # q
      BY <1>4, <3>2
    <3> QED
      BY <3>1, <3>2
  <2>2. Stored(x, rows[x][i].peak, rows[x][i].start, LastPoll(rows[x][i]))
    BY <2>1 DEF PeaksAreOwn
  <2> QED
    BY <2>1, <2>2 DEF Stored
<1>6. /\ w'[p].pc \in {"peak", "resetpeak"} /\ w'[p].q = q
      /\ w'[p].at = w[p].at /\ w'[p].val = w[p].val
  BY <1>1, <1>2 DEF TypeOK, PollerType
<1>7. PeakIsFresh(p)'
  BY <1>1, <1>3, <1>4, <1>6 DEF PeakIsFresh
<1> QED
  BY <1>1, <1>5, <1>7 DEF SnapsPast

LEMMA SetInitialPeakPeak ==
  ASSUME NEW p, Pollers = {p}, IInv(p), PInv(p), SetInitialPeak(p)
  PROVE  PInv(p)'
<1> USE DEF IInv, PInv
<1> DEFINE q == w[p].q
           c == rows[q][Len(rows[q])]
<1>1. /\ w[p].pc \in {"peak", "resetpeak"}
      /\ WriteActive(q, w[p].val[q], 0, Null)
      /\ Advance(p) /\ now' = now /\ snaps' = snaps
  BY DEF SetInitialPeak
<1>2. q \in Quotas /\ w[p].val[q] \in Nat
  BY <1>1, ReadingIsNat DEF Fresh, TypeOK, PollerType
<1>3. Len(rows[q]) \in Active(q) /\ c.start = w[p].at /\ w[p].at = now
      /\ [at |-> now, val |-> w[p].val] \in snaps
  BY <1>1 DEF Fresh, PeakIsFresh
<1>4. now <= Until(c, c.renews)
  <2>1. /\ rows \in [Quotas -> Seq(RowType)]
        /\ Len(rows[q]) \in 1..Len(rows[q])
    BY <1>2, <1>3, RowFacts DEF TypeOK
  <2>2. c \in RowType
    BY <1>2, <2>1, RowFacts DEF Past
  <2>3. c.start = now /\ now \in Int /\ c.renews \in Int /\ Grace \in Nat
    BY <1>3, <2>2, CycleAssumption DEF CycleAssumption, TypeOK, RowType, Times
  <2> HIDE DEF c
  <2> QED
    BY <2>2, <2>3 DEF Until, Larger
<1>5. Stored(q, w[p].val[q], c.start, Until(c, c.renews))
  <2>1. now <= now
    BY CycleAssumption DEF CycleAssumption, TypeOK, Times
  <2> HIDE DEF c
  <2> QED
    BY <1>3, <1>4, <2>1 DEF Stored
<1>6. PeaksAreOwn'
  <2>1. 0 \in Nat /\ Null \in Times \cup {Null} /\ w[p].pc # "idle"
    BY <1>1
  <2> QED
    BY <1>1, <1>2, <1>3, <1>5, <2>1, WrittenPeakIsOwn
<1> QED
  BY <1>1, <1>6, AdvanceIsFresh DEF SnapsPast

LEMMA NextPInv ==
  ASSUME NEW p, Pollers = {p}, IInv(p), PInv(p), [Next]_vars
  PROVE  PInv(p)'
<1>1. CASE PollerStep(p)
  <2>1. CASE StatementFails(p)
    <3>1. rows' = rows /\ snaps' = snaps /\ now' = now /\ w'[p].pc = "idle"
      BY <2>1 DEF StatementFails, Idle, IInv, TypeOK
    <3> QED
      BY <3>1, PeaksKept DEF PInv, PeakIsFresh, SnapsPast
  <2> QED
    BY <1>1, <2>1, PollPeak, QueryNonePeak, QueryResetPeak, QuerySamePeak,
       UpdateCyclePeak, CloseCyclePeak, CreateCyclePeak, SetInitialPeakPeak
       DEF PollerStep
<1>2. CASE Restart
  <2>1. rows' = rows /\ snaps' = snaps /\ now' = now /\ w'[p].pc = "idle"
    BY <1>2 DEF Restart, Idle
  <2> QED
    BY <2>1, PeaksKept DEF PInv, PeakIsFresh, SnapsPast
<1>3. CASE UNCHANGED vars
  <2>1. UNCHANGED <<rows, snaps, now, w>>
    BY <1>3 DEF vars
  <2> QED
    BY <2>1, PeaksKept DEF PInv, PeakIsFresh, SnapsPast, Stored
<1> QED
  BY <1>1, <1>2, <1>3 DEF Next

LEMMA InitPInv ==
  ASSUME NEW p, Pollers = {p}, Init
  PROVE  PInv(p)
<1>1. \A q \in Quotas : 1..Len(rows[q]) = {}
  BY EmptySeq DEF Init
<1> QED
  BY <1>1 DEF PInv, PeaksAreOwn, SnapsPast, PeakIsFresh, Init, Idle

(* With one poller the peak of a row is a reading of its own cycle, taken   *)
(* no later than the grace period after its end or by the poll that opened  *)
(* it, at whatever statement a poll fails and the daemon dies: processQuota *)
(* looks for a reset before it lets a reading into a row, and a reset does  *)
(* not touch the peak.                                                      *)
THEOREM PeaksStayOwn ==
  ASSUME NEW p, Pollers = {p}
  PROVE  Spec => []PeakIsOwnReading
<1>1. Init => PInv(p)
  BY InitPInv
<1>2. IInv(p) /\ PInv(p) /\ [Next]_vars => PInv(p)'
  BY NextPInv
<1>3. IInv(p) /\ PInv(p) => PeakIsOwnReading
  <2> SUFFICES ASSUME IInv(p), PInv(p),
                      NEW q \in Quotas, NEW i \in DOMAIN rows[q], rows[q][i].peak > 0
               PROVE  Stored(q, rows[q][i].peak, rows[q][i].start,
                             IF rows[q][i].end = Null THEN now
                             ELSE Until(rows[q][i], rows[q][i].end))
    BY DEF PeakIsOwnReading
  <2>1. i \in 1..Len(rows[q])
    BY RowFacts DEF IInv, TypeOK
  <2>2. Stored(q, rows[q][i].peak, rows[q][i].start, LastPoll(rows[q][i]))
    BY <2>1 DEF PInv, PeaksAreOwn
  <2>3. \A s \in snaps : s.at <= now
    BY DEF PInv, SnapsPast
  <2> QED
    BY <2>2, <2>3 DEF Stored, LastPoll
<1> QED
  BY <1>1, <1>2, <1>3, Inductive, PTL DEF Spec

-------------------------------------------------------------------------------
(* The sum of the deltas is a recursive function over the rows.  What it    *)
(* yields is shown by induction, for which the library's theorems are of no *)
(* use to the provers; that every set of naturals has a least element is.   *)

(* The natural numbers are well-ordered: induction over the rows.           *)
LEMMA LeastNumber ==
  ASSUME NEW T, T \subseteq Nat, T # {}
  PROVE  \E x \in T : \A y \in T : x <= y
<1> DEFINE R == {s \in Nat \X Nat : s[1] < s[2]}
<1>1. IsWellFoundedOn(R, Nat)
  BY NatLessThanWellFounded DEF OpToRel
<1> HIDE DEF R
<1>2. \E x \in T : \A y \in T : ~ (<<y, x>> \in R)
  BY <1>1, WFMin
<1> USE DEF R
<1>3. \A x \in T, y \in T : ~ (<<y, x>> \in R) => x <= y
  BY SMT
<1> QED
  BY <1>2, <1>3

(* A set with 0 and the successor of each of its numbers up to m.           *)
LEMMA UpTo ==
  ASSUME NEW m \in Nat, NEW S, 0 \in S,
         \A n \in 0..m : n \in S /\ n < m => n + 1 \in S
  PROVE  0..m \subseteq S
<1> DEFINE T == (0..m) \ S
<1> SUFFICES ASSUME T # {} PROVE FALSE
  OBVIOUS
<1>1. T \subseteq Nat
  OBVIOUS
<1> HIDE DEF T
<1>2. PICK x \in T : \A y \in T : x <= y
  BY <1>1, LeastNumber
<1> USE DEF T
<1>3. x \in 0..m /\ x # 0 /\ x - 1 \in 0..m /\ x - 1 < m
  BY <1>2
<1>4. x - 1 \in S
  BY <1>2, <1>3
<1>5. (x - 1) + 1 \in S
  BY <1>3, <1>4
<1> QED
  BY <1>2, <1>3, <1>5

(* The sums exist, so that the recursive definition says what they are.     *)
LEMMA SumsAre ==
  ASSUME NEW s, Len(s) \in Nat
  PROVE  DeltaSums(s) =
           [n \in 0..Len(s) |->
              IF n = 0 THEN 0 ELSE DeltaSums(s)[n - 1] + s[n].delta]
<1> DEFINE m == Len(s)
           Is(f, k) == f = [n \in 0..k |->
                              IF n = 0 THEN 0 ELSE f[n - 1] + s[n].delta]
           S == {k \in 0..m : \E f : Is(f, k)}
<1>1. 0 \in S
  <2>1. Is([n \in 0..0 |-> 0], 0)
    OBVIOUS
  <2> HIDE DEF Is
  <2> QED
    BY <2>1
<1>2. ASSUME NEW k \in 0..m, k \in S, k < m
      PROVE  k + 1 \in S
  <2>1. PICK f : Is(f, k)
    BY <1>2
  <2> DEFINE g == [n \in 0..(k + 1) |->
                     IF n <= k THEN f[n] ELSE f[k] + s[k + 1].delta]
  <2>2. \A n \in 0..k : f[n] = IF n = 0 THEN 0 ELSE f[n - 1] + s[n].delta
    BY <2>1
  <2>3. \A n \in 0..(k + 1) :
          g[n] = IF n = 0 THEN 0 ELSE g[n - 1] + s[n].delta
    <3> SUFFICES ASSUME NEW n \in 0..(k + 1)
                 PROVE  g[n] = IF n = 0 THEN 0 ELSE g[n - 1] + s[n].delta
      OBVIOUS
    <3>1. CASE n = 0
      BY <3>1, <2>2
    <3>2. CASE n # 0 /\ n <= k
      <4>1. n \in 0..k /\ n - 1 \in 0..(k + 1) /\ n - 1 <= k
        BY <3>2
      <4>2. g[n] = f[n] /\ g[n - 1] = f[n - 1]
        BY <3>2, <4>1
      <4> HIDE DEF g
      <4> QED
        BY <3>2, <2>2, <4>1, <4>2
    <3>3. CASE n = k + 1
      <4>1. n # 0 /\ n - 1 = k /\ ~(n <= k) /\ k \in 0..(k + 1) /\ k <= k
        BY <3>3
      <4>2. g[n] = f[k] + s[k + 1].delta /\ g[k] = f[k]
        BY <3>3, <4>1
      <4> HIDE DEF g
      <4> QED
        BY <3>3, <4>1, <4>2
    <3> QED
      BY <3>1, <3>2, <3>3
  <2>4. Is(g, k + 1)
    BY <2>3
  <2> HIDE DEF Is, g
  <2>5. k + 1 \in 0..m
    BY <1>2
  <2> QED
    BY <2>4, <2>5
<1> HIDE DEF S
<1>3. m \in S
  <2>1. 0..m \subseteq S
    BY <1>1, <1>2, UpTo
  <2> QED
    BY <2>1
<1> USE DEF S
<1>4. \E f : Is(f, m)
  BY <1>3
<1> QED
  BY <1>4 DEF DeltaSums
(* A sum grows by what its last row adds to the one before.                 *)
LEMMA SumStep ==
  ASSUME NEW s, Len(s) \in Nat
  PROVE  /\ DeltaSums(s)[0] = 0
         /\ \A n \in 1..Len(s) :
              DeltaSums(s)[n] = DeltaSums(s)[n - 1] + s[n].delta
<1> DEFINE d == DeltaSums(s)
           m == Len(s)
<1>1. d = [n \in 0..m |-> IF n = 0 THEN 0 ELSE d[n - 1] + s[n].delta]
  BY SumsAre
<1> HIDE DEF d, m
<1>2. m \in Nat
  BY DEF m
<1>3. \A n \in 0..m : d[n] = IF n = 0 THEN 0 ELSE d[n - 1] + s[n].delta
  BY <1>1
<1>4. 0 \in 0..m /\ \A n \in 1..m : n \in 0..m /\ n # 0
  BY <1>2
<1> QED
  BY <1>3, <1>4 DEF d, m

(* Two tables that agree on the deltas of their first k rows agree on their *)
(* sums.                                                                    *)
LEMMA SumsAgree ==
  ASSUME NEW s, NEW t, Len(s) \in Nat, Len(t) \in Nat,
         NEW k \in 0..Len(s), k <= Len(t),
         \A i \in 1..k : t[i].delta = s[i].delta
  PROVE  DeltaSums(t)[k] = DeltaSums(s)[k]
<1> DEFINE S == {n \in 0..k : DeltaSums(t)[n] = DeltaSums(s)[n]}
<1>1. 0 \in S
  BY SumStep
<1>2. ASSUME NEW n \in 0..k, n \in S, n < k
      PROVE  n + 1 \in S
  <2>1. n + 1 \in 1..k /\ n + 1 \in 1..Len(s) /\ n + 1 \in 1..Len(t)
        /\ (n + 1) - 1 = n
    BY <1>2
  <2>2. /\ DeltaSums(s)[n + 1] = DeltaSums(s)[n] + s[n + 1].delta
        /\ DeltaSums(t)[n + 1] = DeltaSums(t)[n] + t[n + 1].delta
    BY <2>1, SumStep
  <2> QED
    BY <1>2, <2>1, <2>2
<1> HIDE DEF S
<1>3. 0..k \subseteq S
  <2>1. k \in Nat
    OBVIOUS
  <2> QED
    BY <1>1, <1>2, <2>1, UpTo
<1>4. k \in S
  BY <1>3
<1> QED
  BY <1>4 DEF S

LEMMA SumIsNat ==
  ASSUME NEW s, Len(s) \in Nat, \A i \in 1..Len(s) : s[i].delta \in Nat
  PROVE  \A k \in 0..Len(s) : DeltaSums(s)[k] \in Nat
<1> DEFINE S == {n \in 0..Len(s) : DeltaSums(s)[n] \in Nat}
<1>1. 0 \in S
  BY SumStep
<1>2. ASSUME NEW n \in 0..Len(s), n \in S, n < Len(s)
      PROVE  n + 1 \in S
  <2>1. n + 1 \in 1..Len(s) /\ (n + 1) - 1 = n
    BY <1>2
  <2>2. DeltaSums(s)[n + 1] = DeltaSums(s)[n] + s[n + 1].delta
    BY <2>1, SumStep
  <2> QED
    BY <1>2, <2>1, <2>2
<1> HIDE DEF S
<1>3. 0..Len(s) \subseteq S
  BY <1>1, <1>2, UpTo
<1> QED
  BY <1>3 DEF S

(* A write to the newest row changes the sum by what it changes there.      *)
LEMMA TotalWritten ==
  ASSUME NEW s, NEW t, NEW n \in Nat \ {0}, Len(s) = n, Len(t) = n,
         \A i \in 1..n : s[i].delta \in Nat /\ t[i].delta \in Nat,
         \A i \in 1..n : i # n => t[i] = s[i]
  PROVE  DeltaSums(t)[n] = DeltaSums(s)[n] - s[n].delta + t[n].delta
<1>1. n \in 1..n /\ n - 1 \in 0..n /\ n \in Nat
  OBVIOUS
<1>2. \A i \in 1..(n - 1) : i \in 1..n /\ i # n
  OBVIOUS
<1>3. DeltaSums(t)[n - 1] = DeltaSums(s)[n - 1]
  <2>1. \A i \in 1..(n - 1) : t[i].delta = s[i].delta
    BY <1>2
  <2>2. n - 1 \in 0..Len(s) /\ n - 1 <= Len(t)
    BY <1>1
  <2> QED
    BY <1>1, <2>1, <2>2, SumsAgree
<1>4. /\ DeltaSums(s)[n] = DeltaSums(s)[n - 1] + s[n].delta
      /\ DeltaSums(t)[n] = DeltaSums(t)[n - 1] + t[n].delta
  BY <1>1, SumStep
<1>5. DeltaSums(s)[n - 1] \in Nat
  <2>1. Len(s) \in Nat /\ n - 1 \in 0..Len(s)
    BY <1>1
  <2> QED
    BY <2>1, SumIsNat
<1>6. s[n].delta \in Nat /\ t[n].delta \in Nat
  BY <1>1
<1> QED
  BY <1>3, <1>4, <1>5, <1>6

(* A row that begins with no delta leaves the sum as it is.                 *)
LEMMA TotalOpened ==
  ASSUME NEW s, NEW t, NEW n \in Nat, Len(s) = n, Len(t) = n + 1,
         \A i \in 1..n : s[i].delta \in Nat,
         \A i \in 1..n : t[i] = s[i], t[n + 1].delta = 0
  PROVE  DeltaSums(t)[n + 1] = DeltaSums(s)[n]
<1>1. n \in 0..n /\ n + 1 \in 1..(n + 1) /\ (n + 1) - 1 = n /\ n <= n + 1
  OBVIOUS
<1>2. DeltaSums(t)[n] = DeltaSums(s)[n]
  <2>1. Len(s) \in Nat /\ Len(t) \in Nat /\ n \in 0..Len(s) /\ n <= Len(t)
    BY <1>1
  <2>2. \A i \in 1..n : t[i].delta = s[i].delta
    OBVIOUS
  <2> QED
    BY <2>1, <2>2, SumsAgree
<1>3. DeltaSums(t)[n + 1] = DeltaSums(t)[n] + t[n + 1].delta
  BY SMTT(30), <1>1, SumStep
<1>4. DeltaSums(s)[n] \in Nat
  BY <1>1, SumIsNat
<1> QED
  BY <1>2, <1>3, <1>4

-------------------------------------------------------------------------------
(* What a write to the active row does to the sums of all quotas.           *)
LEMMA WriteChangesSum ==
  ASSUME NEW p, Pollers = {p}, IInv(p), w[p].pc # "idle",
         Len(rows[w[p].q]) \in Active(w[p].q),
         NEW pk \in Nat, NEW d \in Nat, NEW e \in Times \cup {Null},
         WriteActive(w[p].q, pk, d, e)
  PROVE  LET q == w[p].q
             n == Len(rows[q])
         IN /\ Len(rows'[q]) = n
            /\ DeltaSums(rows'[q])[n] =
                 DeltaSums(rows[q])[n] - rows[q][n].delta + d
            /\ \A x \in Quotas \ {q} : rows'[x] = rows[x]
            /\ e = Null => n \in DOMAIN rows'[q] /\ rows'[q][n].end = Null
<1> DEFINE q == w[p].q
           n == Len(rows[q])
<1>1. q \in Quotas /\ rows \in [Quotas -> Seq(RowType)]
  BY DEF IInv, TypeOK, PollerType
<1>2. /\ Active(q) = {n} /\ n \in 1..n /\ n \in Nat \ {0}
      /\ \A i \in 1..n : rows[q][i] \in RowType
  BY <1>1, RowFacts DEF IInv, OneActiveCycle, Active
<1>3. /\ rows' \in [Quotas -> Seq(RowType)]
      /\ \A x \in Quotas \ {q} : rows'[x] = rows[x]
      /\ Len(rows'[q]) = n
      /\ \A i \in 1..n :
           IF i \in Active(q)
             THEN /\ rows'[q][i].start = rows[q][i].start
                  /\ rows'[q][i].renews = rows[q][i].renews
                  /\ rows'[q][i].end = e
                  /\ rows'[q][i].peak = pk
                  /\ rows'[q][i].delta = d
             ELSE rows'[q][i] = rows[q][i]
  BY <1>1, WriteActiveRows
<1>4. /\ rows'[q][n].end = e /\ rows'[q][n].delta = d
      /\ \A i \in 1..n : i # n => rows'[q][i] = rows[q][i]
  BY <1>2, <1>3
<1>5. DOMAIN rows'[q] = 1..n
  BY <1>1, <1>3, LenProperties
<1>6. \A i \in 1..n : rows[q][i].delta \in Nat /\ rows'[q][i].delta \in Nat
  <2>1. \A i \in 1..n : rows[q][i].delta \in Nat
    BY <1>2 DEF RowType
  <2> HIDE DEF q, n
  <2>2. \A i \in 1..n : i = n \/ rows'[q][i] = rows[q][i]
    BY <1>4
  <2> QED
    BY <1>4, <2>1, <2>2
<1> HIDE DEF q, n
<1>7. Len(rows[q]) = n
  BY DEF n
<1>8. DeltaSums(rows'[q])[n] = DeltaSums(rows[q])[n] - rows[q][n].delta + d
  <2> DEFINE s == rows[q]
             t == rows'[q]
  <2>1. /\ Len(s) = n /\ Len(t) = n /\ n \in Nat \ {0}
        /\ \A i \in 1..n : s[i].delta \in Nat /\ t[i].delta \in Nat
        /\ \A i \in 1..n : i # n => t[i] = s[i]
        /\ t[n].delta = d
    BY <1>2, <1>3, <1>4, <1>6, <1>7
  <2> HIDE DEF s, t
  <2>2. DeltaSums(t)[n] = DeltaSums(s)[n] - s[n].delta + t[n].delta
    BY <2>1, TotalWritten
  <2> QED
    BY <2>1, <2>2 DEF s, t
<1> QED
  BY <1>2, <1>3, <1>4, <1>5, <1>8 DEF q, n

(* What Observe adds to the history of the quota.                           *)
Growth(q, v) ==
  IF seen[q] # Null /\ v > seen[q] THEN v - seen[q] ELSE 0

LEMMA ObserveGrows ==
  ASSUME TypeOK, NEW q \in Quotas, NEW v \in Values, Observe(q, v)
  PROVE  /\ grown'[q] = grown[q] + Growth(q, v)
         /\ seen'[q] = v
         /\ \A x \in Quotas \ {q} : grown'[x] = grown[x] /\ seen'[x] = seen[x]
<1>1. seen' = [seen EXCEPT ![q] = v]
  BY DEF Observe
<1>2. seen'[q] = v /\ \A x \in Quotas \ {q} : seen'[x] = seen[x]
  BY <1>1 DEF TypeOK
<1>3. (seen[q] \in Nat \/ seen[q] = Null) /\ grown[q] \in Nat /\ v \in Nat
  BY ReadingIsNat DEF TypeOK
<1>4. grown' = [grown EXCEPT ![q] = IF seen[q] # Null /\ v > seen[q]
                                      THEN grown[q] + v - seen[q]
                                      ELSE grown[q]]
  BY DEF Observe
<1>5. \A x \in Quotas \ {q} : grown'[x] = grown[x]
  BY <1>4 DEF TypeOK
<1>6. grown'[q] = IF seen[q] # Null /\ v > seen[q]
                    THEN grown[q] + v - seen[q] ELSE grown[q]
  BY <1>4 DEF TypeOK
<1>7. CASE seen[q] # Null /\ v > seen[q]
  BY <1>2, <1>3, <1>5, <1>6, <1>7 DEF Growth
<1>8. CASE ~(seen[q] # Null /\ v > seen[q])
  BY <1>2, <1>3, <1>5, <1>6, <1>8 DEF Growth
<1> QED
  BY <1>7, <1>8

(* Outside a reset, what the tracker takes for the rise is what grew.       *)
LEMMA RiseIsGrowth ==
  ASSUME NEW p, Pollers = {p}, IInv(p), w[p].pc # "idle",
         w[p].pc \notin {"recreate", "resetpeak"},
         Counted(p, w[p].q)
  PROVE  Rise(p) = Growth(w[p].q, w[p].val[w[p].q])
<1> DEFINE q == w[p].q
           v == w[p].val[q]
<1>1. q \in Quotas /\ q \in Nat /\ last[q] \in Nat /\ v \in Nat
  <2>1. q \in Quotas
    BY DEF IInv, TypeOK, PollerType
  <2>2. last[q] \in Values \cup {0} /\ v \in Values \cup {0}
    BY <2>1 DEF IInv, TypeOK, Fresh
  <2> QED
    BY <2>1, <2>2, ReadingIsNat DEF Quotas
<1>2. Null \notin Nat
  BY CycleAssumption DEF CycleAssumption
<1>3. CASE hasLast
  <2>1. seen[q] = last[q] /\ seen[q] # Null
    BY <1>1, <1>2, <1>3 DEF Counted
  <2> QED
    BY <1>3, <2>1 DEF Rise, Growth
<1>4. CASE ~hasLast
  <2>1. seen[q] = Null
    BY <1>1, <1>4 DEF Counted
  <2> QED
    BY <1>4, <2>1 DEF Rise, Growth
<1> QED
  BY <1>3, <1>4

(* The end of a quota: it is counted, and the others are as they were.      *)
LEMMA AdvanceCounts ==
  ASSUME NEW p, Pollers = {p}, IInv(p), w[p].pc # "idle", Advance(p),
         \A x \in Quotas : Counted(p, x),
         \A x \in Quotas \ {w[p].q} : rows'[x] = rows[x],
         \E i \in DOMAIN rows'[w[p].q] : rows'[w[p].q][i].end = Null
  PROVE  /\ w'[p].pc = "idle" => w'[p].q = 1
         /\ \A x \in Quotas : Counted(p, x)'
         /\ RiseIsFresh(p)'
<1> DEFINE q == w[p].q
           v == w[p].val[q]
<1>1. /\ q \in Quotas /\ v \in Values /\ NQuotas \in Nat
      /\ w \in [Pollers -> PollerType]
      /\ last \in [Quotas -> Values \cup {0}]
  BY CycleAssumption DEF IInv, TypeOK, PollerType, Fresh, CycleAssumption
<1>2. /\ last' = [last EXCEPT ![q] = v]
      /\ Observe(q, v)
  BY DEF Advance
<1>3. /\ seen'[q] = v /\ last'[q] = v
      /\ \A x \in Quotas \ {q} : seen'[x] = seen[x] /\ last'[x] = last[x]
  BY <1>1, <1>2, ObserveGrows DEF IInv
<1>4. w'[p].pc \in {"idle", "query"}
  BY AdvanceFacts DEF IInv
<1>5. RiseIsFresh(p)'
  BY <1>4 DEF RiseIsFresh
<1>6. \A x \in Quotas : x # q /\ (hasLast \/ x < q) =>
         seen'[x] = last'[x] /\ (\E i \in DOMAIN rows'[x] : rows'[x][i].end = Null)
  <2> SUFFICES ASSUME NEW x \in Quotas, x # q, hasLast \/ x < q
               PROVE  seen'[x] = last'[x] /\ (\E i \in DOMAIN rows'[x] : rows'[x][i].end = Null)
    OBVIOUS
  <2>1. seen[x] = last[x] /\ Active(x) # {}
    BY DEF Counted, Active
  <2> QED
    BY <1>3, <2>1 DEF Active
<1>7. seen'[q] = last'[q] /\ (\E i \in DOMAIN rows'[q] : rows'[q][i].end = Null)
  BY <1>3
<1>8. CASE q = NQuotas
  <2>1. w'[p] = Idle /\ hasLast'
    BY <1>1, <1>8 DEF Advance
  <2>2. w'[p].pc = "idle" /\ w'[p].q = 1
    BY <2>1 DEF Idle
  <2>3. \A x \in Quotas : x = q \/ x < q
    BY <1>1, <1>8 DEF Quotas
  <2>4. \A x \in Quotas : seen'[x] = last'[x] /\ (\E i \in DOMAIN rows'[x] : rows'[x][i].end = Null)
    BY <1>6, <1>7, <2>3
  <2>5. \A x \in Quotas : Counted(p, x)'
    BY <2>1, <2>2, <2>4 DEF Counted, Active
  <2> QED
    BY <1>5, <2>2, <2>5
<1>9. CASE q # NQuotas
  <2>1. w' = [w EXCEPT ![p].pc = "query", ![p].q = q + 1] /\ hasLast' = hasLast
    BY <1>9 DEF Advance
  <2>2. w'[p].pc = "query" /\ w'[p].q = q + 1
    BY <1>1, <2>1 DEF PollerType
  <2>3. ASSUME NEW x \in Quotas PROVE Counted(p, x)'
    <3>1. x \in Nat /\ q \in Nat
      BY <1>1 DEF Quotas
    <3>2. CASE hasLast \/ x < q + 1
      <4>1. x = q \/ x < q \/ (x # q /\ hasLast)
        <5> HIDE DEF q
        <5> QED
          BY <3>1, <3>2
      <4>2. seen'[x] = last'[x] /\ (\E i \in DOMAIN rows'[x] : rows'[x][i].end = Null)
        BY <1>6, <1>7, <4>1
      <4> QED
        BY <2>1, <2>2, <3>2, <4>2 DEF Counted, Active
    <3>3. CASE ~(hasLast \/ x < q + 1)
      <4>1. x # q /\ ~hasLast /\ ~(x < q)
        <5> HIDE DEF q
        <5> QED
          BY <3>1, <3>3
      <4>2. seen'[x] = Null
        BY <1>3, <4>1 DEF Counted, Active
      <4> QED
        BY <2>1, <2>2, <3>3, <4>2 DEF Counted, Active
    <3> QED
      BY <3>2, <3>3
  <2> QED
    BY <1>5, <2>2, <2>3
<1> QED
  BY <1>8, <1>9

(* The sums of the other quotas are kept where their rows are.              *)
LEMMA SumsKept ==
  ASSUME NEW p, Pollers = {p}, NEW q \in Quotas,
         \A x \in Quotas : TotalTracked(x) = grown[x],
         \A x \in Quotas \ {q} : rows'[x] = rows[x] /\ grown'[x] = grown[x],
         DeltaSums(rows'[q])[Len(rows'[q])] = grown'[q]
  PROVE  \A x \in Quotas : TotalTracked(x)' = grown'[x]
<1> SUFFICES ASSUME NEW x \in Quotas PROVE TotalTracked(x)' = grown'[x]
  OBVIOUS
<1>1. CASE x = q
  BY <1>1 DEF TotalTracked
<1>2. CASE x # q
  BY <1>2 DEF TotalTracked
<1> QED
  BY <1>1, <1>2

LEMMA PollCounts ==
  ASSUME NEW p, Pollers = {p}, IInv(p), DInv(p), errors' = 0, Poll(p)
  PROVE  DInv(p)'
<1>1. /\ w[p].pc = "idle"
      /\ UNCHANGED <<rows, last, hasLast, announced, errors, restarts, seen, grown>>
  BY DEF Poll
<1>2. w'[p].pc = "query" /\ w'[p].q = 1
  BY DEF Poll, Idle, IInv, TypeOK
<1>3. /\ w[p].q = 1
      /\ \A x \in Quotas : TotalTracked(x) = grown[x]
      /\ \A x \in Quotas : Counted(p, x)
  BY <1>1 DEF DInv
<1>4. \A x \in Quotas : Counted(p, x)'
  BY <1>1, <1>2, <1>3 DEF Counted, Active
<1>5. \A x \in Quotas : TotalTracked(x)' = grown'[x]
  BY <1>1, <1>3 DEF TotalTracked
<1>6. RiseIsFresh(p)'
  BY <1>2 DEF RiseIsFresh
<1> QED
  BY <1>2, <1>4, <1>5, <1>6 DEF DInv

LEMMA QueryNoneCounts ==
  ASSUME NEW p, Pollers = {p}, IInv(p), DInv(p), errors' = 0, QueryNone(p)
  PROVE  DInv(p)'
<1>1. /\ w[p].pc = "query"
      /\ Active(w[p].q) = {}
      /\ w' = [w EXCEPT ![p].pc = "create"]
      /\ UNCHANGED <<now, snaps, rows, last, hasLast, announced, errors,
                     restarts, seen, grown>>
  BY DEF QueryNone
<1>2. /\ w'[p].pc = "create" /\ w'[p].q = w[p].q
      /\ w[p].q \in Quotas
  BY <1>1 DEF IInv, TypeOK, PollerType
<1>3. /\ \A x \in Quotas : TotalTracked(x) = grown[x]
      /\ \A x \in Quotas : Counted(p, x)
  BY <1>1 DEF DInv
<1>4. \A x \in Quotas : Counted(p, x)'
  BY <1>1, <1>2, <1>3 DEF Counted, Active
<1>5. \A x \in Quotas : TotalTracked(x)' = grown'[x]
  BY <1>1, <1>3 DEF TotalTracked
<1>6. ~hasLast
  BY <1>1, <1>2, <1>3 DEF Counted
<1>7. RiseIsFresh(p)'
  BY <1>1, <1>2, <1>6 DEF RiseIsFresh
<1> QED
  BY <1>2, <1>4, <1>5, <1>7 DEF DInv

(* The two outcomes of the query that will write the rise.                  *)
LEMMA QueryWritesRise ==
  ASSUME NEW p, Pollers = {p}, IInv(p), DInv(p), errors' = 0,
         w[p].pc = "query", Active(w[p].q) # {},
         w'[p].pc \in {"update", "close"},
         w'[p].q = w[p].q, w'[p].val = w[p].val,
         w'[p].delta = Cycle(w[p].q).delta + Rise(p),
         UNCHANGED <<now, snaps, rows, last, hasLast, announced, errors,
                     restarts, seen, grown>>
  PROVE  DInv(p)'
<1>1. w[p].q \in Quotas
  BY DEF IInv, TypeOK, PollerType
<1>2. Cycle(w[p].q) = rows[w[p].q][Len(rows[w[p].q])]
  BY <1>1, CycleIsLast DEF IInv, TypeOK, OneActiveCycle
<1>3. /\ \A x \in Quotas : TotalTracked(x) = grown[x]
      /\ \A x \in Quotas : Counted(p, x)
  BY DEF DInv
<1>4. \A x \in Quotas : Counted(p, x)'
  BY <1>3 DEF Counted, Active
<1>5. \A x \in Quotas : TotalTracked(x)' = grown'[x]
  BY <1>3 DEF TotalTracked
<1>6. Rise(p)' = Rise(p)
  BY DEF Rise
<1>7. RiseIsFresh(p)'
  BY <1>2, <1>6 DEF RiseIsFresh
<1> QED
  BY <1>4, <1>5, <1>7 DEF DInv

LEMMA QueryResetCounts ==
  ASSUME NEW p, Pollers = {p}, IInv(p), DInv(p), errors' = 0, QueryReset(p)
  PROVE  DInv(p)'
<1>1. /\ w[p].pc = "query" /\ Active(w[p].q) # {}
      /\ w' = [w EXCEPT ![p].pc = "close",
                        ![p].end = EndOf(p),
                        ![p].peak = Cycle(w[p].q).peak,
                        ![p].delta = Cycle(w[p].q).delta + Rise(p)]
      /\ UNCHANGED <<now, snaps, rows, last, hasLast, announced, errors,
                     restarts, seen, grown>>
  BY DEF QueryReset, ResetAs
<1>2. /\ w'[p].pc = "close" /\ w'[p].q = w[p].q /\ w'[p].val = w[p].val
      /\ w'[p].delta = Cycle(w[p].q).delta + Rise(p)
  BY <1>1 DEF IInv, TypeOK, PollerType
<1> QED
  BY <1>1, <1>2, QueryWritesRise

LEMMA QuerySameCounts ==
  ASSUME NEW p, Pollers = {p}, IInv(p), DInv(p), errors' = 0, QuerySame(p)
  PROVE  DInv(p)'
<1> DEFINE q == w[p].q
           v == w[p].val[q]
<1>1. /\ w[p].pc = "query" /\ Active(q) # {}
      /\ UNCHANGED <<now, snaps, rows, announced, errors, restarts>>
  BY DEF QuerySame
<1>2. q \in Quotas /\ v \in Values /\ grown[q] \in Nat
  BY <1>1 DEF IInv, TypeOK, PollerType, Fresh
<1>3. CASE hasLast \/ v > Cycle(q).peak
  <2>1. /\ w' = [w EXCEPT ![p].pc = "update",
                          ![p].peak = Larger(Cycle(q).peak, v),
                          ![p].delta = Cycle(q).delta + Rise(p)]
        /\ UNCHANGED <<last, hasLast, seen, grown>>
    BY <1>3 DEF QuerySame
  <2>2. /\ w'[p].pc = "update" /\ w'[p].q = q /\ w'[p].val = w[p].val
        /\ w'[p].delta = Cycle(q).delta + Rise(p)
    BY <2>1 DEF IInv, TypeOK, PollerType
  <2> QED
    BY <1>1, <2>1, <2>2, QueryWritesRise
<1>4. CASE ~(hasLast \/ v > Cycle(q).peak)
  <2>1. Advance(p) /\ Observe(q, v)
    BY <1>4 DEF QuerySame, Advance
  <2>2. /\ \A x \in Quotas : TotalTracked(x) = grown[x]
        /\ \A x \in Quotas : Counted(p, x)
    BY <1>1 DEF DInv
  <2>3. Growth(q, v) = 0
    <3>1. seen[q] = Null
      BY <1>1, <1>2, <1>4, <2>2 DEF Counted, Quotas
    <3> QED
      BY <3>1 DEF Growth
  <2>4. \A x \in Quotas : grown'[x] = grown[x]
    BY <1>2, <2>1, <2>3, ObserveGrows DEF IInv
  <2>5. \A x \in Quotas : TotalTracked(x)' = grown'[x]
    BY <1>1, <2>2, <2>4 DEF TotalTracked
  <2>6. \E i \in DOMAIN rows'[q] : rows'[q][i].end = Null
    BY <1>1 DEF Active
  <2>7. /\ w'[p].pc = "idle" => w'[p].q = 1
        /\ \A x \in Quotas : Counted(p, x)'
        /\ RiseIsFresh(p)'
    BY <1>1, <2>1, <2>2, <2>6, AdvanceCounts
  <2> QED
    BY <2>5, <2>7 DEF DInv
<1> QED
  BY <1>3, <1>4

LEMMA UpdateCycleCounts ==
  ASSUME NEW p, Pollers = {p}, IInv(p), DInv(p), errors' = 0, UpdateCycle(p)
  PROVE  DInv(p)'
<1> DEFINE q == w[p].q
           v == w[p].val[q]
           n == Len(rows[q])
<1>1. /\ w[p].pc = "update"
      /\ WriteActive(q, w[p].peak, w[p].delta, Null)
      /\ Advance(p)
      /\ Observe(q, v)
      /\ errors = 0
  BY DEF UpdateCycle, Advance
<1>2. /\ q \in Quotas /\ v \in Values
      /\ w[p].peak \in Nat /\ w[p].delta \in Nat
      /\ n \in Active(q) /\ rows[q][n].delta \in Nat
  <2>1. /\ q \in Quotas /\ v \in Values
        /\ w[p].peak \in Nat /\ w[p].delta \in Nat
        /\ n \in Active(q)
    BY <1>1 DEF IInv, TypeOK, PollerType, Fresh
  <2>2. rows[q][n] \in RowType
    BY <2>1, RowFacts DEF IInv, TypeOK
  <2> QED
    BY <2>1, <2>2 DEF RowType
<1>3. /\ Len(rows'[q]) = n
      /\ DeltaSums(rows'[q])[n] = DeltaSums(rows[q])[n] - rows[q][n].delta + w[p].delta
      /\ \A x \in Quotas \ {q} : rows'[x] = rows[x]
      /\ n \in DOMAIN rows'[q] /\ rows'[q][n].end = Null
  BY <1>1, <1>2, WriteChangesSum
<1>4. /\ \A x \in Quotas : TotalTracked(x) = grown[x]
      /\ \A x \in Quotas : Counted(p, x)
      /\ w[p].delta = rows[q][n].delta + Rise(p)
  BY <1>1 DEF DInv, RiseIsFresh
<1>5. Rise(p) = Growth(q, v)
  BY <1>1, <1>2, <1>4, RiseIsGrowth
<1>6. /\ grown'[q] = grown[q] + Growth(q, v)
      /\ \A x \in Quotas \ {q} : grown'[x] = grown[x]
  BY <1>1, <1>2, ObserveGrows DEF IInv
<1>7. /\ w'[p].pc = "idle" => w'[p].q = 1
      /\ \A x \in Quotas : Counted(p, x)'
      /\ RiseIsFresh(p)'
  BY <1>1, <1>3, <1>4, AdvanceCounts
<1>8. DeltaSums(rows[q])[n] = grown[q] /\ grown[q] \in Nat
  BY <1>2, <1>4 DEF TotalTracked, IInv, TypeOK
<1>9. Growth(q, v) \in Int
  BY <1>2, ReadingIsNat DEF Growth, IInv, TypeOK
<1> HIDE DEF q, v, n
<1>10. DeltaSums(rows'[q])[Len(rows'[q])] = grown'[q]
  BY <1>2, <1>3, <1>4, <1>5, <1>6, <1>8, <1>9
<1>11. \A x \in Quotas : TotalTracked(x)' = grown'[x]
  BY <1>2, <1>3, <1>4, <1>6, <1>10, SumsKept
<1> QED
  BY <1>7, <1>11 DEF DInv

LEMMA CloseCycleCounts ==
  ASSUME NEW p, Pollers = {p}, IInv(p), DInv(p), errors' = 0, CloseCycle(p)
  PROVE  DInv(p)'
<1> DEFINE q == w[p].q
           v == w[p].val[q]
           n == Len(rows[q])
<1>1. /\ w[p].pc = "close"
      /\ WriteActive(q, w[p].peak, w[p].delta, w[p].end)
      /\ w' = [w EXCEPT ![p].pc = "recreate"]
      /\ Observe(q, v)
      /\ UNCHANGED <<now, snaps, last, hasLast, announced, errors, restarts>>
  BY DEF CloseCycle
<1>2. /\ q \in Quotas /\ v \in Values
      /\ w[p].peak \in Nat /\ w[p].delta \in Nat /\ w[p].end \in Times
      /\ n \in Active(q) /\ rows[q][n].delta \in Nat
  <2>1. /\ q \in Quotas /\ v \in Values
        /\ w[p].peak \in Nat /\ w[p].delta \in Nat /\ w[p].end \in Times
        /\ n \in Active(q)
    BY <1>1 DEF IInv, TypeOK, PollerType, Fresh
  <2>2. rows[q][n] \in RowType
    BY <2>1, RowFacts DEF IInv, TypeOK
  <2> QED
    BY <2>1, <2>2 DEF RowType
<1>3. /\ Len(rows'[q]) = n
      /\ DeltaSums(rows'[q])[n] = DeltaSums(rows[q])[n] - rows[q][n].delta + w[p].delta
      /\ \A x \in Quotas \ {q} : rows'[x] = rows[x]
  <2>1. w[p].end \in Times \cup {Null}
    BY <1>2
  <2> QED
    BY <1>1, <1>2, <2>1, WriteChangesSum
<1>4. /\ \A x \in Quotas : TotalTracked(x) = grown[x]
      /\ \A x \in Quotas : Counted(p, x)
      /\ w[p].delta = rows[q][n].delta + Rise(p)
  BY <1>1 DEF DInv, RiseIsFresh
<1>5. Rise(p) = Growth(q, v)
  BY <1>1, <1>2, <1>4, RiseIsGrowth
<1>6. /\ grown'[q] = grown[q] + Growth(q, v)
      /\ seen'[q] = v
      /\ \A x \in Quotas \ {q} : grown'[x] = grown[x] /\ seen'[x] = seen[x]
  BY <1>1, <1>2, ObserveGrows DEF IInv
<1>7. w'[p].pc = "recreate" /\ w'[p].q = q /\ w'[p].val = w[p].val
  BY <1>1 DEF IInv, TypeOK, PollerType
<1>8. DeltaSums(rows[q])[n] = grown[q] /\ grown[q] \in Nat
  BY <1>2, <1>4 DEF TotalTracked, IInv, TypeOK
<1>9. Growth(q, v) \in Int
  BY <1>2, ReadingIsNat DEF Growth, IInv, TypeOK
<1>10. \A x \in Quotas : Counted(p, x)'
  <2> SUFFICES ASSUME NEW x \in Quotas PROVE Counted(p, x)'
    OBVIOUS
  <2>1. CASE x = q
    BY <2>1, <1>6, <1>7 DEF Counted
  <2>2. CASE x # q
    BY <2>2, <1>1, <1>3, <1>4, <1>6, <1>7 DEF Counted, Active
  <2> QED
    BY <2>1, <2>2
<1>11. RiseIsFresh(p)'
  BY <1>7 DEF RiseIsFresh
<1> HIDE DEF q, v, n
<1>12. DeltaSums(rows'[q])[Len(rows'[q])] = grown'[q]
  BY <1>2, <1>3, <1>4, <1>5, <1>6, <1>8, <1>9
<1>13. \A x \in Quotas : TotalTracked(x)' = grown'[x]
  BY <1>2, <1>3, <1>4, <1>6, <1>12, SumsKept
<1> QED
  BY <1>7, <1>10, <1>11, <1>13 DEF DInv

LEMMA CreateCycleCounts ==
  ASSUME NEW p, Pollers = {p}, IInv(p), DInv(p), errors' = 0, CreateCycle(p)
  PROVE  DInv(p)'
<1> DEFINE q == w[p].q
           n == Len(rows[q])
           c == Row(w[p].at, w[p].renews[q])
<1>1. /\ w[p].pc \in {"create", "recreate"}
      /\ rows' = [rows EXCEPT ![q] = Append(@, c)]
      /\ w' = [w EXCEPT ![p].pc = IF @ = "create" THEN "peak" ELSE "resetpeak"]
      /\ UNCHANGED <<now, snaps, last, hasLast, announced, errors, restarts,
                     seen, grown>>
  BY DEF CreateCycle
<1>2. /\ q \in Quotas /\ w[p].at \in Times /\ w[p].renews[q] \in Times
      /\ rows \in [Quotas -> Seq(RowType)]
  BY <1>1 DEF IInv, TypeOK, PollerType, Fresh
<1>3. c \in RowType /\ c.delta = 0
  BY <1>2 DEF Row, RowType
<1> HIDE DEF c
<1>4. /\ \A x \in Quotas \ {q} : rows'[x] = rows[x]
      /\ Len(rows'[q]) = n + 1
      /\ \A i \in 1..n : rows'[q][i] = rows[q][i]
      /\ rows'[q][n + 1] = c
  BY <1>1, <1>2, <1>3, AppendRow
<1>5. n \in Nat /\ \A i \in 1..n : rows[q][i].delta \in Nat
  BY <1>2, RowFacts DEF RowType
<1>6. /\ w'[p].q = q /\ w'[p].val = w[p].val
      /\ w'[p].pc = IF w[p].pc = "create" THEN "peak" ELSE "resetpeak"
  BY <1>1 DEF IInv, TypeOK, PollerType
<1>7. /\ \A x \in Quotas : TotalTracked(x) = grown[x]
      /\ \A x \in Quotas : Counted(p, x)
      /\ w[p].pc = "create" => ~hasLast
  BY <1>1 DEF DInv, RiseIsFresh
<1>8. DeltaSums(rows'[q])[n + 1] = DeltaSums(rows[q])[n]
  <2> DEFINE s == rows[q]
             t == rows'[q]
  <2>1. /\ n \in Nat /\ Len(s) = n /\ Len(t) = n + 1
        /\ \A i \in 1..n : s[i].delta \in Nat
        /\ \A i \in 1..n : t[i] = s[i]
        /\ t[n + 1].delta = 0
    BY <1>3, <1>4, <1>5
  <2> HIDE DEF s, t, n
  <2>2. DeltaSums(t)[n + 1] = DeltaSums(s)[n]
    BY <2>1, TotalOpened
  <2> QED
    BY <2>2 DEF s, t
<1>9. \A x \in Quotas : Counted(p, x)'
  <2> SUFFICES ASSUME NEW x \in Quotas PROVE Counted(p, x)'
    OBVIOUS
  <2>1. CASE x # q
    BY <2>1, <1>1, <1>4, <1>6, <1>7 DEF Counted, Active
  <2>2. CASE x = q /\ w[p].pc = "recreate"
    BY <2>2, <1>1, <1>6, <1>7 DEF Counted
  <2>3. CASE x = q /\ w[p].pc = "create"
    <3>1. ~(q < q)
      BY <1>2 DEF Quotas
    <3> HIDE DEF q
    <3>2. w[p].q = q /\ w'[p].q = q /\ w'[p].pc = "peak" /\ ~hasLast'
      BY <2>3, <1>1, <1>6, <1>7 DEF q
    <3>3. seen[x] = Null
      BY <2>3, <1>7, <3>1, <3>2 DEF Counted
    <3> QED
      BY <2>3, <1>1, <3>1, <3>2, <3>3 DEF Counted
  <2> QED
    BY <1>1, <2>1, <2>2, <2>3
<1>10. RiseIsFresh(p)'
  BY <1>1, <1>6, <1>7 DEF RiseIsFresh
<1> HIDE DEF q, n
<1>11. DeltaSums(rows'[q])[Len(rows'[q])] = grown'[q]
  BY <1>1, <1>2, <1>4, <1>7, <1>8 DEF TotalTracked, n
<1>12. \A x \in Quotas : TotalTracked(x)' = grown'[x]
  BY <1>1, <1>2, <1>4, <1>7, <1>11, SumsKept
<1>13. w'[p].pc # "idle"
  BY <1>6
<1> QED
  BY <1>9, <1>10, <1>12, <1>13 DEF DInv

LEMMA SetInitialPeakCounts ==
  ASSUME NEW p, Pollers = {p}, IInv(p), DInv(p), errors' = 0, SetInitialPeak(p)
  PROVE  DInv(p)'
<1> DEFINE q == w[p].q
           v == w[p].val[q]
           n == Len(rows[q])
<1>1. /\ w[p].pc \in {"peak", "resetpeak"}
      /\ WriteActive(q, v, 0, Null)
      /\ Advance(p)
      /\ Observe(q, v)
      /\ errors = 0
  BY DEF SetInitialPeak, Advance
<1>2. /\ q \in Quotas /\ v \in Values /\ v \in Nat
      /\ n \in Active(q) /\ rows[q][n].delta = 0
  BY <1>1, ReadingIsNat DEF IInv, TypeOK, PollerType, Fresh
<1>3. /\ Len(rows'[q]) = n
      /\ DeltaSums(rows'[q])[n] = DeltaSums(rows[q])[n] - rows[q][n].delta + 0
      /\ \A x \in Quotas \ {q} : rows'[x] = rows[x]
      /\ n \in DOMAIN rows'[q] /\ rows'[q][n].end = Null
  <2>1. 0 \in Nat /\ Null \in Times \cup {Null} /\ w[p].pc # "idle"
    BY <1>1
  <2> QED
    BY <1>1, <1>2, <2>1, WriteChangesSum
<1>4. /\ \A x \in Quotas : TotalTracked(x) = grown[x]
      /\ \A x \in Quotas : Counted(p, x)
      /\ w[p].pc = "peak" => ~hasLast
  BY <1>1 DEF DInv, RiseIsFresh
<1>5. Growth(q, v) = 0
  <2>1. ~(q < q)
    BY <1>2 DEF Quotas
  <2>2. CASE w[p].pc = "peak"
    <3>1. seen[q] = Null
      BY <2>1, <2>2, <1>2, <1>4 DEF Counted
    <3> QED
      BY <3>1 DEF Growth
  <2>3. CASE w[p].pc = "resetpeak"
    <3>1. seen[q] = v
      BY <2>3, <1>2, <1>4 DEF Counted
    <3> HIDE DEF v
    <3> QED
      BY <1>2, <3>1 DEF Growth
  <2> QED
    BY <1>1, <2>2, <2>3
<1>6. \A x \in Quotas : grown'[x] = grown[x]
  <2>1. grown[q] \in Nat
    BY <1>2 DEF IInv, TypeOK
  <2> QED
    BY <1>1, <1>2, <1>5, <2>1, ObserveGrows DEF IInv
<1>7. /\ w'[p].pc = "idle" => w'[p].q = 1
      /\ \A x \in Quotas : Counted(p, x)'
      /\ RiseIsFresh(p)'
  BY <1>1, <1>3, <1>4, AdvanceCounts
<1>8. DeltaSums(rows[q])[n] = grown[q] /\ grown[q] \in Nat
  BY <1>2, <1>4 DEF TotalTracked, IInv, TypeOK
<1> HIDE DEF q, v, n
<1>9. DeltaSums(rows'[q])[Len(rows'[q])] = grown'[q]
  BY <1>2, <1>3, <1>6, <1>8
<1>10. \A x \in Quotas : TotalTracked(x)' = grown'[x]
  BY <1>2, <1>3, <1>4, <1>6, <1>9, SumsKept
<1> QED
  BY <1>7, <1>10 DEF DInv

LEMMA RestartCounts ==
  ASSUME NEW p, Pollers = {p}, IInv(p), DInv(p), errors' = 0, Restart
  PROVE  DInv(p)'
<1>1. /\ w' = [r \in Pollers |-> Idle]
      /\ hasLast' = FALSE
      /\ seen' = [q \in Quotas |-> Null]
      /\ UNCHANGED <<now, snaps, rows, announced, errors, grown>>
  BY DEF Restart
<1>2. w'[p].pc = "idle" /\ w'[p].q = 1
  BY <1>1 DEF Idle
<1>3. \A x \in Quotas : Counted(p, x)'
  <2> SUFFICES ASSUME NEW x \in Quotas PROVE Counted(p, x)'
    OBVIOUS
  <2>1. ~(x < 1) /\ seen'[x] = Null
    BY <1>1 DEF Quotas
  <2> QED
    BY <1>1, <1>2, <2>1 DEF Counted
<1>4. \A x \in Quotas : TotalTracked(x)' = grown'[x]
  <2>1. \A x \in Quotas : TotalTracked(x) = grown[x]
    BY <1>1 DEF DInv
  <2> QED
    BY <1>1, <2>1 DEF TotalTracked
<1>5. RiseIsFresh(p)'
  BY <1>2 DEF RiseIsFresh
<1> QED
  BY <1>2, <1>3, <1>4, <1>5 DEF DInv

LEMMA NextDInv ==
  ASSUME NEW p, Pollers = {p}, IInv(p), DInv(p), [Next]_vars
  PROVE  DInv(p)'
<1> SUFFICES ASSUME errors' = 0
             PROVE  DInv(p)'
  BY DEF DInv
<1>1. CASE UNCHANGED vars
  <2>1. \A x \in Quotas : TotalTracked(x)' = TotalTracked(x) /\ Counted(p, x)' = Counted(p, x)
    BY <1>1 DEF vars, TotalTracked, Counted, Active
  <2>2. RiseIsFresh(p)' = RiseIsFresh(p)
    BY <1>1 DEF vars, RiseIsFresh, Rise
  <2>3. w' = w /\ grown' = grown /\ errors = 0
    BY <1>1 DEF vars
  <2> QED
    BY <2>1, <2>2, <2>3 DEF DInv
<1>2. CASE Restart
  BY <1>2, RestartCounts
<1>3. CASE PollerStep(p)
  <2>1. CASE Poll(p)
    BY <2>1, PollCounts
  <2>2. CASE QueryNone(p)
    BY <2>2, QueryNoneCounts
  <2>3. CASE QueryReset(p)
    BY <2>3, QueryResetCounts
  <2>4. CASE QuerySame(p)
    BY <2>4, QuerySameCounts
  <2>5. CASE UpdateCycle(p)
    BY <2>5, UpdateCycleCounts
  <2>6. CASE CloseCycle(p)
    BY <2>6, CloseCycleCounts
  <2>7. CASE CreateCycle(p)
    BY <2>7, CreateCycleCounts
  <2>8. CASE SetInitialPeak(p)
    BY <2>8, SetInitialPeakCounts
  <2>9. CASE StatementFails(p)
    <3>1. errors' = errors + 1 /\ errors \in Nat
      BY <2>9 DEF StatementFails, IInv, TypeOK
    <3> QED
      BY <3>1
  <2> QED
    BY <1>3, <2>1, <2>2, <2>3, <2>4, <2>5, <2>6, <2>7, <2>8, <2>9 DEF PollerStep
<1> QED
  BY <1>1, <1>2, <1>3 DEF Next

LEMMA InitDInv ==
  ASSUME NEW p, Pollers = {p}, Init
  PROVE  DInv(p)
<1>1. \A q \in Quotas : rows[q] = <<>> /\ Len(rows[q]) = 0
  BY EmptySeq DEF Init
<1>2. \A q \in Quotas : TotalTracked(q) = 0 /\ grown[q] = 0
  BY <1>1, SumStep DEF TotalTracked, Init
<1>3. w[p].pc = "idle" /\ w[p].q = 1 /\ ~hasLast
  BY DEF Init, Idle
<1>4. \A x \in Quotas : Counted(p, x)
  <2> SUFFICES ASSUME NEW x \in Quotas PROVE Counted(p, x)
    OBVIOUS
  <2>1. ~(x < 1) /\ seen[x] = Null
    BY DEF Quotas, Init
  <2> QED
    BY <1>3, <2>1 DEF Counted
<1>5. RiseIsFresh(p)
  BY <1>3 DEF RiseIsFresh
<1> QED
  BY <1>2, <1>3, <1>4, <1>5 DEF DInv

(* With one poller and no failing statement the deltas of all rows of a     *)
(* quota add up to the rises between the values seen since each start: none *)
(* is dropped at a reset, none counted in two cycles, over any number of    *)
(* crashes between two statements.                                          *)
THEOREM DeltasAddUp ==
  ASSUME NEW p, Pollers = {p}
  PROVE  Spec => []DeltaAccounted
<1>1. Init => DInv(p)
  BY InitDInv
<1>2. IInv(p) /\ DInv(p) /\ [Next]_vars => DInv(p)'
  BY NextDInv
<1>3. DInv(p) => DeltaAccounted
  BY DEF DInv, DeltaAccounted
<1> QED
  BY <1>1, <1>2, <1>3, Inductive, PTL DEF Spec
-------------------------------------------------------------------------------
(* The rows of a quota are a cycle log.                                     *)
LEMMA EntriesOf ==
  ASSUME NEW s \in Seq(RowType)
  PROVE  /\ Len(Entries(s)) = Len(s) /\ (Entries(s) = <<>> <=> s = <<>>)
         /\ \A i \in 1..Len(s) :
              Entries(s)[i] = [start |-> s[i].start, end |-> s[i].end,
                               peak |-> s[i].peak, delta |-> s[i].delta]
<1> DEFINE T == {Entries(s)[i] : i \in 1..Len(s)}
<1>1. Len(s) \in Nat /\ DOMAIN s = 1..Len(s)
  BY LenProperties
<1>2. \A i \in 1..Len(s) :
        Entries(s)[i] = [start |-> s[i].start, end |-> s[i].end,
                         peak |-> s[i].peak, delta |-> s[i].delta]
  BY <1>1 DEF Entries
<1>3. Entries(s) \in [1..Len(s) -> T]
  BY <1>1 DEF Entries
<1> HIDE DEF T
<1>4. Entries(s) \in Seq(T) /\ Len(Entries(s)) = Len(s)
  BY <1>1, <1>3, FunctionIsSequence
<1>5. (s = <<>> <=> Len(s) = 0) /\ (Entries(s) = <<>> <=> Len(Entries(s)) = 0)
  BY <1>4, EmptySeq
<1> QED
  BY <1>2, <1>4, <1>5

(* What a statement does to the rows of quota q: an UPDATE goes on with the *)
(* active row or ends it, the INSERT adds an active one where there is none.*)
Written(q) ==
  LET n == Len(rows[q])
  IN /\ n \in Active(q)
     /\ Len(rows'[q]) = n
     /\ rows'[q][n].start = rows[q][n].start
     /\ \A i \in 1..n : i # n => rows'[q][i] = rows[q][i]

Opened(q) ==
  LET n == Len(rows[q])
  IN /\ Active(q) = {}
     /\ Len(rows'[q]) = n + 1
     /\ rows'[q][n + 1].end = Null
     /\ \A i \in 1..n : rows'[q][i] = rows[q][i]

LEMMA WriteActiveWrites ==
  ASSUME NEW p, Pollers = {p}, IInv(p),
         Len(rows[w[p].q]) \in Active(w[p].q),
         NEW pk \in Nat, NEW d \in Nat, NEW e \in Times \cup {Null},
         WriteActive(w[p].q, pk, d, e),
         NEW x \in Quotas
  PROVE  rows'[x] = rows[x] \/ Written(x)
<1> DEFINE q == w[p].q
<1>1. q \in Quotas /\ rows \in [Quotas -> Seq(RowType)]
  BY DEF IInv, TypeOK, PollerType
<1>2. Active(q) = {Len(rows[q])}
  BY <1>1 DEF IInv, OneActiveCycle
<1>3. Len(rows[q]) \in 1..Len(rows[q])
  BY <1>1, <1>2, RowFacts
<1> QED
  BY <1>1, <1>2, <1>3, WriteActiveRows DEF Written

LEMMA RowsChange ==
  ASSUME NEW p, Pollers = {p}, IInv(p), [Next]_vars, NEW x \in Quotas
  PROVE  rows'[x] = rows[x] \/ Written(x) \/ Opened(x)
<1>1. CASE \/ Poll(p) \/ QueryNone(p) \/ QueryReset(p) \/ QuerySame(p)
           \/ StatementFails(p) \/ Restart \/ UNCHANGED vars
  BY <1>1 DEF Poll, QueryNone, QueryReset, ResetAs, QuerySame, StatementFails,
              Restart, vars
<1>2. CASE UpdateCycle(p) \/ CloseCycle(p)
  <2>1. /\ w[p].peak \in Nat /\ w[p].delta \in Nat
        /\ Null \in Times \cup {Null} /\ w[p].end \in Times \cup {Null}
    BY DEF IInv, TypeOK, PollerType
  <2>2. Len(rows[w[p].q]) \in Active(w[p].q)
    BY <1>2 DEF UpdateCycle, CloseCycle, IInv, Fresh
  <2>3. \/ WriteActive(w[p].q, w[p].peak, w[p].delta, Null)
        \/ WriteActive(w[p].q, w[p].peak, w[p].delta, w[p].end)
    BY <1>2 DEF UpdateCycle, CloseCycle
  <2> QED
    BY <2>1, <2>2, <2>3, WriteActiveWrites
<1>3. CASE SetInitialPeak(p)
  <2>1. /\ WriteActive(w[p].q, w[p].val[w[p].q], 0, Null)
        /\ w[p].pc \in {"peak", "resetpeak"}
    BY <1>3 DEF SetInitialPeak
  <2>2. w[p].val[w[p].q] \in Nat /\ 0 \in Nat /\ Null \in Times \cup {Null}
    BY <2>1, ReadingIsNat DEF IInv, Fresh, TypeOK, PollerType
  <2>3. Len(rows[w[p].q]) \in Active(w[p].q)
    BY <2>1 DEF IInv, Fresh
  <2> QED
    BY <2>1, <2>2, <2>3, WriteActiveWrites
<1>4. CASE CreateCycle(p)
  <2> DEFINE q == w[p].q
             c == Row(w[p].at, w[p].renews[q])
  <2>1. /\ rows' = [rows EXCEPT ![q] = Append(@, c)]
        /\ w[p].at = now /\ w[p].renews \in [Quotas -> Times] /\ Active(q) = {}
    BY <1>4 DEF CreateCycle, IInv, Fresh
  <2>2. q \in Quotas /\ now \in Times /\ rows \in [Quotas -> Seq(RowType)]
    BY DEF IInv, TypeOK, PollerType
  <2>3. c \in RowType /\ c.end = Null
    BY <2>1, <2>2 DEF Row, RowType
  <2> HIDE DEF c
  <2> QED
    BY <2>1, <2>2, <2>3, AppendRow DEF Opened
<1> QED
  BY <1>1, <1>2, <1>3, <1>4 DEF Next, PollerStep

LEMMA WriteIsALogStep ==
  ASSUME NEW x \in Quotas, NEW s \in Seq(RowType), NEW t \in Seq(RowType),
         rows[x] = s, rows'[x] = t, HistoryStable, Written(x)
  PROVE  Log(x)!Write
<1> DEFINE n == Len(s)
           E == Entries(s)
           F == Entries(t)
<1>1. n \in 1..n /\ s[n].end = Null /\ DOMAIN s = 1..n /\ n \in Nat
  BY LenProperties DEF Written, Active
<1>2. Len(t) = n /\ t[n] \in RowType
  BY <1>1, ElementOfSeq DEF Written
<1>3. \A i \in 1..n : i # n => t[i] = s[i]
  BY DEF Written
<1>4. t[n].start = s[n].start /\ t[n].peak >= s[n].peak /\ t[n].delta >= s[n].delta
  BY <1>1 DEF Written, HistoryStable
<1>5. /\ Len(E) = n /\ Len(F) = n /\ E # <<>>
      /\ E[n] = [start |-> s[n].start, end |-> s[n].end,
                 peak |-> s[n].peak, delta |-> s[n].delta]
      /\ F[n] = [start |-> t[n].start, end |-> t[n].end,
                 peak |-> t[n].peak, delta |-> t[n].delta]
      /\ \A i \in 1..n : i # n => F[i] = E[i]
  <2>1. s # <<>>
    BY <1>1, EmptySeq
  <2>2. Len(E) = n /\ E # <<>> /\ (\A i \in 1..n :
           E[i] = [start |-> s[i].start, end |-> s[i].end,
                   peak |-> s[i].peak, delta |-> s[i].delta])
    BY <2>1, EntriesOf
  <2>3. Len(F) = n /\ (\A i \in 1..n :
           F[i] = [start |-> t[i].start, end |-> t[i].end,
                   peak |-> t[i].peak, delta |-> t[i].delta])
    BY <1>2, EntriesOf
  <2> HIDE DEF n, E, F
  <2>4. \A i \in 1..n : i # n => F[i] = E[i]
    BY <1>3, <2>2, <2>3
  <2> QED
    BY <1>1, <2>2, <2>3, <2>4
<1>6. F[n] \in Log(x)!Entry
  BY <1>2, <1>5 DEF Log!Entry, RowType
<1>7. Log(x)!Grown(E[n], F[n])
  BY <1>4, <1>5, <1>6 DEF Log!Grown
<1>8. Log(x)!IsOpen(E)
  BY <1>1, <1>5 DEF Log!IsOpen, Log!Newest
<1>9. Entries(rows[x]) = E /\ Entries(rows'[x]) = F
  OBVIOUS
<1>10. \A i \in 1..(n - 1) : F[i] = E[i]
  <2> HIDE DEF n, E, F
  <2>1. \A i \in 1..(n - 1) : i \in 1..n /\ i # n
    BY <1>1
  <2> QED
    BY <1>5, <2>1
<1> HIDE DEF n, E, F
<1> QED
  BY <1>5, <1>7, <1>8, <1>9, <1>10 DEF Log!Write, Log!Keeps, Log!Newest

LEMMA OpenIsALogStep ==
  ASSUME NEW x \in Quotas, NEW s \in Seq(RowType), NEW t \in Seq(RowType),
         rows[x] = s, rows'[x] = t, CyclesInOrder', Opened(x)
  PROVE  Log(x)!Open
<1> DEFINE n == Len(s)
           E == Entries(s)
           F == Entries(t)
<1>1. n \in Nat /\ DOMAIN s = 1..n /\ Len(t) = n + 1 /\ DOMAIN t = 1..(n + 1)
  BY LenProperties DEF Opened
<1>2. /\ t[n + 1] \in RowType /\ t[n + 1].end = Null
      /\ \A i \in 1..n : t[i] = s[i]
  <2>1. n + 1 \in 1..(n + 1)
    BY <1>1
  <2> QED
    BY <1>1, <2>1, ElementOfSeq DEF Opened
<1>3. ASSUME n # 0 PROVE s[n].end # Null /\ s[n].end <= t[n + 1].start /\ n \in 1..n
  <2> HIDE DEF n
  <2>1. n \in 1..n /\ n \in 1..(n + 1) /\ n < n + 1
    BY <1>1, <1>3
  <2>2. s[n].end # Null
    BY <1>1, <2>1 DEF Opened, Active
  <2>3. t[n] = s[n]
    BY <1>2, <2>1
  <2> QED
    BY <1>1, <2>1, <2>2, <2>3 DEF CyclesInOrder
<1>4. /\ Len(E) = n /\ Len(F) = n + 1 /\ (E = <<>> <=> n = 0)
      /\ \A i \in 1..n :
           E[i] = [start |-> s[i].start, end |-> s[i].end,
                   peak |-> s[i].peak, delta |-> s[i].delta]
      /\ F[n + 1] = [start |-> t[n + 1].start, end |-> t[n + 1].end,
                     peak |-> t[n + 1].peak, delta |-> t[n + 1].delta]
      /\ \A i \in 1..n : F[i] = E[i]
  <2>1. n + 1 \in 1..(n + 1) /\ (\A i \in 1..n : i \in 1..(n + 1))
    BY <1>1
  <2>2. s = <<>> <=> n = 0
    BY EmptySeq
  <2>3. Len(E) = n /\ (E = <<>> <=> s = <<>>) /\ (\A i \in 1..n :
           E[i] = [start |-> s[i].start, end |-> s[i].end,
                   peak |-> s[i].peak, delta |-> s[i].delta])
    BY EntriesOf
  <2>4. Len(F) = Len(t) /\ (\A i \in 1..Len(t) :
           F[i] = [start |-> t[i].start, end |-> t[i].end,
                   peak |-> t[i].peak, delta |-> t[i].delta])
    BY EntriesOf
  <2> HIDE DEF n, E, F
  <2> QED
    BY SMTT(30), <1>1, <1>2, <2>1, <2>2, <2>3, <2>4
<1> HIDE DEF n, E, F
<1>5. F[n + 1] \in Log(x)!Entry /\ F[n + 1].end = Null
  BY <1>2, <1>4 DEF Log!Entry, RowType
<1>6. ~Log(x)!IsOpen(E)
  BY <1>3, <1>4 DEF Log!IsOpen, Log!Newest
<1>7. E # <<>> => Log(x)!Newest(E).end <= Log(x)!Newest(F).start
  BY <1>3, <1>4 DEF Log!Newest
<1>8. Entries(rows[x]) = E /\ Entries(rows'[x]) = F
  BY DEF E, F
<1> QED
  BY <1>4, <1>5, <1>6, <1>7, <1>8 DEF Log!Open, Log!Keeps, Log!Newest

(* With one poller the rows of each quota are a cycle log: the statements   *)
(* that Process runs one by one, any of which may fail or be the last       *)
(* before a crash, open a cycle only after the last one has ended, and      *)
(* change only the newest one, until it has ended.                          *)
THEOREM ImplementsLog ==
  ASSUME NEW p, Pollers = {p}, NEW x \in Quotas
  PROVE  Spec => Log(x)!Spec
<1>1. Init => Log(x)!Init
  <2>1. <<>> \in Seq(RowType)
    BY EmptySeq
  <2>2. Entries(<<>>) = <<>>
    BY <2>1, EntriesOf
  <2>3. Init => rows[x] = <<>>
    BY DEF Init
  <2> QED
    BY <2>2, <2>3 DEF Log!Init
<1>2. IInv(p) /\ IInv(p)' /\ [Next]_vars => [Log(x)!Next]_(Entries(rows[x]))
  <2> SUFFICES ASSUME IInv(p), IInv(p)', [Next]_vars
               PROVE  Log(x)!Next \/ rows'[x] = rows[x]
    OBVIOUS
  <2>1. CASE UNCHANGED vars
    BY <2>1 DEF vars
  <2>2. CASE ~UNCHANGED vars
    <3>1. HistoryStable
      BY <2>2, StepIsStable
    <3>2. rows[x] \in Seq(RowType) /\ rows'[x] \in Seq(RowType) /\ CyclesInOrder'
      BY DEF IInv, TypeOK
    <3>3. CASE Written(x)
      BY <3>1, <3>2, <3>3, WriteIsALogStep DEF Log!Next
    <3>4. CASE Opened(x)
      BY <3>2, <3>4, OpenIsALogStep DEF Log!Next
    <3> QED
      BY <3>3, <3>4, RowsChange
  <2> QED
    BY <2>1, <2>2
<1> QED
  BY <1>1, <1>2, Inductive, PTL DEF Spec, Log!Spec
===============================================================================
