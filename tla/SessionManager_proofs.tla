------------------------- MODULE SessionManager_proofs -------------------------
(***************************************************************************)
(* The sessions table, for every set of agents and every timeout, gap and  *)
(* bound on time, errors and restarts.                                     *)
(*                                                                         *)
(* That sessions are disjoint is a fact about rows, but a row is opened    *)
(* with times and ids that live in memory.  Held says what a manager's     *)
(* memory is worth at each place of ReportPoll, Past that no row reaches   *)
(* beyond the latest poll of its agent.                                    *)
(***************************************************************************)
EXTENDS SessionManager, SequenceTheorems, TLAPS

RowType ==
  [agent : Agents, start : Times, end : Times \cup {Null}, count : Nat,
   from : Values, max : Values \cup {0}]

ManagerType ==
  [sid : Nat \cup {Null}, lastActivity : Times, prev : Values \cup {Null},
   old : Values \cup {Null}]

(* The table and its two histories have one element per row.                *)
Shape ==
  /\ sessions \in Seq(RowType)
  /\ activity \in Seq(Times) /\ Len(activity) = Len(sessions)
  /\ widest \in Seq(Nat) /\ Len(widest) = Len(sessions)

(* What the manager of agent a holds in memory.                             *)
HeldBy(a) ==
  LET s == sm[a]
  IN /\ polled[a] <= now
     /\ s.lastActivity <= polled[a]
     /\ pc[a] \in {"create", "stopped"} => s.sid = Null
     /\ pc[a] \in {"count", "max", "close", "closing"} => s.sid # Null
     /\ pc[a] = "create" =>
          s.old # Null /\ s.prev # Null /\ s.lastActivity = polled[a]
     /\ s.sid # Null => s.prev # Null /\ activity[s.sid] = s.lastActivity
     /\ (s.sid # Null /\ pc[a] \in {"run", "count", "max"}) =>
          polled[a] <= s.lastActivity + IdleTimeout

Held == \A a \in Agents : HeldBy(a)

(* No row reaches beyond the latest poll of its agent; while the agent is   *)
(* stopped its last row may, as Close ends it at the time of the stop.      *)
PastRow(i) ==
  LET r == sessions[i]
  IN /\ r.start <= polled[r.agent]
     /\ r.end # Null => r.start <= r.end /\ r.end <= now
     /\ (r.end # Null /\ pc[r.agent] # "stopped") => r.end <= polled[r.agent]

Past == \A i \in Rows : PastRow(i)

IInv ==
  /\ TypeOK /\ Shape
  /\ OpenIsOwned /\ SessionsDisjoint /\ ActivityGapBounded
  /\ Held /\ Past

-------------------------------------------------------------------------------
(* The parts of the state by number and field, as the proofs use them.      *)
LEMMA TableFacts ==
  ASSUME Shape
  PROVE  /\ Len(sessions) \in Nat
         /\ Rows = 1..Len(sessions)
         /\ DOMAIN activity = Rows /\ DOMAIN widest = Rows
         /\ \A i \in Rows : /\ sessions[i] \in RowType
                            /\ activity[i] \in Times
                            /\ widest[i] \in Nat
  BY LenProperties, ElementOfSeq DEF Shape, Rows

LEMMA ManagerFacts ==
  ASSUME TypeOK, Shape, NEW a \in Agents
  PROVE  /\ sm \in [Agents -> ManagerType]
         /\ sm[a] \in ManagerType
         /\ sm[a].sid \in Rows \cup {Null}
         /\ polled[a] \in Times /\ polled[a] \in Nat /\ now \in Nat
<1>1. Rows \subseteq Nat
  BY TableFacts
<1>2. sm[a].sid \in Rows \cup {Null} /\ sm[a] \in ManagerType
  BY <1>1 DEF TypeOK, ManagerType
<1>3. sm \in [Agents -> ManagerType]
  BY <1>1 DEF TypeOK, ManagerType
<1> QED
  BY <1>2, <1>3, SessionAssumption DEF TypeOK, Times, SessionAssumption

(* TypeOK of the next state from its parts, the managers field by field.    *)
LEMMA TypedNext ==
  ASSUME Shape', now' \in Times, sm' \in [Agents -> ManagerType],
         \A a \in Agents : sm'[a].sid \in Rows' \cup {Null},
         pc' \in [Agents -> {"run", "create", "count", "max", "close", "closing",
                             "stopped"}],
         polled' \in [Agents -> Times], leaked' \subseteq Rows',
         errors' \in 0..MaxErrors, restarts' \in 0..MaxRestarts
  PROVE  TypeOK'
<1>1. sm' \in [Agents -> [sid : Rows' \cup {Null}, lastActivity : Times,
                         prev : Values \cup {Null}, old : Values \cup {Null}]]
  <2> SUFFICES ASSUME NEW a \in Agents
               PROVE  sm'[a] \in [sid : Rows' \cup {Null}, lastActivity : Times,
                                 prev : Values \cup {Null},
                                 old : Values \cup {Null}]
    OBVIOUS
  <2> QED
    BY DEF ManagerType
<1>2. /\ DOMAIN activity' = Rows' /\ DOMAIN widest' = Rows'
      /\ \A i \in Rows' : sessions'[i] \in RowType
  BY LenProperties, ElementOfSeq DEF Shape, Rows
<1> QED
  BY <1>1, <1>2 DEF TypeOK, RowType

(* A step that leaves agent, start and end of every row alone, and who      *)
(* holds which row, keeps what is true of the table.                        *)
LEMMA TableKept ==
  ASSUME IInv, Shape', Len(sessions') = Len(sessions), leaked' = leaked,
         now' \in Nat, now <= now',
         \A i \in Rows : /\ sessions'[i].agent = sessions[i].agent
                         /\ sessions'[i].start = sessions[i].start
                         /\ sessions'[i].end = sessions[i].end,
         \A a \in Agents : sm'[a].sid = sm[a].sid,
         \A a \in Agents : polled'[a] \in Nat /\ polled[a] <= polled'[a],
         \A a \in Agents :
           pc'[a] # "stopped" => pc[a] # "stopped" \/ now <= polled'[a]
  PROVE  OpenIsOwned' /\ SessionsDisjoint' /\ Past'
<1>1. Rows' = Rows /\ Rows = 1..Len(sessions)
  BY TableFacts, LenProperties DEF IInv, Shape, Rows
<1>2. \A i \in Rows : sessions[i] \in RowType
  BY TableFacts DEF IInv
<1>3. OpenIsOwned'
  <2>1. \A a \in Agents : sm[a].sid \in Rows \cup {Null}
    BY ManagerFacts DEF IInv
  <2> QED
    BY <1>1, <1>2, <2>1 DEF IInv, OpenIsOwned, Open, RowType
<1>4. SessionsDisjoint'
  BY <1>1, <1>2 DEF IInv, SessionsDisjoint, Open, RowType
<1>5. Past'
  <2> SUFFICES ASSUME NEW i \in Rows
               PROVE  PastRow(i)'
    BY <1>1 DEF Past
  <2> DEFINE a == sessions[i].agent
  <2>1. /\ a \in Agents
        /\ sessions[i].start \in Nat
        /\ sessions[i].end \in Nat \cup {Null}
    BY <1>2 DEF RowType, Times
  <2>2. PastRow(i)
    BY DEF IInv, Past
  <2>3. now \in Nat /\ polled[a] \in Nat
    BY <2>1, ManagerFacts DEF IInv
  <2> QED
    BY <2>1, <2>2, <2>3 DEF PastRow
<1> QED
  BY <1>3, <1>4, <1>5

LEMMA ReadingIsNat == \A x \in Values \cup {0} : x \in Nat
  BY SessionAssumption DEF SessionAssumption

(* A manager the step does not concern.                                     *)
LEMMA HeldKept ==
  ASSUME IInv, NEW b \in Agents, now' \in Nat, now <= now',
         sm'[b] = sm[b], pc'[b] = pc[b], polled'[b] = polled[b],
         sm[b].sid # Null => activity'[sm[b].sid] = activity[sm[b].sid]
  PROVE  HeldBy(b)'
<1>1. HeldBy(b) /\ polled[b] \in Nat /\ now \in Nat
  BY ManagerFacts DEF IInv, Held
<1> QED
  BY <1>1 DEF HeldBy

(* One UPDATE of one row.                                                   *)
LEMMA RowChanged ==
  ASSUME Shape, NEW i \in Rows, NEW c \in RowType,
         sessions' = [sessions EXCEPT ![i] = c]
  PROVE  /\ sessions' \in Seq(RowType) /\ Len(sessions') = Len(sessions)
         /\ Rows' = Rows
         /\ sessions'[i] = c
         /\ \A j \in Rows \ {i} : sessions'[j] = sessions[j]
<1>1. i \in 1..Len(sessions) /\ Rows = 1..Len(sessions)
  BY TableFacts
<1>2. /\ sessions' \in Seq(RowType) /\ Len(sessions') = Len(sessions)
      /\ sessions'[i] = c
      /\ \A j \in Rows \ {i} : sessions'[j] = sessions[j]
  BY <1>1, ExceptSeq DEF Shape
<1> QED
  BY <1>2 DEF Rows

-------------------------------------------------------------------------------
LEMMA InitIInv == Init => IInv
<1> SUFFICES ASSUME Init PROVE IInv
  OBVIOUS
<1> USE SessionAssumption DEF SessionAssumption
<1>1. Shape /\ Len(sessions) = 0
  BY EmptySeq DEF Init, Shape
<1>2. Rows = {}
  BY <1>1, TableFacts
<1>3. sm \in [Agents -> ManagerType] /\ \A a \in Agents : sm[a].sid = Null
  BY DEF Init, Fresh, ManagerType, Times
<1>4. TypeOK
  <2>1. sm \in [Agents -> [sid : Rows \cup {Null}, lastActivity : Times,
                          prev : Values \cup {Null}, old : Values \cup {Null}]]
    BY DEF Init, Fresh, Times
  <2> QED
    BY <1>1, <1>2, <2>1, TableFacts DEF Init, Times, TypeOK
<1>5. OpenIsOwned /\ SessionsDisjoint /\ ActivityGapBounded /\ Past
  BY <1>2, <1>3 DEF OpenIsOwned, SessionsDisjoint, ActivityGapBounded, Past
<1>6. Held
  BY DEF Held, HeldBy, Init, Fresh
<1> QED
  BY <1>1, <1>4, <1>5, <1>6 DEF IInv

-------------------------------------------------------------------------------
LEMMA ReportPollKeeps ==
  ASSUME IInv, NEW a \in Agents, NEW v \in Values, ReportPoll(a, v)
  PROVE  IInv'
<1> DEFINE s == sm[a]
           t == now'
           ch == Changed(a, v)
<1> USE SessionAssumption DEF SessionAssumption
<1>1. /\ s \in ManagerType /\ s.sid \in Rows \cup {Null}
      /\ sm \in [Agents -> ManagerType]
      /\ polled[a] \in Nat /\ now \in Nat
  BY ManagerFacts DEF IInv
<1>2. /\ pc[a] = "run"
      /\ t \in Times /\ t \in Nat /\ now <= t /\ polled[a] < t
      /\ t <= polled[a] + MaxGap
      /\ UNCHANGED <<sessions, leaked, errors, restarts>>
  BY <1>1 DEF ReportPoll, ReportPollAs, TimeFor, Times
<1>3. polled' = [polled EXCEPT ![a] = t]
  BY DEF ReportPoll, ReportPollAs
<1>4. ch \in BOOLEAN /\ (ch => s.prev \in Values)
  BY <1>1 DEF Changed, ManagerType
<1>5. /\ sm' \in [Agents -> ManagerType]
      /\ \A b \in Agents \ {a} : sm'[b] = sm[b]
      /\ sm'[a].sid = s.sid
      /\ sm'[a].prev = v
      /\ sm'[a].old = IF ch THEN s.prev ELSE s.old
      /\ sm'[a].lastActivity = IF ch THEN t ELSE s.lastActivity
  <2>1. sm' = [sm EXCEPT ![a].prev = v,
                         ![a].old = IF ch THEN s.prev ELSE @,
                         ![a].lastActivity = IF ch \/ FALSE THEN t ELSE @]
    BY DEF ReportPoll, ReportPollAs
  <2> HIDE DEF ch
  <2> QED
    BY <1>1, <1>2, <1>4, <2>1 DEF ManagerType
<1>6. pc' = [pc EXCEPT ![a] =
                 IF s.sid = Null THEN IF ch THEN "create" ELSE "run"
                 ELSE IF ~ch /\ t - s.lastActivity > IdleTimeout THEN "close"
                 ELSE "count"]
  BY DEF ReportPoll, ReportPollAs
<1>7. IF ch /\ s.sid # Null
        THEN /\ activity' = [activity EXCEPT ![s.sid] = t]
             /\ widest' = [widest EXCEPT ![s.sid] =
                             Larger(widest[s.sid], t - activity[s.sid])]
        ELSE UNCHANGED <<activity, widest>>
  BY DEF ReportPoll, ReportPollAs
<1>8. HeldBy(a) /\ s.lastActivity \in Nat
  BY <1>1 DEF IInv, Held, ManagerType, Times
<1> HIDE DEF ch
<1>9. /\ Shape' /\ ActivityGapBounded'
      /\ \A b \in Agents \ {a} :
           sm[b].sid # Null => activity'[sm[b].sid] = activity[sm[b].sid]
      /\ s.sid # Null => activity'[s.sid] = IF ch THEN t ELSE activity[s.sid]
  <2>1. CASE ch /\ s.sid # Null
    <3> DEFINE i == s.sid
               g == Larger(widest[i], t - activity[i])
    <3>1. /\ i \in Rows /\ Rows = 1..Len(sessions)
          /\ activity[i] \in Nat /\ widest[i] \in Nat
      BY <1>1, <2>1, TableFacts DEF IInv, Times
    <3>2. activity[i] = s.lastActivity /\ polled[a] <= s.lastActivity + IdleTimeout
          /\ s.lastActivity <= polled[a]
      BY <1>2, <1>8, <2>1 DEF HeldBy
    <3>3. g \in Nat /\ g <= IdleTimeout + MaxGap
      <4>1. widest[i] <= IdleTimeout + MaxGap
        BY <3>1 DEF IInv, ActivityGapBounded
      <4>2. polled[a] \in Nat /\ s.lastActivity \in Nat /\ t \in Nat
        BY <1>1, <1>2, <1>8 DEF IInv, Times
      <4>3. t - activity[i] \in Nat /\ t - activity[i] <= IdleTimeout + MaxGap
        BY <1>2, <3>2, <4>2
      <4> QED
        BY <3>1, <4>1, <4>3 DEF Larger
    <3>4. activity' = [activity EXCEPT ![i] = t] /\ widest' = [widest EXCEPT ![i] = g]
      BY <1>7, <2>1
    <3> HIDE DEF g
    <3>5. /\ activity' \in Seq(Times) /\ Len(activity') = Len(activity)
          /\ activity'[i] = t
          /\ \A j \in Rows \ {i} : activity'[j] = activity[j]
      BY <1>2, <3>1, <3>4, ExceptSeq DEF IInv, Shape
    <3>6. /\ widest' \in Seq(Nat) /\ Len(widest') = Len(widest)
          /\ widest'[i] = g
          /\ \A j \in Rows \ {i} : widest'[j] = widest[j]
      BY <3>1, <3>3, <3>4, ExceptSeq DEF IInv, Shape
    <3>7. Shape'
      BY <1>2, <3>5, <3>6 DEF IInv, Shape
    <3>8. ActivityGapBounded'
      BY <1>2, <3>3, <3>6 DEF IInv, ActivityGapBounded, Rows
    <3>9. \A b \in Agents \ {a} : sm[b].sid # Null => sm[b].sid # i
      BY <2>1 DEF IInv, OpenIsOwned
    <3>10. \A b \in Agents \ {a} :
             sm[b].sid # Null => activity'[sm[b].sid] = activity[sm[b].sid]
      BY <3>5, <3>9, ManagerFacts DEF IInv
    <3> QED
      BY <2>1, <3>5, <3>7, <3>8, <3>10
  <2>2. CASE ~(ch /\ s.sid # Null)
    <3>1. UNCHANGED <<sessions, activity, widest>>
      BY <1>2, <1>7, <2>2
    <3>2. Shape' /\ ActivityGapBounded'
      BY <3>1 DEF IInv, Shape, ActivityGapBounded, Rows
    <3> QED
      BY <2>2, <3>1, <3>2
  <2> QED
    BY <2>1, <2>2
<1>10. /\ \A b \in Agents : sm'[b].sid = sm[b].sid
       /\ \A b \in Agents : polled'[b] \in Nat /\ polled[b] <= polled'[b]
       /\ polled' \in [Agents -> Times]
       /\ \A b \in Agents : pc'[b] # "stopped" => pc[b] # "stopped"
       /\ \A b \in Agents : polled'[b] <= t
  <2>1. \A b \in Agents : sm'[b].sid = sm[b].sid
    BY <1>5
  <2>2. \A b \in Agents : polled[b] \in Nat /\ polled[b] <= now
    BY ManagerFacts DEF IInv, Held, HeldBy
  <2>3. polled \in [Agents -> Times] /\ pc \in [Agents -> {"run", "create", "count",
                                          "max", "close", "closing", "stopped"}]
    BY DEF IInv, TypeOK
  <2> QED
    BY <1>1, <1>2, <1>3, <1>6, <2>1, <2>2, <2>3
<1>11. Rows' = Rows
  BY <1>2 DEF Rows
<1>12. OpenIsOwned' /\ SessionsDisjoint' /\ Past'
  BY <1>1, <1>2, <1>9, <1>10, TableKept
<1>13. TypeOK'
  <2>1. pc' \in [Agents -> {"run", "create", "count", "max", "close", "closing",
                            "stopped"}]
    BY <1>6 DEF IInv, TypeOK
  <2>2. \A b \in Agents : sm'[b].sid \in Rows' \cup {Null}
    BY <1>10, <1>11, ManagerFacts DEF IInv
  <2> QED
    BY <1>2, <1>5, <1>9, <1>10, <1>11, <2>1, <2>2, TypedNext DEF IInv, TypeOK
<1>14. Held'
  <2>1. HeldBy(a)'
    <3>1. /\ pc'[a] = IF s.sid = Null THEN IF ch THEN "create" ELSE "run"
                      ELSE IF ~ch /\ t - s.lastActivity > IdleTimeout THEN "close"
                      ELSE "count"
          /\ polled'[a] = t
      BY <1>3, <1>6 DEF IInv, TypeOK
    <3>2. /\ s.sid # Null => activity[s.sid] = s.lastActivity
          /\ s.lastActivity <= t
      BY <1>1, <1>2, <1>8 DEF HeldBy
    <3>3. v # Null /\ (ch => s.prev # Null)
      BY <1>4
    <3>4. CASE ch
      <4>1. /\ sm'[a].lastActivity = t /\ sm'[a].sid = s.sid
            /\ sm'[a].prev = v /\ sm'[a].old = s.prev
            /\ s.sid # Null => activity'[s.sid] = t
        BY <1>5, <1>9, <3>4
      <4>2. pc'[a] = IF s.sid = Null THEN "create" ELSE "count"
        BY <3>1, <3>4
      <4>3. t <= t + IdleTimeout
        BY <1>2
      <4>4. v # Null /\ s.prev # Null
        BY <3>3, <3>4
      <4>5. CASE s.sid = Null
        BY <1>2, <3>1, <4>1, <4>2, <4>3, <4>4, <4>5 DEF HeldBy
      <4>6. CASE s.sid # Null
        <5>1. /\ pc'[a] = "count" /\ sm'[a].sid # Null /\ sm'[a].prev # Null
              /\ activity'[sm'[a].sid] = sm'[a].lastActivity
          BY <4>1, <4>2, <4>4, <4>6
        <5>2. polled'[a] <= now' /\ sm'[a].lastActivity <= polled'[a]
          BY <1>2, <3>1, <4>1
        <5>3. polled'[a] <= sm'[a].lastActivity + IdleTimeout
          BY <3>1, <4>1, <4>3
        <5> QED
          BY <5>1, <5>2, <5>3 DEF HeldBy
      <4> QED
        BY <4>5, <4>6
    <3>5. CASE ~ch
      <4>1. /\ sm'[a].lastActivity = s.lastActivity /\ sm'[a].sid = s.sid
            /\ sm'[a].prev = v
            /\ s.sid # Null => activity'[s.sid] = activity[s.sid]
        BY <1>5, <1>9, <3>5
      <4>2. s.sid = Null => pc'[a] = "run"
        BY <3>1, <3>5
      <4>3. s.sid # Null =>
              \/ pc'[a] = "close"
              \/ pc'[a] = "count" /\ t <= s.lastActivity + IdleTimeout
        BY <1>2, <1>8, <3>1, <3>5
      <4> QED
        BY <1>2, <3>1, <3>2, <3>3, <4>1, <4>2, <4>3 DEF HeldBy
    <3> QED
      BY <3>4, <3>5
  <2>2. ASSUME NEW b \in Agents \ {a} PROVE HeldBy(b)'
    <3>1. pc'[b] = pc[b] /\ polled'[b] = polled[b] /\ sm'[b] = sm[b]
      BY <1>3, <1>5, <1>6 DEF IInv, TypeOK
    <3>2. HeldBy(b) /\ polled[b] \in Nat
      BY ManagerFacts DEF IInv, Held
    <3> QED
      BY <1>1, <1>2, <1>9, <3>1, <3>2 DEF HeldBy
  <2> QED
    BY <2>1, <2>2 DEF Held
<1> QED
  BY <1>9, <1>12, <1>13, <1>14 DEF IInv

-------------------------------------------------------------------------------
LEMMA CreateSessionKeeps ==
  ASSUME IInv, NEW a \in Agents, CreateSession(a)
  PROVE  IInv'
<1> DEFINE n == Len(sessions) + 1
<1> USE SessionAssumption DEF SessionAssumption
<1>1. /\ sm[a] \in ManagerType /\ sm \in [Agents -> ManagerType]
      /\ polled[a] \in Times /\ polled[a] \in Nat /\ now \in Nat
      /\ pc[a] = "create" /\ sm[a].sid = Null
      /\ UNCHANGED <<now, polled, leaked, restarts>>
  BY ManagerFacts DEF IInv, Held, HeldBy, CreateSession
<1>2. /\ Rows = 1..Len(sessions) /\ Len(sessions) \in Nat /\ n \in Nat
      /\ n \notin Rows
  BY TableFacts DEF IInv
<1>3. sm[a].old \in Values /\ sm[a].prev # Null /\ sm[a].lastActivity = polled[a]
  BY <1>1 DEF IInv, Held, HeldBy, ManagerType
<1>4. CASE /\ Succeeds
           /\ sessions' = Append(sessions, Row(a))
           /\ sm' = [sm EXCEPT ![a].sid = Len(sessions) + 1]
           /\ pc' = [pc EXCEPT ![a] = "count"]
           /\ activity' = Append(activity, polled[a])
           /\ widest' = Append(widest, 0)
  <2>1. Row(a) \in RowType
    BY <1>1, <1>3 DEF Row, RowType
  <2>2. /\ sessions' \in Seq(RowType) /\ Len(sessions') = n
        /\ \A i \in Rows : sessions'[i] = sessions[i]
        /\ sessions'[n] = Row(a)
    BY <1>2, <1>4, <2>1, AppendProperties DEF IInv, Shape
  <2>3. /\ activity' \in Seq(Times) /\ Len(activity') = n
        /\ \A i \in Rows : activity'[i] = activity[i]
        /\ activity'[n] = polled[a]
    BY <1>1, <1>2, <1>4, AppendProperties DEF IInv, Shape
  <2>4. /\ widest' \in Seq(Nat) /\ Len(widest') = n
        /\ \A i \in Rows : widest'[i] = widest[i]
        /\ widest'[n] = 0
    BY <1>2, <1>4, AppendProperties DEF IInv, Shape
  <2>5. Shape' /\ Rows' = Rows \cup {n}
    <3>1. Shape'
      BY <2>2, <2>3, <2>4 DEF Shape
    <3>2. Rows' = 1..n
      BY <2>2, LenProperties DEF Rows
    <3> QED
      BY <1>2, <3>1, <3>2
  <2>6. /\ sessions'[n].agent = a /\ sessions'[n].end = Null
        /\ sessions'[n].start = polled[a]
    BY <2>2 DEF Row
  <2>7. /\ sm' \in [Agents -> ManagerType]
        /\ sm'[a].sid = n
        /\ sm'[a].prev = sm[a].prev /\ sm'[a].lastActivity = polled[a]
        /\ \A b \in Agents \ {a} : sm'[b] = sm[b]
    BY <1>1, <1>2, <1>3, <1>4 DEF ManagerType
  <2>8. \A b \in Agents : sm[b].sid \in Rows \cup {Null}
    BY ManagerFacts DEF IInv
  <2>9. /\ pc'[a] = "count" /\ \A b \in Agents \ {a} : pc'[b] = pc[b]
        /\ pc' \in [Agents -> {"run", "create", "count", "max", "close",
                              "closing", "stopped"}]
    BY <1>4 DEF IInv, TypeOK
  <2>10. TypeOK'
    <3>1. \A b \in Agents : sm'[b].sid \in Rows' \cup {Null}
      BY <2>5, <2>7, <2>8
    <3>2. /\ now' \in Times /\ polled' \in [Agents -> Times]
          /\ leaked' \subseteq Rows' /\ errors' \in 0..MaxErrors
          /\ restarts' \in 0..MaxRestarts
      BY <1>1, <1>4, <2>5 DEF IInv, TypeOK, Succeeds
    <3> QED
      BY <2>5, <2>7, <2>9, <3>1, <3>2, TypedNext
  <2>11. \A i \in Rows : sessions[i].agent = a => i \in leaked \/ ~Open(i)
    BY <1>1, <1>2 DEF IInv, OpenIsOwned
  <2>12. OpenIsOwned'
    <3>1. ASSUME NEW b \in Agents, sm'[b].sid # Null
          PROVE  /\ sessions'[sm'[b].sid].end = Null
                 /\ sessions'[sm'[b].sid].agent = b
      <4>1. CASE b = a
        BY <2>6, <2>7, <4>1
      <4>2. CASE b # a
        BY <2>2, <2>7, <2>8, <3>1, <4>2 DEF IInv, OpenIsOwned, Open
      <4> QED
        BY <4>1, <4>2
    <3>2. ASSUME NEW i \in Rows', sessions'[i].end = Null
          PROVE  sm'[sessions'[i].agent].sid = i \/ i \in leaked'
      <4>1. CASE i = n
        BY <2>6, <2>7, <4>1
      <4>2. CASE i # n
        <5>1. i \in Rows /\ sessions'[i] = sessions[i] /\ Open(i)
          BY <2>2, <2>5, <3>2, <4>2 DEF Open
        <5>2. sessions[i].agent \in Agents
          BY <5>1, TableFacts DEF IInv, RowType
        <5> QED
          BY <1>1, <2>7, <2>11, <5>1, <5>2 DEF IInv, OpenIsOwned
      <4> QED
        BY <4>1, <4>2
    <3> QED
      BY <3>1, <3>2 DEF OpenIsOwned, Open
  <2>13. \A i \in Rows : PastRow(i) /\ sessions[i].agent \in Agents
    BY TableFacts DEF IInv, Past, RowType
  <2>14. SessionsDisjoint'
    <3> SUFFICES ASSUME NEW i \in Rows', NEW j \in Rows', i < j,
                        sessions'[i].agent = sessions'[j].agent, i \notin leaked'
                 PROVE  /\ ~Open(i)'
                        /\ sessions'[i].start <= sessions'[i].end
                        /\ sessions'[i].end <= sessions'[j].start
      BY DEF SessionsDisjoint, Open
    <3>1. i \in Rows /\ sessions'[i] = sessions[i]
      BY <1>2, <2>2, <2>5
    <3>2. CASE j \in Rows
      BY <1>1, <2>2, <3>1, <3>2 DEF IInv, SessionsDisjoint, Open
    <3>3. CASE j = n
      <4>1. sessions[i].agent = a /\ ~Open(i)
        BY <1>1, <2>6, <2>11, <3>1, <3>3
      <4>2. /\ sessions[i].start <= sessions[i].end
            /\ sessions[i].end <= polled[a]
        BY <1>1, <2>13, <3>1, <4>1 DEF PastRow, Open
      <4> QED
        BY <2>6, <3>1, <3>3, <4>1, <4>2 DEF Open
    <3> QED
      BY <2>5, <3>2, <3>3
  <2>15. ActivityGapBounded'
    <3>1. 0 <= IdleTimeout + MaxGap
      OBVIOUS
    <3> QED
      BY <2>4, <2>5, <3>1 DEF IInv, ActivityGapBounded
  <2>16. Held'
    <3>1. HeldBy(a)'
      <4>1. polled[a] <= now /\ polled[a] <= polled[a] + IdleTimeout
        BY <1>1 DEF IInv, Held, HeldBy
      <4> QED
        BY <1>1, <1>2, <1>3, <2>3, <2>7, <2>9, <4>1 DEF HeldBy
    <3>2. ASSUME NEW b \in Agents \ {a} PROVE HeldBy(b)'
      BY <1>1, <2>3, <2>7, <2>8, <2>9, HeldKept
    <3> QED
      BY <3>1, <3>2 DEF Held
  <2>17. Past'
    <3> SUFFICES ASSUME NEW i \in Rows' PROVE PastRow(i)'
      BY DEF Past
    <3>1. CASE i = n
      BY <1>1, <2>6, <3>1 DEF PastRow
    <3>2. CASE i \in Rows
      <4>1. sessions'[i] = sessions[i] /\ PastRow(i) /\ sessions[i].agent \in Agents
        BY <2>2, <2>13, <3>2
      <4>2. pc'[sessions[i].agent] # "stopped" => pc[sessions[i].agent] # "stopped"
        BY <1>1, <2>9, <4>1
      <4> QED
        BY <1>1, <4>1, <4>2 DEF PastRow
    <3> QED
      BY <2>5, <3>1, <3>2
  <2> QED
    BY <2>5, <2>10, <2>12, <2>14, <2>15, <2>16, <2>17 DEF IInv
<1>5. CASE /\ Fails
           /\ pc' = [pc EXCEPT ![a] = "run"]
           /\ UNCHANGED <<sessions, sm, activity, widest>>
  <2>1. Shape' /\ Rows' = Rows /\ ActivityGapBounded'
    BY <1>5 DEF IInv, Shape, Rows, ActivityGapBounded
  <2>2. /\ pc'[a] = "run" /\ \A b \in Agents \ {a} : pc'[b] = pc[b]
        /\ pc' \in [Agents -> {"run", "create", "count", "max", "close",
                              "closing", "stopped"}]
    BY <1>5 DEF IInv, TypeOK
  <2>3. errors' \in 0..MaxErrors
    BY <1>5 DEF Fails, IInv, TypeOK
  <2>4. TypeOK'
    BY <1>1, <1>5, <2>1, <2>2, <2>3 DEF IInv, TypeOK
  <2>5. \A b \in Agents : polled'[b] \in Nat /\ polled[b] <= polled'[b]
    BY <1>1, ManagerFacts DEF IInv
  <2>6. OpenIsOwned' /\ SessionsDisjoint' /\ Past'
    BY <1>1, <1>5, <2>1, <2>2, <2>5, TableKept
  <2>7. Held'
    <3>1. HeldBy(a)'
      BY <1>1, <1>5, <2>2 DEF IInv, Held, HeldBy
    <3>2. ASSUME NEW b \in Agents \ {a} PROVE HeldBy(b)'
      BY <1>1, <1>5, <2>2, HeldKept
    <3> QED
      BY <3>1, <3>2 DEF Held
  <2> QED
    BY <2>1, <2>4, <2>6, <2>7 DEF IInv
<1> QED
  BY <1>4, <1>5 DEF CreateSession

-------------------------------------------------------------------------------
(* Count and UpdateMax, whether or not their statement fails.               *)
LEMMA CountedKeeps ==
  ASSUME IInv, NEW a \in Agents, NEW here \in {"count", "max"},
         NEW next \in {"max", "run"},
         pc[a] = here, pc' = [pc EXCEPT ![a] = next], errors' \in 0..MaxErrors,
         sessions' \in Seq(RowType), Len(sessions') = Len(sessions),
         \A i \in Rows : /\ sessions'[i].agent = sessions[i].agent
                         /\ sessions'[i].start = sessions[i].start
                         /\ sessions'[i].end = sessions[i].end,
         UNCHANGED <<now, sm, polled, activity, widest, leaked, restarts>>
  PROVE  IInv'
<1>1. Shape'
  BY DEF IInv, Shape
<1>2. Rows' = Rows
  BY LenProperties DEF IInv, Shape, Rows
<1>3. /\ pc'[a] = next /\ \A b \in Agents \ {a} : pc'[b] = pc[b]
      /\ pc' \in [Agents -> {"run", "create", "count", "max", "close",
                            "closing", "stopped"}]
  BY DEF IInv, TypeOK
<1>4. TypeOK'
  <2>1. \A b \in Agents : sm'[b].sid \in Rows' \cup {Null}
    BY <1>2, ManagerFacts DEF IInv
  <2>2. sm' \in [Agents -> ManagerType]
    BY ManagerFacts DEF IInv
  <2>3. /\ now' \in Times /\ polled' \in [Agents -> Times]
        /\ leaked' \subseteq Rows' /\ restarts' \in 0..MaxRestarts
    BY <1>2 DEF IInv, TypeOK
  <2> QED
    BY <1>1, <1>3, <2>1, <2>2, <2>3, TypedNext
<1>5. /\ \A b \in Agents : polled'[b] \in Nat /\ polled[b] <= polled'[b]
      /\ now' \in Nat /\ now <= now'
  BY ManagerFacts DEF IInv
<1>6. \A b \in Agents : pc'[b] # "stopped" => pc[b] # "stopped"
  BY <1>3
<1>7. OpenIsOwned' /\ SessionsDisjoint' /\ Past'
  BY <1>1, <1>5, <1>6, TableKept
<1>8. ActivityGapBounded'
  BY <1>2 DEF IInv, ActivityGapBounded
<1>9. Held'
  <2>1. HeldBy(a)'
    BY <1>3 DEF IInv, Held, HeldBy
  <2>2. ASSUME NEW b \in Agents \ {a} PROVE HeldBy(b)'
    BY <1>3, <1>5, HeldKept
  <2> QED
    BY <2>1, <2>2 DEF Held
<1> QED
  BY <1>1, <1>4, <1>7, <1>8, <1>9 DEF IInv

(* The row a manager counts into.                                           *)
LEMMA HeldRow ==
  ASSUME IInv, NEW a \in Agents, pc[a] \in {"count", "max", "close", "closing"}
  PROVE  /\ sm[a].sid \in Rows /\ sm[a].sid # Null
         /\ sessions[sm[a].sid] \in RowType
         /\ sessions[sm[a].sid].end = Null
         /\ sessions[sm[a].sid].agent = a
         /\ sm[a].prev \in Values
<1>1. sm[a].sid # Null /\ sm[a].prev # Null
  BY DEF IInv, Held, HeldBy
<1>2. sm[a].sid \in Rows /\ sm[a].prev \in Values
  BY <1>1, ManagerFacts DEF IInv, ManagerType
<1>3. sessions[sm[a].sid] \in RowType
  BY <1>2, TableFacts DEF IInv
<1> QED
  BY <1>1, <1>2, <1>3 DEF IInv, OpenIsOwned, Open

LEMMA CountKeeps ==
  ASSUME IInv, NEW a \in Agents, Count(a)
  PROVE  IInv'
<1> DEFINE i == sm[a].sid
<1>1. /\ pc[a] = "count" /\ pc' = [pc EXCEPT ![a] = "max"]
      /\ UNCHANGED <<now, sm, polled, activity, widest, leaked, restarts>>
  BY DEF Count
<1>2. i \in Rows /\ sessions[i] \in RowType
  BY <1>1, HeldRow
<1>3. CASE Succeeds /\ sessions' = [sessions EXCEPT ![i].count = @ + 1]
  <2> DEFINE c == [sessions[i] EXCEPT !.count = sessions[i].count + 1]
  <2>1. /\ c \in RowType
        /\ c.agent = sessions[i].agent
        /\ c.start = sessions[i].start /\ c.end = sessions[i].end
    BY <1>2 DEF RowType
  <2>2. sessions' = [sessions EXCEPT ![i] = c]
    BY <1>3
  <2>3. errors' \in 0..MaxErrors
    BY <1>3 DEF Succeeds, IInv, TypeOK
  <2> HIDE DEF c, i
  <2>4. /\ sessions' \in Seq(RowType) /\ Len(sessions') = Len(sessions)
        /\ sessions'[i] = c
        /\ \A j \in Rows \ {i} : sessions'[j] = sessions[j]
    BY <1>2, <2>1, <2>2, RowChanged DEF IInv
  <2> QED
    BY <1>1, <1>2, <2>1, <2>3, <2>4, CountedKeeps
<1>4. CASE Fails /\ UNCHANGED sessions
  <2>1. errors' \in 0..MaxErrors
    BY <1>4, SessionAssumption DEF Fails, IInv, TypeOK, SessionAssumption
  <2> QED
    BY <1>1, <1>4, <2>1, CountedKeeps DEF IInv, Shape
<1> QED
  BY <1>3, <1>4 DEF Count

LEMMA UpdateMaxKeeps ==
  ASSUME IInv, NEW a \in Agents, UpdateMax(a)
  PROVE  IInv'
<1> DEFINE i == sm[a].sid
           m == Larger(sessions[i].max, sm[a].prev)
<1>1. /\ pc[a] = "max" /\ pc' = [pc EXCEPT ![a] = "run"]
      /\ UNCHANGED <<now, sm, polled, activity, widest, leaked, restarts>>
  BY DEF UpdateMax
<1>2. i \in Rows /\ sessions[i] \in RowType /\ sm[a].prev \in Values
  BY <1>1, HeldRow
<1>3. CASE Succeeds /\ sessions' = [sessions EXCEPT ![i].max = Larger(@, sm[a].prev)]
  <2> DEFINE c == [sessions[i] EXCEPT !.max = m]
  <2>1. m \in Values \cup {0}
    BY <1>2 DEF Larger, RowType
  <2>2. sessions' = [sessions EXCEPT ![i] = c]
    BY <1>3
  <2> HIDE DEF m
  <2>3. /\ c \in RowType
        /\ c.agent = sessions[i].agent
        /\ c.start = sessions[i].start /\ c.end = sessions[i].end
    BY <1>2, <2>1 DEF RowType
  <2>4. errors' \in 0..MaxErrors
    BY <1>3 DEF Succeeds, IInv, TypeOK
  <2> HIDE DEF c, i
  <2>5. /\ sessions' \in Seq(RowType) /\ Len(sessions') = Len(sessions)
        /\ sessions'[i] = c
        /\ \A j \in Rows \ {i} : sessions'[j] = sessions[j]
    BY <1>2, <2>2, <2>3, RowChanged DEF IInv
  <2> QED
    BY <1>1, <1>2, <2>3, <2>4, <2>5, CountedKeeps
<1>4. CASE Fails /\ UNCHANGED sessions
  <2>1. errors' \in 0..MaxErrors
    BY <1>4, SessionAssumption DEF Fails, IInv, TypeOK, SessionAssumption
  <2> QED
    BY <1>1, <1>4, <2>1, CountedKeeps DEF IInv, Shape
<1> QED
  BY <1>3, <1>4 DEF UpdateMax

(* Stop and Start change neither the table nor a manager.                   *)
LEMMA SwitchKeeps ==
  ASSUME IInv, NEW a \in Agents, Stop(a) \/ Start(a)
  PROVE  IInv'
<1> USE SessionAssumption DEF SessionAssumption
<1>1. UNCHANGED <<sessions, sm, activity, widest, leaked, errors, restarts>>
  BY DEF Stop, Start
<1>2. now' \in Times /\ now' \in Nat /\ now <= now' /\ now \in Nat
  BY ManagerFacts DEF Stop, Start, IInv, Times
<1>3. Shape' /\ Rows' = Rows /\ ActivityGapBounded'
  BY <1>1 DEF IInv, Shape, Rows, ActivityGapBounded
<1>4. \A b \in Agents : polled[b] \in Nat /\ polled[b] <= now
  BY ManagerFacts DEF IInv, Held, HeldBy
<1>5. polled \in [Agents -> Times] /\ pc \in [Agents -> {"run", "create", "count",
                                        "max", "close", "closing", "stopped"}]
  BY DEF IInv, TypeOK
<1>6. \/ /\ pc[a] = "run" /\ polled' = polled
         /\ pc' = [pc EXCEPT ![a] = IF sm[a].sid = Null THEN "stopped"
                                                        ELSE "closing"]
      \/ /\ pc[a] = "stopped" /\ polled' = [polled EXCEPT ![a] = now']
         /\ pc' = [pc EXCEPT ![a] = "run"]
  BY DEF Stop, Start
<1>7. /\ \A b \in Agents : polled'[b] \in Nat /\ polled[b] <= polled'[b]
                          /\ polled'[b] <= now'
      /\ polled' \in [Agents -> Times]
      /\ pc' \in [Agents -> {"run", "create", "count", "max", "close",
                            "closing", "stopped"}]
      /\ \A b \in Agents \ {a} : pc'[b] = pc[b] /\ polled'[b] = polled[b]
      /\ \A b \in Agents :
           pc'[b] # "stopped" => pc[b] # "stopped" \/ now <= polled'[b]
  BY <1>2, <1>4, <1>5, <1>6
<1>8. TypeOK'
  BY <1>1, <1>2, <1>3, <1>7 DEF IInv, TypeOK
<1>9. OpenIsOwned' /\ SessionsDisjoint' /\ Past'
  BY <1>1, <1>2, <1>3, <1>7, TableKept
<1>10. Held'
  <2>1. HeldBy(a)'
    <3>1. HeldBy(a) /\ sm[a] \in ManagerType
      BY ManagerFacts DEF IInv, Held
    <3>2. CASE pc[a] = "run"
      <4>1. /\ polled'[a] = polled[a]
            /\ pc'[a] = IF sm[a].sid = Null THEN "stopped" ELSE "closing"
        BY <1>5, <1>6, <3>2
      <4> QED
        BY <1>1, <1>2, <1>4, <3>1, <3>2, <4>1 DEF HeldBy
    <3>3. CASE pc[a] = "stopped"
      <4>1. polled'[a] = now' /\ pc'[a] = "run" /\ sm[a].sid = Null
        BY <1>5, <1>6, <3>1, <3>3 DEF HeldBy
      <4> QED
        BY <1>1, <1>2, <1>4, <3>1, <4>1 DEF HeldBy, ManagerType, Times
    <3> QED
      BY <1>6, <3>2, <3>3
  <2>2. ASSUME NEW b \in Agents \ {a} PROVE HeldBy(b)'
    BY <1>1, <1>2, <1>7, HeldKept
  <2> QED
    BY <2>1, <2>2 DEF Held
<1> QED
  BY <1>3, <1>8, <1>9, <1>10 DEF IInv

-------------------------------------------------------------------------------
LEMMA CloseSessionKeeps ==
  ASSUME IInv, NEW a \in Agents, CloseSession(a)
  PROVE  IInv'
<1> DEFINE i == sm[a].sid
           e == IF pc[a] = "close" THEN polled[a] ELSE now
<1> USE SessionAssumption DEF SessionAssumption
<1>1. /\ pc[a] \in {"close", "closing"}
      /\ sm' = [sm EXCEPT ![a].sid = Null]
      /\ pc' = [pc EXCEPT ![a] = IF pc[a] = "close" THEN "run" ELSE "stopped"]
      /\ UNCHANGED <<now, polled, activity, widest, restarts>>
  BY DEF CloseSession
<1>2. /\ i \in Rows /\ i # Null /\ sessions[i] \in RowType
      /\ sessions[i].end = Null /\ sessions[i].agent = a
  BY <1>1, HeldRow
<1>3. /\ polled[a] \in Times /\ polled[a] \in Nat /\ now \in Nat
      /\ now \in Times /\ polled[a] <= now
      /\ sm[a] \in ManagerType /\ sm \in [Agents -> ManagerType]
  BY ManagerFacts DEF IInv, TypeOK, Held, HeldBy
<1>4. /\ sm' \in [Agents -> ManagerType]
      /\ sm'[a].sid = Null /\ sm'[a].lastActivity = sm[a].lastActivity
      /\ \A b \in Agents \ {a} : sm'[b] = sm[b]
  BY <1>1, <1>3 DEF ManagerType
<1>5. /\ pc'[a] = IF pc[a] = "close" THEN "run" ELSE "stopped"
      /\ \A b \in Agents \ {a} : pc'[b] = pc[b]
      /\ pc' \in [Agents -> {"run", "create", "count", "max", "close",
                            "closing", "stopped"}]
  BY <1>1 DEF IInv, TypeOK
<1>6. \A b \in Agents : sm[b].sid \in Rows \cup {Null}
  BY ManagerFacts DEF IInv
<1>7. \A b \in Agents \ {a} : sm[b].sid # i
  BY <1>2 DEF IInv, OpenIsOwned
<1>8. \A j \in Rows : /\ PastRow(j) /\ sessions[j] \in RowType
                      /\ sessions[j].agent \in Agents
  BY TableFacts DEF IInv, Past, RowType
<1>9. Held'
  <2>1. HeldBy(a)'
    BY <1>1, <1>3, <1>4, <1>5 DEF IInv, Held, HeldBy
  <2>2. ASSUME NEW b \in Agents \ {a} PROVE HeldBy(b)'
    BY <1>1, <1>3, <1>4, <1>5, HeldKept
  <2> QED
    BY <2>1, <2>2 DEF Held
<1>10. ASSUME Shape', Rows' = Rows, leaked' \subseteq Rows,
              errors' \in 0..MaxErrors
       PROVE  TypeOK' /\ ActivityGapBounded'
  <2>1. \A b \in Agents : sm'[b].sid \in Rows' \cup {Null}
    BY <1>4, <1>6, <1>10
  <2>2. /\ now' \in Times /\ polled' \in [Agents -> Times]
        /\ leaked' \subseteq Rows' /\ restarts' \in 0..MaxRestarts
    BY <1>1, <1>10 DEF IInv, TypeOK
  <2>3. TypeOK'
    BY <1>4, <1>5, <1>10, <2>1, <2>2, TypedNext
  <2>4. ActivityGapBounded'
    BY <1>1, <1>10 DEF IInv, ActivityGapBounded
  <2> QED
    BY <2>3, <2>4
<1>11. CASE /\ Succeeds
            /\ sessions' = [sessions EXCEPT ![i].end = e]
            /\ UNCHANGED leaked
  <2> DEFINE c == [sessions[i] EXCEPT !.end = e]
  <2>1. /\ e \in Times /\ e \in Nat /\ polled[a] <= e /\ e <= now
        /\ pc[a] = "close" => e = polled[a]
    BY <1>1, <1>3
  <2>2. sessions[i].start \in Nat /\ sessions[i].start <= e
    <3>1. sessions[i].start <= polled[a] /\ sessions[i].start \in Nat
      BY <1>2, <1>8 DEF PastRow, RowType, Times
    <3> QED
      BY <1>3, <2>1, <3>1
  <2>3. sessions' = [sessions EXCEPT ![i] = c]
    BY <1>11
  <2> HIDE DEF e
  <2>4. /\ c \in RowType /\ c.agent = a /\ c.end = e
        /\ c.start = sessions[i].start
    BY <1>2, <2>1 DEF RowType
  <2> HIDE DEF c, i
  <2>5. /\ sessions' \in Seq(RowType) /\ Len(sessions') = Len(sessions)
        /\ Rows' = Rows
        /\ sessions'[i] = c
        /\ \A j \in Rows \ {i} : sessions'[j] = sessions[j]
    BY <1>2, <2>3, <2>4, RowChanged DEF IInv
  <2>6. Shape'
    BY <1>1, <2>5 DEF IInv, Shape
  <2>7. errors' \in 0..MaxErrors /\ leaked' \subseteq Rows /\ leaked' = leaked
    BY <1>11 DEF Succeeds, IInv, TypeOK
  <2>8. e # Null
    BY <2>1
  <2>9. OpenIsOwned'
    <3>1. ASSUME NEW b \in Agents, sm'[b].sid # Null
          PROVE  /\ sessions'[sm'[b].sid].end = Null
                 /\ sessions'[sm'[b].sid].agent = b
      <4>1. b # a /\ sm'[b] = sm[b] /\ sm[b].sid \in Rows \ {i}
        BY <1>4, <1>6, <1>7, <3>1 DEF i
      <4> QED
        BY <2>5, <3>1, <4>1 DEF IInv, OpenIsOwned, Open
    <3>2. ASSUME NEW j \in Rows, sessions'[j].end = Null
          PROVE  sm'[sessions'[j].agent].sid = j \/ j \in leaked'
      <4>1. j # i /\ sessions'[j] = sessions[j]
        BY <2>4, <2>5, <2>8, <3>2
      <4>2. sm[sessions[j].agent].sid = j \/ j \in leaked
        BY <3>2, <4>1 DEF IInv, OpenIsOwned, Open
      <4>3. CASE sm[sessions[j].agent].sid = j
        BY <1>4, <1>8, <4>1, <4>3 DEF i
      <4> QED
        BY <2>7, <4>2, <4>3
    <3> QED
      BY <2>5, <3>1, <3>2 DEF OpenIsOwned, Open
  <2>10. SessionsDisjoint'
    <3> SUFFICES ASSUME NEW j \in Rows, NEW k \in Rows, j < k,
                        sessions'[j].agent = sessions'[k].agent, j \notin leaked
                 PROVE  /\ sessions'[j].end # Null
                        /\ sessions'[j].start <= sessions'[j].end
                        /\ sessions'[j].end <= sessions'[k].start
      BY <2>5, <2>7 DEF SessionsDisjoint, Open
    <3>1. \A x \in Rows : /\ sessions'[x].agent = sessions[x].agent
                          /\ sessions'[x].start = sessions[x].start
      BY <1>2, <2>4, <2>5 DEF i
    <3>2. /\ sessions[j].end # Null
          /\ sessions[j].start <= sessions[j].end
          /\ sessions[j].end <= sessions[k].start
      BY <3>1 DEF IInv, SessionsDisjoint, Open
    <3>3. j # i
      BY <1>2, <3>2 DEF i
    <3> QED
      BY <2>5, <3>1, <3>2, <3>3
  <2>11. Past'
    <3> SUFFICES ASSUME NEW j \in Rows PROVE PastRow(j)'
      BY <2>5 DEF Past
    <3>1. CASE j = i
      <4>1. /\ sessions'[j].agent = a /\ sessions'[j].end = e
            /\ sessions'[j].start = sessions[i].start
        BY <2>4, <2>5, <3>1
      <4>2. sessions[i].start <= polled[a]
        BY <1>2, <1>8 DEF PastRow, i
      <4>3. pc'[a] # "stopped" => e <= polled[a]
        BY <1>3, <1>5, <2>1
      <4> QED
        BY <1>1, <2>1, <2>2, <4>1, <4>2, <4>3 DEF PastRow
    <3>2. CASE j # i
      <4>1. sessions'[j] = sessions[j] /\ PastRow(j) /\ sessions[j].agent \in Agents
        BY <1>8, <2>5, <3>2
      <4>2. CASE sessions[j].agent # a
        BY <1>1, <1>5, <4>1, <4>2 DEF PastRow
      <4>3. CASE sessions[j].agent = a
        <5>1. pc[a] # "stopped"
          BY <1>1
        <5> QED
          BY <1>1, <4>1, <4>3, <5>1 DEF PastRow
      <4> QED
        BY <4>2, <4>3
    <3> QED
      BY <3>1, <3>2
  <2> QED
    BY <1>9, <1>10, <2>5, <2>6, <2>7, <2>9, <2>10, <2>11 DEF IInv
<1>12. CASE /\ Fails
            /\ leaked' = leaked \cup {i}
            /\ UNCHANGED sessions
  <2>1. Shape' /\ Rows' = Rows
    BY <1>1, <1>12 DEF IInv, Shape, Rows
  <2>2. errors' \in 0..MaxErrors /\ leaked' \subseteq Rows
    BY <1>2, <1>12 DEF Fails, IInv, TypeOK
  <2>3. OpenIsOwned'
    <3>1. ASSUME NEW b \in Agents, sm'[b].sid # Null
          PROVE  sessions[sm'[b].sid].end = Null /\ sessions[sm'[b].sid].agent = b
      BY <1>4, <3>1 DEF IInv, OpenIsOwned, Open
    <3>2. ASSUME NEW j \in Rows, sessions[j].end = Null
          PROVE  sm'[sessions[j].agent].sid = j \/ j \in leaked'
      <4>1. sm[sessions[j].agent].sid = j \/ j \in leaked
        BY <3>2 DEF IInv, OpenIsOwned, Open
      <4>2. CASE sm[sessions[j].agent].sid = j /\ sessions[j].agent # a
        BY <1>4, <1>8, <4>2
      <4>3. CASE sm[sessions[j].agent].sid = j /\ sessions[j].agent = a
        BY <1>12, <4>3
      <4> QED
        BY <1>12, <4>1, <4>2, <4>3
    <3> QED
      BY <1>12, <2>1, <3>1, <3>2 DEF OpenIsOwned, Open
  <2>4. SessionsDisjoint'
    BY <1>12, <2>1 DEF IInv, SessionsDisjoint, Open
  <2>5. Past'
    <3> SUFFICES ASSUME NEW j \in Rows PROVE PastRow(j)'
      BY <2>1 DEF Past
    <3>1. PastRow(j) /\ sessions[j].agent \in Agents
      BY <1>8
    <3>2. pc'[sessions[j].agent] # "stopped" => pc[sessions[j].agent] # "stopped"
      BY <1>1, <1>5, <3>1
    <3> QED
      BY <1>1, <1>12, <3>1, <3>2 DEF PastRow
  <2> QED
    BY <1>9, <1>10, <2>1, <2>2, <2>3, <2>4, <2>5 DEF IInv
<1> QED
  BY <1>11, <1>12 DEF CloseSession

-------------------------------------------------------------------------------
(* A function on 1..n is a sequence of n elements.                          *)
LEMMA FunctionIsSequence ==
  ASSUME NEW S, NEW n \in Nat, NEW g \in [1..n -> S]
  PROVE  g \in Seq(S) /\ Len(g) = n
<1>1. g \in Seq(S)
  BY SeqDef
<1>2. Len(g) \in Nat /\ DOMAIN g = 1..Len(g) /\ DOMAIN g = 1..n
  BY <1>1, LenProperties
<1>3. n <= Len(g) /\ Len(g) <= n
  BY <1>2
<1> QED
  BY <1>1, <1>2, <1>3

(* What the UPDATE of CloseOrphanedSessions leaves behind.                  *)
LEMMA OrphansClosed ==
  ASSUME Shape, NEW t \in Times,
         sessions' = [i \in DOMAIN sessions |->
           IF sessions[i].end = Null THEN [sessions[i] EXCEPT !.end = t]
                                     ELSE sessions[i]]
  PROVE  /\ sessions' \in Seq(RowType) /\ Len(sessions') = Len(sessions)
         /\ Rows' = Rows
         /\ \A i \in Rows :
              IF sessions[i].end = Null
                THEN /\ sessions'[i].agent = sessions[i].agent
                     /\ sessions'[i].start = sessions[i].start
                     /\ sessions'[i].end = t
                     /\ sessions'[i].count = sessions[i].count
                     /\ sessions'[i].max = sessions[i].max
                ELSE sessions'[i] = sessions[i]
<1> DEFINE f(i) == IF sessions[i].end = Null THEN [sessions[i] EXCEPT !.end = t]
                                             ELSE sessions[i]
           g == [i \in 1..Len(sessions) |-> f(i)]
<1>1. /\ Rows = 1..Len(sessions) /\ Len(sessions) \in Nat
      /\ \A i \in Rows : sessions[i] \in RowType
  BY TableFacts
<1>2. \A i \in Rows : f(i) \in RowType
  BY <1>1 DEF RowType
<1>3. \A i \in Rows :
        sessions[i].end = Null =>
          /\ f(i).agent = sessions[i].agent
          /\ f(i).start = sessions[i].start
          /\ f(i).end = t
          /\ f(i).count = sessions[i].count
          /\ f(i).max = sessions[i].max
  BY <1>1 DEF RowType
<1>4. sessions' = g
  BY <1>1 DEF Rows
<1>5. \A i \in Rows : sessions[i].end # Null => f(i) = sessions[i]
  OBVIOUS
<1> HIDE DEF f
<1>6. g \in [1..Len(sessions) -> RowType] /\ \A i \in Rows : g[i] = f(i)
  BY <1>1, <1>2
<1> HIDE DEF g
<1>7. g \in Seq(RowType) /\ Len(g) = Len(sessions)
  BY <1>1, <1>6, FunctionIsSequence
<1>8. Rows' = Rows
  BY <1>1, <1>4, <1>7, LenProperties DEF Rows
<1> QED
  BY <1>3, <1>4, <1>5, <1>6, <1>7, <1>8

LEMMA RestartKeeps ==
  ASSUME IInv, Restart
  PROVE  IInv'
<1> USE SessionAssumption DEF SessionAssumption
<1>1. /\ now' \in Times /\ now' \in Nat /\ now <= now' /\ now \in Nat
      /\ sm' = [a \in Agents |-> Fresh]
      /\ pc' = [a \in Agents |-> "run"]
      /\ polled' = [a \in Agents |-> now']
      /\ restarts' \in 0..MaxRestarts
      /\ UNCHANGED <<activity, widest>>
  BY DEF Restart, IInv, TypeOK, Times
<1>2. /\ sm' \in [Agents -> ManagerType]
      /\ \A a \in Agents : /\ sm'[a].sid = Null /\ sm'[a].lastActivity = 0
                           /\ polled'[a] = now'
  BY <1>1 DEF Fresh, ManagerType, Times
<1>3. Held'
  BY <1>1, <1>2 DEF Held, HeldBy
<1>4. ASSUME Shape', Rows' = Rows, leaked' \subseteq Rows,
             errors' \in 0..MaxErrors
      PROVE  TypeOK' /\ ActivityGapBounded'
  <2>1. TypeOK'
    BY <1>1, <1>2, <1>4, TypedNext
  <2>2. ActivityGapBounded'
    BY <1>1, <1>4 DEF IInv, ActivityGapBounded
  <2> QED
    BY <2>1, <2>2
<1>5. \A j \in Rows : /\ PastRow(j) /\ sessions[j] \in RowType
                      /\ sessions[j].agent \in Agents
                      /\ sessions[j].start \in Nat
                      /\ sessions[j].end \in Nat \cup {Null}
  BY TableFacts DEF IInv, Past, RowType, Times
<1>6. \A a \in Agents : polled[a] \in Nat /\ polled[a] <= now
  BY ManagerFacts DEF IInv, Held, HeldBy
<1>7. \A j \in Rows : /\ sessions[j].start <= now'
                      /\ sessions[j].end # Null =>
                           /\ sessions[j].start <= sessions[j].end
                           /\ sessions[j].end <= now'
  BY <1>1, <1>5, <1>6 DEF PastRow
<1>8. CASE /\ Succeeds
           /\ sessions' = [i \in DOMAIN sessions |->
                IF sessions[i].end = Null THEN [sessions[i] EXCEPT !.end = now']
                                          ELSE sessions[i]]
           /\ UNCHANGED leaked
  <2> DEFINE t == now'
  <2>1. t \in Times /\ t # Null
    BY <1>1
  <2>2. /\ sessions' \in Seq(RowType) /\ Len(sessions') = Len(sessions)
        /\ Rows' = Rows
        /\ \A i \in Rows :
             IF sessions[i].end = Null
               THEN /\ sessions'[i].agent = sessions[i].agent
                    /\ sessions'[i].start = sessions[i].start
                    /\ sessions'[i].end = t
               ELSE sessions'[i] = sessions[i]
    BY <1>8, <2>1, OrphansClosed DEF IInv
  <2> HIDE DEF t
  <2>3. Shape'
    BY <1>1, <2>2 DEF IInv, Shape
  <2>4. errors' \in 0..MaxErrors /\ leaked' \subseteq Rows /\ leaked' = leaked
    BY <1>8 DEF Succeeds, IInv, TypeOK
  <2>5. \A j \in Rows : /\ sessions'[j].end # Null
                        /\ sessions'[j].agent = sessions[j].agent
                        /\ sessions'[j].start = sessions[j].start
                        /\ sessions[j].end # Null =>
                             sessions'[j].end = sessions[j].end
    BY <2>1, <2>2
  <2>6. OpenIsOwned'
    <3>1. Rows' = Rows
      BY <2>2
    <3>2. \A j \in Rows : sessions'[j].end # Null
      BY <2>5
    <3> QED
      BY <1>2, <3>1, <3>2 DEF OpenIsOwned, Open
  <2>7. SessionsDisjoint'
    BY <2>2, <2>4, <2>5 DEF IInv, SessionsDisjoint, Open
  <2>8. Past'
    <3> SUFFICES ASSUME NEW j \in Rows PROVE PastRow(j)'
      BY <2>2 DEF Past
    <3>1. polled'[sessions'[j].agent] = now'
      BY <1>2, <1>5, <2>5
    <3>2. sessions'[j].start <= sessions'[j].end /\ sessions'[j].end <= now'
      <4>1. CASE sessions[j].end = Null
        <5>1. sessions'[j].end = now' /\ sessions'[j].start = sessions[j].start
          BY <2>2, <4>1 DEF t
        <5> QED
          BY <1>1, <1>7, <5>1
      <4>2. CASE sessions[j].end # Null
        <5>1. sessions'[j].end = sessions[j].end /\ sessions'[j].start = sessions[j].start
          BY <2>5, <4>2
        <5> QED
          BY <1>7, <4>2, <5>1
      <4> QED
        BY <4>1, <4>2
    <3>3. sessions'[j].start <= now'
      BY <1>7, <2>5
    <3>4. sessions'[j].end <= polled'[sessions'[j].agent]
          /\ sessions'[j].start <= polled'[sessions'[j].agent]
      BY <3>1, <3>2, <3>3
    <3> QED
      BY <3>2, <3>4 DEF PastRow
  <2> QED
    BY <1>3, <1>4, <2>2, <2>3, <2>4, <2>6, <2>7, <2>8 DEF IInv
<1>9. CASE /\ Fails
           /\ leaked' = leaked \cup {i \in DOMAIN sessions : sessions[i].end = Null}
           /\ UNCHANGED sessions
  <2>1. Shape' /\ Rows' = Rows
    BY <1>1, <1>9 DEF IInv, Shape, Rows
  <2>2. errors' \in 0..MaxErrors /\ leaked' \subseteq Rows /\ leaked \subseteq leaked'
    BY <1>9 DEF Fails, IInv, TypeOK, Rows
  <2>3. \A j \in Rows : sessions[j].end = Null => j \in leaked'
    BY <1>9 DEF Rows
  <2>4. OpenIsOwned'
    BY <1>2, <1>9, <2>1, <2>3 DEF OpenIsOwned, Open
  <2>5. SessionsDisjoint'
    BY <1>9, <2>1, <2>2 DEF IInv, SessionsDisjoint, Open
  <2>6. Past'
    <3> SUFFICES ASSUME NEW j \in Rows PROVE PastRow(j)'
      BY <2>1 DEF Past
    <3>1. sessions' = sessions /\ polled'[sessions[j].agent] = now'
      BY <1>2, <1>5, <1>9
    <3> QED
      BY <1>7, <3>1 DEF PastRow
  <2> QED
    BY <1>3, <1>4, <2>1, <2>2, <2>4, <2>5, <2>6 DEF IInv
<1> QED
  BY <1>8, <1>9 DEF Restart

LEMMA StutterKeeps ==
  ASSUME IInv, UNCHANGED vars
  PROVE  IInv'
<1>1. Rows' = Rows
  BY DEF vars, Rows
<1>2. TypeOK' /\ Shape'
  BY <1>1 DEF vars, IInv, TypeOK, Shape
<1>3. OpenIsOwned' /\ SessionsDisjoint' /\ ActivityGapBounded'
  BY <1>1 DEF vars, IInv, OpenIsOwned, SessionsDisjoint, ActivityGapBounded, Open
<1>4. Held' /\ Past'
  BY <1>1 DEF vars, IInv, Held, HeldBy, Past, PastRow
<1> QED
  BY <1>2, <1>3, <1>4 DEF IInv

LEMMA NextIInv == IInv /\ [Next]_vars => IInv'
<1> SUFFICES ASSUME IInv, [Next]_vars PROVE IInv'
  OBVIOUS
<1>1. ASSUME NEW a \in Agents, NEW v \in Values, ReportPoll(a, v) PROVE IInv'
  BY <1>1, ReportPollKeeps
<1>2. ASSUME NEW a \in Agents, CreateSession(a) PROVE IInv'
  BY <1>2, CreateSessionKeeps
<1>3. ASSUME NEW a \in Agents, Count(a) PROVE IInv'
  BY <1>3, CountKeeps
<1>4. ASSUME NEW a \in Agents, UpdateMax(a) PROVE IInv'
  BY <1>4, UpdateMaxKeeps
<1>5. ASSUME NEW a \in Agents, CloseSession(a) PROVE IInv'
  BY <1>5, CloseSessionKeeps
<1>6. ASSUME NEW a \in Agents, Stop(a) \/ Start(a) PROVE IInv'
  BY <1>6, SwitchKeeps
<1>7. CASE Restart
  BY <1>7, RestartKeeps
<1>8. CASE UNCHANGED vars
  BY <1>8, StutterKeeps
<1> QED
  BY <1>1, <1>2, <1>3, <1>4, <1>5, <1>6, <1>7, <1>8 DEF Next

LEMMA Inductive == Spec => []IInv
<1> QED
  BY InitIInv, NextIInv, PTL DEF Spec

(* A step that counts into an open row, or closes it, is all that happens   *)
(* to a row.                                                                *)
LEMMA NextRowsFinal == IInv /\ [Next]_vars => RowsFinal
<1> SUFFICES ASSUME IInv, [Next]_vars PROVE RowsFinal
  OBVIOUS
<1> USE SessionAssumption DEF SessionAssumption
<1>1. \A i \in Rows : /\ sessions[i] \in RowType
                      /\ sessions[i].max \in Nat /\ sessions[i].count \in Nat
  <2> SUFFICES ASSUME NEW i \in Rows
               PROVE  /\ sessions[i] \in RowType
                      /\ sessions[i].max \in Nat /\ sessions[i].count \in Nat
    OBVIOUS
  <2>1. sessions[i] \in RowType
    BY TableFacts DEF IInv
  <2>2. sessions[i].max \in Values \cup {0} /\ sessions[i].count \in Nat
    BY <2>1 DEF RowType
  <2> QED
    BY <2>1, <2>2, ReadingIsNat
<1>2. ASSUME UNCHANGED sessions PROVE RowsFinal
  BY <1>1, <1>2 DEF RowsFinal
<1>3. ASSUME NEW i \in Rows, NEW c \in RowType, Open(i),
             sessions' = [sessions EXCEPT ![i] = c],
             c.max >= sessions[i].max, c.count >= sessions[i].count
      PROVE  RowsFinal
  <2>1. /\ sessions'[i] = c
        /\ \A j \in Rows \ {i} : sessions'[j] = sessions[j]
    BY <1>3, RowChanged DEF IInv
  <2> QED
    BY <1>1, <1>3, <2>1 DEF RowsFinal
<1>4. ASSUME NEW a \in Agents, CreateSession(a) PROVE RowsFinal
  <2>1. CASE sessions' = Append(sessions, Row(a))
    <3>1. Row(a) \in RowType
      <4>1. polled[a] \in Times /\ sm[a].old \in Values
        <5>1. pc[a] = "create" /\ sm[a] \in ManagerType
          BY <1>4, ManagerFacts DEF IInv, CreateSession
        <5> QED
          BY <5>1, ManagerFacts DEF IInv, Held, HeldBy, ManagerType
      <4> QED
        BY <4>1 DEF Row, RowType
    <3>2. \A i \in Rows : sessions'[i] = sessions[i]
      BY <2>1, <3>1, TableFacts, AppendProperties DEF IInv, Shape
    <3> QED
      BY <1>1, <3>2 DEF RowsFinal
  <2> QED
    BY <1>2, <1>4, <2>1 DEF CreateSession
<1>5. ASSUME NEW a \in Agents, Count(a) PROVE RowsFinal
  <2> DEFINE i == sm[a].sid
             c == [sessions[i] EXCEPT !.count = sessions[i].count + 1]
  <2>1. i \in Rows /\ sessions[i] \in RowType /\ Open(i)
    BY <1>5, HeldRow DEF Count, Open
  <2>2. c \in RowType /\ c.max = sessions[i].max /\ c.count = sessions[i].count + 1
    BY <2>1 DEF RowType
  <2>3. sessions' = [sessions EXCEPT ![i] = c] \/ UNCHANGED sessions
    BY <1>5 DEF Count
  <2> HIDE DEF c, i
  <2> QED
    BY <1>1, <1>2, <1>3, <2>1, <2>2, <2>3
<1>6. ASSUME NEW a \in Agents, UpdateMax(a) PROVE RowsFinal
  <2> DEFINE i == sm[a].sid
             m == Larger(sessions[i].max, sm[a].prev)
             c == [sessions[i] EXCEPT !.max = m]
  <2>1. i \in Rows /\ sessions[i] \in RowType /\ Open(i) /\ sm[a].prev \in Values
    BY <1>6, HeldRow DEF UpdateMax, Open
  <2>2. m \in Values \cup {0} /\ m >= sessions[i].max
    <3>1. sessions[i].max \in Values \cup {0} /\ sessions[i].max \in Nat
      BY <1>1, <2>1 DEF RowType
    <3>2. sm[a].prev \in Nat
      BY <2>1, ReadingIsNat
    <3> QED
      BY <2>1, <3>1, <3>2 DEF Larger
  <2>3. sessions' = [sessions EXCEPT ![i] = c] \/ UNCHANGED sessions
    BY <1>6 DEF UpdateMax
  <2> HIDE DEF m
  <2>4. c \in RowType /\ c.max = m /\ c.count = sessions[i].count
    BY <2>1, <2>2 DEF RowType
  <2> HIDE DEF c, i
  <2> QED
    BY <1>1, <1>2, <1>3, <2>1, <2>2, <2>3, <2>4
<1>7. ASSUME NEW a \in Agents, CloseSession(a) PROVE RowsFinal
  <2> DEFINE i == sm[a].sid
             e == IF pc[a] = "close" THEN polled[a] ELSE now
             c == [sessions[i] EXCEPT !.end = e]
  <2>1. i \in Rows /\ sessions[i] \in RowType /\ Open(i)
    BY <1>7, HeldRow DEF CloseSession, Open
  <2>2. e \in Times
    BY ManagerFacts DEF IInv, TypeOK
  <2>3. sessions' = [sessions EXCEPT ![i] = c] \/ UNCHANGED sessions
    BY <1>7 DEF CloseSession
  <2> HIDE DEF e
  <2>4. c \in RowType /\ c.max = sessions[i].max /\ c.count = sessions[i].count
    BY <2>1, <2>2 DEF RowType
  <2> HIDE DEF c, i
  <2> QED
    BY <1>1, <1>2, <1>3, <2>1, <2>3, <2>4
<1>8. ASSUME Restart PROVE RowsFinal
  <2> DEFINE t == now'
  <2>1. t \in Times
    BY <1>8 DEF Restart, IInv, TypeOK, Times
  <2>2. CASE sessions' = [i \in DOMAIN sessions |->
               IF sessions[i].end = Null THEN [sessions[i] EXCEPT !.end = t]
                                         ELSE sessions[i]]
    <3> HIDE DEF t
    <3>1. \A i \in Rows :
            IF sessions[i].end = Null
              THEN /\ sessions'[i].count = sessions[i].count
                   /\ sessions'[i].max = sessions[i].max
              ELSE sessions'[i] = sessions[i]
      BY <2>1, <2>2, OrphansClosed DEF IInv
    <3> QED
      BY <1>1, <3>1 DEF RowsFinal, Open
  <2> QED
    BY <1>2, <1>8, <2>2 DEF Restart
<1>9. ASSUME NEW a \in Agents,
             (\E v \in Values : ReportPoll(a, v)) \/ Stop(a) \/ Start(a)
      PROVE  RowsFinal
  BY <1>2, <1>9 DEF ReportPoll, ReportPollAs, Stop, Start
<1>10. CASE UNCHANGED vars
  BY <1>2, <1>10 DEF vars
<1> QED
  BY <1>4, <1>5, <1>6, <1>7, <1>8, <1>9, <1>10 DEF Next

-------------------------------------------------------------------------------
(* Every reachable state is well typed.                                     *)
THEOREM TypeCorrect == Spec => []TypeOK
<1>1. IInv => TypeOK
  BY DEF IInv
<1> QED
  BY <1>1, Inductive, PTL

(* The id in a manager's memory names an open row of its own agent, and a   *)
(* row is open only while its manager holds it or because a close failed.   *)
THEOREM OpenRowsOwned == Spec => []OpenIsOwned
<1>1. IInv => OpenIsOwned
  BY DEF IInv
<1> QED
  BY <1>1, Inductive, PTL

(* The sessions of an agent never overlap, over stops, starts, crashes and  *)
(* failing statements, except one whose close failed.                       *)
THEOREM Disjoint == Spec => []SessionsDisjoint
<1>1. IInv => SessionsDisjoint
  BY DEF IInv
<1> QED
  BY <1>1, Inductive, PTL

(* No session joins two changes further apart than the idle timeout and the *)
(* longest time without a poll.                                             *)
THEOREM GapBounded == Spec => []ActivityGapBounded
<1>1. IInv => ActivityGapBounded
  BY DEF IInv
<1> QED
  BY <1>1, Inductive, PTL

(* A closed session never changes again.                                    *)
THEOREM RowsStayFinal == Spec => RowsAreFinal
<1>1. IInv /\ [Next]_vars => [RowsFinal]_vars
  BY NextRowsFinal
<1> QED
  BY <1>1, Inductive, PTL DEF Spec, RowsAreFinal

===============================================================================
