--------------------------- MODULE IngestTail_proofs ---------------------------
(***************************************************************************)
(* The ingester, for every set of events, every length of lines, blocks    *)
(* and partial lines, and any number of failures and replaced files.       *)
(*                                                                         *)
(* That a passed line is stored rests on where a read begins: the line the *)
(* cursor is in is known from its beginning, and what a scan has taken     *)
(* from a block are the lines that end there, one after the other.  The    *)
(* library has no induction to find the line of a position; that every     *)
(* position is in a line is part of the invariant instead.                 *)
(***************************************************************************)
EXTENDS IngestTail, SequenceTheorems, TLAPS

LineType == [ev : Events \cup {NoEvent}, end : Nat]

(* Lines end one after the other, and position p is in line i, which is the *)
(* line after the last one if p is the end.                                 *)
Ordered ==
  /\ \A i \in DOMAIN lines : 0 < lines[i].end
  /\ \A i, j \in DOMAIN lines : i < j => lines[i].end < lines[j].end

Within(p, i) == Start(i) <= p /\ (i <= Len(lines) => p < lines[i].end)

Covered == \A p \in 0..End : \E i \in 1..(Len(lines) + 1) : Within(p, i)

(* Cursor c is right for the file: it does not lie behind the file's end,   *)
(* and its partial line is the beginning of the line it is in.              *)
Sound(c) ==
  /\ c.offset <= size
  /\ c.offset = 0 => c.len = 0
  /\ \A i \in DOMAIN lines : lines[i].end = c.offset => c.len = 0
  /\ \A i \in DOMAIN lines :
       (Start(i) < c.offset /\ c.offset < lines[i].end /\ Short(i)) =>
          c.whole = TRUE /\ c.len = c.offset - Start(i)

(* The events in front of cursor c are in S.                                *)
Has(c, S) ==
  \A i \in Complete(c.offset) : lines[i].ev # NoEvent /\ Short(i) => lines[i].ev \in S

Awaited == {todo[k] : k \in DOMAIN todo}

(* The state of a scan is from this file.                                   *)
Current == ~stale \/ fresh

IInv ==
  /\ TypeOK /\ Ordered /\ Covered
  /\ pc # "store" => todo = <<>>
  /\ ~stale => Sound(cursor) /\ Has(cursor, stored)
  /\ (pc = "read" /\ Current) => Sound(state) /\ Has(state, stored)
  /\ (pc = "store" /\ Current) => Sound(state) /\ Has(state, stored \cup Awaited)

-------------------------------------------------------------------------------
(* The lines of the file by number, the places where they begin, their      *)
(* order.                                                                   *)
LEMMA LineFacts ==
  ASSUME TypeOK
  PROVE  /\ Len(lines) \in Nat
         /\ DOMAIN lines = 1..Len(lines)
         /\ \A i \in DOMAIN lines : /\ lines[i].end \in Nat
                                    /\ lines[i].ev \in Events \cup {NoEvent}
         /\ \A i \in 1..(Len(lines) + 1) : Start(i) \in Nat
         /\ End = Start(Len(lines) + 1) /\ End \in Nat
         /\ size \in Nat /\ size <= End
<1>1. /\ lines \in Seq(LineType)
      /\ Len(lines) \in Nat /\ DOMAIN lines = 1..Len(lines)
  BY LenProperties DEF TypeOK, Lines, LineType
<1>2. \A i \in DOMAIN lines : lines[i] \in LineType
  BY <1>1, ElementOfSeq
<1>3. \A i \in 1..(Len(lines) + 1) : Start(i) \in Nat
  BY <1>1, <1>2 DEF Start, LineType
<1> QED
  BY <1>1, <1>2, <1>3 DEF TypeOK, LineType, End

LEMMA LineOrder ==
  ASSUME TypeOK, Ordered, NEW i \in DOMAIN lines, NEW j \in DOMAIN lines, i <= j
  PROVE  lines[i].end <= lines[j].end
<1>1. i \in Nat /\ j \in Nat /\ lines[i].end \in Nat /\ lines[j].end \in Nat
  BY LineFacts
<1>2. CASE i = j
  BY <1>1, <1>2
<1>3. CASE i < j
  <2>1. lines[i].end < lines[j].end
    BY <1>3 DEF Ordered
  <2> QED
    BY <1>1, <2>1
<1> QED
  BY <1>1, <1>2, <1>3

(* A block that is not empty goes from one line to the same or a later one; *)
(* the lines that end in it are those in between.                           *)
LEMMA BlockLines ==
  ASSUME TypeOK, Ordered, Covered,
         NEW n \in Nat, n # 0, state.offset + n <= size
  PROVE  \E a, b \in 1..(Len(lines) + 1) :
            /\ Within(state.offset, a) /\ Within(state.offset + n, b)
            /\ a <= b
            /\ Ended(n) = a..(b - 1)
            /\ a < b => FirstOf(Ended(n)) = a /\ LastOf(Ended(n)) = b - 1
<1>1. state.offset \in Nat /\ state.offset \in 0..End /\ state.offset + n \in 0..End
  <2>1. state.offset \in Nat
    BY DEF TypeOK, Cursors
  <2>2. size \in Nat /\ End \in Nat /\ size <= End
    BY LineFacts
  <2> QED
    BY <2>1, <2>2
<1>2. PICK a \in 1..(Len(lines) + 1) : Within(state.offset, a)
  BY <1>1 DEF Covered
<1>3. PICK b \in 1..(Len(lines) + 1) : Within(state.offset + n, b)
  BY <1>1 DEF Covered
<1>4. ASSUME NEW i \in DOMAIN lines, NEW p \in Nat, NEW c \in 1..(Len(lines) + 1),
             Within(p, c)
      PROVE  lines[i].end <= p <=> i < c
  <2>1. /\ i \in Nat /\ c \in Nat /\ 1 <= i /\ i <= Len(lines)
        /\ lines[i].end \in Nat
    BY LineFacts
  <2>2. ASSUME i < c PROVE lines[i].end <= p
    <3>1. c # 1 /\ i <= c - 1 /\ c - 1 \in 1..Len(lines)
      BY <2>1, <2>2
    <3>2. c - 1 \in DOMAIN lines
      BY <3>1, LineFacts
    <3>3. lines[c - 1].end <= p
      BY <1>4, <3>1 DEF Within, Start
    <3>4. lines[i].end <= lines[c - 1].end
      BY <3>1, <3>2, LineOrder
    <3>5. lines[c - 1].end \in Nat
      BY <3>2, LineFacts
    <3> QED
      BY <2>1, <3>3, <3>4, <3>5
  <2>3. ASSUME ~(i < c) PROVE p < lines[i].end
    <3>1. c <= i /\ c \in 1..Len(lines)
      BY <2>1, <2>3
    <3>2. c \in DOMAIN lines /\ p < lines[c].end
      BY <1>4, <3>1, LineFacts DEF Within
    <3>3. lines[c].end <= lines[i].end
      BY <3>1, <3>2, LineOrder
    <3>4. lines[c].end \in Nat
      BY <3>2, LineFacts
    <3> QED
      BY <2>1, <3>2, <3>3, <3>4
  <2> QED
    BY <2>1, <2>2, <2>3
<1>5. \A i \in DOMAIN lines : /\ lines[i].end <= state.offset <=> i < a
                              /\ lines[i].end <= state.offset + n <=> i < b
  BY <1>1, <1>2, <1>3, <1>4
<1>6. Ended(n) = a..(b - 1)
  <2>1. \A i \in DOMAIN lines : i \in Ended(n) <=> a <= i /\ i < b
    BY <1>1, <1>5, LineFacts DEF Ended
  <2> QED
    BY <2>1, LineFacts DEF Ended
<1>7. a <= b
  <2> SUFFICES ASSUME b < a PROVE FALSE
    OBVIOUS
  <2>1. b \in DOMAIN lines
    BY LineFacts
  <2>2. lines[b].end <= state.offset /\ ~(lines[b].end <= state.offset + n)
    BY <2>1, <1>5
  <2> QED
    BY <2>1, <2>2, <1>1, LineFacts
<1>8. a < b => FirstOf(Ended(n)) = a /\ LastOf(Ended(n)) = b - 1
  BY <1>6 DEF FirstOf, LastOf
<1> QED
  BY <1>2, <1>3, <1>6, <1>7, <1>8

(* What a block yields: where the partial line behind it begins, and which  *)
(* lines are taken from it.                                                 *)
LEMMA BlockRead ==
  ASSUME TypeOK, Ordered, Covered,
         NEW n \in Nat, n # 0, state.offset + n <= size
  PROVE  /\ RestLength(n) \in Nat
         /\ After(n) \in Cursors
         /\ Taken(n) \in Seq(Events \cup {NoEvent})
<1>1. PICK a, b \in 1..(Len(lines) + 1) :
            /\ Within(state.offset, a) /\ Within(state.offset + n, b)
            /\ a <= b
            /\ Ended(n) = a..(b - 1)
            /\ a < b => FirstOf(Ended(n)) = a /\ LastOf(Ended(n)) = b - 1
  BY BlockLines
<1>2. /\ state.offset \in Nat /\ state.len \in Nat /\ state.whole \in BOOLEAN
      /\ Len(lines) \in Nat /\ DOMAIN lines = 1..Len(lines)
      /\ a \in Nat /\ b \in Nat
      /\ MaxPartial \in Nat
  BY LineFacts, IngestAssumption DEF TypeOK, Cursors, IngestAssumption
<1>3. CASE Ended(n) = {}
  <2>1. RestLength(n) \in Nat
    BY <1>2, <1>3 DEF RestLength
  <2>2. SeenWhole \in BOOLEAN
    BY <1>2 DEF SeenWhole, AtStart
  <2>3. After(n) \in Cursors
    BY <1>2, <2>1, <2>2 DEF After, Cursors
  <2>4. Taken(n) = <<>>
    BY <1>3 DEF Taken
  <2> QED
    BY <2>1, <2>3, <2>4
<1>4. CASE Ended(n) # {}
  <2>1. a < b /\ FirstOf(Ended(n)) = a /\ LastOf(Ended(n)) = b - 1
    BY <1>1, <1>2, <1>4
  <2>2. /\ b - 1 \in DOMAIN lines /\ lines[b - 1].end <= state.offset + n
        /\ lines[b - 1].end \in Nat
    <3>1. b - 1 \in Ended(n)
      BY <1>1, <1>2, <2>1
    <3> QED
      BY <3>1, LineFacts DEF Ended
  <2>3. RestLength(n) = state.offset + n - lines[b - 1].end /\ RestLength(n) \in Nat
    <3>1. RestLength(n) = state.offset + n - lines[b - 1].end
      BY <1>4, <2>1 DEF RestLength
    <3> QED
      BY <1>2, <2>2, <3>1
  <2>4. SeenWhole \in BOOLEAN
    BY <1>2 DEF SeenWhole, AtStart
  <2>5. After(n) \in Cursors
    BY <1>2, <2>3, <2>4 DEF After, Cursors
  <2> DEFINE from == IF Blank(a) THEN a + 1 ELSE a
             m == b - 1 + 1 - from
             T == [k \in 1..m |-> EventOf(from + k - 1, a)]
  <2>6. Taken(n) = T
    BY <1>4, <2>1 DEF Taken
  <2>7. m \in Nat /\ from \in Nat /\ a <= from
    BY <1>2, <2>1
  <2>8. \A k \in 1..m : EventOf(from + k - 1, a) \in Events \cup {NoEvent}
    <3> SUFFICES ASSUME NEW k \in 1..m
                 PROVE  EventOf(from + k - 1, a) \in Events \cup {NoEvent}
      OBVIOUS
    <3>1. from + k - 1 \in DOMAIN lines
      BY <1>2, <2>7
    <3> QED
      BY <3>1, LineFacts DEF EventOf
  <2>9. T \in [1..m -> Events \cup {NoEvent}]
    BY <2>8
  <2> HIDE DEF T, m
  <2>10. T \in Seq(Events \cup {NoEvent})
    BY <2>7, <2>9, SeqDef
  <2> QED
    BY <2>3, <2>5, <2>6, <2>10
<1> QED
  BY <1>3, <1>4

(* A read of a block keeps the cursor sound.                                *)
LEMMA AfterIsSound ==
  ASSUME TypeOK, Ordered, Covered, Sound(state),
         NEW n \in Nat, n # 0, state.offset + n <= size
  PROVE  Sound(After(n))
<1>1. PICK a, b \in 1..(Len(lines) + 1) :
            /\ Within(state.offset, a) /\ Within(state.offset + n, b)
            /\ a <= b
            /\ Ended(n) = a..(b - 1)
            /\ a < b => FirstOf(Ended(n)) = a /\ LastOf(Ended(n)) = b - 1
  BY BlockLines
<1>2. /\ state.offset \in Nat /\ state.len \in Nat
      /\ Len(lines) \in Nat /\ DOMAIN lines = 1..Len(lines)
      /\ a \in Nat /\ b \in Nat
      /\ MaxPartial \in Nat
      /\ RestLength(n) \in Nat
  <2>1. state.offset \in Nat /\ state.len \in Nat /\ MaxPartial \in Nat
    BY IngestAssumption DEF TypeOK, Cursors, IngestAssumption
  <2>2. Len(lines) \in Nat /\ DOMAIN lines = 1..Len(lines)
    BY LineFacts
  <2>3. a \in Nat /\ b \in Nat
    BY <2>2
  <2>4. RestLength(n) \in Nat
    BY BlockRead
  <2> QED
    BY <2>1, <2>2, <2>3, <2>4
<1>3. After(n).offset = state.offset + n /\ After(n).offset # 0
  BY <1>2 DEF After
<1>4. ASSUME NEW i \in DOMAIN lines, lines[i].end = state.offset + n
      PROVE  After(n).len = 0
  <2>1. i \in Ended(n) /\ i < b /\ a < b
    <3>1. i \in Ended(n)
      BY <1>2, <1>4 DEF Ended
    <3> QED
      BY <1>1, <1>2, <3>1
  <2>2. b - 1 \in DOMAIN lines /\ b - 1 \in Ended(n) /\ i <= b - 1
    BY <1>1, <1>2, <2>1
  <2>3. lines[i].end <= lines[b - 1].end /\ lines[b - 1].end <= state.offset + n
    BY <2>2, LineOrder DEF Ended
  <2>4. lines[b - 1].end \in Nat /\ lines[b - 1].end = state.offset + n
    <3>1. lines[b - 1].end \in Nat
      BY <2>2, LineFacts
    <3> DEFINE e == lines[b - 1].end
               m == state.offset + n
    <3>2. e \in Nat /\ m \in Nat /\ m <= e /\ e <= m
      BY <1>2, <1>4, <2>3, <3>1
    <3> HIDE DEF e, m
    <3>3. e = m
      BY <3>2
    <3> QED
      BY <3>1, <3>3 DEF e, m
  <2>5. RestLength(n) = 0
    <3>1. Ended(n) # {} /\ LastOf(Ended(n)) = b - 1
      BY <1>1, <2>1
    <3>2. RestLength(n) = state.offset + n - lines[b - 1].end
      BY <3>1 DEF RestLength
    <3> QED
      BY <1>2, <2>4, <3>2
  <2> QED
    BY <2>5 DEF After
<1>5. ASSUME NEW i \in DOMAIN lines, Short(i),
             Start(i) < state.offset + n, state.offset + n < lines[i].end
      PROVE  After(n).whole = TRUE /\ After(n).len = state.offset + n - Start(i)
  <2>1. i \in Nat /\ Start(i) \in Nat /\ lines[i].end \in Nat
    BY <1>2, LineFacts
  <2>2. state.offset + n - Start(i) \in 1..MaxPartial
    <3>1. lines[i].end - Start(i) - 1 <= MaxPartial
      BY <1>5 DEF Short
    <3>2. state.offset \in Nat /\ MaxPartial \in Nat
      BY <1>2
    <3>3. state.offset + n - Start(i) <= MaxPartial
      BY <1>5, <2>1, <3>1, <3>2
    <3>4. state.offset + n - Start(i) \in Nat /\ state.offset + n - Start(i) >= 1
      BY <1>5, <2>1, <3>2
    <3> QED
      BY <3>2, <3>3, <3>4
  <2>3. RestLength(n) = state.offset + n - Start(i) /\ (Ended(n) # {} \/ SeenWhole)
    <3>1. CASE Ended(n) # {}
      <4>1. a < b /\ b - 1 \in DOMAIN lines /\ b - 1 \in Ended(n)
        BY <1>1, <1>2, <3>1
      <4>2. lines[b - 1].end < lines[i].end
        <5>1. lines[b - 1].end <= state.offset + n
          BY <4>1 DEF Ended
        <5>2. lines[b - 1].end \in Nat
          BY <4>1, LineFacts
        <5>3. state.offset \in Nat
          BY <1>2
        <5> QED
          BY <1>5, <2>1, <5>1, <5>2, <5>3
      <4>3. b - 1 < i
        <5>1. i <= b - 1 => lines[i].end <= lines[b - 1].end
          BY <1>5, <4>1, LineOrder
        <5>2. lines[b - 1].end \in Nat
          BY <4>1, LineFacts
        <5>3. b \in Nat
          BY <1>2
        <5> QED
          BY <2>1, <4>2, <5>1, <5>2, <5>3
      <4>4. i # 1 /\ i - 1 \in DOMAIN lines /\ Start(i) = lines[i - 1].end
        BY <1>2, <2>1, <4>1, <4>3 DEF Start
      <4>5. lines[b - 1].end <= lines[i - 1].end
        <5>1. b - 1 <= i - 1
          BY <1>2, <2>1, <4>3
        <5> QED
          BY <4>1, <4>4, <5>1, LineOrder
      <4>6. i - 1 \in Ended(n)
        <5>1. lines[b - 1].end \in Nat /\ lines[i - 1].end \in Nat /\ state.offset \in Nat
          BY <1>2, <4>1, <4>4, LineFacts
        <5>2. state.offset < lines[b - 1].end
          BY <4>1 DEF Ended
        <5>3. state.offset < lines[i - 1].end
          BY <4>5, <5>1, <5>2
        <5>4. lines[i - 1].end <= state.offset + n
          BY <1>5, <2>1, <4>4, <5>1
        <5> QED
          BY <4>4, <5>3, <5>4 DEF Ended
      <4>7. i = b
        <5>1. i - 1 \in a..(b - 1)
          BY <1>1, <4>6
        <5>2. i - 1 <= b - 1
          BY <5>1
        <5>3. b \in Nat
          BY <1>2
        <5> QED
          BY <2>1, <4>3, <5>2, <5>3
      <4> QED
        BY <1>1, <3>1, <4>1, <4>4, <4>7 DEF RestLength
    <3>2. CASE Ended(n) = {}
      <4>1. Start(i) <= state.offset
        <5>1. CASE i = 1
          BY <1>2, <5>1 DEF Start
        <5>2. CASE i # 1
          <6>1. i - 1 \in DOMAIN lines /\ Start(i) = lines[i - 1].end
            BY <1>2, <2>1, <5>2 DEF Start
          <6>2. i - 1 \notin Ended(n)
            BY <3>2
          <6> QED
            BY <1>2, <1>5, <2>1, <6>1, <6>2 DEF Ended
        <5> QED
          BY <5>1, <5>2
      <4>2. state.offset < lines[i].end
        BY <1>2, <1>5, <2>1
      <4>3. CASE Start(i) = state.offset
        <5>1. AtStart(state.offset)
          BY <1>2, <2>1, <4>3 DEF AtStart, Start
        <5>2. state.len = 0
          BY <1>2, <5>1 DEF AtStart, Sound
        <5> QED
          BY <1>2, <3>2, <4>3, <5>1, <5>2 DEF RestLength, SeenWhole
      <4>4. CASE Start(i) # state.offset
        <5>1. Start(i) < state.offset
          BY <1>2, <2>1, <4>1, <4>4
        <5>2. state.whole = TRUE
          BY <1>5, <4>2, <5>1 DEF Sound
        <5>3. state.len = state.offset - Start(i)
          BY <1>5, <4>2, <5>1 DEF Sound
        <5>4. state.len > 0 /\ state.len + n = state.offset + n - Start(i)
          <6>1. state.offset \in Nat /\ Start(i) \in Nat
            BY <1>2, <2>1
          <6> QED
            BY <5>1, <5>3, <6>1
        <5>5. SeenWhole
          BY <5>2, <5>4 DEF SeenWhole
        <5> QED
          BY <3>2, <5>4, <5>5 DEF RestLength
      <4> QED
        BY <4>3, <4>4
    <3> QED
      BY <3>1, <3>2
  <2> QED
    BY <2>2, <2>3 DEF After
<1> DEFINE c == After(n)
<1>6. c.offset <= size /\ (c.offset = 0 => c.len = 0)
  BY <1>3
<1>7. \A i \in DOMAIN lines : lines[i].end = c.offset => c.len = 0
  BY <1>3, <1>4
<1>8. \A i \in DOMAIN lines :
        (Start(i) < c.offset /\ c.offset < lines[i].end /\ Short(i)) =>
           c.whole = TRUE /\ c.len = c.offset - Start(i)
  <2> SUFFICES ASSUME NEW i \in DOMAIN lines,
                      Start(i) < c.offset, c.offset < lines[i].end, Short(i)
               PROVE  c.whole = TRUE /\ c.len = c.offset - Start(i)
    OBVIOUS
  <2>1. c.offset = state.offset + n
    BY <1>3
  <2>2. After(n).whole = TRUE /\ After(n).len = state.offset + n - Start(i)
    BY <1>5, <2>1
  <2>3. c.whole = TRUE
    BY <2>2
  <2>4. Start(i) \in Nat
    BY <1>2, LineFacts
  <2>5. c.len = c.offset - Start(i)
    BY <1>2, <2>1, <2>2, <2>4
  <2> QED
    BY <2>3, <2>5
<1> HIDE DEF c
<1>9. Sound(c)
  BY <1>6, <1>7, <1>8 DEF Sound
<1> QED
  BY <1>9 DEF c

(* Of the lines that end in a block no event of a short one is missed.      *)
LEMMA TakenHasAll ==
  ASSUME TypeOK, Ordered, Covered, Sound(state),
         NEW n \in Nat, n # 0, state.offset + n <= size,
         NEW i \in Ended(n), Short(i)
  PROVE  \E k \in DOMAIN Taken(n) : Taken(n)[k] = lines[i].ev
<1>1. PICK a, b \in 1..(Len(lines) + 1) :
            /\ Within(state.offset, a) /\ Within(state.offset + n, b)
            /\ a <= b
            /\ Ended(n) = a..(b - 1)
            /\ a < b => FirstOf(Ended(n)) = a /\ LastOf(Ended(n)) = b - 1
  BY BlockLines
<1>2. /\ state.offset \in Nat /\ state.len \in Nat /\ state.whole \in BOOLEAN
      /\ Len(lines) \in Nat /\ DOMAIN lines = 1..Len(lines)
      /\ a \in Nat /\ b \in Nat /\ i \in Nat
      /\ i \in DOMAIN lines /\ Start(i) \in Nat
  <2>1. state.offset \in Nat /\ state.len \in Nat /\ state.whole \in BOOLEAN
    <3>1. state \in Cursors
      BY DEF TypeOK
    <3> QED
      BY <3>1 DEF Cursors
  <2>2. Len(lines) \in Nat /\ DOMAIN lines = 1..Len(lines) /\ i \in DOMAIN lines
    BY LineFacts DEF Ended
  <2>3. a \in Nat /\ b \in Nat /\ i \in Nat /\ i \in 1..(Len(lines) + 1)
    BY <2>2
  <2>4. Start(i) \in Nat
    BY <2>3, LineFacts
  <2> QED
    BY <2>1, <2>2, <2>3, <2>4
<1>3. a <= i /\ i <= b - 1 /\ a < b /\ FirstOf(Ended(n)) = a /\ LastOf(Ended(n)) = b - 1
  BY <1>1, <1>2
<1>4. i = a => SeenWhole
  <2> SUFFICES ASSUME i = a PROVE SeenWhole
    OBVIOUS
  <2>1. Start(i) <= state.offset /\ state.offset < lines[i].end
    BY <1>1, <1>2 DEF Within
  <2>2. CASE Start(i) = state.offset
    <3>1. AtStart(state.offset)
      BY <1>2, <2>2 DEF AtStart, Start
    <3>2. state.len = 0
      BY <1>2, <3>1 DEF AtStart, Sound
    <3> QED
      BY <3>1, <3>2 DEF SeenWhole
  <2>3. CASE Start(i) # state.offset
    <3>1. Start(i) < state.offset
      BY <1>2, <2>1, <2>3
    <3>2. state.whole = TRUE /\ state.len = state.offset - Start(i)
      BY <1>2, <2>1, <3>1 DEF Sound
    <3> QED
      BY <1>2, <3>1, <3>2 DEF SeenWhole
  <2> QED
    BY <2>2, <2>3
<1> DEFINE from == IF Blank(a) THEN a + 1 ELSE a
           m == b - 1 + 1 - from
           k == i + 1 - from
<1>5. Taken(n) = [j \in 1..m |-> EventOf(from + j - 1, a)]
  BY <1>3 DEF Taken
<1>6. from <= i /\ from \in Nat
  <2>1. i = a => ~Blank(a)
    BY <1>4 DEF Blank
  <2> QED
    BY <1>2, <1>3, <2>1
<1>7. k \in 1..m /\ from + k - 1 = i
  BY <1>2, <1>3, <1>6
<1>8. EventOf(i, a) = lines[i].ev
  BY <1>4 DEF EventOf
<1> HIDE DEF from, m, k
<1> QED
  BY <1>5, <1>7, <1>8

-------------------------------------------------------------------------------
(* Facts about the next state that the steps share: the lines as they are,  *)
(* and the saved cursor.                                                    *)
LEMMA FileKept ==
  ASSUME IInv, UNCHANGED lines
  PROVE  Ordered' /\ Covered'
  BY DEF IInv, Ordered, Covered, Within, Start, End

LEMMA SavedKept ==
  ASSUME IInv, UNCHANGED <<lines, size, cursor, stale>>, stored \subseteq stored'
  PROVE  (~stale => Sound(cursor) /\ Has(cursor, stored))'
  BY DEF IInv, Sound, Has, Complete, Short, Start

(* The beginning of a file is a sound cursor, with nothing in front of it.  *)
LEMMA BeginningIsSound ==
  ASSUME TypeOK, Ordered, NEW S
  PROVE  /\ Sound(Beginning) /\ Has(Beginning, S)
         /\ Beginning \in Cursors
<1>1. /\ size \in Nat /\ MaxPartial \in Nat
      /\ \A i \in DOMAIN lines : /\ lines[i].end \in Nat /\ 0 < lines[i].end
                                 /\ Start(i) \in Nat
  BY LineFacts, IngestAssumption DEF Ordered, IngestAssumption
<1>2. Sound(Beginning)
  BY <1>1 DEF Sound, Beginning
<1>3. Has(Beginning, S)
  BY <1>1 DEF Has, Complete, Beginning
<1> QED
  BY <1>1, <1>2, <1>3 DEF Beginning, Cursors

LEMMA InitIInv == Init => IInv
<1> SUFFICES ASSUME Init PROVE IInv
  OBVIOUS
<1> USE IngestAssumption DEF IngestAssumption
<1>1. Beginning \in Cursors
  BY DEF Beginning, Cursors
<1>2. lines \in Lines /\ Len(lines) = 0 /\ DOMAIN lines = {}
  BY DEF Init, Lines
<1>3. End = 0
  BY <1>2 DEF End, Start
<1>4. TypeOK
  <2>1. size \in 0..End /\ Len(lines) <= MaxLines
    BY <1>2, <1>3 DEF Init
  <2>2. todo \in Seq(Events \cup {NoEvent})
    BY DEF Init
  <2>3. reported \in 0..MaxAlerts /\ fails \in 0..MaxFails /\ replaced \in 0..MaxReplaced
    BY DEF Init
  <2>4. stored \subseteq Events /\ exists \in BOOLEAN /\ stale \in BOOLEAN /\ fresh \in BOOLEAN
    BY DEF Init
  <2>5. cursor \in Cursors /\ state \in Cursors /\ pc \in {"idle", "read", "store"}
    BY <1>1 DEF Init
  <2> QED
    BY <1>2, <2>1, <2>2, <2>3, <2>4, <2>5 DEF TypeOK
<1>5. Ordered
  BY <1>2 DEF Ordered
<1>6. Covered
  BY <1>2, <1>3 DEF Covered, Within, Start
<1>7. Sound(cursor) /\ Has(cursor, stored)
  BY <1>4, <1>5, BeginningIsSound DEF Init
<1> QED
  BY <1>4, <1>5, <1>6, <1>7 DEF IInv, Init

LEMMA BeginLineStep ==
  ASSUME IInv, BeginLine
  PROVE  IInv'
<1> USE DEF IInv
<1>1. PICK e \in Events \cup {NoEvent}, n \in Lengths :
        lines' = Append(lines, [ev |-> e, end |-> End + n])
  BY DEF BeginLine
<1> DEFINE new == [ev |-> e, end |-> End + n]
<1>2. /\ n \in Nat /\ 1 < n /\ MaxLines \in Nat
      /\ size = End /\ Len(lines) < MaxLines /\ size' = size + 1
      /\ UNCHANGED <<cursor, stored, pc, state, todo, reported, fails, replaced,
                    stale, fresh>>
      /\ exists' = TRUE
  BY IngestAssumption
     DEF BeginLine, IngestAssumption, scan, history
<1>3. /\ Len(lines) \in Nat /\ DOMAIN lines = 1..Len(lines)
      /\ End \in Nat /\ size \in Nat
      /\ \A i \in DOMAIN lines : lines[i].end \in Nat
      /\ \A i \in 1..(Len(lines) + 1) : Start(i) \in Nat
      /\ End = Start(Len(lines) + 1)
  BY LineFacts
<1>4. new \in LineType /\ lines \in Seq(LineType)
  BY <1>2, <1>3 DEF TypeOK, Lines, LineType
<1> HIDE DEF new
<1>5. /\ lines' \in Seq(LineType)
      /\ Len(lines') = Len(lines) + 1 /\ DOMAIN lines' = 1..(Len(lines) + 1)
      /\ \A i \in DOMAIN lines : lines'[i] = lines[i]
      /\ lines'[Len(lines) + 1] = new
  <2>1. lines' = Append(lines, new)
    BY <1>1 DEF new
  <2> QED
    BY <1>3, <1>4, <2>1, AppendProperties, LenProperties
<1>6. new.end = End + n
  BY DEF new
<1>7. /\ \A i \in 1..(Len(lines) + 1) : Start(i)' = Start(i)
      /\ End' = End + n
  BY <1>3, <1>5, <1>6 DEF Start, End
<1>8. \A i \in DOMAIN lines : lines[i].end <= End
  <2>1. \A i \in DOMAIN lines : lines[i].end <= lines[Len(lines)].end
    BY <1>3, LineOrder
  <2> QED
    BY <1>3, <2>1 DEF Start
<1>9. TypeOK'
  <2>1. size' \in 0..End'
    <3>1. End' = End + n /\ size' = End + 1 /\ End \in Nat /\ n \in Nat /\ 1 < n
      BY <1>2, <1>3, <1>7
    <3> QED
      BY <3>1
  <2>2. lines' \in Lines /\ Len(lines') <= MaxLines
    BY <1>2, <1>3, <1>5 DEF Lines, LineType
  <2> QED
    BY <1>2, <2>1, <2>2 DEF TypeOK
<1>10. Ordered'
  <2>1. ASSUME NEW i \in DOMAIN lines' PROVE 0 < lines'[i].end
    <3>1. i \in DOMAIN lines \/ i = Len(lines) + 1
      BY <1>3, <1>5
    <3>2. 0 < End + n
      BY <1>2, <1>3
    <3> QED
      BY <1>5, <1>6, <3>1, <3>2 DEF Ordered
  <2>2. ASSUME NEW i \in DOMAIN lines', NEW j \in DOMAIN lines', i < j
        PROVE  lines'[i].end < lines'[j].end
    <3>1. CASE j \in DOMAIN lines
      <4>1. i \in DOMAIN lines
        BY <1>3, <1>5, <2>2, <3>1
      <4>2. lines[i].end < lines[j].end
        BY <2>2, <3>1, <4>1 DEF Ordered
      <4> QED
        BY <1>5, <3>1, <4>1, <4>2
    <3>2. CASE j \notin DOMAIN lines
      <4>1. j = Len(lines) + 1 /\ i \in DOMAIN lines
        BY <1>3, <1>5, <2>2, <3>2
      <4>2. lines[i].end <= End /\ lines[i].end \in Nat
        BY <1>3, <1>8, <4>1
      <4> QED
        BY <1>2, <1>3, <1>5, <1>6, <4>1, <4>2
    <3> QED
      BY <3>1, <3>2
  <2> QED
    BY <2>1, <2>2 DEF Ordered
<1>11. Covered'
  <2> SUFFICES ASSUME NEW p \in 0..End'
               PROVE  \E i \in 1..(Len(lines') + 1) : Within(p, i)'
    BY DEF Covered
  <2>1. p \in Nat
    OBVIOUS
  <2>2. CASE p < End
    <3>1. PICK i \in 1..(Len(lines) + 1) : Within(p, i)
      BY <1>3, <2>1, <2>2 DEF Covered
    <3>2. i # Len(lines) + 1
      <4>1. Start(i) <= p
        BY <3>1 DEF Within
      <4> QED
        BY <1>3, <2>1, <2>2, <4>1
    <3>3. i \in DOMAIN lines /\ i \in 1..(Len(lines') + 1)
      BY <1>3, <1>5, <3>2
    <3>4. Start(i)' = Start(i) /\ lines'[i].end = lines[i].end
      BY <1>5, <1>7, <3>3
    <3>5. Within(p, i)'
      BY <1>3, <3>1, <3>3, <3>4 DEF Within
    <3> QED
      BY <3>3, <3>5
  <2>3. PICK m \in Nat : m = Len(lines)
    BY <1>3
  <2>4. m + 1 \in DOMAIN lines' /\ Len(lines') = m + 1 /\ lines'[m + 1].end = End'
    BY <1>5, <1>6, <1>7, <2>3
  <2>5. CASE End <= p /\ p < End'
    <3>1. Start(m + 1)' = End
      BY <1>3, <1>7, <2>3
    <3>2. Within(p, m + 1)'
      BY <2>4, <2>5, <3>1 DEF Within
    <3> QED
      BY <2>4, <3>2
  <2>6. CASE p = End'
    <3>1. Start(m + 2)' = End'
      BY <2>4 DEF Start
    <3>2. Within(p, m + 2)'
      BY <1>2, <1>3, <1>7, <2>4, <2>6, <3>1 DEF Within
    <3> QED
      BY <2>4, <3>2
  <2> QED
    BY <1>2, <1>3, <1>7, <2>1, <2>2, <2>5, <2>6
<1>12. ASSUME NEW c \in Cursors, Sound(c)
       PROVE  /\ c.offset <= size'
              /\ \A i \in DOMAIN lines' : lines'[i].end = c.offset => c.len = 0
              /\ \A i \in DOMAIN lines' :
                   (Start(i)' < c.offset /\ c.offset < lines'[i].end /\ Short(i)') =>
                      c.whole = TRUE /\ c.len = c.offset - Start(i)'
  <2>1. c.offset \in Nat /\ c.offset <= End
    BY <1>2, <1>12 DEF Cursors, Sound
  <2>2. c.offset <= size'
    BY <1>2, <1>3, <2>1
  <2>3. ASSUME NEW i \in DOMAIN lines'
        PROVE  /\ lines'[i].end = c.offset => c.len = 0
               /\ (Start(i)' < c.offset /\ c.offset < lines'[i].end /\ Short(i)') =>
                    c.whole = TRUE /\ c.len = c.offset - Start(i)'
    <3>1. CASE i \in DOMAIN lines
      <4>1. lines'[i].end = lines[i].end /\ Start(i)' = Start(i)
        BY <1>3, <1>5, <1>7, <3>1
      <4>2. Short(i)' <=> Short(i)
        BY <4>1 DEF Short
      <4> QED
        BY <1>12, <3>1, <4>1, <4>2 DEF Sound
    <3>2. CASE i \notin DOMAIN lines
      <4>1. i = Len(lines) + 1 /\ lines'[i].end = End + n /\ Start(i)' = End
        BY <1>3, <1>5, <1>6, <1>7, <3>2
      <4> QED
        BY <1>2, <1>3, <2>1, <4>1
    <3> QED
      BY <3>1, <3>2
  <2> QED
    BY <2>2, <2>3
<1>13. ASSUME NEW c \in Cursors, Sound(c), NEW S, Has(c, S)
       PROVE  \A i \in DOMAIN lines' :
                (lines'[i].end <= c.offset /\ lines'[i].ev # NoEvent /\ Short(i)') =>
                   lines'[i].ev \in S
  <2>1. c.offset \in Nat /\ c.offset <= End
    BY <1>2, <1>13 DEF Cursors, Sound
  <2> SUFFICES ASSUME NEW i \in DOMAIN lines', lines'[i].end <= c.offset,
                      lines'[i].ev # NoEvent, Short(i)'
               PROVE  lines'[i].ev \in S
    OBVIOUS
  <2>2. CASE i \in DOMAIN lines
    <3>1. lines'[i] = lines[i] /\ Start(i)' = Start(i)
      BY <1>3, <1>5, <1>7, <2>2
    <3>2. Short(i)
      BY <3>1 DEF Short
    <3> QED
      BY <1>13, <2>2, <3>1, <3>2 DEF Has, Complete
  <2>3. CASE i \notin DOMAIN lines
    <3>1. lines'[i].end = End + n
      BY <1>3, <1>5, <1>6, <2>3
    <3> QED
      BY <1>2, <1>3, <2>1, <3>1
  <2> QED
    BY <2>2, <2>3
<1>14. cursor \in Cursors /\ state \in Cursors
  BY DEF TypeOK
<1>15. ~stale => Sound(cursor)' /\ Has(cursor, stored)'
  <2> SUFFICES ASSUME ~stale PROVE Sound(cursor)' /\ Has(cursor, stored)'
    OBVIOUS
  <2>1. Sound(cursor)'
    BY <1>2, <1>12, <1>14 DEF Sound
  <2>2. Has(cursor, stored)'
    BY <1>2, <1>13, <1>14 DEF Has, Complete
  <2> QED
    BY <2>1, <2>2
<1>16. (pc = "read" /\ Current) => Sound(state)' /\ Has(state, stored)'
  <2> SUFFICES ASSUME pc = "read", Current PROVE Sound(state)' /\ Has(state, stored)'
    OBVIOUS
  <2>1. Sound(state)'
    BY <1>2, <1>12, <1>14 DEF Sound
  <2>2. Has(state, stored)'
    BY <1>2, <1>13, <1>14 DEF Has, Complete
  <2> QED
    BY <2>1, <2>2
<1>17. (pc = "store" /\ Current) => Sound(state)' /\ Has(state, stored \cup Awaited)'
  <2> SUFFICES ASSUME pc = "store", Current
               PROVE  Sound(state)' /\ Has(state, stored \cup Awaited)'
    OBVIOUS
  <2>1. Sound(state)'
    BY <1>2, <1>12, <1>14 DEF Sound
  <2>2. Awaited' = Awaited
    BY <1>2 DEF Awaited
  <2>3. Has(state, stored \cup Awaited)'
    BY <1>2, <1>13, <1>14, <2>2 DEF Has, Complete
  <2> QED
    BY <2>1, <2>3
<1> QED
  BY <1>2, <1>9, <1>10, <1>11, <1>15, <1>16, <1>17 DEF Current

LEMMA WriteMoreStep ==
  ASSUME IInv, WriteMore
  PROVE  IInv'
<1>1. /\ size' \in (size + 1)..End
      /\ UNCHANGED <<exists, lines, cursor, stored, pc, state, todo, reported, fails,
                    replaced, stale, fresh>>
  BY DEF WriteMore, scan, history
<1>2. size \in Nat /\ End \in Nat
  BY LineFacts DEF IInv
<1>3. size <= size' /\ size' \in 0..End
  BY <1>1, <1>2
<1>4. End' = End
  BY <1>1 DEF End, Start
<1>5. TypeOK'
  BY <1>1, <1>3, <1>4 DEF IInv, TypeOK
<1>6. Ordered' /\ Covered'
  BY <1>1, FileKept
<1>7. cursor \in Cursors /\ state \in Cursors
  BY DEF IInv, TypeOK
<1>8. ASSUME NEW c \in Cursors, Sound(c) PROVE c.offset <= size'
  BY <1>1, <1>2, <1>8 DEF Sound, Cursors
<1>9. ~stale => Sound(cursor)' /\ Has(cursor, stored)'
  BY ZenonT(30), <1>1, <1>7, <1>8 DEF IInv, Sound, Has, Complete, Short, Start
<1>10. (pc = "read" /\ Current) => Sound(state)' /\ Has(state, stored)'
  BY ZenonT(30), <1>1, <1>7, <1>8 DEF IInv, Sound, Has, Complete, Short, Start
<1>11. (pc = "store" /\ Current) => Sound(state)' /\ Has(state, stored \cup Awaited)'
  BY ZenonT(30), <1>1, <1>7, <1>8 DEF IInv, Sound, Has, Complete, Short, Start, Awaited
<1> QED
  BY <1>1, <1>5, <1>6, <1>9, <1>10, <1>11 DEF IInv, Current

LEMMA ReplaceStep ==
  ASSUME IInv, Replace
  PROVE  IInv'
<1>1. /\ exists' \in BOOLEAN /\ lines' = <<>> /\ size' = 0
      /\ replaced < MaxReplaced /\ replaced' = replaced + 1
      /\ stale' = TRUE /\ fresh' = FALSE
      /\ UNCHANGED <<cursor, stored, pc, state, todo, reported, fails>>
  BY DEF Replace, scan
<1>2. lines' \in Lines /\ Len(lines') = 0 /\ DOMAIN lines' = {}
  BY <1>1 DEF Lines
<1>3. End' = 0
  BY <1>2 DEF End, Start
<1>4. TypeOK'
  <2>1. Len(lines') <= MaxLines /\ replaced' \in 0..MaxReplaced
    BY <1>1, <1>2, IngestAssumption DEF IngestAssumption, IInv, TypeOK
  <2>2. size' \in 0..End'
    BY <1>1, <1>3
  <2> QED
    BY <1>1, <1>2, <2>1, <2>2 DEF IInv, TypeOK
<1>5. Ordered' /\ Covered'
  BY <1>1, <1>2, <1>3 DEF Ordered, Covered, Within, Start
<1> QED
  BY <1>1, <1>4, <1>5 DEF IInv, Current

-------------------------------------------------------------------------------
(* The scan leaves the file alone.                                          *)
LEMMA StatStep ==
  ASSUME IInv, Stat
  PROVE  IInv'
<1>1. /\ pc = "idle" /\ pc' = "read"
      /\ state' = IF size < cursor.offset THEN Beginning ELSE cursor
      /\ fresh' = (state' = Beginning)
      /\ UNCHANGED <<exists, lines, size, cursor, stored, todo, reported, fails,
                    replaced, stale>>
  BY DEF Stat, file
<1>2. Beginning \in Cursors /\ Sound(Beginning) /\ Has(Beginning, stored)
  BY BeginningIsSound DEF IInv
<1>3. TypeOK'
  <2>1. state' \in Cursors /\ fresh' \in BOOLEAN
    BY <1>1, <1>2 DEF IInv, TypeOK
  <2>2. End' = End
    BY <1>1 DEF End, Start
  <2> QED
    BY <1>1, <2>1, <2>2 DEF IInv, TypeOK
<1>4. Ordered' /\ Covered'
  BY <1>1, FileKept
<1>5. (~stale => Sound(cursor) /\ Has(cursor, stored))'
  BY <1>1, SavedKept
<1>6. Current' => Sound(state') /\ Has(state', stored)
  <2>1. CASE state' = Beginning
    BY <1>2, <2>1
  <2>2. CASE state' # Beginning
    BY <1>1, <2>2 DEF IInv, Current
  <2> QED
    BY <2>1, <2>2
<1>7. Current' => Sound(state)' /\ Has(state, stored)'
  BY <1>1, <1>6 DEF Sound, Has, Complete, Short, Start
<1> QED
  BY <1>1, <1>3, <1>4, <1>5, <1>7 DEF IInv

LEMMA ReadStep ==
  ASSUME IInv, Read
  PROVE  IInv'
<1> DEFINE n == IF Left > MaxRead THEN MaxRead ELSE Left
<1>1. /\ pc = "read" /\ pc' = "store" /\ reported' = 0
      /\ IF n = 0 THEN UNCHANGED <<state, todo>>
                  ELSE state' = After(n) /\ todo' = Taken(n)
      /\ UNCHANGED <<exists, lines, size, cursor, stored, fails, replaced, stale, fresh>>
  BY DEF Read, file, history
<1>2. /\ state.offset \in Nat /\ size \in Nat
      /\ MaxRead \in Nat /\ MaxRead # 0 /\ MaxAlerts \in Nat
  BY LineFacts, IngestAssumption DEF IngestAssumption, IInv, TypeOK, Cursors
<1>3. n \in Nat /\ (n # 0 => state.offset + n <= size)
  BY <1>2 DEF Left
<1> HIDE DEF n
<1>4. TypeOK /\ Ordered /\ Covered
  BY DEF IInv
<1>5. TypeOK'
  <2>1. state' \in Cursors /\ todo' \in Seq(Events \cup {NoEvent})
    BY <1>1, <1>3, <1>4, BlockRead DEF TypeOK
  <2>2. End' = End
    BY <1>1 DEF End, Start
  <2>3. reported' \in 0..MaxAlerts
    BY <1>1, <1>2
  <2> QED
    BY <1>1, <1>4, <2>1, <2>2, <2>3 DEF TypeOK
<1>6. Ordered' /\ Covered'
  BY <1>1, FileKept
<1>7. (~stale => Sound(cursor) /\ Has(cursor, stored))'
  BY <1>1, SavedKept
<1>8. ASSUME Current
      PROVE  Sound(state') /\ Has(state', stored \cup Awaited')
  <2>1. Sound(state) /\ Has(state, stored) /\ todo = <<>>
    BY <1>1, <1>8 DEF IInv
  <2>2. CASE n = 0
    BY <1>1, <2>1, <2>2 DEF Has
  <2>3. CASE n # 0
    <3>1. Sound(state')
      BY <1>1, <1>3, <1>4, <2>1, <2>3, AfterIsSound
    <3>2. state'.offset = state.offset + n
      BY <1>1, <2>3 DEF After
    <3>3. ASSUME NEW i \in Complete(state'.offset), lines[i].ev # NoEvent, Short(i)
          PROVE  lines[i].ev \in stored \cup Awaited'
      <4>1. i \in DOMAIN lines /\ lines[i].end \in Nat
        BY <1>4, LineFacts DEF Complete
      <4>2. CASE lines[i].end <= state.offset
        BY <2>1, <3>3, <4>1, <4>2 DEF Has, Complete
      <4>3. CASE ~(lines[i].end <= state.offset)
        <5>1. i \in Ended(n)
          BY <1>2, <1>3, <3>2, <3>3, <4>1, <4>3 DEF Ended, Complete
        <5>2. PICK k \in DOMAIN Taken(n) : Taken(n)[k] = lines[i].ev
          BY <1>3, <1>4, <2>1, <2>3, <3>3, <5>1, TakenHasAll
        <5> QED
          BY <1>1, <2>3, <5>2 DEF Awaited
      <4> QED
        BY <4>2, <4>3
    <3> QED
      BY <3>1, <3>3 DEF Has
  <2> QED
    BY <2>2, <2>3
<1>9. (pc = "store" /\ Current)' => Sound(state)' /\ Has(state, stored \cup Awaited)'
  BY <1>1, <1>8 DEF Current, Sound, Has, Complete, Short, Start
<1> QED
  BY <1>1, <1>5, <1>6, <1>7, <1>9 DEF IInv

LEMMA GoneStep ==
  ASSUME IInv, Gone
  PROVE  IInv'
<1>1. /\ pc = "read" /\ pc' = "idle" /\ state' = Beginning
      /\ UNCHANGED <<exists, lines, size, cursor, stored, todo, reported, fails,
                    replaced, stale, fresh>>
  BY DEF Gone, file, history
<1>2. Beginning \in Cursors /\ End' = End
  BY <1>1, BeginningIsSound DEF IInv, End, Start
<1>3. TypeOK'
  BY <1>1, <1>2 DEF IInv, TypeOK
<1>4. Ordered' /\ Covered'
  BY <1>1, FileKept
<1>5. (~stale => Sound(cursor) /\ Has(cursor, stored))'
  BY <1>1, SavedKept
<1> QED
  BY <1>1, <1>3, <1>4, <1>5 DEF IInv

(* The first line of those to store is dealt with: its event, if it has     *)
(* one, is stored now.                                                      *)
LEMMA LineDone ==
  ASSUME IInv, pc = "store", todo # <<>>, todo' = Tail(todo),
         UNCHANGED <<exists, lines, size, cursor, pc, state, fails, replaced, stale,
                     fresh>>,
         reported' \in 0..MaxAlerts,
         stored \subseteq stored', stored' \subseteq Events,
         Head(todo) = NoEvent \/ Head(todo) \in stored'
  PROVE  IInv'
<1>1. /\ todo \in Seq(Events \cup {NoEvent}) /\ Len(todo) \in Nat
      /\ DOMAIN todo = 1..Len(todo)
  BY LenProperties DEF IInv, TypeOK
<1>2. /\ Tail(todo) \in Seq(Events \cup {NoEvent}) /\ Head(todo) = todo[1]
      /\ Len(Tail(todo)) = Len(todo) - 1 /\ Len(todo) # 0
      /\ DOMAIN Tail(todo) = 1..(Len(todo) - 1)
      /\ \A k \in 1..(Len(todo) - 1) : Tail(todo)[k] = todo[k + 1]
  BY <1>1, HeadTailProperties, EmptySeq, LenProperties
<1>3. TypeOK'
  <2>1. End' = End
    BY DEF End, Start
  <2> QED
    BY <1>2, <2>1 DEF IInv, TypeOK
<1>4. Ordered' /\ Covered'
  BY FileKept
<1>5. (~stale => Sound(cursor) /\ Has(cursor, stored))'
  BY SavedKept
<1>6. Awaited \subseteq Awaited' \cup {Head(todo)}
  <2> SUFFICES ASSUME NEW k \in DOMAIN todo
               PROVE  todo[k] \in Awaited' \cup {Head(todo)}
    BY DEF Awaited
  <2>1. CASE k = 1
    BY <1>2, <2>1
  <2>2. CASE k # 1
    <3>1. k - 1 \in DOMAIN todo' /\ todo'[k - 1] = todo[k]
      BY <1>1, <1>2, <2>2
    <3> QED
      BY <3>1 DEF Awaited
  <2> QED
    BY <2>1, <2>2
<1>7. Current => Sound(state) /\ Has(state, stored' \cup Awaited')
  BY <1>6 DEF IInv, Has
<1>8. (pc = "store" /\ Current)' => Sound(state)' /\ Has(state, stored \cup Awaited)'
  BY <1>7 DEF Current, Sound, Has, Complete, Short, Start
<1> QED
  BY <1>3, <1>4, <1>5, <1>8 DEF IInv

LEMMA ReportLineStep ==
  ASSUME IInv, ReportLine
  PROVE  IInv'
<1>1. /\ pc = "store" /\ todo # <<>> /\ Head(todo) = NoEvent /\ todo' = Tail(todo)
      /\ reported' = IF reported < MaxAlerts THEN reported + 1 ELSE reported
      /\ UNCHANGED <<exists, lines, size, cursor, stored, pc, state, fails, replaced,
                    stale, fresh>>
  BY DEF ReportLine, file, history
<1>2. reported' \in 0..MaxAlerts /\ stored' \subseteq Events
  BY <1>1, IngestAssumption DEF IInv, TypeOK, IngestAssumption
<1> QED
  BY <1>1, <1>2, LineDone

LEMMA StoreLineStep ==
  ASSUME IInv, StoreLine
  PROVE  IInv'
<1>1. /\ pc = "store" /\ todo # <<>> /\ Head(todo) # NoEvent /\ todo' = Tail(todo)
      /\ stored' = stored \cup {Head(todo)}
      /\ UNCHANGED <<exists, lines, size, cursor, pc, state, reported, fails, replaced,
                    stale, fresh>>
  BY DEF StoreLine, file, history
<1>2. Head(todo) \in Events \cup {NoEvent}
  BY <1>1, HeadTailProperties DEF IInv, TypeOK
<1>3. reported' \in 0..MaxAlerts /\ stored' \subseteq Events
  BY <1>1, <1>2 DEF IInv, TypeOK
<1> QED
  BY <1>1, <1>3, LineDone

LEMMA SaveStep ==
  ASSUME IInv, Save
  PROVE  IInv'
<1>1. /\ pc = "store" /\ pc' = "idle" /\ todo = <<>>
      /\ cursor' = state /\ state' = Beginning
      /\ stale' = (stale /\ ~fresh)
      /\ UNCHANGED <<exists, lines, size, stored, todo, reported, fails, replaced, fresh>>
  BY DEF Save, file
<1>2. Beginning \in Cursors /\ End' = End
  BY <1>1, BeginningIsSound DEF IInv, End, Start
<1>3. TypeOK'
  BY <1>1, <1>2 DEF IInv, TypeOK
<1>4. Ordered' /\ Covered'
  BY <1>1, FileKept
<1>5. Awaited = {}
  BY <1>1 DEF Awaited
<1>6. ~stale' => Sound(state) /\ Has(state, stored)
  <2> SUFFICES ASSUME ~stale' PROVE Sound(state) /\ Has(state, stored)
    OBVIOUS
  <2>1. Current
    BY <1>1 DEF Current
  <2>2. Sound(state) /\ Has(state, stored \cup Awaited)
    BY <1>1, <2>1 DEF IInv
  <2> QED
    BY <1>5, <2>2 DEF Has
<1>7. ~stale' => Sound(cursor)' /\ Has(cursor, stored)'
  BY <1>1, <1>6 DEF Sound, Has, Complete, Short, Start
<1> QED
  BY <1>1, <1>3, <1>4, <1>7 DEF IInv

LEMMA FailStep ==
  ASSUME IInv, Fail
  PROVE  IInv'
<1>1. /\ pc' = "idle" /\ state' = Beginning /\ todo' = <<>>
      /\ fails < MaxFails /\ fails' = fails + 1
      /\ UNCHANGED <<exists, lines, size, cursor, stored, reported, replaced, stale, fresh>>
  BY DEF Fail, file, history
<1>2. Beginning \in Cursors /\ End' = End /\ fails' \in 0..MaxFails
  BY <1>1, BeginningIsSound, IngestAssumption
     DEF IInv, TypeOK, End, Start, IngestAssumption
<1>3. TypeOK'
  BY <1>1, <1>2 DEF IInv, TypeOK
<1>4. Ordered' /\ Covered'
  BY <1>1, FileKept
<1>5. (~stale => Sound(cursor) /\ Has(cursor, stored))'
  BY <1>1, SavedKept
<1> QED
  BY <1>1, <1>3, <1>4, <1>5 DEF IInv

LEMMA StutterStep ==
  ASSUME IInv, UNCHANGED vars
  PROVE  IInv'
<1>1. UNCHANGED <<exists, lines, size, cursor, stored, pc, state, todo, reported, fails,
                  replaced, stale, fresh>>
  BY DEF vars, file, scan, history
<1>2. Ordered' /\ Covered'
  BY <1>1, FileKept
<1>3. TypeOK'
  BY <1>1 DEF IInv, TypeOK, End, Start
<1>4. (~stale => Sound(cursor) /\ Has(cursor, stored))'
  BY <1>1, SavedKept
<1>5. (pc = "read" /\ Current)' => Sound(state)' /\ Has(state, stored)'
  BY <1>1 DEF IInv, Current, Sound, Has, Complete, Short, Start
<1>6. (pc = "store" /\ Current)' => Sound(state)' /\ Has(state, stored \cup Awaited)'
  BY <1>1 DEF IInv, Current, Sound, Has, Complete, Short, Start, Awaited
<1> QED
  BY <1>1, <1>2, <1>3, <1>4, <1>5, <1>6 DEF IInv

LEMMA NextIInv == IInv /\ [Next]_vars => IInv'
<1> SUFFICES ASSUME IInv, [Next]_vars PROVE IInv'
  OBVIOUS
<1>1. CASE BeginLine
  BY <1>1, BeginLineStep
<1>2. CASE WriteMore
  BY <1>2, WriteMoreStep
<1>3. CASE Replace
  BY <1>3, ReplaceStep
<1>4. CASE Stat
  BY <1>4, StatStep
<1>5. CASE Read
  BY <1>5, ReadStep
<1>6. CASE Gone
  BY <1>6, GoneStep
<1>7. CASE ReportLine
  BY <1>7, ReportLineStep
<1>8. CASE StoreLine
  BY <1>8, StoreLineStep
<1>9. CASE Save
  BY <1>9, SaveStep
<1>10. CASE Fail
  BY <1>10, FailStep
<1>11. CASE UNCHANGED vars
  BY <1>11, StutterStep
<1> QED
  BY <1>1, <1>2, <1>3, <1>4, <1>5, <1>6, <1>7, <1>8, <1>9, <1>10, <1>11 DEF Next, Scan

THEOREM Invariance == Spec => []IInv
  BY InitIInv, NextIInv, PTL DEF Spec

-------------------------------------------------------------------------------
(* Every reachable state of the ingester is well typed.                     *)
THEOREM TypeCorrect == Spec => []TypeOK
<1>1. IInv => TypeOK
  BY DEF IInv
<1> QED
  BY <1>1, Invariance, PTL

(* scanFile loses no event: a complete line that the saved cursor has       *)
(* passed is stored, however the reads cut the lines, whichever statements  *)
(* fail and wherever the daemon dies.                                       *)
THEOREM NoEventLost == Spec => []PassedIsStored
<1>1. IInv => PassedIsStored
  BY DEF IInv, Has, PassedIsStored
<1> QED
  BY <1>1, Invariance, PTL

(* splitCompleteLines and the saved partial line: what is kept of the line  *)
(* the cursor is in is its beginning, and nothing is missing in between.    *)
THEOREM PartialKept == Spec => []PartialIsWhole
<1>1. IInv => PartialIsWhole
  BY DEF IInv, Sound, PartialIsWhole
<1> QED
  BY <1>1, Invariance, PTL
===============================================================================
