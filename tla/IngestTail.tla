------------------------------- MODULE IngestTail -------------------------------
(***************************************************************************)
(* The API integrations ingester (internal/agent/                          *)
(* api_integrations_ingest_agent.go) tailing one file: scripts append      *)
(* lines to it, a scan every five seconds reads at most a block from where *)
(* the last one ended, stores the events of the lines that are complete,   *)
(* and saves how far it came and the text of the line it has begun.        *)
(*                                                                         *)
(* The cursor is saved after the events are stored: a scan that fails or   *)
(* dies in between is done again, and the unique fingerprint of an event   *)
(* keeps it from being stored twice.  Meanwhile scripts write, in pieces   *)
(* that need not be lines, and the file may be truncated or renamed.       *)
(*                                                                         *)
(* A line is its event, or none if it does not parse, and where in the     *)
(* file it ends; a line the reader has lost the beginning of does not      *)
(* parse.  Events of equal fingerprint are one event.                      *)
(***************************************************************************)
EXTENDS Naturals, Sequences

CONSTANTS Events,        \* events, by fingerprint
          NoEvent,       \* what a line that does not parse holds
          Lengths,       \* lengths of lines, with their newline
          MaxRead,       \* apiIntegrationIngestMaxReadBytes
          MaxPartial,    \* MaxIngestPartialLineBytes
          MaxAlerts,     \* apiIntegrationIngestMaxInvalidAlertsPerFilePerScan
          MaxLines,      \* bound on the lines of a file
          MaxFails,      \* bound on the scans that fail or die
          MaxReplaced    \* bound on truncations and renames

ASSUME IngestAssumption ==
  /\ NoEvent \notin Events
  /\ Lengths \subseteq Nat \ {0, 1}  \* a character and the newline, at least
  /\ MaxRead \in Nat \ {0} /\ MaxPartial \in Nat /\ MaxAlerts \in Nat
  /\ MaxLines \in Nat /\ MaxFails \in Nat /\ MaxReplaced \in Nat

VARIABLES
  exists, lines, size,  \* the file: its lines, the last one maybe in writing
  cursor,               \* the row of api_integration_ingest_state
  stored,               \* the fingerprints in api_integration_usage_events
  pc, state, todo,      \* a scan: where it is, its state, the lines to store
  reported,             \* alerts it has made
  fails, replaced,
  stale, fresh          \* history: the file was replaced and the cursor is not
                        \* from after that; but the scan is

file == <<exists, lines, size>>
scan == <<pc, state, todo, reported>>
history == <<stale, fresh>>
vars == <<file, cursor, stored, scan, fails, replaced, history>>

(* partial.len characters are kept of a line that is not complete; whole:   *)
(* they are its beginning.                                                  *)
Beginning == [offset |-> 0, len |-> 0, whole |-> TRUE]

Init ==
  /\ exists = FALSE /\ lines = <<>> /\ size = 0
  /\ cursor = Beginning
  /\ stored = {}
  /\ pc = "idle" /\ state = Beginning /\ todo = <<>> /\ reported = 0
  /\ fails = 0 /\ replaced = 0
  /\ stale = FALSE /\ fresh = FALSE

Start(i) == IF i = 1 THEN 0 ELSE lines[i - 1].end
End == Start(Len(lines) + 1)

(* The lines that are complete up to position n.                            *)
Complete(n) == {i \in DOMAIN lines : lines[i].end <= n}

-------------------------------------------------------------------------------
(* A script begins a line, of which the first character is on disk ...      *)
BeginLine ==
  /\ size = End /\ Len(lines) < MaxLines
  /\ exists' = TRUE
  /\ \E e \in Events \cup {NoEvent}, n \in Lengths :
       lines' = Append(lines, [ev |-> e, end |-> End + n])
  /\ size' = size + 1
  /\ UNCHANGED <<cursor, stored, scan, fails, replaced, history>>

(* ... and more of it, and the newline at last.                             *)
WriteMore ==
  /\ size < End
  /\ size' \in (size + 1)..End
  /\ UNCHANGED <<exists, lines, cursor, stored, scan, fails, replaced, history>>

(* The file is truncated, or moved away for the script to create a new one. *)
Replace ==
  /\ exists /\ replaced < MaxReplaced
  /\ replaced' = replaced + 1
  /\ exists' \in BOOLEAN /\ lines' = <<>> /\ size' = 0
  /\ stale' = TRUE /\ fresh' = FALSE
  /\ UNCHANGED <<cursor, stored, scan, fails>>

-------------------------------------------------------------------------------
(* A faulty stat: a file that shrank is not noticed.                        *)
StatShrunk ==
  /\ pc = "idle" /\ exists
  /\ pc' = "read" /\ state' = cursor /\ fresh' = (cursor = Beginning)
  /\ UNCHANGED <<file, cursor, stored, todo, reported, fails, replaced, stale>>

(* scanFile: os.Stat and the saved state; a file shorter than the cursor is *)
(* read from the beginning.                                                 *)
Stat ==
  /\ pc = "idle" /\ exists
  /\ pc' = "read"
  /\ state' = IF size < cursor.offset THEN Beginning ELSE cursor
  /\ fresh' = (state' = Beginning)
  /\ UNCHANGED <<file, cursor, stored, todo, reported, fails, replaced, stale>>

(* splitCompleteLines, of n characters behind the partial line: the lines   *)
(* that end there ...                                                       *)
Ended(n) ==
  {i \in DOMAIN lines : state.offset < lines[i].end /\ lines[i].end <= state.offset + n}

FirstOf(S) == CHOOSE i \in S : \A j \in S : i <= j
LastOf(S) == CHOOSE i \in S : \A j \in S : j <= i

AtStart(p) == p = 0 \/ \E i \in DOMAIN lines : lines[i].end = p

(* ... of which the first may have lost its beginning ...                   *)
SeenWhole == IF state.len > 0 THEN state.whole ELSE AtStart(state.offset)

(* ... and the rest, the new partial line, which is dropped if it is long.  *)
RestLength(n) ==
  IF Ended(n) = {} THEN state.len + n
                   ELSE state.offset + n - lines[LastOf(Ended(n))].end

(* A faulty rest: what was read before is not in front of it.               *)
AfterForgetful(n) ==
  LET len == IF Ended(n) = {} THEN n ELSE RestLength(n)
  IN IF len \in 1..MaxPartial
       THEN [offset |-> state.offset + n, len |-> len,
             whole |-> Ended(n) # {} \/ (state.len = 0 /\ SeenWhole)]
       ELSE [offset |-> state.offset + n, len |-> 0, whole |-> TRUE]

After(n) ==
  IF RestLength(n) \in 1..MaxPartial
    THEN [offset |-> state.offset + n, len |-> RestLength(n),
          whole |-> Ended(n) # {} \/ SeenWhole]
    ELSE [offset |-> state.offset + n, len |-> 0, whole |-> TRUE]

(* The lines to store, in their order.  One that has lost its beginning     *)
(* does not parse; if only its newline is left it is blank, and skipped.    *)
Blank(i) == ~SeenWhole /\ state.len = 0 /\ lines[i].end = state.offset + 1
EventOf(i, first) == IF i = first /\ ~SeenWhole THEN NoEvent ELSE lines[i].ev

Taken(n) ==
  LET first == FirstOf(Ended(n))
      from == IF Blank(first) THEN first + 1 ELSE first
  IN IF Ended(n) = {} THEN <<>>
     ELSE [k \in 1..(LastOf(Ended(n)) + 1 - from) |-> EventOf(from + k - 1, first)]

(* Open, seek and read at most a block.  A file that is gone by now is an   *)
(* error.                                                                   *)
Left == IF size > state.offset THEN size - state.offset ELSE 0

Read ==
  /\ pc = "read" /\ exists
  /\ LET n == IF Left > MaxRead THEN MaxRead ELSE Left
     IN IF n = 0 THEN UNCHANGED <<state, todo>>
                 ELSE state' = After(n) /\ todo' = Taken(n)
  /\ pc' = "store" /\ reported' = 0
  /\ UNCHANGED <<file, cursor, stored, fails, replaced, history>>

Gone ==
  /\ pc = "read" /\ ~exists
  /\ pc' = "idle" /\ state' = Beginning
  /\ UNCHANGED <<file, cursor, stored, todo, reported, fails, replaced, history>>

(* An invalid line is reported, up to so many in a scan; failing to report  *)
(* it is only logged.                                                       *)
ReportLine ==
  /\ pc = "store" /\ todo # <<>> /\ Head(todo) = NoEvent
  /\ todo' = Tail(todo)
  /\ reported' = IF reported < MaxAlerts THEN reported + 1 ELSE reported
  /\ UNCHANGED <<file, cursor, stored, pc, state, fails, replaced, history>>

(* InsertAPIIntegrationUsageEvent, for which a duplicate is no error.       *)
StoreLine ==
  /\ pc = "store" /\ todo # <<>> /\ Head(todo) # NoEvent
  /\ todo' = Tail(todo)
  /\ stored' = stored \cup {Head(todo)}
  /\ UNCHANGED <<file, cursor, pc, state, reported, fails, replaced, history>>

(* A faulty end: the cursor is saved before the events.                     *)
SaveEarly ==
  /\ pc = "store"
  /\ cursor' = state
  /\ IF todo = <<>>
       THEN pc' = "idle" /\ state' = Beginning /\ stale' = (stale /\ ~fresh)
       ELSE UNCHANGED <<pc, state, stale>>
  /\ UNCHANGED <<file, stored, todo, reported, fails, replaced, fresh>>

(* UpsertAPIIntegrationIngestState.                                         *)
Save ==
  /\ pc = "store" /\ todo = <<>>
  /\ cursor' = state
  /\ pc' = "idle" /\ state' = Beginning
  /\ stale' = (stale /\ ~fresh)
  /\ UNCHANGED <<file, stored, todo, reported, fails, replaced, fresh>>

(* A statement fails, or the daemon dies: the cursor stays where it was.    *)
Fail ==
  /\ pc # "idle" /\ fails < MaxFails
  /\ fails' = fails + 1
  /\ pc' = "idle" /\ state' = Beginning /\ todo' = <<>>
  /\ UNCHANGED <<file, cursor, stored, reported, replaced, history>>

Scan == Stat \/ Read \/ Gone \/ ReportLine \/ StoreLine \/ Save

Next == BeginLine \/ WriteMore \/ Replace \/ Scan \/ Fail

Spec == Init /\ [][Next]_vars

(* Run scans at every tick, and a scan runs to its end; nobody has to write *)
(* anything, and the failures are not for ever.                             *)
FairSpec == Spec /\ WF_vars(Scan)

-------------------------------------------------------------------------------
Lines == Seq([ev : Events \cup {NoEvent}, end : Nat])
Cursors == [offset : Nat, len : 0..MaxPartial, whole : BOOLEAN]

TypeOK ==
  /\ exists \in BOOLEAN /\ size \in 0..End
  /\ lines \in Lines /\ Len(lines) <= MaxLines
  /\ cursor \in Cursors /\ state \in Cursors
  /\ stored \subseteq Events
  /\ pc \in {"idle", "read", "store"}
  /\ todo \in Seq(Events \cup {NoEvent})
  /\ reported \in 0..MaxAlerts
  /\ fails \in 0..MaxFails /\ replaced \in 0..MaxReplaced
  /\ stale \in BOOLEAN /\ fresh \in BOOLEAN

(* Lines that the limit on partial lines leaves alone.                      *)
Short(i) == lines[i].end - Start(i) - 1 <= MaxPartial

(* No event is lost: whatever pieces the lines come in, however the reads   *)
(* cut them, and whichever scans fail or die, a complete line that the      *)
(* cursor has passed is stored - unless it is longer than a partial line    *)
(* may be, or the file was replaced and nobody noticed yet.                 *)
PassedIsStored ==
  ~stale => \A i \in Complete(cursor.offset) :
              lines[i].ev # NoEvent /\ Short(i) => lines[i].ev \in stored

(* The text that is kept is that of the line the cursor is in: whole unless *)
(* the line is too long.                                                    *)
PartialIsWhole ==
  ~stale => \A i \in DOMAIN lines :
              (Start(i) < cursor.offset /\ cursor.offset < lines[i].end /\ Short(i)) =>
                 cursor.whole /\ cursor.len = cursor.offset - Start(i)

(* An event that is written is stored in the end, unless its file is moved  *)
(* away before; in the file that replaces it as well, unless that has       *)
(* outgrown the cursor before a scan saw it.                                *)
Written(i, e) == i \in Complete(size) /\ lines[i].ev = e /\ Short(i)

EventuallyStored ==
  \A i \in 1..MaxLines, e \in Events :
    Written(i, e) ~> (e \in stored \/ ~Written(i, e) \/ (stale /\ size >= cursor.offset))

(* docs/API_INTEGRATIONS_SETUP.md:239-243, of a file that was moved away    *)
(* and created anew: "onWatch will treat the new file as a new ingest       *)
(* source".                                                                 *)
NewFileIsNewSource ==
  pc = "idle" /\ exists /\ cursor.offset = size =>
    \A i \in Complete(size) :
      lines[i].ev # NoEvent /\ Short(i) => lines[i].ev \in stored
=================================================================================
