-------------------------------- MODULE CycleLog --------------------------------
(***************************************************************************)
(* What a table of reset cycles promises to its readers (the histories and *)
(* summaries of internal/tracker, the dashboards): the cycles of a quota   *)
(* are entered one after the other, none starts before the one before it   *)
(* has ended, only the newest can be open, the statistics of an open cycle *)
(* only grow, and a cycle that has ended never changes.                    *)
(*                                                                         *)
(* The tables and queries are those of internal/store; the trackers that   *)
(* write them are shown to implement this specification.                   *)
(***************************************************************************)
EXTENDS Naturals, Sequences

CONSTANTS Times,    \* instants
          Null      \* the end of an open cycle

(* Times is a set of naturals that does not hold Null, whoever instantiates *)
(* this module.                                                             *)

VARIABLE log        \* the cycles of one quota, in the order of their ids

Entry == [start : Times, end : Times \cup {Null}, peak : Nat, delta : Nat]

Newest(s) == s[Len(s)]

IsOpen(s) == s # <<>> /\ Newest(s).end = Null

(* Entry f is entry e later in the life of the same cycle.                  *)
Grown(e, f) ==
  /\ f \in Entry
  /\ f.start = e.start
  /\ f.peak >= e.peak
  /\ f.delta >= e.delta

(* s holds the first n cycles of log as they are.                           *)
Keeps(s, n) == \A i \in 1..n : s[i] = log[i]

Init == log = <<>>

(* A cycle is entered, open, after the last one has ended.                  *)
Open ==
  /\ ~IsOpen(log)
  /\ Len(log') = Len(log) + 1 /\ Keeps(log', Len(log))
  /\ Newest(log') \in Entry /\ Newest(log').end = Null
  /\ log # <<>> => Newest(log).end <= Newest(log').start

(* The open cycle goes on, or ends.                                         *)
Write ==
  /\ IsOpen(log)
  /\ Len(log') = Len(log) /\ Keeps(log', Len(log) - 1)
  /\ Grown(Newest(log), Newest(log'))

(* The open cycle ends and the next is entered.                             *)
Roll ==
  /\ IsOpen(log)
  /\ Len(log') = Len(log) + 1 /\ Keeps(log', Len(log) - 1)
  /\ LET e == log'[Len(log)]
         f == Newest(log')
     IN /\ Grown(Newest(log), e) /\ f \in Entry
        /\ e.end # Null /\ f.end = Null
        /\ e.end <= f.start

Next == Open \/ Write \/ Roll

Spec == Init /\ [][Next]_log
=================================================================================
