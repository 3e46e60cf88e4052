----------------------------- MODULE AgentManager -----------------------------
(***************************************************************************)
(* The runtime life cycle of provider agents: internal/agent/manager.go.   *)
(*                                                                         *)
(* AgentManager keeps one map entry per running provider: the function     *)
(* that cancels the context of that provider's polling goroutine.  Every   *)
(* method takes the mutex only around its map accesses, so a call is a     *)
(* short sequence of atomic sections and the calls of the HTTP handlers,   *)
(* of main and the epilogues of the polling goroutines interleave between  *)
(* them.                                                                   *)
(*                                                                         *)
(* A "run" is one invocation of AgentRunner.Run: its context, its          *)
(* goroutine and the cancel function the map holds for it.  The set Runs   *)
(* bounds how many are ever created.                                       *)
(***************************************************************************)
EXTENDS Naturals, FiniteSets

CONSTANTS Keys,     \* provider keys ("zai", "codex", ...)
          Callers,  \* goroutines that call Start, Stop and StopAll
          Runs,     \* identities of the runs ever created (a bound)
          None      \* no map entry, no argument

ASSUME NoneAssumption == None \notin Runs \cup Keys

VARIABLES factories,   \* keys with a registered factory
          running,     \* m.running: key -> the run its cancel function belongs to
          runState,    \* where each run is in its life
          runKey,      \* the provider key a run polls for
          cancelled,   \* whether the run's context is cancelled
          pc,          \* where each caller is in its call
          arg,         \* the key of a caller's Start
          built,       \* the run a caller's factory has returned
          taken,       \* runs a caller removed from the map and still has to cancel
          overlapped   \* history: keys started while a removed run was unfinished

vars == <<factories, running, runState, runKey, cancelled, pc, arg, built,
          taken, overlapped>>

Unfinished(r) == runState[r] \in {"live", "returned"}

TypeOK ==
  /\ factories \subseteq Keys
  /\ running \in [Keys -> Runs \cup {None}]
  /\ runState \in [Runs -> {"unused", "built", "live", "returned", "done"}]
  /\ runKey \in [Runs -> Keys \cup {None}]
  /\ cancelled \in [Runs -> BOOLEAN]
  /\ pc \in [Callers -> {"idle", "factory", "insert", "cancel"}]
  /\ arg \in [Callers -> Keys \cup {None}]
  /\ built \in [Callers -> Runs \cup {None}]
  /\ taken \in [Callers -> SUBSET Runs]
  /\ overlapped \subseteq Keys

Init ==
  /\ factories = {}
  /\ running = [k \in Keys |-> None]
  /\ runState = [r \in Runs |-> "unused"]
  /\ runKey = [r \in Runs |-> None]
  /\ cancelled = [r \in Runs |-> FALSE]
  /\ pc = [c \in Callers |-> "idle"]
  /\ arg = [c \in Callers |-> None]
  /\ built = [c \in Callers |-> None]
  /\ taken = [c \in Callers |-> {}]
  /\ overlapped = {}

-------------------------------------------------------------------------------
(* RegisterFactory: one write under the mutex. *)
RegisterFactory(k) ==
  /\ k \notin factories
  /\ factories' = factories \cup {k}
  /\ UNCHANGED <<running, runState, runKey, cancelled, pc, arg, built, taken,
                 overlapped>>

(* Start, first critical section.  A Start that finds an entry, or no       *)
(* factory, returns and changes nothing.                                    *)
StartCheck(c, k) ==
  /\ pc[c] = "idle"
  /\ running[k] = None
  /\ k \in factories
  /\ pc' = [pc EXCEPT ![c] = "factory"]
  /\ arg' = [arg EXCEPT ![c] = k]
  /\ UNCHANGED <<factories, running, runState, runKey, cancelled, built, taken,
                 overlapped>>

(* The factory runs without the mutex.  It fails, or returns nil ...        *)
FactoryFail(c) ==
  /\ pc[c] = "factory"
  /\ pc' = [pc EXCEPT ![c] = "idle"]
  /\ arg' = [arg EXCEPT ![c] = None]
  /\ UNCHANGED <<factories, running, runState, runKey, cancelled, built, taken,
                 overlapped>>

(* ... or returns a runner, for which Start makes a fresh context.          *)
FactoryBuild(c, r) ==
  /\ pc[c] = "factory"
  /\ runState[r] = "unused"
  /\ runState' = [runState EXCEPT ![r] = "built"]
  /\ runKey' = [runKey EXCEPT ![r] = arg[c]]
  /\ pc' = [pc EXCEPT ![c] = "insert"]
  /\ built' = [built EXCEPT ![c] = r]
  /\ UNCHANGED <<factories, running, cancelled, arg, taken, overlapped>>

(* Start, second critical section: another Start won, drop the context.     *)
StartLost(c) ==
  /\ pc[c] = "insert"
  /\ running[arg[c]] # None
  /\ runState' = [runState EXCEPT ![built[c]] = "done"]
  /\ cancelled' = [cancelled EXCEPT ![built[c]] = TRUE]
  /\ pc' = [pc EXCEPT ![c] = "idle"]
  /\ arg' = [arg EXCEPT ![c] = None]
  /\ built' = [built EXCEPT ![c] = None]
  /\ UNCHANGED <<factories, running, runKey, taken, overlapped>>

(* A faulty StartInsert: it trusts the check made before the factory ran.   *)
StartInsertUnchecked(c) ==
  LET k == arg[c]
      r == built[c]
  IN /\ pc[c] = "insert"
     /\ running' = [running EXCEPT ![k] = r]
     /\ runState' = [runState EXCEPT ![r] = "live"]
     /\ overlapped' = IF \E q \in Runs : /\ runKey[q] = k
                                         /\ Unfinished(q)
                                         /\ running[k] # q
                        THEN overlapped \cup {k}
                        ELSE overlapped
     /\ pc' = [pc EXCEPT ![c] = "idle"]
     /\ arg' = [arg EXCEPT ![c] = None]
     /\ built' = [built EXCEPT ![c] = None]
     /\ UNCHANGED <<factories, runKey, cancelled, taken>>

(* Start, second critical section: record the cancel function and launch    *)
(* the goroutine.                                                           *)
StartInsert(c) ==
  LET k == arg[c]
      r == built[c]
  IN /\ pc[c] = "insert"
     /\ running[k] = None
     /\ running' = [running EXCEPT ![k] = r]
     /\ runState' = [runState EXCEPT ![r] = "live"]
     /\ overlapped' = IF \E q \in Runs : /\ runKey[q] = k
                                         /\ Unfinished(q)
                                         /\ running[k] # q
                        THEN overlapped \cup {k}
                        ELSE overlapped
     /\ pc' = [pc EXCEPT ![c] = "idle"]
     /\ arg' = [arg EXCEPT ![c] = None]
     /\ built' = [built EXCEPT ![c] = None]
     /\ UNCHANGED <<factories, runKey, cancelled, taken>>

(* runner.Run(ctx) returns: on cancellation, or of its own accord.          *)
RunReturns(r) ==
  /\ runState[r] = "live"
  /\ runState' = [runState EXCEPT ![r] = "returned"]
  /\ UNCHANGED <<factories, running, runKey, cancelled, pc, arg, built, taken,
                 overlapped>>

(* The goroutine's epilogue deletes the entry of its key, whoever's it is.  *)
RunCleanup(r) ==
  /\ runState[r] = "returned"
  /\ runState' = [runState EXCEPT ![r] = "done"]
  /\ running' = [running EXCEPT ![runKey[r]] = None]
  /\ UNCHANGED <<factories, runKey, cancelled, pc, arg, built, taken, overlapped>>

(* A faulty Stop: it leaves the entry of the run it cancels in the map.      *)
StopKeepsEntry(c, k) ==
  /\ pc[c] = "idle"
  /\ running[k] # None
  /\ taken' = [taken EXCEPT ![c] = {running[k]}]
  /\ pc' = [pc EXCEPT ![c] = "cancel"]
  /\ UNCHANGED <<factories, running, runState, runKey, cancelled, arg, built,
                 overlapped>>

(* Stop: the entry goes under the mutex, the cancel comes after the unlock. *)
Stop(c, k) ==
  /\ pc[c] = "idle"
  /\ running[k] # None
  /\ taken' = [taken EXCEPT ![c] = {running[k]}]
  /\ running' = [running EXCEPT ![k] = None]
  /\ pc' = [pc EXCEPT ![c] = "cancel"]
  /\ UNCHANGED <<factories, runState, runKey, cancelled, arg, built, overlapped>>

(* A faulty StopAll: it replaces the map before it has copied the entries.   *)
StopAllClearsFirst(c) ==
  /\ pc[c] = "idle"
  /\ running' = [k \in Keys |-> None]
  /\ UNCHANGED <<factories, runState, runKey, cancelled, pc, arg, built, taken,
                 overlapped>>

(* StopAll: empties the map under the mutex, then cancels one by one.       *)
StopAll(c) ==
  LET live == {running[k] : k \in Keys} \ {None}
  IN /\ pc[c] = "idle"
     /\ live # {}
     /\ taken' = [taken EXCEPT ![c] = live]
     /\ running' = [k \in Keys |-> None]
     /\ pc' = [pc EXCEPT ![c] = "cancel"]
     /\ UNCHANGED <<factories, runState, runKey, cancelled, arg, built,
                    overlapped>>

(* A faulty cancel loop: it ends after the first cancel function.           *)
CancelFirstOnly(c, r) ==
  /\ r \in taken[c]
  /\ cancelled' = [cancelled EXCEPT ![r] = TRUE]
  /\ taken' = [taken EXCEPT ![c] = {}]
  /\ pc' = [pc EXCEPT ![c] = "idle"]
  /\ UNCHANGED <<factories, running, runState, runKey, arg, built, overlapped>>

(* One cancel() of a Stop or StopAll in progress.                           *)
Cancel(c, r) ==
  /\ r \in taken[c]
  /\ cancelled' = [cancelled EXCEPT ![r] = TRUE]
  /\ taken' = [taken EXCEPT ![c] = @ \ {r}]
  /\ pc' = [pc EXCEPT ![c] = IF taken[c] = {r} THEN "idle" ELSE "cancel"]
  /\ UNCHANGED <<factories, running, runState, runKey, arg, built, overlapped>>

-------------------------------------------------------------------------------
CallerStep(c) ==
  \/ \E k \in Keys : StartCheck(c, k) \/ Stop(c, k)
  \/ FactoryFail(c)
  \/ \E r \in Runs : FactoryBuild(c, r) \/ Cancel(c, r)
  \/ StartLost(c)
  \/ StartInsert(c)
  \/ StopAll(c)

RunStep(r) == RunReturns(r) \/ RunCleanup(r)

Next ==
  \/ \E k \in Keys : RegisterFactory(k)
  \/ \E c \in Callers : CallerStep(c)
  \/ \E r \in Runs : RunStep(r)

Spec == Init /\ [][Next]_vars

(* What the Go scheduler gives: a call that has begun goes on, a cancelled  *)
(* Run returns (every agent selects on ctx.Done and fetches with ctx) and   *)
(* its goroutine finishes.  Nobody has to call anything.                    *)
Fairness ==
  /\ \A c \in Callers, r \in Runs : WF_vars(Cancel(c, r))
  /\ \A r \in Runs : /\ WF_vars(cancelled[r] /\ RunReturns(r))
                     /\ WF_vars(RunCleanup(r))

FairSpec == Spec /\ Fairness

-------------------------------------------------------------------------------
(* What IsRunning reports is true: the run whose cancel function the map    *)
(* holds polls for that key, its goroutine has not finished its epilogue    *)
(* and nobody has cancelled it or is about to.  A Start that returns early  *)
(* because of the entry therefore leaves a live agent behind.               *)
RegisteredRunIsLive ==
  \A k \in Keys, r \in Runs :
    running[k] = r => /\ runKey[r] = k
                      /\ Unfinished(r)
                      /\ ~cancelled[r]
                      /\ \A c \in Callers : r \notin taken[c]

(* A run can be cancelled: it is in the map, where Stop and StopAll find    *)
(* it, or a call that found it is about to cancel it.                       *)
Reachable(r) ==
  \/ cancelled[r]
  \/ running[runKey[r]] = r
  \/ \E c \in Callers : r \in taken[c]

(* As long as a key was never started while a removed run of it was still   *)
(* finishing, at most one run of the key exists and the manager can cancel  *)
(* it, unless it is already on its way out.                                 *)
NoOrphanWithoutOverlap ==
  \A r \in Runs :
    (Unfinished(r) /\ runKey[r] \notin overlapped) =>
      /\ \A q \in Runs : (Unfinished(q) /\ runKey[q] = runKey[r]) => q = r
      /\ Reachable(r)

(* The map forgets a run in exactly three ways: a Stop or StopAll takes it  *)
(* and owes it a cancel, its own goroutine ends, or the goroutine of an     *)
(* earlier run of the same key ends.                                        *)
ForgetsRun(r) ==
  running[runKey[r]] = r /\ running'[runKey[r]] # r

EndsNow(r) == runState[r] = "returned" /\ runState'[r] = "done"

EntryLeavesFor ==
  \A r \in Runs :
    (runKey[r] # None /\ ForgetsRun(r)) =>
      \/ \E c \in Callers : r \in taken'[c]
      \/ \E q \in Runs : runKey[q] = runKey[r] /\ EndsNow(q)

EntryLeavesOnlyFor == [][EntryLeavesFor]_vars

(* Stop and StopAll do what they say for what they take: the run ends.      *)
TakenRunEnds ==
  \A r \in Runs : (\E c \in Callers : r \in taken[c]) ~> runState[r] = "done"

(* manager.go:59, "Start starts a provider agent if not already running":   *)
(* a provider never has two runs nobody has asked to stop.                  *)
OneRunPerKey ==
  \A q, r \in Runs :
    (/\ Unfinished(q) /\ ~cancelled[q] /\ \A c \in Callers : q \notin taken[c]
     /\ Unfinished(r) /\ ~cancelled[r] /\ \A c \in Callers : r \notin taken[c]
     /\ runKey[q] = runKey[r]) => q = r

===============================================================================
