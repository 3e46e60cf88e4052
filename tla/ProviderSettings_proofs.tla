------------------------ MODULE ProviderSettings_proofs ------------------------
(***************************************************************************)
(* Safety of AgentManager, for every set of keys, callers and runs, and of *)
(* ProviderSettings, which drives it, for every set of providers, accounts *)
(* and requests.                                                           *)
(*                                                                         *)
(* The manager.  RegisteredRunIsLive is not inductive: StartInsert         *)
(* registers the run the factory returned, so one has to know that this    *)
(* run is fresh - built for the key the caller is starting, uncancelled,   *)
(* in nobody's hands and not the run of another caller as well.  BuiltRuns *)
(* and TakenRuns say so.                                                   *)
(*                                                                         *)
(* The settings.  Every step is a step of the manager or leaves it alone   *)
(* (AgentStep), so that its invariants hold here as well.                  *)
(*  - SwitchKept: a toggle writes back a map it read a while ago, so every *)
(*    map that was read has to agree with what was asked (DraftsFresh).    *)
(*  - RunsEndAtClose: after StopAll whatever enters the map is late        *)
(*    (EntriesLate), and main is done cancelling when it closes.           *)
(*  - OnIsPolled: a provider that is on is polled or somebody has yet to   *)
(*    start it (OnIsPursued), nobody has yet to stop it (NoneToStop), which *)
(*    a second request at the provider could (OneAtEach).                  *)
(***************************************************************************)
EXTENDS ProviderSettings, TLAPS

(* The run a Start is about to register.                                   *)
BuiltRuns ==
  /\ \A c \in Callers :
       pc[c] = "insert" =>
         /\ built[c] \in Runs
         /\ arg[c] \in Keys
         /\ runState[built[c]] = "built"
         /\ runKey[built[c]] = arg[c]
         /\ \A d \in Callers :
              (pc[d] = "insert" /\ built[d] = built[c]) => d = c
  /\ \A c \in Callers : pc[c] = "factory" => arg[c] \in Keys
  /\ \A r \in Runs : runState[r] \in {"unused", "built"} => ~cancelled[r]

(* The runs Stop and StopAll hold were registered, hence launched; a call   *)
(* holds none before it begins.                                             *)
TakenRuns ==
  \A c \in Callers :
    /\ taken[c] # {} <=> pc[c] = "cancel"
    /\ \A r \in taken[c] : runState[r] \in {"live", "returned", "done"}

(* A run is made for a key, so its epilogue deletes the entry of a key.     *)
RunsHaveKeys == \A r \in Runs : runState[r] # "unused" => runKey[r] \in Keys

IInv ==
  /\ TypeOK
  /\ RegisteredRunIsLive
  /\ BuiltRuns
  /\ TakenRuns
  /\ RunsHaveKeys

-------------------------------------------------------------------------------
LEMMA InitIInv == Init => IInv
  BY NoneAssumption
  DEF Init, IInv, TypeOK, RegisteredRunIsLive, BuiltRuns, TakenRuns,
      RunsHaveKeys, Unfinished

LEMMA NextIInv == IInv /\ [Next]_vars => IInv'
<1> SUFFICES ASSUME IInv, [Next]_vars PROVE IInv'
  OBVIOUS
<1> USE NoneAssumption
<1>1. ASSUME NEW k \in Keys, RegisterFactory(k) PROVE IInv'
  BY <1>1 DEF IInv, RegisterFactory, TypeOK, RegisteredRunIsLive, BuiltRuns,
              TakenRuns, RunsHaveKeys, Unfinished
<1>2. ASSUME NEW c \in Callers, NEW k \in Keys, StartCheck(c, k) PROVE IInv'
  BY <1>2 DEF IInv, StartCheck, TypeOK, RegisteredRunIsLive, BuiltRuns,
              TakenRuns, RunsHaveKeys, Unfinished
<1>3. ASSUME NEW c \in Callers, FactoryFail(c) PROVE IInv'
  BY <1>3 DEF IInv, FactoryFail, TypeOK, RegisteredRunIsLive, BuiltRuns,
              TakenRuns, RunsHaveKeys, Unfinished
<1>4. ASSUME NEW c \in Callers, NEW r \in Runs, FactoryBuild(c, r) PROVE IInv'
  BY <1>4 DEF IInv, FactoryBuild, TypeOK, RegisteredRunIsLive, BuiltRuns,
              TakenRuns, RunsHaveKeys, Unfinished
<1>5. ASSUME NEW c \in Callers, StartLost(c) PROVE IInv'
  BY <1>5 DEF IInv, StartLost, TypeOK, RegisteredRunIsLive, BuiltRuns,
              TakenRuns, RunsHaveKeys, Unfinished
<1>6. ASSUME NEW c \in Callers, StartInsert(c) PROVE IInv'
  BY <1>6 DEF IInv, StartInsert, TypeOK, RegisteredRunIsLive, BuiltRuns,
              TakenRuns, RunsHaveKeys, Unfinished
<1>7. ASSUME NEW r \in Runs, RunReturns(r) PROVE IInv'
  BY <1>7 DEF IInv, RunReturns, TypeOK, RegisteredRunIsLive, BuiltRuns,
              TakenRuns, RunsHaveKeys, Unfinished
<1>8. ASSUME NEW r \in Runs, RunCleanup(r) PROVE IInv'
  BY <1>8 DEF IInv, RunCleanup, TypeOK, RegisteredRunIsLive, BuiltRuns,
              TakenRuns, RunsHaveKeys, Unfinished
<1>9. ASSUME NEW c \in Callers, NEW k \in Keys, Stop(c, k) PROVE IInv'
  BY <1>9 DEF IInv, Stop, TypeOK, RegisteredRunIsLive, BuiltRuns,
              TakenRuns, RunsHaveKeys, Unfinished
<1>10. ASSUME NEW c \in Callers, StopAll(c) PROVE IInv'
  BY <1>10 DEF IInv, StopAll, TypeOK, RegisteredRunIsLive, BuiltRuns,
               TakenRuns, RunsHaveKeys, Unfinished
<1>11. ASSUME NEW c \in Callers, NEW r \in Runs, Cancel(c, r) PROVE IInv'
  BY <1>11 DEF IInv, Cancel, TypeOK, RegisteredRunIsLive, BuiltRuns,
               TakenRuns, RunsHaveKeys, Unfinished
<1>12. CASE UNCHANGED vars
  BY <1>12 DEF IInv, vars, TypeOK, RegisteredRunIsLive, BuiltRuns, TakenRuns,
               RunsHaveKeys, Unfinished
<1> QED
  BY <1>1, <1>2, <1>3, <1>4, <1>5, <1>6, <1>7, <1>8, <1>9, <1>10, <1>11, <1>12
  DEF Next, CallerStep, RunStep

LEMMA Inductive == Spec => []IInv
  BY InitIInv, NextIInv, PTL DEF Spec

(* NoOrphanWithoutOverlap is inductive relative to IInv: while a key is not *)
(* in overlapped, its next run is inserted only when no other is unfinished, *)
(* so the epilogue that deletes the key's entry can only be that run's own.  *)
LEMMA NextNoOrphan ==
  IInv /\ NoOrphanWithoutOverlap /\ [Next]_vars => NoOrphanWithoutOverlap'
<1> SUFFICES ASSUME IInv, NoOrphanWithoutOverlap, [Next]_vars
             PROVE  NoOrphanWithoutOverlap'
  OBVIOUS
<1> USE NoneAssumption DEF IInv
<1>1. ASSUME NEW k \in Keys, RegisterFactory(k) PROVE NoOrphanWithoutOverlap'
  BY <1>1 DEF RegisterFactory, TypeOK, RegisteredRunIsLive, BuiltRuns,
        TakenRuns, RunsHaveKeys, Unfinished, NoOrphanWithoutOverlap, Reachable
<1>2. ASSUME NEW c \in Callers, NEW k \in Keys, StartCheck(c, k) PROVE NoOrphanWithoutOverlap'
  BY <1>2 DEF StartCheck, TypeOK, RegisteredRunIsLive, BuiltRuns,
        TakenRuns, RunsHaveKeys, Unfinished, NoOrphanWithoutOverlap, Reachable
<1>3. ASSUME NEW c \in Callers, FactoryFail(c) PROVE NoOrphanWithoutOverlap'
  BY <1>3 DEF FactoryFail, TypeOK, RegisteredRunIsLive, BuiltRuns,
        TakenRuns, RunsHaveKeys, Unfinished, NoOrphanWithoutOverlap, Reachable
<1>4. ASSUME NEW c \in Callers, NEW r \in Runs, FactoryBuild(c, r) PROVE NoOrphanWithoutOverlap'
  BY <1>4 DEF FactoryBuild, TypeOK, RegisteredRunIsLive, BuiltRuns,
        TakenRuns, RunsHaveKeys, Unfinished, NoOrphanWithoutOverlap, Reachable
<1>5. ASSUME NEW c \in Callers, StartLost(c) PROVE NoOrphanWithoutOverlap'
  BY <1>5 DEF StartLost, TypeOK, RegisteredRunIsLive, BuiltRuns,
        TakenRuns, RunsHaveKeys, Unfinished, NoOrphanWithoutOverlap, Reachable
<1>6. ASSUME NEW c \in Callers, StartInsert(c) PROVE NoOrphanWithoutOverlap'
  BY <1>6 DEF StartInsert, TypeOK, RegisteredRunIsLive, BuiltRuns,
        TakenRuns, RunsHaveKeys, Unfinished, NoOrphanWithoutOverlap, Reachable
<1>7. ASSUME NEW r \in Runs, RunReturns(r) PROVE NoOrphanWithoutOverlap'
  BY <1>7 DEF RunReturns, TypeOK, RegisteredRunIsLive, BuiltRuns,
        TakenRuns, RunsHaveKeys, Unfinished, NoOrphanWithoutOverlap, Reachable
<1>8. ASSUME NEW r \in Runs, RunCleanup(r) PROVE NoOrphanWithoutOverlap'
  BY <1>8 DEF RunCleanup, TypeOK, RegisteredRunIsLive, BuiltRuns,
        TakenRuns, RunsHaveKeys, Unfinished, NoOrphanWithoutOverlap, Reachable
<1>9. ASSUME NEW c \in Callers, NEW k \in Keys, Stop(c, k) PROVE NoOrphanWithoutOverlap'
  BY <1>9 DEF Stop, TypeOK, RegisteredRunIsLive, BuiltRuns,
        TakenRuns, RunsHaveKeys, Unfinished, NoOrphanWithoutOverlap, Reachable
<1>10. ASSUME NEW c \in Callers, StopAll(c) PROVE NoOrphanWithoutOverlap'
  BY <1>10 DEF StopAll, TypeOK, RegisteredRunIsLive, BuiltRuns,
        TakenRuns, RunsHaveKeys, Unfinished, NoOrphanWithoutOverlap, Reachable
<1>11. ASSUME NEW c \in Callers, NEW r \in Runs, Cancel(c, r) PROVE NoOrphanWithoutOverlap'
  BY <1>11 DEF Cancel, TypeOK, RegisteredRunIsLive, BuiltRuns,
        TakenRuns, RunsHaveKeys, Unfinished, NoOrphanWithoutOverlap, Reachable
<1>12. CASE UNCHANGED vars
  BY <1>12 DEF vars, TypeOK, RegisteredRunIsLive, BuiltRuns,
        TakenRuns, RunsHaveKeys, Unfinished, NoOrphanWithoutOverlap, Reachable
<1> QED
  BY <1>1, <1>2, <1>3, <1>4, <1>5, <1>6, <1>7, <1>8, <1>9, <1>10, <1>11, <1>12
  DEF Next, CallerStep, RunStep

(* An entry that goes is taken by a Stop or StopAll or deleted by an         *)
(* epilogue of the same key; no step re-keys or overwrites one.              *)
LEMMA StepEntryLeavesFor == IInv /\ [Next]_vars => [EntryLeavesFor]_vars
<1> SUFFICES ASSUME IInv, [Next]_vars PROVE EntryLeavesFor \/ UNCHANGED vars
  OBVIOUS
<1> USE NoneAssumption DEF IInv
<1>1. ASSUME NEW k \in Keys, RegisterFactory(k) PROVE EntryLeavesFor
  BY <1>1 DEF RegisterFactory, TypeOK, RegisteredRunIsLive, BuiltRuns,
        TakenRuns, RunsHaveKeys, Unfinished, EntryLeavesFor, ForgetsRun, EndsNow
<1>2. ASSUME NEW c \in Callers, NEW k \in Keys, StartCheck(c, k) PROVE EntryLeavesFor
  BY <1>2 DEF StartCheck, TypeOK, RegisteredRunIsLive, BuiltRuns,
        TakenRuns, RunsHaveKeys, Unfinished, EntryLeavesFor, ForgetsRun, EndsNow
<1>3. ASSUME NEW c \in Callers, FactoryFail(c) PROVE EntryLeavesFor
  BY <1>3 DEF FactoryFail, TypeOK, RegisteredRunIsLive, BuiltRuns,
        TakenRuns, RunsHaveKeys, Unfinished, EntryLeavesFor, ForgetsRun, EndsNow
<1>4. ASSUME NEW c \in Callers, NEW r \in Runs, FactoryBuild(c, r) PROVE EntryLeavesFor
  BY <1>4 DEF FactoryBuild, TypeOK, RegisteredRunIsLive, BuiltRuns,
        TakenRuns, RunsHaveKeys, Unfinished, EntryLeavesFor, ForgetsRun, EndsNow
<1>5. ASSUME NEW c \in Callers, StartLost(c) PROVE EntryLeavesFor
  BY <1>5 DEF StartLost, TypeOK, RegisteredRunIsLive, BuiltRuns,
        TakenRuns, RunsHaveKeys, Unfinished, EntryLeavesFor, ForgetsRun, EndsNow
<1>6. ASSUME NEW c \in Callers, StartInsert(c) PROVE EntryLeavesFor
  BY <1>6 DEF StartInsert, TypeOK, RegisteredRunIsLive, BuiltRuns,
        TakenRuns, RunsHaveKeys, Unfinished, EntryLeavesFor, ForgetsRun, EndsNow
<1>7. ASSUME NEW r \in Runs, RunReturns(r) PROVE EntryLeavesFor
  BY <1>7 DEF RunReturns, TypeOK, RegisteredRunIsLive, BuiltRuns,
        TakenRuns, RunsHaveKeys, Unfinished, EntryLeavesFor, ForgetsRun, EndsNow
<1>8. ASSUME NEW r \in Runs, RunCleanup(r) PROVE EntryLeavesFor
  BY <1>8 DEF RunCleanup, TypeOK, RegisteredRunIsLive, BuiltRuns,
        TakenRuns, RunsHaveKeys, Unfinished, EntryLeavesFor, ForgetsRun, EndsNow
<1>9. ASSUME NEW c \in Callers, NEW k \in Keys, Stop(c, k) PROVE EntryLeavesFor
  BY <1>9 DEF Stop, TypeOK, RegisteredRunIsLive, BuiltRuns,
        TakenRuns, RunsHaveKeys, Unfinished, EntryLeavesFor, ForgetsRun, EndsNow
<1>10. ASSUME NEW c \in Callers, StopAll(c) PROVE EntryLeavesFor
  BY <1>10 DEF StopAll, TypeOK, RegisteredRunIsLive, BuiltRuns,
        TakenRuns, RunsHaveKeys, Unfinished, EntryLeavesFor, ForgetsRun, EndsNow
<1>11. ASSUME NEW c \in Callers, NEW r \in Runs, Cancel(c, r) PROVE EntryLeavesFor
  BY <1>11 DEF Cancel, TypeOK, RegisteredRunIsLive, BuiltRuns,
        TakenRuns, RunsHaveKeys, Unfinished, EntryLeavesFor, ForgetsRun, EndsNow
<1>12. CASE UNCHANGED vars
  BY <1>12 DEF vars, TypeOK, RegisteredRunIsLive, BuiltRuns,
        TakenRuns, RunsHaveKeys, Unfinished, EntryLeavesFor, ForgetsRun, EndsNow
<1> QED
  BY <1>1, <1>2, <1>3, <1>4, <1>5, <1>6, <1>7, <1>8, <1>9, <1>10, <1>11, <1>12
  DEF Next, CallerStep, RunStep

-------------------------------------------------------------------------------
(* Every state the manager reaches is well typed.                            *)
THEOREM TypeCorrect == Spec => []TypeOK
<1>1. IInv => TypeOK
  BY DEF IInv
<1> QED
  BY <1>1, Inductive, PTL

(* What IsRunning and the early return of Start rely on: an entry stands for *)
(* a run of that key that is alive and that nobody is stopping.              *)
THEOREM EntryIsLive == Spec => []RegisteredRunIsLive
<1>1. IInv => RegisteredRunIsLive
  BY DEF IInv
<1> QED
  BY <1>1, Inductive, PTL

(* A provider that is never restarted while its last run is still finishing  *)
(* has at most one run, and Stop and StopAll can reach it.                   *)
THEOREM NoOrphan == Spec => []NoOrphanWithoutOverlap
<1>1. Init => NoOrphanWithoutOverlap
  BY DEF Init, NoOrphanWithoutOverlap, Unfinished
<1> QED
  BY <1>1, Inductive, NextNoOrphan, PTL DEF Spec

(* The only way the map forgets a run it should still hold is the epilogue   *)
(* of another run of the same key.                                           *)
THEOREM EntryLeaves == Spec => EntryLeavesOnlyFor
  BY Inductive, StepEntryLeavesFor, PTL DEF Spec, EntryLeavesOnlyFor
-------------------------------------------------------------------------------
(* Where main is: it answers requests when the agents are started, and has  *)
(* nothing else to do until it is told to stop.                             *)
MainPlace ==
  /\ phase \in {"register", "start"} => \A h \in Handlers : Free(h)
  /\ phase # "register" => factories = Keys
  /\ phase \in {"register", "serve", "down", "closed"} => Applied(Main)
  /\ phase = "stopping" => todo[Main] = <<>> /\ pc[Main] \in {"idle", "cancel"}

(* A request applies its switch after it has saved it.                      *)
DraftsFirst == \A h \in Handlers : draft[h] # None => Applied(h)

(* Main has emptied the map of the manager: what is in it came later.       *)
EntriesLate ==
  phase \in {"stopping", "down", "closed"} =>
    \A k \in Keys : running[k] # None => running[k] \in late

(* The maps that were read agree with what was asked since, except for the  *)
(* switches that were set while they were about.                            *)
DraftsFresh ==
  \A h \in Handlers : draft[h] # None /\ ~draft[h].lost =>
    \A s \in Switches \ crossed : draft[h].map[s] = intended[s]

(* A run of an agent only returns when it is cancelled.                     *)
ReturnedAreCancelled == \A r \in Runs : runState[r] = "returned" => cancelled[r]

(* The provider is on, and no race, account's switch or lack of credentials *)
(* excuses an agent that is not there.                                      *)
ShouldRun(k) == saved[k] /\ k \notin crossed \cup contended \cup hushed

Ahead(c, k) == \E i \in DOMAIN todo[c] : todo[c][i].key = k
Starting(c, k) == pc[c] \in {"factory", "insert"} /\ arg[c] = k

(* A handler that is yet to start or stop k, or will be.                    *)
Busy(h, k) ==
  \/ Ahead(h, k)
  \/ draft[h] # None /\ draft[h].polling # None /\ Base(draft[h].switch) = k

(* Two of them at once are contended.                                       *)
OneAtEach ==
  \A k \in Keys \ contended :
    \A g, h \in Handlers : Busy(g, k) /\ Busy(h, k) => g = h

(* Nobody will stop a provider that should run ...                          *)
NoneToStop ==
  phase \in {"start", "serve"} =>
    \A k \in Keys : ShouldRun(k) =>
      \A c \in Callers : \A i \in DOMAIN todo[c] : todo[c][i].key = k => todo[c][i].on

(* ... and it is polled, or somebody will start it.                         *)
OnIsPursued ==
  phase \in {"start", "serve"} =>
    \A k \in Keys : ShouldRun(k) =>
      Polled(k) \/ \E c \in Callers : Ahead(c, k) \/ Starting(c, k)

Drafts ==
  [switch : Switches, polling : {"on", "off", None}, map : Maps, lost : BOOLEAN]

SettingsInv ==
  /\ SettingsTypeOK /\ IInv /\ NoOrphanWithoutOverlap
  /\ MainPlace /\ DraftsFirst
  /\ EntriesLate
  /\ DraftsFresh /\ SwitchKept
  /\ ReturnedAreCancelled /\ OneAtEach /\ NoneToStop /\ OnIsPursued
-------------------------------------------------------------------------------
LEMMA Callings == Handlers \subseteq Callers /\ Main \in Callers /\ NoneAssumption
  BY SettingsAssumption, NoneAssumption

(* The rest of a list, and what is left out of it.                          *)
LEMMA RestOfList ==
  ASSUME NEW S, NEW s \in Seq(S), s # <<>>
  PROVE  /\ Head(s) \in S /\ Tail(s) \in Seq(S)
         /\ 1 \in DOMAIN s /\ Head(s) = s[1]
         /\ \A i \in DOMAIN Tail(s) : i + 1 \in DOMAIN s /\ Tail(s)[i] = s[i + 1]
         /\ \A i \in DOMAIN s :
              i # 1 => i - 1 \in DOMAIN Tail(s) /\ Tail(s)[i - 1] = s[i]
  OBVIOUS

(* The list of all providers, and which of them are to be started.          *)
LEMMA CatalogList ==
  ASSUME NEW v \in [Keys -> BOOLEAN]
  PROVE  /\ InOrder(v) \in Calls
         /\ \A k \in Keys : \E i \in DOMAIN InOrder(v) : InOrder(v)[i].key = k
         /\ \A i \in DOMAIN InOrder(v) : InOrder(v)[i].on = v[InOrder(v)[i].key]
<1>1. /\ DOMAIN Catalog = 1..Len(Catalog) /\ Len(Catalog) \in Nat
      /\ \A i \in DOMAIN Catalog : Catalog[i] \in Keys
  BY SettingsAssumption
<1>2. /\ DOMAIN InOrder(v) = 1..Len(Catalog)
      /\ \A i \in DOMAIN InOrder(v) :
           /\ InOrder(v)[i] = [key |-> Catalog[i], on |-> v[Catalog[i]]]
           /\ InOrder(v)[i] \in [key : Keys, on : BOOLEAN]
  BY <1>1 DEF InOrder
<1>3. InOrder(v) \in Calls
  BY <1>1, <1>2 DEF InOrder, Calls
<1>4. \A k \in Keys : \E i \in DOMAIN InOrder(v) : InOrder(v)[i].key = k
  BY <1>1, <1>2, SettingsAssumption
<1> QED
  BY <1>2, <1>3, <1>4

(* What a request and main make of the switches: a provider that is on is   *)
(* to be started, unless it is found without credentials.                   *)
LEMMA ApplyAllList ==
  ASSUME SettingsTypeOK, NEW h \in Handlers, NEW v \in Maps, ApplyAll(h, v)
  PROVE  \E o \in [Keys -> BOOLEAN] :
           /\ todo' = [todo EXCEPT ![h] = InOrder(o)]
           /\ \A k \in Keys : v[k] /\ k \notin hushed' => o[k]
<1>1. PICK configured \in SUBSET Keys :
        /\ todo' = [todo EXCEPT ![h] =
                      InOrder([k \in Keys |-> v[k] /\ k \in configured])]
        /\ hushed' = {k \in Keys \ configured : v[k]}
  BY DEF ApplyAll
<1> DEFINE o == [k \in Keys |-> v[k] /\ k \in configured]
<1>2. o \in [Keys -> BOOLEAN]
  OBVIOUS
<1>3. \A k \in Keys : v[k] /\ k \notin hushed' => o[k]
  BY <1>1
<1> HIDE DEF o
<1>4. todo' = [todo EXCEPT ![h] = InOrder(o)]
  BY <1>1 DEF o
<1> QED
  BY <1>2, <1>3, <1>4

LEMMA StartAgentsList ==
  ASSUME SettingsTypeOK, StartAgents
  PROVE  \E o \in [Keys -> BOOLEAN] :
           /\ todo' = [todo EXCEPT ![Main] = InOrder(o)]
           /\ \A k \in Keys : saved[k] => o[k]
<1>1. PICK unread \in SUBSET Keys :
        todo' = [todo EXCEPT ![Main] =
                  InOrder([k \in Keys |-> PollingEnabled(k, unread)])]
  BY DEF StartAgents
<1> DEFINE o == [k \in Keys |-> PollingEnabled(k, unread)]
<1>2. \A k : PollingEnabled(k, unread) \in BOOLEAN
  BY DEF PollingEnabled
<1>3. o \in [Keys -> BOOLEAN]
  BY <1>2
<1>4. \A k \in Keys : Base(k) = k
  BY SettingsAssumption DEF Base
<1>5. ASSUME NEW k \in Keys, saved[k] PROVE o[k]
  BY <1>4, <1>5 DEF PollingEnabled
<1> HIDE DEF o
<1>6. todo' = [todo EXCEPT ![Main] = InOrder(o)]
  BY <1>1 DEF o
<1> QED
  BY <1>3, <1>5, <1>6

LEMMA MapIsAMap ==
  ASSUME SettingsTypeOK, NEW lost \in BOOLEAN
  PROVE  MapRead(lost) \in Maps /\ \A k \in Keys : saved[k] => MapRead(lost)[k]
  BY DEF MapRead, AllOn, SettingsTypeOK, Maps, Switches

LEMMA BaseIsKey == \A s \in Switches : Base(s) \in Keys
  BY SettingsAssumption DEF Base, Switches

(* What a caller applies is a call on a provider.                           *)
LEMMA HeadIsEntry ==
  ASSUME SettingsTypeOK, NEW c \in Callers, todo[c] # <<>>
  PROVE  /\ Head(todo[c]) \in [key : Keys, on : BOOLEAN]
         /\ Tail(todo[c]) \in Calls
<1>1. todo[c] \in Seq([key : Keys, on : BOOLEAN])
  BY DEF SettingsTypeOK, Calls
<1> QED
  BY <1>1, RestOfList DEF Calls

(* The composition takes only steps of the agent manager.                   *)
LEMMA AgentStep ==
  SettingsTypeOK /\ [SettingsNext]_settingsVars => [Next]_vars
<1> SUFFICES ASSUME SettingsTypeOK, [SettingsNext]_settingsVars PROVE [Next]_vars
  OBVIOUS
<1> USE Callings
<1>1. CASE Register
  BY <1>1 DEF Register, Next
<1>2. CASE StartAgents \/ Serve \/ Shutdown \/ Close
  BY <1>2 DEF StartAgents, Serve, Shutdown, Close, agents
<1>3. CASE ShutdownStops
  BY <1>3 DEF ShutdownStops, Next, CallerStep, agents
<1>4. ASSUME NEW h \in Handlers, HandlerStep(h) PROVE UNCHANGED vars
  BY <1>4 DEF HandlerStep, ToggleReads, ToggleSaves, ToggleFails, UpdateVisibility,
              ReloadProviders, agents
<1>5. ASSUME NEW c \in Callers, Apply(c) PROVE [Next]_vars
  <2>1. Head(todo[c]).key \in Keys
    BY <1>5, HeadIsEntry DEF Apply
  <2> QED
    BY <1>5, <2>1 DEF Apply, CallStart, CallStop, agents, Next, CallerStep
<1>6. ASSUME NEW c \in Callers, CallStep(c) PROVE Next
  BY <1>6 DEF CallStep, Next, CallerStep
<1>7. ASSUME NEW r \in Runs, RunEnds(r) PROVE Next
  BY <1>7 DEF RunEnds, Next, RunStep
<1>8. ASSUME NEW r \in Runs, NEW s \in Switches, Poll(r, s) PROVE UNCHANGED vars
  BY <1>8 DEF Poll, agents
<1>9. ASSUME NEW s \in Switches, PollEnds(s) PROVE UNCHANGED vars
  BY <1>9 DEF PollEnds, agents
<1>10. CASE UNCHANGED settingsVars
  BY <1>10 DEF settingsVars, agents
<1> QED
  BY <1>1, <1>2, <1>3, <1>4, <1>5, <1>6, <1>7, <1>8, <1>9, <1>10
  DEF SettingsNext, MainStep

LEMMA AgentsKept ==
  SettingsInv /\ [SettingsNext]_settingsVars => IInv' /\ NoOrphanWithoutOverlap'
  BY AgentStep, NextIInv, NextNoOrphan DEF SettingsInv
-------------------------------------------------------------------------------
LEMMA CallsAreOnKeys ==
  ASSUME NEW s \in Calls
  PROVE  \A i \in DOMAIN s : s[i] \in [key : Keys, on : BOOLEAN]
<1>1. ASSUME NEW S, NEW q \in Seq(S) PROVE \A i \in DOMAIN q : q[i] \in S
  OBVIOUS
<1> QED
  BY <1>1 DEF Calls

LEMMA RequestsAreAtKeys ==
  ASSUME SettingsInv, NEW h \in Handlers
  PROVE  At(h) \subseteq Keys /\ AtOthers(h) \subseteq Keys
<1>1. ASSUME NEW g \in Handlers PROVE At(g) \subseteq Keys
  <2>1. \A i \in DOMAIN todo[g] : todo[g][i].key \in Keys
    BY <1>1, Callings, CallsAreOnKeys DEF SettingsInv, SettingsTypeOK
  <2>2. draft[g] # None => Base(draft[g].switch) \in Keys
    BY <1>1, BaseIsKey DEF SettingsInv, SettingsTypeOK
  <2>3. arg[g] \in Keys \cup {None} /\ \A r \in taken[g] : runKey[r] \in Keys
    BY <1>1, Callings DEF SettingsInv, IInv, TypeOK, TakenRuns, RunsHaveKeys
  <2> QED
    BY <2>1, <2>2, <2>3 DEF At
<1> QED
  BY <1>1 DEF AtOthers

LEMMA NextSettingsType ==
  SettingsInv /\ [SettingsNext]_settingsVars => SettingsTypeOK'
<1> SUFFICES ASSUME SettingsInv, [SettingsNext]_settingsVars PROVE SettingsTypeOK'
  OBVIOUS
<1> USE Callings
<1>0. TypeOK' /\ SettingsTypeOK
  BY AgentsKept DEF IInv, SettingsInv
<1>1. CASE Register
  BY <1>0, <1>1 DEF Register, SettingsTypeOK, histories
<1>2. CASE StartAgents
  <2>1. failures' \in 0..MaxFailures
    BY <1>0, <1>2, SettingsAssumption DEF StartAgents, Reads, SettingsTypeOK
  <2>2. todo' \in [Callers -> Calls]
    BY <1>0, <1>2, StartAgentsList, CatalogList DEF SettingsTypeOK
  <2> QED
    BY <1>0, <1>2, <2>1, <2>2 DEF StartAgents, SettingsTypeOK, histories
<1>3. CASE Serve \/ Shutdown \/ Close
  BY <1>0, <1>3 DEF Serve, Shutdown, Close, SettingsTypeOK, histories
<1>4. CASE ShutdownStops
  BY <1>0, <1>4 DEF ShutdownStops, SettingsTypeOK, histories
<1>5. ASSUME NEW h \in Handlers, NEW s \in Switches, NEW polling \in {"on", "off", None},
             ToggleReads(h, s, polling)
      PROVE  SettingsTypeOK'
  <2>1. requests' \in 0..MaxRequests
    BY <1>0, <1>5, SettingsAssumption DEF ToggleReads, Arrive, SettingsTypeOK
  <2>2. contended' \subseteq Keys
    BY <1>0, <1>5, RequestsAreAtKeys DEF ToggleReads, SettingsTypeOK
  <2>3. failures' \in 0..MaxFailures
    BY <1>0, <1>5, SettingsAssumption DEF ToggleReads, Reads, SettingsTypeOK
  <2>4. draft' \in [Handlers -> {None} \cup Drafts]
    BY <1>0, <1>5 DEF ToggleReads, SettingsTypeOK, MapRead, AllOn, Maps, Drafts
  <2> QED
    BY <1>0, <1>5, <2>1, <2>2, <2>3, <2>4 DEF ToggleReads, SettingsTypeOK, Drafts
<1>6. ASSUME NEW h \in Handlers, ToggleSaves(h) PROVE SettingsTypeOK'
  <2> DEFINE d == draft[h]
  <2>1. d \in Drafts
    BY <1>0, <1>6 DEF ToggleSaves, SettingsTypeOK, Drafts
  <2>2. Toggled(d) \in Maps
    BY <2>1 DEF Toggled, Maps, Drafts
  <2>3. Base(d.switch) \in Keys
    BY <2>1, BaseIsKey DEF Drafts
  <2>4. saved' \in Maps
    BY <1>6, <2>2 DEF ToggleSaves
  <2>8. draft' \in [Handlers -> {None} \cup Drafts]
    BY <1>0, <1>6 DEF ToggleSaves, SettingsTypeOK, Drafts
  <2>5. intended' \in Maps
    <3>1. (d.polling = "on") \in BOOLEAN
      OBVIOUS
    <3> QED
      BY <1>0, <1>6, <3>1 DEF ToggleSaves, SettingsTypeOK, Intend, Maps
  <2>9. crossed' \subseteq Switches
    BY <1>0, <1>6, <2>1 DEF ToggleSaves, SettingsTypeOK, Intend, Drafts
  <2>6. todo' \in [Callers -> Calls]
    <3>1. ASSUME NEW b \in BOOLEAN
          PROVE  <<[key |-> Base(d.switch), on |-> b]>> \in Calls
      BY <2>3 DEF Calls
    <3> QED
      BY <1>0, <1>6, <3>1 DEF ToggleSaves, SettingsTypeOK, SwitchAgent
  <2>7. contended' \subseteq Keys /\ hushed' \subseteq Keys
    BY <1>0, <1>6, <2>3 DEF ToggleSaves, SettingsTypeOK, SwitchAgent
  <2> QED
    BY <1>0, <1>6, <2>4, <2>5, <2>6, <2>7, <2>8, <2>9
    DEF ToggleSaves, SettingsTypeOK, Drafts
<1>7. ASSUME NEW h \in Handlers, ToggleFails(h) PROVE SettingsTypeOK'
  BY <1>0, <1>7 DEF ToggleFails, SettingsTypeOK, histories
<1>8. ASSUME NEW h \in Handlers, NEW v \in Maps, UpdateVisibility(h, v)
      PROVE  SettingsTypeOK'
  <2>1. AtOthers(h) \subseteq Keys
    BY RequestsAreAtKeys
  <2>2. intended' \in Maps /\ crossed' \subseteq Switches
    BY <1>0, <1>8 DEF UpdateVisibility, Intend, Maps, SettingsTypeOK
  <2>3. requests' \in 0..MaxRequests
    BY <1>0, <1>8, SettingsAssumption DEF UpdateVisibility, Arrive, SettingsTypeOK
  <2>4. todo' \in [Callers -> Calls]
    BY <1>0, <1>8, ApplyAllList, CatalogList DEF UpdateVisibility, SettingsTypeOK
  <2> QED
    BY <1>0, <1>8, <2>1, <2>2, <2>3, <2>4 DEF UpdateVisibility, ApplyAll, SettingsTypeOK
<1>9. ASSUME NEW h \in Handlers, ReloadProviders(h) PROVE SettingsTypeOK'
  <2>1. AtOthers(h) \subseteq Keys
    BY RequestsAreAtKeys
  <2>2. requests' \in 0..MaxRequests
    BY <1>0, <1>9, SettingsAssumption DEF ReloadProviders, Arrive, SettingsTypeOK
  <2>3. PICK lost \in BOOLEAN : Reads(lost) /\ ApplyAll(h, MapRead(lost))
    BY <1>9 DEF ReloadProviders
  <2>4. MapRead(lost) \in Maps
    BY <1>0, MapIsAMap
  <2>5. todo' \in [Callers -> Calls]
    BY <1>0, <2>3, <2>4, ApplyAllList, CatalogList DEF SettingsTypeOK
  <2>6. failures' \in 0..MaxFailures
    BY <1>0, <2>3, SettingsAssumption DEF Reads, SettingsTypeOK
  <2>7. contended' = AtOthers(h) /\ hushed' \subseteq Keys
    BY <2>3 DEF ApplyAll
  <2> QED
    BY <1>0, <1>9, <2>1, <2>2, <2>5, <2>6, <2>7 DEF ReloadProviders, SettingsTypeOK
<1>10. ASSUME NEW c \in Callers, Apply(c) PROVE SettingsTypeOK'
  BY <1>0, <1>10, HeadIsEntry DEF Apply, SettingsTypeOK, histories
<1>11. ASSUME NEW c \in Callers, CallStep(c) PROVE SettingsTypeOK'
  <2>1. pc[c] = "insert" => built[c] \in Runs
    BY <1>11 DEF SettingsInv, IInv, BuiltRuns
  <2> QED
    BY <1>0, <1>11, <2>1 DEF CallStep, SettingsTypeOK
<1>12. ASSUME NEW r \in Runs, RunEnds(r) PROVE SettingsTypeOK'
  BY <1>0, <1>12 DEF RunEnds, SettingsTypeOK, histories
<1>13. ASSUME NEW r \in Runs, NEW s \in Switches, Poll(r, s) PROVE SettingsTypeOK'
  <2>1. failures' \in 0..MaxFailures
    BY <1>0, <1>13, SettingsAssumption DEF Poll, Reads, SettingsTypeOK
  <2> QED
    BY <1>0, <1>13, <2>1 DEF Poll, SettingsTypeOK, histories
<1>14. ASSUME NEW s \in Switches, PollEnds(s) PROVE SettingsTypeOK'
  BY <1>0, <1>14 DEF PollEnds, SettingsTypeOK, histories
<1>15. CASE UNCHANGED settingsVars
  BY <1>0, <1>15 DEF settingsVars, SettingsTypeOK, histories
<1> QED
  BY <1>1, <1>2, <1>3, <1>4, <1>5, <1>6, <1>7, <1>8, <1>9, <1>10, <1>11, <1>12,
     <1>13, <1>14, <1>15
  DEF SettingsNext, MainStep, HandlerStep, Maps
-------------------------------------------------------------------------------
(* A call that goes on is main's until it serves, then a handler's.         *)
LEMMA NextMainPlace ==
  SettingsInv /\ [SettingsNext]_settingsVars => MainPlace' /\ DraftsFirst'
<1> SUFFICES ASSUME SettingsInv, [SettingsNext]_settingsVars PROVE MainPlace' /\ DraftsFirst'
  OBVIOUS
<1> USE Callings DEF MainPlace, DraftsFirst, Applied, Free
<1>0. /\ MainPlace /\ DraftsFirst /\ SettingsTypeOK /\ TypeOK /\ TakenRuns
      /\ Main \notin Handlers
  BY SettingsAssumption DEF SettingsInv, IInv
<1>1. CASE Register
  BY <1>0, <1>1 DEF Register, RegisterFactory
<1>2. CASE StartAgents
  BY <1>0, <1>2 DEF StartAgents, agents, vars, SettingsTypeOK
<1>3. CASE Serve
  BY <1>0, <1>3 DEF Serve, agents, vars
<1>4. CASE ShutdownStops
  BY <1>0, <1>4 DEF ShutdownStops, StopAll, agents, vars, SettingsTypeOK, TypeOK
<1>5. CASE Shutdown
  BY <1>0, <1>5 DEF Shutdown, agents, vars
<1>6. CASE Close
  BY <1>0, <1>6 DEF Close, agents, vars
<1>7. ASSUME NEW h \in Handlers, NEW s \in Switches, NEW polling \in {"on", "off", None},
             ToggleReads(h, s, polling)
      PROVE  MainPlace' /\ DraftsFirst'
  BY <1>0, <1>7 DEF ToggleReads, Arrive, Serving, agents, vars, SettingsTypeOK
<1>8. ASSUME NEW h \in Handlers, ToggleSaves(h) PROVE MainPlace' /\ DraftsFirst'
  BY <1>0, <1>8 DEF ToggleSaves, SwitchAgent, agents, vars, SettingsTypeOK
<1>9. ASSUME NEW h \in Handlers, ToggleFails(h) PROVE MainPlace' /\ DraftsFirst'
  BY <1>0, <1>9 DEF ToggleFails, agents, vars, SettingsTypeOK
<1>10. ASSUME NEW h \in Handlers, NEW v \in Maps, UpdateVisibility(h, v)
       PROVE  MainPlace' /\ DraftsFirst'
  BY <1>0, <1>10 DEF UpdateVisibility, Arrive, Serving, ApplyAll, agents, vars, SettingsTypeOK
<1>11. ASSUME NEW h \in Handlers, ReloadProviders(h) PROVE MainPlace' /\ DraftsFirst'
  BY <1>0, <1>11 DEF ReloadProviders, Arrive, Serving, ApplyAll, agents, vars, SettingsTypeOK
<1>12. ASSUME NEW c \in Callers, Apply(c) PROVE MainPlace' /\ DraftsFirst'
  <2>1. phase \in {"register", "start"} => c = Main
    BY <1>0, <1>12, SettingsAssumption DEF Apply
  <2>2. phase # "start" => c # Main
    BY <1>0, <1>12 DEF Apply, SettingsTypeOK
  <2>3. c \in Handlers => draft[c] = None
    BY <1>0, <1>12 DEF Apply
  <2>4. /\ \A d \in Callers \ {c} : pc'[d] = pc[d] /\ todo'[d] = todo[d]
        /\ factories' = factories
    BY <1>0, <1>12 DEF Apply, CallStart, CallStop, StartCheck, Stop, agents, vars, TypeOK,
                       SettingsTypeOK
  <2>5. UNCHANGED <<draft, phase>>
    BY <1>12 DEF Apply
  <2> QED
    BY <1>0, <2>1, <2>2, <2>3, <2>4, <2>5 DEF SettingsTypeOK
<1>13. ASSUME NEW c \in Callers, CallStep(c) PROVE MainPlace' /\ DraftsFirst'
  <2>1. pc[c] # "idle"
    BY <1>0, <1>13 DEF CallStep, FactoryBuild, Cancel, StartLost, StartInsert, TakenRuns
  <2>2. \A d \in Callers \ {c} : pc'[d] = pc[d]
    BY <1>0, <1>13 DEF CallStep, FactoryBuild, Cancel, StartLost, StartInsert, TypeOK
  <2>3. UNCHANGED <<draft, phase, todo, factories>>
    BY <1>13 DEF CallStep, FactoryBuild, Cancel, StartLost, StartInsert
  <2>4. pc[c] = "cancel" => pc'[c] \in {"idle", "cancel"}
    BY <1>0, <1>13 DEF CallStep, FactoryBuild, Cancel, StartLost, StartInsert, TypeOK
  <2> QED
    BY <1>0, <2>1, <2>2, <2>3, <2>4 DEF SettingsTypeOK
<1>14. ASSUME NEW r \in Runs, RunEnds(r) PROVE MainPlace' /\ DraftsFirst'
  BY <1>0, <1>14 DEF RunEnds, RunReturns, RunCleanup
<1>15. ASSUME NEW r \in Runs, NEW s \in Switches, Poll(r, s) PROVE MainPlace' /\ DraftsFirst'
  BY <1>0, <1>15 DEF Poll, agents, vars
<1>16. ASSUME NEW s \in Switches, PollEnds(s) PROVE MainPlace' /\ DraftsFirst'
  BY <1>0, <1>16 DEF PollEnds, agents, vars
<1>17. CASE UNCHANGED settingsVars
  BY <1>0, <1>17 DEF settingsVars, agents, vars
<1> QED
  BY <1>1, <1>2, <1>3, <1>4, <1>5, <1>6, <1>7, <1>8, <1>9, <1>10, <1>11, <1>12,
     <1>13, <1>14, <1>15, <1>16, <1>17
  DEF SettingsNext, MainStep, HandlerStep, Maps

(* After StopAll an entry of the map is the work of a late StartInsert.     *)
LEMMA NextEntriesLate ==
  SettingsInv /\ [SettingsNext]_settingsVars => EntriesLate'
<1> SUFFICES ASSUME SettingsInv, [SettingsNext]_settingsVars PROVE EntriesLate'
  OBVIOUS
<1> USE Callings DEF EntriesLate
<1>0. /\ EntriesLate /\ SettingsTypeOK /\ TypeOK /\ MainPlace
  BY DEF SettingsInv, IInv
<1>1. CASE MainStep /\ ~ShutdownStops
  BY <1>0, <1>1 DEF MainStep, Register, RegisterFactory, StartAgents, Serve, Shutdown, Close,
                    agents, vars, histories
<1>2. CASE ShutdownStops
  BY <1>0, <1>2 DEF ShutdownStops, StopAll, agents, vars, TypeOK
<1>3. ASSUME NEW h \in Handlers, HandlerStep(h) PROVE EntriesLate'
  BY <1>0, <1>3 DEF HandlerStep, ToggleReads, ToggleSaves, ToggleFails, UpdateVisibility,
                    ReloadProviders, agents, vars, histories
<1>4. ASSUME NEW c \in Callers, Apply(c) PROVE EntriesLate'
  <2>1. \A k \in Keys : running'[k] \in {running[k], None}
    BY <1>0, <1>4 DEF Apply, CallStart, CallStop, StartCheck, Stop, agents, vars, TypeOK
  <2> QED
    BY <1>0, <1>4, <2>1 DEF Apply, histories
<1>5. ASSUME NEW c \in Callers, CallStep(c), phase # "closed" PROVE EntriesLate'
  <2>1. CASE StartInsert(c)
    BY <1>0, <1>5, <2>1 DEF CallStep, StartInsert, TypeOK
  <2>2. CASE ~StartInsert(c)
    BY <1>0, <1>5, <2>2 DEF CallStep, FactoryBuild, Cancel, StartLost
  <2> QED
    BY <2>1, <2>2
<1>6. ASSUME NEW r \in Runs, RunEnds(r) PROVE EntriesLate'
  BY <1>0, <1>6 DEF RunEnds, RunReturns, RunCleanup, TypeOK, histories
<1>7. ASSUME NEW r \in Runs, NEW s \in Switches, Poll(r, s) PROVE EntriesLate'
  BY <1>0, <1>7 DEF Poll, agents, vars, histories
<1>8. CASE UNCHANGED settingsVars
  BY <1>0, <1>8 DEF settingsVars, agents, vars, histories
<1>9. ASSUME NEW s \in Switches, PollEnds(s) PROVE EntriesLate'
  BY <1>0, <1>9 DEF PollEnds, agents, vars, histories
<1> QED
  BY <1>1, <1>2, <1>3, <1>4, <1>5, <1>6, <1>7, <1>8, <1>9 DEF SettingsNext

(* Only a poll of a run whose context is cancelled makes Run return.        *)
LEMMA NextReturned ==
  SettingsInv /\ [SettingsNext]_settingsVars => ReturnedAreCancelled'
<1> SUFFICES ASSUME SettingsInv, [SettingsNext]_settingsVars PROVE ReturnedAreCancelled'
  OBVIOUS
<1> USE Callings DEF ReturnedAreCancelled
<1>0. /\ ReturnedAreCancelled /\ TypeOK /\ BuiltRuns
  BY DEF SettingsInv, IInv
<1>1. CASE MainStep
  BY <1>0, <1>1 DEF MainStep, Register, RegisterFactory, StartAgents, Serve, ShutdownStops,
                    StopAll, Shutdown, Close, agents, vars
<1>2. ASSUME NEW h \in Handlers, HandlerStep(h) PROVE ReturnedAreCancelled'
  BY <1>0, <1>2 DEF HandlerStep, ToggleReads, ToggleSaves, ToggleFails, UpdateVisibility,
                    ReloadProviders, agents, vars
<1>3. ASSUME NEW c \in Callers, Apply(c) PROVE ReturnedAreCancelled'
  BY <1>0, <1>3 DEF Apply, CallStart, CallStop, StartCheck, Stop, agents, vars
<1>4. ASSUME NEW c \in Callers, CallStep(c) PROVE ReturnedAreCancelled'
  BY <1>0, <1>4 DEF CallStep, FactoryBuild, Cancel, StartLost, StartInsert, TypeOK, BuiltRuns
<1>5. ASSUME NEW r \in Runs, RunEnds(r) PROVE ReturnedAreCancelled'
  BY <1>0, <1>5 DEF RunEnds, RunReturns, RunCleanup, TypeOK
<1>6. ASSUME NEW r \in Runs, NEW s \in Switches, Poll(r, s) PROVE ReturnedAreCancelled'
  BY <1>0, <1>6 DEF Poll, agents, vars
<1>7. ASSUME NEW s \in Switches, PollEnds(s) PROVE ReturnedAreCancelled'
  BY <1>0, <1>7 DEF PollEnds, agents, vars
<1>8. CASE UNCHANGED settingsVars
  BY <1>0, <1>8 DEF settingsVars, agents, vars
<1> QED
  BY <1>1, <1>2, <1>3, <1>4, <1>5, <1>6, <1>7, <1>8 DEF SettingsNext
-------------------------------------------------------------------------------
(* The steps that are not a request's leave the switches, the maps that are *)
(* about and the histories of the requests alone.                           *)
LEMMA OnlyRequestsSwitch ==
  ASSUME [SettingsNext]_settingsVars, \A h \in Handlers : ~HandlerStep(h)
  PROVE  UNCHANGED <<saved, draft, intended, crossed, contended, hushed>>
<1>1. CASE MainStep
  BY <1>1 DEF MainStep, Register, StartAgents, Serve, ShutdownStops, Shutdown, Close, histories
<1>2. ASSUME NEW c \in Callers, Apply(c) \/ CallStep(c)
      PROVE  UNCHANGED <<saved, draft, intended, crossed, contended, hushed>>
  BY <1>2 DEF Apply, CallStep, histories
<1>3. ASSUME NEW r \in Runs, RunEnds(r)
      PROVE  UNCHANGED <<saved, draft, intended, crossed, contended, hushed>>
  BY <1>3 DEF RunEnds, histories
<1>4. ASSUME NEW r \in Runs, NEW s \in Switches, Poll(r, s)
      PROVE  UNCHANGED <<saved, draft, intended, crossed, contended, hushed>>
  BY <1>4 DEF Poll, histories
<1>5. ASSUME NEW s \in Switches, PollEnds(s)
      PROVE  UNCHANGED <<saved, draft, intended, crossed, contended, hushed>>
  BY <1>5 DEF PollEnds, histories
<1>6. CASE UNCHANGED settingsVars
  BY <1>6 DEF settingsVars, histories
<1> QED
  BY <1>1, <1>2, <1>3, <1>4, <1>5, <1>6 DEF SettingsNext

(* What a map in a draft says of a switch that is not crossed is what was   *)
(* asked last, so writing it back loses nothing.                            *)
LEMMA NextSwitchKept ==
  SettingsInv /\ [SettingsNext]_settingsVars => DraftsFresh' /\ SwitchKept'
<1> SUFFICES ASSUME SettingsInv, [SettingsNext]_settingsVars PROVE DraftsFresh' /\ SwitchKept'
  OBVIOUS
<1> USE DEF DraftsFresh, SwitchKept
<1>0. DraftsFresh /\ SwitchKept /\ SettingsTypeOK
  BY DEF SettingsInv
<1>1. ASSUME NEW h \in Handlers, NEW s \in Switches, NEW polling \in {"on", "off", None},
             ToggleReads(h, s, polling)
      PROVE  DraftsFresh' /\ SwitchKept'
  <2>1. PICK lost \in BOOLEAN :
          draft' = [draft EXCEPT ![h] = [switch |-> s, polling |-> polling,
                                         map |-> MapRead(lost), lost |-> lost]]
    BY <1>1 DEF ToggleReads
  <2>2. /\ \A g \in Handlers \ {h} : draft'[g] = draft[g]
        /\ ~draft'[h].lost => draft'[h].map = saved
    BY <1>0, <2>1 DEF SettingsTypeOK, MapRead
  <2> QED
    BY <1>0, <1>1, <2>2 DEF ToggleReads
<1>2. ASSUME NEW h \in Handlers, ToggleSaves(h) PROVE DraftsFresh' /\ SwitchKept'
  <2> DEFINE d == draft[h]
             S == IF d.polling = None THEN {} ELSE {d.switch}
  <2>1. d \in Drafts /\ d # None
    BY <1>0, <1>2 DEF ToggleSaves, SettingsTypeOK, Drafts
  <2>2. /\ draft'[h] = None /\ \A g \in Handlers \ {h} : draft'[g] = draft[g]
        /\ saved' = Toggled(d)
    BY <1>0, <1>2 DEF ToggleSaves, SettingsTypeOK
  <2>3. /\ \A s \in Switches : intended'[s] = IF s \in S THEN d.polling = "on" ELSE intended[s]
        /\ crossed' = (crossed \ S) \cup (IF d.lost THEN Switches \ S ELSE {}) \cup
              IF \E g \in Handlers \ {h} : draft[g] # None THEN S ELSE {}
    BY <1>2 DEF ToggleSaves, Intend
  <2>4. \A s \in Switches : saved'[s] = IF s \in S THEN d.polling = "on" ELSE d.map[s]
    BY <2>1, <2>2 DEF Toggled, Maps, Drafts
  <2> HIDE DEF S
  <2>5. SwitchKept'
    BY <1>0, <2>1, <2>3, <2>4
  <2>6. DraftsFresh'
    BY <1>0, <2>2, <2>3
  <2> QED
    BY <2>5, <2>6
<1>3. ASSUME NEW h \in Handlers, ToggleFails(h) PROVE DraftsFresh' /\ SwitchKept'
  BY <1>0, <1>3 DEF ToggleFails, SettingsTypeOK, histories
<1>4. ASSUME NEW h \in Handlers, NEW v \in Maps, UpdateVisibility(h, v)
      PROVE  DraftsFresh' /\ SwitchKept'
  <2>1. /\ saved' = v /\ draft' = draft /\ draft[h] = None
        /\ \A s \in Switches : intended'[s] = v[s]
        /\ (\E g \in Handlers \ {h} : draft[g] # None) => Switches \subseteq crossed'
    BY <1>4 DEF UpdateVisibility, Arrive, Free, Intend
  <2> QED
    BY <2>1
<1>5. ASSUME NEW h \in Handlers, ReloadProviders(h) PROVE DraftsFresh' /\ SwitchKept'
  BY <1>0, <1>5 DEF ReloadProviders
<1>6. CASE \A h \in Handlers : ~HandlerStep(h)
  BY <1>0, <1>6, OnlyRequestsSwitch
<1> QED
  BY <1>1, <1>2, <1>3, <1>4, <1>5, <1>6 DEF HandlerStep, Maps

(* A poll begins after a look at the saved switches.                        *)
LEMMA StepBeginsAsIntended ==
  SettingsInv /\ [SettingsNext]_settingsVars => [BeginsAsIntended]_settingsVars
<1> SUFFICES ASSUME SettingsInv, SettingsNext PROVE BeginsAsIntended
  OBVIOUS
<1> USE DEF BeginsAsIntended
<1>1. ASSUME NEW r \in Runs, NEW s \in Switches, Poll(r, s) PROVE BeginsAsIntended
  <2> SUFFICES ASSUME failures' = failures PROVE BeginsAsIntended
    OBVIOUS
  <2>1. PICK unread \in SUBSET {Base(s), s} :
          Reads(unread # {}) /\ PollingEnabled(s, unread)
    BY <1>1 DEF Poll
  <2>2. unread = {}
    BY <2>1 DEF Reads, SettingsInv, SettingsTypeOK
  <2>3. /\ inPoll' \ inPoll \subseteq {s}
        /\ saved[s] /\ saved[Base(s)] /\ Base(s) \in Switches
    BY <1>1, <2>1, <2>2, BaseIsKey DEF Poll, PollingEnabled, Switches
  <2>4. \A x \in {s, Base(s)} : intended[x] \/ x \in crossed
    BY <2>3 DEF SettingsInv, SwitchKept
  <2> QED
    BY <2>3, <2>4
<1>2. ASSUME NEW s \in Switches, PollEnds(s) PROVE BeginsAsIntended
  BY <1>2 DEF PollEnds
<1>3. CASE MainStep
  BY <1>3 DEF MainStep, Register, StartAgents, Serve, ShutdownStops, Shutdown, Close
<1>4. ASSUME NEW h \in Handlers, HandlerStep(h) PROVE BeginsAsIntended
  BY <1>4 DEF HandlerStep, ToggleReads, ToggleSaves, ToggleFails, UpdateVisibility,
              ReloadProviders
<1>5. ASSUME NEW c \in Callers, Apply(c) \/ CallStep(c) PROVE BeginsAsIntended
  BY <1>5 DEF Apply, CallStep
<1>6. ASSUME NEW r \in Runs, RunEnds(r) PROVE BeginsAsIntended
  BY <1>6 DEF RunEnds
<1> QED
  BY <1>1, <1>2, <1>3, <1>4, <1>5, <1>6 DEF SettingsNext
-------------------------------------------------------------------------------
(* How a request comes to be about to start or stop a provider.             *)
LEMMA BusyIsAt ==
  ASSUME NEW h \in Handlers, NEW k, Busy(h, k)
  PROVE  k \in At(h)
  BY DEF Busy, Ahead, At

LEMMA OthersAreAtOthers ==
  ASSUME NEW h \in Handlers, NEW g \in Handlers, g # h, NEW k, Busy(g, k)
  PROVE  k \in AtOthers(h)
  BY BusyIsAt DEF AtOthers

(* A step of a call shortens the list of its caller or leaves the lists.    *)
LEMMA ListsShrink ==
  ASSUME SettingsTypeOK, NEW c \in Callers, Apply(c)
  PROVE  /\ \A d \in Callers \ {c} : todo'[d] = todo[d]
         /\ \A i \in DOMAIN todo'[c] :
              i + 1 \in DOMAIN todo[c] /\ todo'[c][i] = todo[c][i + 1]
         /\ \A i \in DOMAIN todo[c] :
              todo[c][i] = Head(todo[c]) \/ \E j \in DOMAIN todo'[c] : todo'[c][j] = todo[c][i]
         /\ \E i \in DOMAIN todo[c] : todo[c][i] = Head(todo[c])
<1>1. /\ \A d \in Callers \ {c} : todo'[d] = todo[d]
      /\ todo'[c] = Tail(todo[c]) /\ todo[c] # <<>>
  BY DEF Apply, SettingsTypeOK
<1>2. todo[c] \in Seq([key : Keys, on : BOOLEAN])
  BY DEF SettingsTypeOK, Calls
<1>3. /\ 1 \in DOMAIN todo[c] /\ Head(todo[c]) = todo[c][1]
      /\ \A i \in DOMAIN Tail(todo[c]) :
           i + 1 \in DOMAIN todo[c] /\ Tail(todo[c])[i] = todo[c][i + 1]
      /\ \A i \in DOMAIN todo[c] :
           i # 1 => i - 1 \in DOMAIN Tail(todo[c]) /\ Tail(todo[c])[i - 1] = todo[c][i]
  BY <1>1, <1>2, RestOfList
<1> QED
  BY <1>1, <1>3

(* Two requests at a provider are contended when the second arrives, until  *)
(* one comes that finds nobody there.                                       *)
LEMMA NextOneAtEach ==
  SettingsInv /\ [SettingsNext]_settingsVars => OneAtEach'
<1> SUFFICES ASSUME SettingsInv, [SettingsNext]_settingsVars,
                    NEW k \in Keys, k \notin contended',
                    NEW g \in Handlers, NEW h \in Handlers, Busy(g, k)', Busy(h, k)', g # h
             PROVE  FALSE
  BY DEF OneAtEach
<1> USE Callings
<1>0. /\ SettingsTypeOK
      /\ k \notin contended => ~(Busy(g, k) /\ Busy(h, k))
  BY DEF SettingsInv, OneAtEach
(* It is enough that what is busy was busy before.                          *)
<1>a. ASSUME UNCHANGED <<draft, contended>>,
             \A x \in {g, h} : Ahead(x, k)' => Ahead(x, k)
      PROVE  FALSE
  BY <1>0, <1>a DEF Busy
<1>1. ASSUME NEW f \in Handlers, NEW s \in Switches, NEW polling \in {"on", "off", None},
             ToggleReads(f, s, polling)
      PROVE  FALSE
  <2>1. /\ contended \subseteq contended' /\ todo' = todo
        /\ \A x \in Handlers \ {f} : draft'[x] = draft[x]
        /\ draft'[f].switch = s /\ draft'[f].polling = polling
        /\ polling # None => {Base(s)} \cap AtOthers(f) \subseteq contended'
    BY <1>0, <1>1 DEF ToggleReads, SettingsTypeOK
  <2>2. \A x \in Handlers \ {f} : Busy(x, k)' => Busy(x, k)
    BY <2>1 DEF Busy, Ahead
  <2>3. Busy(f, k)' => Busy(f, k) \/ (polling # None /\ Base(s) = k)
    BY <2>1 DEF Busy, Ahead, Base
  <2> QED
    BY <1>0, <2>1, <2>2, <2>3, OthersAreAtOthers
<1>2. ASSUME NEW f \in Handlers, ToggleSaves(f) PROVE FALSE
  <2> DEFINE d == draft[f]
  <2>1. /\ d # None /\ draft'[f] = None
        /\ \A x \in Handlers \ {f} : draft'[x] = draft[x]
    BY <1>0, <1>2 DEF ToggleSaves, SettingsTypeOK
  <2>2. CASE d.polling = None
    BY <1>0, <1>2, <2>1, <2>2 DEF ToggleSaves, Busy, Ahead
  <2>3. CASE d.polling # None
    <3>1. /\ todo' = [todo EXCEPT ![f] = <<[key |-> Base(d.switch), on |-> d.polling = "on"]>>]
          /\ contended' = IF Base(d.switch) \in AtOthers(f) THEN contended
                          ELSE contended \ {Base(d.switch)}
      BY <1>2, <2>3 DEF ToggleSaves, SwitchAgent
    <3>2. \A x \in Handlers \ {f} : Busy(x, k)' => Busy(x, k)
      BY <1>0, <2>1, <3>1 DEF Busy, Ahead, SettingsTypeOK
    <3>3. Busy(f, k)' => k = Base(d.switch) /\ Busy(f, k)
      <4>1. todo'[f] = <<[key |-> Base(d.switch), on |-> d.polling = "on"]>>
        BY <1>0, <3>1 DEF SettingsTypeOK
      <4> QED
        BY <2>1, <2>3, <4>1 DEF Busy, Ahead
    <3> QED
      BY <1>0, <3>1, <3>2, <3>3, OthersAreAtOthers
  <2> QED
    BY <2>2, <2>3
<1>3. ASSUME NEW f \in Handlers, ToggleFails(f) PROVE FALSE
  BY <1>0, <1>3 DEF ToggleFails, Busy, Ahead, SettingsTypeOK, histories
<1>4. ASSUME NEW f \in Handlers, NEW v \in Maps, ApplyAll(f, v), draft' = draft PROVE FALSE
  <2>1. contended' = AtOthers(f) /\ \A x \in Handlers \ {f} : todo'[x] = todo[x]
    BY <1>0, <1>4 DEF ApplyAll, SettingsTypeOK
  <2>2. \A x \in Handlers \ {f} : Busy(x, k)' => Busy(x, k)
    BY <1>4, <2>1 DEF Busy, Ahead
  <2> QED
    BY <2>1, <2>2, OthersAreAtOthers
<1>5. ASSUME NEW c \in Callers, Apply(c) PROVE FALSE
  <2>1. \A x \in {g, h} : Ahead(x, k)' => Ahead(x, k)
    BY <1>0, <1>5, ListsShrink DEF Ahead
  <2> QED
    BY <1>5, <1>a, <2>1 DEF Apply, histories
<1>6. CASE StartAgents
  <2>1. \A x \in Handlers : todo'[x] = todo[x]
    BY <1>0, <1>6, SettingsAssumption DEF StartAgents, SettingsTypeOK
  <2> QED
    BY <1>6, <1>a, <2>1 DEF StartAgents, Ahead, histories
<1>7. ASSUME UNCHANGED <<todo, draft, contended>> PROVE FALSE
  BY <1>7, <1>a DEF Ahead
<1>8. CASE MainStep /\ ~StartAgents
  BY <1>7, <1>8 DEF MainStep, Register, Serve, ShutdownStops, Shutdown, Close, histories
<1>9. ASSUME NEW c \in Callers, CallStep(c) PROVE FALSE
  BY <1>7, <1>9 DEF CallStep
<1>10. ASSUME NEW r \in Runs, RunEnds(r) PROVE FALSE
  BY <1>7, <1>10 DEF RunEnds, histories
<1>11. ASSUME NEW r \in Runs, NEW s \in Switches, Poll(r, s) PROVE FALSE
  BY <1>7, <1>11 DEF Poll, histories
<1>12. ASSUME NEW s \in Switches, PollEnds(s) PROVE FALSE
  BY <1>7, <1>12 DEF PollEnds, histories
<1>13. CASE UNCHANGED settingsVars
  BY <1>7, <1>13 DEF settingsVars, histories
<1>14. ASSUME NEW f \in Handlers, HandlerStep(f) PROVE FALSE
  <2>1. CASE ReloadProviders(f)
    BY <1>0, <1>4, <2>1, MapIsAMap DEF ReloadProviders
  <2> QED
    BY <1>1, <1>2, <1>3, <1>4, <1>14, <2>1 DEF HandlerStep, UpdateVisibility, Maps
<1> QED
  BY <1>5, <1>6, <1>8, <1>9, <1>10, <1>11, <1>12, <1>13, <1>14 DEF SettingsNext
-------------------------------------------------------------------------------
(* A toggle that is saved concerns its own provider; for the others it says *)
(* again what was saved.                                                    *)
LEMMA ToggleShouldRun ==
  ASSUME SettingsInv, NEW h \in Handlers, ToggleSaves(h), NEW k \in Keys, ShouldRun(k)'
  PROVE  /\ draft[h].polling = None \/ k # Base(draft[h].switch) => ShouldRun(k)
         /\ draft[h].polling # None /\ k = Base(draft[h].switch) => draft[h].polling = "on"
<1> DEFINE d == draft[h]
           S == IF d.polling = None THEN {} ELSE {d.switch}
<1>1. /\ d \in Drafts /\ d # None /\ saved' = Toggled(d) /\ k \in Switches
      /\ ~d.lost /\ k \notin crossed => d.map[k] = saved[k]
  BY DEF SettingsInv, ToggleSaves, SettingsTypeOK, DraftsFresh, SwitchKept, Switches, Drafts
<1>2. /\ crossed \ S \subseteq crossed'
      /\ d.lost => Switches \ S \subseteq crossed'
  BY DEF ToggleSaves, Intend
<1>3. k \notin crossed'
  BY DEF ShouldRun
<1>4. CASE d.polling = None
  <2>1. ~d.lost /\ k \notin crossed
    BY <1>1, <1>2, <1>3, <1>4
  <2> QED
    BY <1>1, <1>4, <2>1 DEF ToggleSaves, Toggled, ShouldRun
<1>5. CASE d.polling # None
  <2>1. /\ saved'[k] = IF k = d.switch THEN d.polling = "on" ELSE d.map[k]
        /\ contended \ {Base(d.switch)} \subseteq contended'
    BY <1>1, <1>5 DEF ToggleSaves, Toggled, SwitchAgent, Maps, Drafts
  <2>2. hushed' = IF d.polling = "on" THEN hushed \ {Base(d.switch)}
                 ELSE IF d.switch \in Accounts THEN hushed \cup {Base(d.switch)} ELSE hushed
    BY <1>5 DEF ToggleSaves, SwitchAgent
  <2>3. d.switch \notin Accounts => Base(d.switch) = d.switch
    BY DEF Base
  <2>4. d.switch \in Accounts => k # d.switch
    BY SettingsAssumption
  <2>5. k # d.switch => ~d.lost /\ k \notin crossed
    BY <1>1, <1>2, <1>3, <1>5
  <2>6. CASE k # Base(d.switch)
    BY <1>1, <2>1, <2>2, <2>3, <2>4, <2>5, <2>6 DEF ShouldRun
  <2>7. CASE k = Base(d.switch)
    BY <1>1, <1>5, <2>1, <2>2, <2>3, <2>7 DEF ShouldRun
  <2> QED
    BY <1>5, <2>6, <2>7
<1> QED
  BY <1>4, <1>5

(* A call to stop a provider comes with the setting that says so.           *)
LEMMA NextNoneToStop ==
  SettingsInv /\ [SettingsNext]_settingsVars => NoneToStop'
<1> SUFFICES ASSUME SettingsInv, [SettingsNext]_settingsVars, phase' \in {"start", "serve"},
                    NEW k \in Keys, ShouldRun(k)', NEW c \in Callers,
                    NEW i \in DOMAIN todo'[c], todo'[c][i].key = k
             PROVE  todo'[c][i].on
  BY DEF NoneToStop
<1> USE Callings
<1>0. /\ SettingsTypeOK /\ MainPlace /\ Main \notin Handlers /\ Callers = Handlers \cup {Main}
      /\ phase \in {"start", "serve"} /\ ShouldRun(k) =>
           \A d \in Callers : \A j \in DOMAIN todo[d] : todo[d][j].key = k => todo[d][j].on
  BY SettingsAssumption DEF SettingsInv, NoneToStop
<1>1. CASE UNCHANGED <<todo, saved, crossed, contended, hushed>> /\ phase \in {"start", "serve"}
  BY <1>0, <1>1 DEF ShouldRun
<1>2. CASE StartAgents
  <2>1. PICK o \in [Keys -> BOOLEAN] :
          /\ todo' = [todo EXCEPT ![Main] = InOrder(o)]
          /\ \A x \in Keys : saved[x] => o[x]
    BY <1>0, <1>2, StartAgentsList
  <2>2. todo'[Main] = InOrder(o) /\ \A h \in Handlers : todo'[h] = <<>>
    BY <1>0, <1>2, <2>1 DEF StartAgents, SettingsTypeOK, MainPlace, Free, Applied
  <2>3. saved[k]
    BY <1>2 DEF StartAgents, ShouldRun, histories
  <2>4. c = Main
    BY <1>0, <2>2
  <2> QED
    BY <2>1, <2>2, <2>3, <2>4, CatalogList
<1>3. CASE MainStep /\ ~StartAgents
  BY <1>1, <1>3 DEF MainStep, Register, Serve, ShutdownStops, Shutdown, Close, histories
<1>4. ASSUME NEW h \in Handlers, NEW s \in Switches, NEW polling \in {"on", "off", None},
             ToggleReads(h, s, polling)
      PROVE  todo'[c][i].on
  BY <1>0, <1>4 DEF ToggleReads, ShouldRun
<1>5. ASSUME NEW h \in Handlers, ToggleSaves(h) PROVE todo'[c][i].on
  <2> DEFINE d == draft[h]
  <2>1. phase = "serve" /\ todo[Main] = <<>>
    BY <1>0, <1>5 DEF ToggleSaves, MainPlace, Free, Applied
  <2>2. CASE d.polling = None
    BY <1>0, <1>5, <2>1, <2>2, ToggleShouldRun DEF ToggleSaves
  <2>3. CASE d.polling # None
    <3>1. /\ todo'[h] = <<[key |-> Base(d.switch), on |-> d.polling = "on"]>>
          /\ \A x \in Callers \ {h} : todo'[x] = todo[x]
          /\ contended' = IF Base(d.switch) \in AtOthers(h) THEN contended
                          ELSE contended \ {Base(d.switch)}
      BY <1>0, <1>5, <2>3 DEF ToggleSaves, SwitchAgent, SettingsTypeOK
    <3>2. CASE c = h
      <4>1. todo'[c][i] = [key |-> Base(d.switch), on |-> d.polling = "on"]
        BY <3>1, <3>2
      <4>2. k = Base(d.switch)
        BY <4>1
      <4>3. d.polling = "on"
        BY <1>5, <2>3, <4>2, ToggleShouldRun
      <4>4. (d.polling = "on") = TRUE
        BY <4>3
      <4>5. todo'[c][i] = [key |-> Base(d.switch), on |-> TRUE]
        BY <4>1, <4>4, Zenon
      <4> QED
        BY <4>5
    <3>3. CASE c # h /\ k # Base(d.switch)
      BY <1>0, <1>5, <2>1, <3>1, <3>3, ToggleShouldRun
    <3>4. CASE c # h /\ k = Base(d.switch)
      <4>1. c \in Handlers /\ Busy(c, k)
        BY <1>0, <2>1, <3>1, <3>4 DEF Busy, Ahead
      <4>2. Busy(h, k)
        BY <1>5, <2>3, <3>4 DEF ToggleSaves, Busy
      <4>3. k \in contended /\ k \in AtOthers(h)
        BY <3>4, <4>1, <4>2, OthersAreAtOthers DEF SettingsInv, OneAtEach
      <4> QED
        BY <3>1, <3>4, <4>3 DEF ShouldRun
    <3> QED
      BY <3>2, <3>3, <3>4
  <2> QED
    BY <2>2, <2>3
<1>6. ASSUME NEW h \in Handlers, ToggleFails(h) PROVE todo'[c][i].on
  BY <1>0, <1>6 DEF ToggleFails, ShouldRun, histories
<1>7. ASSUME NEW h \in Handlers, NEW v \in Maps, ApplyAll(h, v), saved'[k] => v[k], Serving,
             phase' = phase
      PROVE  todo'[c][i].on
  <2>0. PICK o \in [Keys -> BOOLEAN] :
          /\ todo' = [todo EXCEPT ![h] = InOrder(o)]
          /\ \A x \in Keys : v[x] /\ x \notin hushed' => o[x]
    BY <1>0, <1>7, ApplyAllList
  <2>1. /\ todo'[h] = InOrder(o) /\ \A x \in Callers \ {h} : todo'[x] = todo[x]
        /\ contended' = AtOthers(h) /\ todo[Main] = <<>> /\ o[k]
    BY <1>0, <1>7, <2>0
    DEF ApplyAll, SettingsTypeOK, Serving, MainPlace, Applied, ShouldRun
  <2>2. CASE c = h
    BY <2>1, <2>2, CatalogList
  <2>3. CASE c # h
    BY <1>0, <2>1, <2>3, OthersAreAtOthers DEF Busy, Ahead, ShouldRun
  <2> QED
    BY <2>2, <2>3
<1>8. ASSUME NEW d \in Callers, Apply(d) PROVE todo'[c][i].on
  <2>1. \E j \in DOMAIN todo[c] : todo[c][j] = todo'[c][i]
    BY <1>0, <1>8, ListsShrink
  <2> QED
    BY <1>0, <1>8, <2>1 DEF Apply, ShouldRun, histories
<1>9. ASSUME NEW h \in Handlers, HandlerStep(h) PROVE todo'[c][i].on
  <2>1. ASSUME NEW v \in Maps, UpdateVisibility(h, v) PROVE todo'[c][i].on
    BY <1>7, <2>1 DEF UpdateVisibility, Arrive
  <2>2. CASE ReloadProviders(h)
    <3>1. PICK lost \in BOOLEAN : ApplyAll(h, MapRead(lost))
      BY <2>2 DEF ReloadProviders
    <3>2. saved' = saved /\ Serving /\ phase' = phase
      BY <2>2 DEF ReloadProviders, Arrive
    <3>3. MapRead(lost) \in Maps /\ (saved'[k] => MapRead(lost)[k])
      BY <1>0, <3>2, MapIsAMap
    <3> QED
      BY <1>7, <3>1, <3>2, <3>3
  <2> QED
    BY <1>4, <1>5, <1>6, <1>9, <2>1, <2>2 DEF HandlerStep, Maps
<1>10. ASSUME NEW d \in Callers, CallStep(d) PROVE todo'[c][i].on
  BY <1>0, <1>10 DEF CallStep, ShouldRun
<1>11. ASSUME NEW r \in Runs, RunEnds(r) PROVE todo'[c][i].on
  BY <1>1, <1>11 DEF RunEnds, histories
<1>12. ASSUME NEW r \in Runs, NEW s \in Switches, Poll(r, s) PROVE todo'[c][i].on
  BY <1>1, <1>12 DEF Poll, histories
<1>13. ASSUME NEW s \in Switches, PollEnds(s) PROVE todo'[c][i].on
  BY <1>1, <1>13 DEF PollEnds, histories
<1>14. CASE UNCHANGED settingsVars
  BY <1>1, <1>14 DEF settingsVars, histories
<1> QED
  BY <1>2, <1>3, <1>8, <1>9, <1>10, <1>11, <1>12, <1>13, <1>14 DEF SettingsNext
-------------------------------------------------------------------------------
(* A Start that finds an entry leaves a live agent behind.                  *)
LEMMA EntryIsPolled ==
  ASSUME SettingsInv, NEW k \in Keys, running[k] # None
  PROVE  Polled(k)
<1>1. running[k] \in Runs
  BY DEF SettingsInv, IInv, TypeOK
<1> QED
  BY <1>1 DEF SettingsInv, IInv, RegisteredRunIsLive, ReturnedAreCancelled, Unfinished, Polled

(* A run that polls, and that nobody ends.                                  *)
PollsFor(r, k) ==
  /\ runState[r] = "live" /\ runKey[r] = k /\ ~cancelled[r]
  /\ \A c \in Callers : r \notin taken[c]

LEMMA PolledByARun == \A k : Polled(k) <=> \E r \in Runs : PollsFor(r, k)
  BY DEF Polled, PollsFor

LEMMA PolledByARunNext == \A k : Polled(k)' <=> \E r \in Runs : PollsFor(r, k)'
  BY DEF Polled, PollsFor

(* Somebody polls the provider or will start it.                            *)
Pursued(k) == Polled(k) \/ \E c \in Callers : Ahead(c, k) \/ Starting(c, k)

(* A caller that goes through its list starts what it finds to be on, and   *)
(* does not stop what should run.                                           *)
LEMMA ApplyPursues ==
  ASSUME SettingsInv, NEW c \in Callers, Apply(c), NEW k \in Keys,
         ShouldRun(k), phase \in {"start", "serve"}, Pursued(k)
  PROVE  Pursued(k)'
<1> USE Callings
<1> DEFINE next == Head(todo[c])
<1>0. /\ SettingsTypeOK /\ TypeOK /\ RegisteredRunIsLive /\ MainPlace
      /\ pc[c] = "idle" /\ todo[c] # <<>>
      /\ next \in [key : Keys, on : BOOLEAN]
      /\ next.key = k => next.on
  <2>1. SettingsTypeOK /\ TypeOK /\ RegisteredRunIsLive /\ MainPlace /\ NoneToStop
        /\ pc[c] = "idle" /\ todo[c] # <<>>
    BY DEF SettingsInv, IInv, Apply
  <2>2. next \in [key : Keys, on : BOOLEAN]
    BY <2>1, HeadIsEntry
  <2>3. \E i \in DOMAIN todo[c] : todo[c][i] = next
    BY <2>1, ListsShrink
  <2> QED
    BY <2>1, <2>2, <2>3 DEF NoneToStop
<1>1. CASE Polled(k)
  <2>1. PICK r \in Runs : PollsFor(r, k)
    BY <1>1, PolledByARun
  <2>2. ASSUME next.on PROVE PollsFor(r, k)'
    BY <2>1, <2>2 DEF Apply, CallStart, StartCheck, agents, vars, PollsFor
  <2>3. ASSUME ~next.on PROVE PollsFor(r, k)'
    <3>1. \A d \in Callers : \A q \in taken'[d] : q \in taken[d] \/ runKey[q] # k
      <4>1. CallStop(c, next.key) /\ next.key \in Keys /\ next.key # k
        BY <1>0, <2>3 DEF Apply
      <4>2. \A q \in Runs : running[next.key] = q => runKey[q] # k
        BY <1>0, <4>1 DEF RegisteredRunIsLive
      <4> QED
        BY <1>0, <4>1, <4>2 DEF CallStop, Stop, agents, vars, TypeOK
    <3>2. UNCHANGED <<runState, runKey, cancelled>>
      BY <2>3 DEF Apply, CallStop, Stop, agents, vars
    <3> QED
      BY <2>1, <3>1, <3>2 DEF PollsFor
  <2> QED
    BY <2>2, <2>3, PolledByARunNext DEF Pursued
<1>2. ASSUME NEW d \in Callers, Ahead(d, k) PROVE Pursued(k)'
  <2>1. CASE Ahead(d, k)'
    BY <2>1 DEF Pursued
  <2>2. CASE ~Ahead(d, k)'
    <3>1. d = c /\ next.key = k
      BY <1>0, <1>2, <2>2, ListsShrink DEF Ahead
    <3>2. CASE running[k] = None
      <4>1. StartCheck(c, k)
        BY <1>0, <3>1, <3>2 DEF Apply, CallStart
      <4>2. Starting(c, k)'
        BY <1>0, <4>1 DEF StartCheck, Starting, TypeOK
      <4> QED
        BY <4>2 DEF Pursued
    <3>3. CASE running[k] # None
      <4>1. Polled(k)
        BY <3>3, EntryIsPolled
      <4> QED
        BY <1>1, <4>1
    <3> QED
      BY <3>2, <3>3
  <2> QED
    BY <2>1, <2>2
<1>3. ASSUME NEW d \in Callers, Starting(d, k) PROVE Pursued(k)'
  <2>1. d # c
    BY <1>0, <1>3 DEF Starting
  <2>2. pc'[d] = pc[d] /\ arg'[d] = arg[d]
    BY <1>0, <2>1 DEF Apply, CallStart, CallStop, StartCheck, Stop, agents, vars, TypeOK
  <2> QED
    BY <1>3, <2>2 DEF Pursued, Starting
<1> QED
  BY <1>1, <1>2, <1>3 DEF Pursued

(* A Start ends with an agent that polls, its own or the one it found.      *)
LEMMA CallStepPursues ==
  ASSUME SettingsInv, NEW c \in Callers, CallStep(c), NEW k \in Keys, Pursued(k)
  PROVE  Pursued(k)'
<1> USE Callings
<1>0. TypeOK /\ BuiltRuns /\ TakenRuns
  BY DEF SettingsInv, IInv
<1>1. CASE Polled(k)
  <2>1. PICK r \in Runs : PollsFor(r, k)
    BY <1>1, PolledByARun
  <2>2. PollsFor(r, k)'
    <3>1. ASSUME NEW q \in Runs, FactoryBuild(c, q) PROVE PollsFor(r, k)'
      BY <1>0, <2>1, <3>1 DEF FactoryBuild, TypeOK, PollsFor
    <3>2. ASSUME NEW q \in Runs, Cancel(c, q) PROVE PollsFor(r, k)'
      BY <1>0, <2>1, <3>2 DEF Cancel, TypeOK, PollsFor
    <3>3. CASE StartLost(c)
      BY <1>0, <2>1, <3>3 DEF StartLost, TypeOK, PollsFor, BuiltRuns
    <3>4. CASE StartInsert(c)
      BY <1>0, <2>1, <3>4 DEF StartInsert, TypeOK, PollsFor, BuiltRuns
    <3> QED
      BY <3>1, <3>2, <3>3, <3>4 DEF CallStep
  <2> QED
    BY <2>2, PolledByARunNext DEF Pursued
<1>2. ASSUME NEW d \in Callers, Ahead(d, k) PROVE Pursued(k)'
  BY <1>2 DEF CallStep, Ahead, Pursued
<1>3. ASSUME NEW d \in Callers, Starting(d, k) PROVE Pursued(k)'
  <2>1. CASE d # c
    <3>1. pc'[d] = pc[d] /\ arg'[d] = arg[d]
      BY <1>0, <2>1 DEF CallStep, FactoryBuild, Cancel, StartLost, StartInsert, TypeOK
    <3> QED
      BY <1>3, <3>1 DEF Pursued, Starting
  <2>2. ASSUME d = c, NEW q \in Runs, FactoryBuild(c, q) PROVE Pursued(k)'
    BY <1>0, <1>3, <2>2 DEF FactoryBuild, TypeOK, Pursued, Starting
  <2>3. ASSUME d = c, NEW q \in Runs, Cancel(c, q) PROVE Pursued(k)'
    BY <1>0, <1>3, <2>3 DEF Cancel, TakenRuns, Starting
  <2>4. CASE d = c /\ StartLost(c)
    <3>1. Polled(k)
      BY <1>3, <2>4, EntryIsPolled DEF StartLost, Starting
    <3> QED
      BY <1>1, <3>1
  <2>5. CASE d = c /\ StartInsert(c)
    <3>1. PICK r \in Runs : r = built[c]
      BY <1>0, <2>5 DEF StartInsert, BuiltRuns
    <3>2. PollsFor(r, k)'
      BY <1>0, <1>3, <2>5, <3>1
      DEF StartInsert, TypeOK, Starting, PollsFor, BuiltRuns, TakenRuns
    <3> QED
      BY <3>2, PolledByARunNext DEF Pursued
  <2> QED
    BY <2>1, <2>2, <2>3, <2>4, <2>5 DEF CallStep
<1> QED
  BY <1>1, <1>2, <1>3 DEF Pursued

(* A request that turns a provider on leaves a call to start it behind; a   *)
(* call to stop one that should run never comes.                            *)
LEMMA NextOnIsPursued ==
  SettingsInv /\ [SettingsNext]_settingsVars => OnIsPursued'
<1> SUFFICES ASSUME SettingsInv, [SettingsNext]_settingsVars, phase' \in {"start", "serve"},
                    NEW k \in Keys, ShouldRun(k)'
             PROVE  Pursued(k)'
  BY DEF OnIsPursued, Pursued
<1> USE Callings
<1>0. /\ SettingsTypeOK /\ MainPlace /\ DraftsFirst
      /\ phase \in {"start", "serve"} /\ ShouldRun(k) => Pursued(k)
  BY DEF SettingsInv, OnIsPursued, Pursued
<1>1. ASSUME UNCHANGED <<agents, todo>>, Pursued(k) PROVE Pursued(k)'
  BY <1>1 DEF Pursued, Polled, Ahead, Starting, agents, vars
<1>2. CASE StartAgents
  <2>1. PICK o \in [Keys -> BOOLEAN] : todo'[Main] = InOrder(o)
    BY <1>0, <1>2, StartAgentsList DEF SettingsTypeOK
  <2>2. Ahead(Main, k)'
    BY <2>1, CatalogList DEF Ahead
  <2> QED
    BY <2>2 DEF Pursued
<1>3. CASE MainStep /\ ~StartAgents
  BY <1>0, <1>1, <1>3
  DEF MainStep, Register, Serve, ShutdownStops, Shutdown, Close, histories, ShouldRun
<1>4. ASSUME NEW h \in Handlers, NEW s \in Switches, NEW polling \in {"on", "off", None},
             ToggleReads(h, s, polling)
      PROVE  Pursued(k)'
  BY <1>0, <1>1, <1>4 DEF ToggleReads, ShouldRun
<1>5. ASSUME NEW h \in Handlers, ToggleSaves(h) PROVE Pursued(k)'
  <2> DEFINE d == draft[h]
  <2>1. phase' = phase /\ UNCHANGED agents /\ todo[h] = <<>>
    BY <1>0, <1>5 DEF ToggleSaves, DraftsFirst, Applied
  <2>2. CASE d.polling = None
    BY <1>0, <1>1, <1>5, <2>1, <2>2, ToggleShouldRun DEF ToggleSaves
  <2>3. CASE d.polling # None
    <3>1. /\ todo'[h] = <<[key |-> Base(d.switch), on |-> d.polling = "on"]>>
          /\ \A x \in Callers \ {h} : todo'[x] = todo[x]
      BY <1>0, <1>5, <2>3 DEF ToggleSaves, SwitchAgent, SettingsTypeOK
    <3>2. CASE k = Base(d.switch)
      <4>1. 1 \in DOMAIN todo'[h] /\ todo'[h][1].key = k
        BY <3>1, <3>2
      <4> QED
        BY <4>1 DEF Pursued, Ahead
    <3>3. CASE k # Base(d.switch)
      <4>1. Pursued(k)
        BY <1>0, <1>5, <2>1, <3>3, ToggleShouldRun
      <4>2. \A x \in Callers : Ahead(x, k) => Ahead(x, k)'
        BY <2>1, <3>1 DEF Ahead
      <4> QED
        BY <2>1, <4>1, <4>2 DEF Pursued, Polled, Starting, agents, vars
    <3> QED
      BY <3>2, <3>3
  <2> QED
    BY <2>2, <2>3
<1>6. ASSUME NEW h \in Handlers, ToggleFails(h) PROVE Pursued(k)'
  BY <1>0, <1>1, <1>6 DEF ToggleFails, ShouldRun, histories
<1>7. ASSUME NEW h \in Handlers, NEW v \in Maps, ApplyAll(h, v) PROVE Pursued(k)'
  <2>1. PICK o \in [Keys -> BOOLEAN] : todo'[h] = InOrder(o)
    BY <1>0, <1>7, ApplyAllList DEF SettingsTypeOK
  <2>2. Ahead(h, k)'
    BY <2>1, CatalogList DEF Ahead
  <2> QED
    BY <2>2 DEF Pursued
<1>8. ASSUME NEW h \in Handlers, HandlerStep(h) PROVE Pursued(k)'
  <2>1. CASE ReloadProviders(h)
    BY <1>0, <1>7, <2>1, MapIsAMap DEF ReloadProviders
  <2> QED
    BY <1>4, <1>5, <1>6, <1>7, <1>8, <2>1 DEF HandlerStep, UpdateVisibility, Maps
<1>9. ASSUME NEW c \in Callers, Apply(c) PROVE Pursued(k)'
  <2>1. ShouldRun(k) /\ phase \in {"start", "serve"}
    BY <1>9 DEF Apply, ShouldRun, histories
  <2> QED
    BY <1>0, <1>9, <2>1, ApplyPursues
<1>10. ASSUME NEW c \in Callers, CallStep(c) PROVE Pursued(k)'
  <2>1. ShouldRun(k) /\ phase \in {"start", "serve"}
    BY <1>10 DEF CallStep, ShouldRun
  <2> QED
    BY <1>0, <1>10, <2>1, CallStepPursues
<1>11. ASSUME NEW r \in Runs, RunEnds(r) PROVE Pursued(k)'
  <2>1. /\ ShouldRun(k) /\ phase \in {"start", "serve"}
        /\ UNCHANGED <<todo, pc, arg, runKey, cancelled, taken>>
    BY <1>11 DEF RunEnds, RunReturns, RunCleanup, ShouldRun, histories
  <2>2. \A q \in Runs : PollsFor(q, k) => PollsFor(q, k)'
    <3>1. TypeOK
      BY DEF SettingsInv, IInv
    <3> QED
      BY <1>11, <2>1, <3>1 DEF RunEnds, RunReturns, RunCleanup, TypeOK, PollsFor
  <2>3. Polled(k) => Polled(k)'
    BY <2>2, PolledByARun, PolledByARunNext
  <2> QED
    BY <1>0, <2>1, <2>3 DEF Pursued, Ahead, Starting
<1>12. ASSUME NEW r \in Runs, NEW s \in Switches, Poll(r, s) PROVE Pursued(k)'
  BY <1>0, <1>1, <1>12 DEF Poll, histories, ShouldRun
<1>13. ASSUME NEW s \in Switches, PollEnds(s) PROVE Pursued(k)'
  BY <1>0, <1>1, <1>13 DEF PollEnds, histories, ShouldRun
<1>14. CASE UNCHANGED settingsVars
  BY <1>0, <1>1, <1>14 DEF settingsVars, histories, ShouldRun
<1> QED
  BY <1>2, <1>3, <1>8, <1>9, <1>10, <1>11, <1>12, <1>13, <1>14 DEF SettingsNext
-------------------------------------------------------------------------------
LEMMA InitSettingsInv == SettingsInit => SettingsInv
<1> SUFFICES ASSUME SettingsInit PROVE SettingsInv
  OBVIOUS
<1> USE Callings
<1>1. Init /\ IInv /\ NoOrphanWithoutOverlap
  BY InitIInv DEF SettingsInit, Init, NoOrphanWithoutOverlap, Unfinished
<1>2. \A c \in Callers : todo[c] = <<>> /\ pc[c] = "idle"
  BY <1>1 DEF SettingsInit, Init
<1>3. SettingsTypeOK
  <2>1. <<>> \in Calls /\ 0 \in 0..MaxRequests /\ 0 \in 0..MaxFailures
    BY SettingsAssumption DEF Calls
  <2> QED
    BY <1>1, <2>1 DEF SettingsInit, SettingsTypeOK, IInv, Maps
<1>4. MainPlace /\ DraftsFirst /\ EntriesLate /\ DraftsFresh /\ SwitchKept
  BY <1>1, <1>2 DEF SettingsInit, MainPlace, DraftsFirst, EntriesLate, DraftsFresh, SwitchKept,
                    Free, Applied
<1>5. ReturnedAreCancelled /\ OneAtEach /\ NoneToStop /\ OnIsPursued
  BY <1>1, <1>2 DEF SettingsInit, Init, ReturnedAreCancelled, OneAtEach, Busy, Ahead, NoneToStop,
                    OnIsPursued
<1> QED
  BY <1>1, <1>3, <1>4, <1>5 DEF SettingsInv

LEMMA SettingsInductive == SettingsSpec => []SettingsInv
<1>1. SettingsInv /\ [SettingsNext]_settingsVars => SettingsInv'
  BY AgentsKept, NextSettingsType, NextMainPlace, NextEntriesLate, NextSwitchKept,
     NextReturned, NextOneAtEach, NextNoneToStop, NextOnIsPursued
  DEF SettingsInv
<1> QED
  BY <1>1, InitSettingsInv, PTL DEF SettingsSpec

(* Every state the settings, the requests and main reach is well typed.     *)
THEOREM SettingsTypeCorrect == SettingsSpec => []SettingsTypeOK
<1>1. SettingsInv => SettingsTypeOK
  BY DEF SettingsInv
<1> QED
  BY <1>1, SettingsInductive, PTL

(* Whatever main and the requests of the dashboard do, the agent manager    *)
(* they call takes only its own steps: what is proved of it alone holds     *)
(* here.                                                                    *)
THEOREM ManagerImplemented == SettingsSpec => Spec
<1>1. SettingsInit => Init
  BY DEF SettingsInit
<1>2. SettingsInv /\ [SettingsNext]_settingsVars => [Next]_vars
  BY AgentStep DEF SettingsInv
<1> QED
  BY <1>1, <1>2, SettingsInductive, PTL DEF SettingsSpec, Spec

(* A switch has the value of the latest request for it, also when toggles   *)
(* of other switches were between reading the map and writing it back, as   *)
(* long as none of them was while it was saved, and none that could not     *)
(* read the map (and writes it back with nothing but its own switch) was    *)
(* saved since.                                                             *)
THEOREM SwitchStaysKept == SettingsSpec => []SwitchKept
<1>1. SettingsInv => SwitchKept
  BY DEF SettingsInv
<1> QED
  BY <1>1, SettingsInductive, PTL

(* An agent that could read the setting begins no poll of what the latest   *)
(* request switched off, if that was not lost.                              *)
THEOREM NothingPolledAgainstIntent == SettingsSpec => PollsAsIntended
  BY SettingsInductive, StepBeginsAsIntended, PTL DEF SettingsSpec, PollsAsIntended

(* When the database is closed every live run is cancelled or about to be,  *)
(* came after StopAll or lost its entry to an earlier run.                  *)
THEOREM StopAllReachesRuns == SettingsSpec => []RunsEndAtClose
<1>1. SettingsInv => RunsEndAtClose
  <2> SUFFICES ASSUME SettingsInv, phase = "closed", NEW r \in Runs, runState[r] = "live",
                      ~cancelled[r], runKey[r] \notin overlapped, r \notin late
               PROVE  \E h \in Handlers : r \in taken[h]
    BY DEF RunsEndAtClose
  <2>1. runKey[r] \in Keys /\ Reachable(r)
    BY DEF SettingsInv, IInv, RunsHaveKeys, NoOrphanWithoutOverlap, Unfinished
  <2>2. running[runKey[r]] # r
    BY <2>1, NoneAssumption DEF SettingsInv, EntriesLate
  <2>3. taken[Main] = {}
    BY Callings DEF SettingsInv, IInv, MainPlace, Applied, TakenRuns
  <2> QED
    BY <2>1, <2>2, <2>3, SettingsAssumption DEF Reachable
<1> QED
  BY <1>1, SettingsInductive, PTL

(* When the requests for a provider that is on are done, an agent polls it, *)
(* unless two of them ran at once, a lost update or an account's switch got *)
(* in between, or the latest to go through all providers found no           *)
(* credentials for it; also when settings could not be read.                *)
THEOREM OnStaysPolled == SettingsSpec => []OnIsPolled
<1>1. SettingsInv => OnIsPolled
  <2> SUFFICES ASSUME SettingsInv, NEW k \in Keys, Quiet(k), ShouldRun(k)
               PROVE  Polled(k)
    BY DEF OnIsPolled, ShouldRun
  <2>1. Polled(k) \/ \E c \in Callers : Ahead(c, k) \/ Starting(c, k)
    BY DEF SettingsInv, OnIsPursued, Quiet
  <2>2. ~Ahead(Main, k) /\ ~Starting(Main, k)
    BY DEF SettingsInv, MainPlace, Quiet, Applied, Ahead, Starting
  <2>3. \A h \in Handlers : ~Ahead(h, k) /\ ~Starting(h, k)
    BY NoneAssumption DEF Quiet, At, Ahead, Starting
  <2> QED
    BY <2>1, <2>2, <2>3, SettingsAssumption
<1> QED
  BY <1>1, SettingsInductive, PTL
===============================================================================
