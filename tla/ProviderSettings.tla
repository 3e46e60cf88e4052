---------------------------- MODULE ProviderSettings ----------------------------
(***************************************************************************)
(* The switches of the providers: what the requests of the dashboard       *)
(* (internal/web/handlers.go) and the start and shutdown of the daemon     *)
(* (main.go) do to the saved setting "provider_visibility" and to the      *)
(* agents of AgentManager, and what the agents do with the setting.        *)
(*                                                                         *)
(* The setting has a polling switch per provider and, for providers with   *)
(* several accounts, per account; one that is missing counts as on, and so *)
(* does every switch when the setting cannot be read.  A request reads,    *)
(* saves and applies it in separate steps and without a lock, several      *)
(* requests run at once, and the web server answers until after StopAll.   *)
(* A provider may have credentials (isProviderConfigured: configuration,   *)
(* files, environment) at one look and none at the next.                   *)
(* Every call on the agent manager takes AgentManager's own steps.  The    *)
(* dashboard halves of the switches, and providers without an agent, which *)
(* no Start can start, are left out.                                       *)
(***************************************************************************)
EXTENDS AgentManager, Sequences

CONSTANTS Accounts,     \* "codex:1", "minimax:2": switches of single accounts
          Owner,        \* account -> its provider
          Catalog,      \* providerCatalog(): the providers in their order
          Handlers,     \* goroutines of the web server
          Main,         \* the goroutine of main
          MaxRequests,  \* bound on the requests
          MaxFailures   \* bound on the reads of the setting that fail

Switches == Keys \cup Accounts

ASSUME SettingsAssumption ==
  /\ Keys \cap Accounts = {} /\ Owner \in [Accounts -> Keys]
  /\ Catalog \in Seq(Keys) /\ \A k \in Keys : \E i \in DOMAIN Catalog : Catalog[i] = k
  /\ Main \notin Handlers /\ MaxRequests \in Nat /\ MaxFailures \in Nat
  /\ Callers = Handlers \cup {Main}
  /\ None \notin Accounts

VARIABLES
  saved,        \* the polling switches in the settings table
  draft,        \* the map a toggle has read and is about to save
  todo,         \* the providers a caller has yet to start or stop
  inPoll,       \* switches under which a poll is on its way
  phase,        \* where main is
  requests,
  failures,     \* reads of the setting that failed
  intended,     \* history: per switch, what the latest request for it said
  crossed,      \* history: switches set while another toggle held an old map,
                \* or replaced by one that could not read it
  contended,    \* history: providers with requests at the same time
  hushed,       \* history: providers stopped by an account's switch or, when
                \* all were gone through, for want of credentials
  late          \* history: runs that began after StopAll

agents == vars   \* those of AgentManager
histories == <<intended, crossed, contended, hushed, late>>
settingsVars == <<agents, saved, draft, todo, inPoll, phase, requests, failures, histories>>

AllOn == [s \in Switches |-> TRUE]

SettingsInit ==
  /\ Init
  /\ saved \in [Switches -> BOOLEAN]
  /\ draft = [h \in Handlers |-> None]
  /\ todo = [c \in Callers |-> <<>>]
  /\ inPoll = {}
  /\ phase = "register"
  /\ requests = 0 /\ failures = 0
  /\ intended = saved
  /\ crossed = {} /\ contended = {} /\ hushed = {} /\ late = {}

(* providerKeyBase *)
Base(s) == IF s \in Accounts THEN Owner[s] ELSE s

Serving == phase \in {"serve", "stopping"}

Applied(c) == todo[c] = <<>> /\ pc[c] = "idle"
Free(h) == draft[h] = None /\ Applied(h)

(* The catalog with the switches v.                                         *)
InOrder(v) == [i \in DOMAIN Catalog |-> [key |-> Catalog[i], on |-> v[Catalog[i]]]]

(* The checks of an agent: the provider's switch, then the account's.  One  *)
(* that cannot be read is on.                                               *)
PollingEnabled(s, unread) == \A x \in {Base(s), s} \ unread : saved[x]

(* Reading the setting fails, or not.                                       *)
Reads(fails) ==
  /\ failures' = failures + IF fails THEN 1 ELSE 0
  /\ failures' <= MaxFailures

(* providerVisibilityMap: an empty map, if the setting cannot be read.      *)
MapRead(lost) == IF lost THEN AllOn ELSE saved

(* What a run polls: the accounts of its provider, or the provider.         *)
Targets(k) ==
  IF \E a \in Accounts : Owner[a] = k THEN {a \in Accounts : Owner[a] = k} ELSE {k}

-------------------------------------------------------------------------------
(* A call of Start or Stop that is applied next by c.  One that finds       *)
(* nothing to do returns.                                                   *)
CallStart(c, k) == IF running[k] = None THEN StartCheck(c, k) ELSE UNCHANGED agents
CallStop(c, k) == IF running[k] # None THEN Stop(c, k) ELSE UNCHANGED agents

Apply(c) ==
  /\ pc[c] = "idle" /\ todo[c] # <<>>
  /\ LET next == Head(todo[c])
     IN IF next.on THEN CallStart(c, next.key) ELSE CallStop(c, next.key)
  /\ todo' = [todo EXCEPT ![c] = Tail(@)]
  /\ UNCHANGED <<saved, draft, inPoll, phase, requests, failures, histories>>

(* The rest of a Start or Stop.  The factories of main return an agent that *)
(* exists; no Start fails.                                                  *)
CallStep(c) ==
  /\ \/ \E r \in Runs : FactoryBuild(c, r) \/ Cancel(c, r)
     \/ StartLost(c)
     \/ StartInsert(c)
  /\ late' = IF phase \in {"stopping", "down"} /\ pc[c] = "insert"
               THEN late \cup {built[c]} ELSE late
  /\ UNCHANGED <<saved, draft, todo, inPoll, phase, requests, failures,
                 intended, crossed, contended, hushed>>

(* The providers a request is still at, and those of the other requests.    *)
At(h) ==
  {todo[h][i].key : i \in DOMAIN todo[h]}
    \cup (IF draft[h] # None THEN {Base(draft[h].switch)} ELSE {})
    \cup ({arg[h]} \ {None}) \cup {runKey[r] : r \in taken[h]}

AtOthers(h) == UNION {At(g) : g \in Handlers \ {h}}

Arrive(h) ==
  /\ Serving /\ Free(h)
  /\ requests < MaxRequests /\ requests' = requests + 1

(* History: the switches S are saved as v, and those of wiped are lost.     *)
Intend(h, S, v, wiped) ==
  /\ intended' = [s \in Switches |-> IF s \in S THEN v[s] ELSE intended[s]]
  /\ crossed' = (crossed \ S) \cup wiped \cup
                IF \E g \in Handlers \ {h} : draft[g] # None THEN S ELSE {}

(* A request without Polling only sets the dashboard half, of a map it has  *)
(* read as well.  One that switches on a provider for which no credentials  *)
(* are found is refused and does none of this.                              *)
ToggleReads(h, s, polling) ==
  /\ Arrive(h)
  /\ \E lost \in BOOLEAN :
       /\ Reads(lost)
       /\ draft' = [draft EXCEPT ![h] = [switch |-> s, polling |-> polling,
                                        map |-> MapRead(lost), lost |-> lost]]
  /\ contended' = contended \cup IF polling = None THEN {} ELSE {Base(s)} \cap AtOthers(h)
  /\ UNCHANGED <<agents, saved, todo, inPoll, phase, intended, crossed,
                 hushed, late>>

(* A faulty map: the other switches are not in it.                          *)
ToggledAlone(d) ==
  IF d.polling = None THEN AllOn ELSE [AllOn EXCEPT ![d.switch] = (d.polling = "on")]

(* The map with the one switch set; absent ones are on.                     *)
Toggled(d) ==
  IF d.polling = None THEN d.map ELSE [d.map EXCEPT ![d.switch] = (d.polling = "on")]

(* A faulty one: an agent is only ever stopped.                             *)
SwitchAgentOff(h, d) ==
  /\ todo' = [todo EXCEPT ![h] = IF d.polling = "on" THEN <<>>
                                ELSE <<[key |-> Base(d.switch), on |-> FALSE]>>]
  /\ UNCHANGED <<contended, hushed>>

(* The agent of the provider - also if the switch is that of one account -  *)
(* is to be started or stopped.                                             *)
SwitchAgent(h, d) ==
  LET k == Base(d.switch)
  IN /\ todo' = [todo EXCEPT ![h] = <<[key |-> k, on |-> d.polling = "on"]>>]
     /\ contended' = IF k \in AtOthers(h) THEN contended ELSE contended \ {k}
     /\ hushed' = IF d.polling = "on" THEN hushed \ {k}
                  ELSE IF d.switch \in Accounts THEN hushed \cup {k} ELSE hushed

(* saveProviderVisibility, the end of setProviderVisibility.                *)
ToggleSaves(h) ==
  LET d == draft[h]
      S == IF d.polling = None THEN {} ELSE {d.switch}
  IN /\ d # None
     /\ saved' = Toggled(d)
     /\ draft' = [draft EXCEPT ![h] = None]
     /\ Intend(h, S, [s \in Switches |-> d.polling = "on"],
               IF d.lost THEN Switches \ S ELSE {})
     /\ IF d.polling = None THEN UNCHANGED <<todo, contended, hushed>>
                            ELSE SwitchAgent(h, d)
     /\ UNCHANGED <<agents, inPoll, phase, requests, failures, late>>

(* ... or SetSetting fails, and the request with it.                        *)
ToggleFails(h) ==
  /\ draft[h] # None
  /\ draft' = [draft EXCEPT ![h] = None]
  /\ UNCHANGED <<agents, saved, todo, inPoll, phase, requests, failures, histories>>

(* Every provider is to be started, if it is switched on and credentials    *)
(* are found, or else stopped.                                              *)
ApplyAll(h, v) ==
  \E configured \in SUBSET Keys :
    /\ todo' = [todo EXCEPT ![h] =
                  InOrder([k \in Keys |-> v[k] /\ k \in configured])]
    /\ contended' = AtOthers(h)
    /\ hushed' = {k \in Keys \ configured : v[k]}

(* UpdateSettings with a whole map, which replaces the saved one and is     *)
(* applied to every provider of the catalog.                                *)
UpdateVisibility(h, v) ==
  /\ Arrive(h)
  /\ saved' = v
  /\ Intend(h, Switches, v, {})
  /\ ApplyAll(h, v)
  /\ UNCHANGED <<agents, draft, inPoll, phase, failures, late>>

(* ReloadProviders applies the map it reads.                                *)
ReloadProviders(h) ==
  /\ Arrive(h)
  /\ \E lost \in BOOLEAN : Reads(lost) /\ ApplyAll(h, MapRead(lost))
  /\ UNCHANGED <<agents, saved, draft, inPoll, phase, intended, crossed, late>>

-------------------------------------------------------------------------------
(* main registers the factories, then starts what is switched on; it asks   *)
(* the setting for each provider.                                           *)
Register ==
  /\ phase = "register"
  /\ \E k \in Keys : RegisterFactory(k)
  /\ UNCHANGED <<saved, draft, todo, inPoll, phase, requests, failures, histories>>

StartAgents ==
  /\ phase = "register" /\ factories = Keys
  /\ phase' = "start"
  /\ \E unread \in SUBSET Keys :
       /\ Reads(unread # {})
       /\ todo' = [todo EXCEPT ![Main] =
                     InOrder([k \in Keys |-> PollingEnabled(k, unread)])]
  /\ UNCHANGED <<agents, saved, draft, inPoll, requests, histories>>

Serve ==
  /\ phase = "start" /\ Applied(Main)
  /\ phase' = "serve"
  /\ UNCHANGED <<agents, saved, draft, todo, inPoll, requests, failures, histories>>

(* A faulty shutdown: nobody is told.                                       *)
StopAllForgotten ==
  /\ phase = "serve"
  /\ phase' = "stopping"
  /\ UNCHANGED <<agents, saved, draft, todo, inPoll, requests, failures, histories>>

(* A signal: StopAll, with the web server still up.                         *)
ShutdownStops ==
  /\ phase = "serve"
  /\ phase' = "stopping"
  /\ IF \E k \in Keys : running[k] # None THEN StopAll(Main) ELSE UNCHANGED agents
  /\ UNCHANGED <<saved, draft, todo, inPoll, requests, failures, histories>>

(* After 100 ms the server takes no more requests, and waits for those it   *)
(* has, five seconds at most; then the database is closed and main ends.    *)
Shutdown ==
  /\ phase = "stopping" /\ Applied(Main)
  /\ phase' = "down"
  /\ UNCHANGED <<agents, saved, draft, todo, inPoll, requests, failures, histories>>

Close ==
  /\ phase = "down"
  /\ phase' = "closed"
  /\ UNCHANGED <<agents, saved, draft, todo, inPoll, requests, failures, histories>>

-------------------------------------------------------------------------------
(* A faulty tick: the setting is not looked at.                             *)
PollUnchecked(r, s) ==
  /\ runState[r] = "live"
  /\ s \in Targets(runKey[r]) \ inPoll
  /\ inPoll' = inPoll \cup {s}
  /\ UNCHANGED <<agents, saved, draft, todo, phase, requests, failures, histories>>

(* A tick of an agent's ticker, which select may also take when the context *)
(* is cancelled; the agent asks the setting first, and polls if it cannot.  *)
Poll(r, s) ==
  /\ runState[r] = "live"
  /\ s \in Targets(runKey[r]) \ inPoll
  /\ \E unread \in SUBSET {Base(s), s} :
       Reads(unread # {}) /\ PollingEnabled(s, unread)
  /\ inPoll' = inPoll \cup {s}
  /\ UNCHANGED <<agents, saved, draft, todo, phase, requests, histories>>

PollEnds(s) ==
  /\ s \in inPoll
  /\ inPoll' = inPoll \ {s}
  /\ UNCHANGED <<agents, saved, draft, todo, phase, requests, failures, histories>>

(* Run returns some time after its context is cancelled.                    *)
RunEnds(r) ==
  /\ \/ cancelled[r] /\ RunReturns(r)
     \/ RunCleanup(r)
  /\ UNCHANGED <<saved, draft, todo, inPoll, phase, requests, failures, histories>>

HandlerStep(h) ==
  \/ \E s \in Switches, polling \in {"on", "off", None} : ToggleReads(h, s, polling)
  \/ ToggleSaves(h) \/ ToggleFails(h)
  \/ \E v \in [Switches -> BOOLEAN] : UpdateVisibility(h, v)
  \/ ReloadProviders(h)

MainStep == Register \/ StartAgents \/ Serve \/ ShutdownStops \/ Shutdown \/ Close

(* Once the database is closed the process ends.                            *)
SettingsNext ==
  /\ phase # "closed"
  /\ \/ MainStep
     \/ \E h \in Handlers : HandlerStep(h)
     \/ \E c \in Callers : Apply(c) \/ CallStep(c)
     \/ \E r \in Runs : RunEnds(r) \/ \E s \in Switches : Poll(r, s)
     \/ \E s \in Switches : PollEnds(s)

SettingsSpec == SettingsInit /\ [][SettingsNext]_settingsVars

-------------------------------------------------------------------------------
Maps == [Switches -> BOOLEAN]
Calls == Seq([key : Keys, on : BOOLEAN])

SettingsTypeOK ==
  /\ TypeOK
  /\ saved \in Maps /\ intended \in Maps
  /\ draft \in [Handlers -> {None} \cup [switch : Switches, polling : {"on", "off", None},
                                       map : Maps, lost : BOOLEAN]]
  /\ todo \in [Callers -> Calls]
  /\ inPoll \subseteq Switches
  /\ phase \in {"register", "start", "serve", "stopping", "down", "closed"}
  /\ requests \in 0..MaxRequests /\ failures \in 0..MaxFailures
  /\ crossed \subseteq Switches
  /\ contended \subseteq Keys /\ hushed \subseteq Keys /\ late \subseteq Runs

(* What was answered stays saved: a switch has the value of the latest      *)
(* request for it, unless it was saved while another toggle, of whatever    *)
(* provider, was between reading the map and writing it back, or a later    *)
(* toggle of another switch could not read the map, took it for empty and   *)
(* wrote it back.                                                           *)
SwitchKept == \A s \in Switches : s \notin crossed => saved[s] = intended[s]

(* An agent of k is there, and nobody is about to end it.                   *)
Polled(k) ==
  \E r \in Runs : /\ runState[r] = "live" /\ runKey[r] = k /\ ~cancelled[r]
                  /\ \A c \in Callers : r \notin taken[c]

(* Nobody is at the provider and no old map is about.                       *)
Quiet(k) ==
  /\ phase = "serve"
  /\ \A h \in Handlers : k \notin At(h)

(* The agent manager follows the setting: when the requests for a provider  *)
(* are done, one that is switched on has a live agent, also after an off    *)
(* and an on in quick succession, unless two of them ran at once, a lost    *)
(* update or an account's switch got in between, or the latest request to   *)
(* go through all the providers found no credentials for it.                *)
OnIsPolled ==
  \A k \in Keys :
    /\ Quiet(k) /\ saved[k]
    /\ k \notin crossed \cup contended \cup hushed
    => Polled(k)

(* StopAll leaves no agent behind: whatever runs on when the database is    *)
(* closed has been cancelled or is in the hands of a request that will, was *)
(* started by a request that came after StopAll, or had lost its entry in   *)
(* the map to an earlier run.                                               *)
RunsEndAtClose ==
  phase = "closed" =>
    \A r \in Runs :
      runState[r] = "live" =>
        \/ cancelled[r] \/ r \in late \/ runKey[r] \in overlapped
        \/ \E h \in Handlers : r \in taken[h]

(* Nothing polls what the latest request switched off, whatever the races   *)
(* between requests left running, unless the switch itself was lost or      *)
(* cannot be read just then (isPollingEnabled polls).                       *)
BeginsAsIntended ==
  failures' = failures =>
    \A x \in inPoll' \ inPoll :
      \A s \in {x, Base(x)} : intended[s] \/ s \in crossed

PollsAsIntended == [][BeginsAsIntended]_settingsVars

(* main.go:1419-1421: the switches of the accounts are there "so a single   *)
(* subscription can be paused without silencing the whole provider."        *)
PauseIsLocal ==
  \A k \in Keys :
    /\ Quiet(k) /\ saved[k] /\ k \notin crossed \cup contended
    /\ \E s \in Targets(k) : PollingEnabled(s, {})
    => Polled(k)
=================================================================================
