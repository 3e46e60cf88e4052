---------------------------- MODULE AccountManager ----------------------------
(***************************************************************************)
(* Several accounts of one provider: ZaiAgentManager                       *)
(* (internal/agent/zai_agent_manager.go) and MiniMaxAgentManager, the same *)
(* code over another client (internal/agent/minimax_agent_manager.go).     *)
(*                                                                         *)
(* Run starts an agent for every active account of the database and waits  *)
(* for its context.  The web handlers change an account and call Reload,   *)
(* which stops all agents, waits for their goroutines and starts agents    *)
(* from the database again.  Reload calls exclude each other by reloadMu;  *)
(* Run takes no part in that lock.                                         *)
(*                                                                         *)
(* Threads are the goroutines in Run (one after the other, as AgentManager *)
(* stops and starts the provider) and the handlers.                        *)
(***************************************************************************)
EXTENDS Naturals, FiniteSets

CONSTANTS Runs,        \* invocations of Run
          Handlers,    \* web handlers that change accounts
          Accounts,    \* ids of provider accounts
          Agents,      \* identities of the agents ever made (a bound)
          MaxVersion,  \* bound on the changes of an account
          MaxErrors,   \* bound on failing account queries
          MaxPanics,   \* bound on panics in agents
          Null

ASSUME AccountAssumption ==
  /\ Null \notin Runs \cup Handlers \cup Agents \cup Nat
  /\ Runs \cap Handlers = {}
  /\ MaxVersion \in Nat /\ MaxErrors \in Nat /\ MaxPanics \in Nat

Threads == Runs \cup Handlers

VARIABLES
  db,         \* provider_accounts: the version of an account's key, or Null
  version,    \* the versions handed out so far
  instances,  \* m.instances: account -> agent
  agent,      \* per agent: account, key version, parent context and state
  mctx,       \* m.ctx: the Run whose context the manager holds
  ctxDone,    \* the Runs whose context is cancelled
  reloadMu,   \* the handler holding reloadMu
  th,         \* per thread where it is, and its local variables
  raced,      \* history: a Reload met a Run that was loading or stopping
  errors, panics

vars == <<db, version, instances, agent, mctx, ctxDone, reloadMu, th, raced,
          errors, panics>>

Unmade == [acc |-> Null, ver |-> Null, parent |-> Null, cancelled |-> FALSE,
           state |-> "unused"]

(* list: accounts read and not yet handled; taken: agents to cancel.        *)
Thread(pc) == [pc |-> pc, list |-> {}, cur |-> Null, made |-> Null, taken |-> {}]

Init ==
  /\ db \in [Accounts -> {0, Null}]
  /\ version = 0
  /\ instances = [x \in Accounts |-> Null]
  /\ agent = [i \in Agents |-> Unmade]
  /\ mctx = Null
  /\ ctxDone = {}
  /\ reloadMu = Null
  /\ th = [t \in Threads |-> IF t \in Runs THEN Thread("new") ELSE Thread("idle")]
  /\ raced = FALSE
  /\ errors = 0 /\ panics = 0

Loading == {"query", "load", "insert", "launch"}
Stopping == {"swap", "cancel", "wait"}

Goto(t, pc) == th' = [th EXCEPT ![t].pc = pc]

(* An agent's context derives from that of the Run that made it.            *)
Cancelled(i) == agent[i].cancelled \/ agent[i].parent \in ctxDone

-------------------------------------------------------------------------------
(* Run: a context of its own, then the initial load.  AgentManager starts a *)
(* Run again after the one before has returned.                             *)
RunBegins(r) ==
  /\ th[r].pc = "new"
  /\ \A s \in Runs \ {r} : th[s].pc \in {"new", "done"}
  /\ mctx' = r
  /\ Goto(r, "query")
  /\ UNCHANGED <<db, version, instances, agent, ctxDone, reloadMu, errors, panics>>

(* AgentManager.Stop cancels the context.                                   *)
StopRun(r) ==
  /\ th[r].pc \notin {"new", "done"}
  /\ r \notin ctxDone
  /\ ctxDone' = ctxDone \cup {r}
  /\ UNCHANGED <<db, version, instances, agent, mctx, reloadMu, th, errors, panics>>

(* Run: <-m.ctx.Done().                                                     *)
RunStops(r) ==
  /\ th[r].pc = "ready"
  /\ mctx \in ctxDone
  /\ Goto(r, "swap")
  /\ UNCHANGED <<db, version, instances, agent, mctx, ctxDone, reloadMu, errors,
                 panics>>

(* A handler stores a new key for an account, or removes the account ...    *)
SaveAccount(h, x) ==
  /\ th[h].pc = "idle"
  /\ version < MaxVersion
  /\ version' = version + 1
  /\ \E v \in {version + 1, Null} : db' = [db EXCEPT ![x] = v]
  /\ Goto(h, "lock")
  /\ UNCHANGED <<instances, agent, mctx, ctxDone, reloadMu, errors, panics>>

(* Two faulty Reloads: one has no reloadMu, one gives up when it is held.   *)
ReloadUnlocked(h) ==
  /\ th[h].pc = "lock"
  /\ IF mctx = Null \/ mctx \in ctxDone
       THEN /\ Goto(h, "idle")
            /\ UNCHANGED reloadMu
       ELSE /\ reloadMu' = h
            /\ Goto(h, "swap")
  /\ UNCHANGED <<db, version, instances, agent, mctx, ctxDone, errors, panics>>

ReloadTries(h) ==
  /\ th[h].pc = "lock"
  /\ IF reloadMu # Null \/ mctx = Null \/ mctx \in ctxDone
       THEN /\ Goto(h, "idle")
            /\ UNCHANGED reloadMu
       ELSE /\ reloadMu' = h
            /\ Goto(h, "swap")
  /\ UNCHANGED <<db, version, instances, agent, mctx, ctxDone, errors, panics>>

(* ... and calls Reload, which does nothing without a live context.         *)
Reload(h) ==
  /\ th[h].pc = "lock"
  /\ reloadMu = Null
  /\ IF mctx = Null \/ mctx \in ctxDone
       THEN /\ Goto(h, "idle")
            /\ UNCHANGED reloadMu
       ELSE /\ reloadMu' = h
            /\ Goto(h, "swap")
  /\ UNCHANGED <<db, version, instances, agent, mctx, ctxDone, errors, panics>>

(* A faulty swap: the agents are collected, the map stays.                  *)
SwapNothing(t) ==
  /\ th[t].pc = "swap"
  /\ th' = [th EXCEPT ![t].pc = "cancel",
                      ![t].taken = {instances[x] : x \in Accounts} \ {Null}]
  /\ UNCHANGED <<db, version, instances, agent, mctx, ctxDone, reloadMu, errors,
                 panics>>

(* stopAllAgents: swap the map, cancel what was in it, wait for the group.  *)
SwapInstances(t) ==
  /\ th[t].pc = "swap"
  /\ th' = [th EXCEPT ![t].pc = "cancel",
                      ![t].taken = {instances[x] : x \in Accounts} \ {Null}]
  /\ instances' = [x \in Accounts |-> Null]
  /\ UNCHANGED <<db, version, agent, mctx, ctxDone, reloadMu, errors, panics>>

(* A faulty stop: it waits for agents it has not cancelled.                 *)
CancelNone(t) ==
  /\ th[t].pc = "cancel"
  /\ th' = [th EXCEPT ![t].pc = "wait", ![t].taken = {}]
  /\ UNCHANGED <<db, version, instances, agent, mctx, ctxDone, reloadMu, errors,
                 panics>>

CancelAgents(t) ==
  /\ th[t].pc = "cancel"
  /\ agent' = [i \in Agents |->
                 IF i \in th[t].taken THEN [agent[i] EXCEPT !.cancelled = TRUE]
                                      ELSE agent[i]]
  /\ th' = [th EXCEPT ![t].pc = "wait", ![t].taken = {}]
  /\ UNCHANGED <<db, version, instances, mctx, ctxDone, reloadMu, errors, panics>>

(* m.wg counts the launched goroutines that have not ended.                 *)
WaitAgents(t) ==
  /\ th[t].pc = "wait"
  /\ \A i \in Agents : agent[i].state # "live"
  /\ Goto(t, IF t \in Runs THEN "done" ELSE "query")
  /\ UNCHANGED <<db, version, instances, agent, mctx, ctxDone, reloadMu, errors,
                 panics>>

(* loadAndStartAccounts: the active accounts that have a key.  A failing    *)
(* query is logged and nothing is started.                                  *)
QueryAccounts(t) ==
  /\ th[t].pc = "query"
  /\ \/ /\ th' = [th EXCEPT ![t].pc = "load",
                    ![t].list = {<<x, db[x]>> : x \in {y \in Accounts : db[y] # Null}}]
        /\ UNCHANGED errors
     \/ /\ errors < MaxErrors
        /\ errors' = errors + 1
        /\ Goto(t, "load")
  /\ UNCHANGED <<db, version, instances, agent, mctx, ctxDone, reloadMu, panics>>

(* startAgentForAccount: under the read lock, is it already running?        *)
CheckAccount(t) ==
  /\ th[t].pc = "load"
  /\ \E x \in th[t].list :
       th' = [th EXCEPT ![t].list = @ \ {x},
                        ![t].cur = IF instances[x[1]] = Null THEN x ELSE Null,
                        ![t].pc = IF instances[x[1]] = Null THEN "insert" ELSE "load"]
  /\ UNCHANGED <<db, version, instances, agent, mctx, ctxDone, reloadMu, errors,
                 panics>>

(* ... then, in another critical section, the new instance is recorded.     *)
(* Agents have no identity before that: any unused one will do.             *)
Unused == {i \in Agents : agent[i].state = "unused"}

InsertInstance(t) ==
  LET i == CHOOSE i \in Unused : TRUE
  IN /\ th[t].pc = "insert"
     /\ Unused # {}
     /\ agent' = [agent EXCEPT ![i] =
                    [acc |-> th[t].cur[1], ver |-> th[t].cur[2], parent |-> mctx,
                     cancelled |-> FALSE, state |-> "made"]]
     /\ instances' = [instances EXCEPT ![th[t].cur[1]] = i]
     /\ th' = [th EXCEPT ![t].pc = "launch", ![t].cur = Null, ![t].made = i]
     /\ UNCHANGED <<db, version, mctx, ctxDone, reloadMu, errors, panics>>

(* wg.Add and the goroutine.                                                *)
LaunchAgent(t) ==
  /\ th[t].pc = "launch"
  /\ agent' = [agent EXCEPT ![th[t].made].state = "live"]
  /\ th' = [th EXCEPT ![t].pc = "load", ![t].made = Null]
  /\ UNCHANGED <<db, version, instances, mctx, ctxDone, reloadMu, errors, panics>>

(* The load is over: Run waits for its context, Reload unlocks.             *)
LoadEnds(t) ==
  /\ th[t].pc = "load"
  /\ th[t].list = {}
  /\ IF t \in Runs THEN Goto(t, "ready") /\ UNCHANGED reloadMu
                   ELSE Goto(t, "idle") /\ reloadMu' = Null
  /\ UNCHANGED <<db, version, instances, agent, mctx, ctxDone, errors, panics>>

(* An agent's Run returns once its context is cancelled.                    *)
AgentEnds(i) ==
  /\ agent[i].state = "live"
  /\ Cancelled(i)
  /\ agent' = [agent EXCEPT ![i].state = "done"]
  /\ UNCHANGED <<db, version, instances, mctx, ctxDone, reloadMu, th, errors, panics>>

(* A panic is recovered in the goroutine, which ends; the map is unchanged. *)
AgentPanics(i) ==
  /\ agent[i].state = "live"
  /\ panics < MaxPanics
  /\ panics' = panics + 1
  /\ agent' = [agent EXCEPT ![i].state = "done"]
  /\ UNCHANGED <<db, version, instances, mctx, ctxDone, reloadMu, th, errors>>

StopStep(t) == SwapInstances(t) \/ CancelAgents(t) \/ WaitAgents(t)
LoadStep(t) ==
  \/ QueryAccounts(t) \/ CheckAccount(t) \/ InsertInstance(t) \/ LaunchAgent(t)
  \/ LoadEnds(t)

Step ==
  \/ \E r \in Runs : RunBegins(r) \/ StopRun(r) \/ RunStops(r)
  \/ \E h \in Handlers : Reload(h) \/ \E x \in Accounts : SaveAccount(h, x)
  \/ \E t \in Threads : StopStep(t) \/ LoadStep(t)
  \/ \E i \in Agents : AgentEnds(i) \/ AgentPanics(i)

(* A Reload is under way while a Run is between its start and the end of    *)
(* its load, or is being stopped.                                           *)
Overlap ==
  /\ reloadMu # Null
  /\ \E r \in Runs : \/ th[r].pc \in Loading \cup Stopping
                     \/ r \in ctxDone /\ th[r].pc # "done"

Next == Step /\ raced' = (raced \/ Overlap')

Spec == Init /\ [][Next]_vars

(* A thread in Reload or Run goes on, an agent ends once its context is     *)
(* cancelled.  Nobody has to save an account or to stop the manager.        *)
Go(A) == A /\ raced' = (raced \/ Overlap')

Fairness ==
  /\ \A t \in Threads : WF_vars(Go(StopStep(t))) /\ WF_vars(Go(LoadStep(t)))
  /\ \A h \in Handlers : SF_vars(Go(Reload(h)))
  /\ \A i \in Agents : WF_vars(Go(AgentEnds(i)))

FairSpec == Spec /\ Fairness

-------------------------------------------------------------------------------
Versions == 0..MaxVersion

TypeOK ==
  /\ db \in [Accounts -> Versions \cup {Null}]
  /\ version \in Versions
  /\ instances \in [Accounts -> Agents \cup {Null}]
  /\ agent \in [Agents -> [acc : Accounts \cup {Null}, ver : Versions \cup {Null},
                           parent : Runs \cup {Null}, cancelled : BOOLEAN,
                           state : {"unused", "made", "live", "done"}]]
  /\ mctx \in Runs \cup {Null}
  /\ ctxDone \subseteq Runs
  /\ reloadMu \in Handlers \cup {Null}
  /\ \A t \in Threads :
       /\ th[t].pc \in {"new", "idle", "lock", "ready", "done"}
                         \cup Loading \cup Stopping
       /\ th[t].list \subseteq Accounts \X Versions
       /\ th[t].cur \in (Accounts \X Versions) \cup {Null}
       /\ th[t].made \in Agents \cup {Null}
       /\ th[t].taken \subseteq Agents
  /\ raced \in BOOLEAN
  /\ errors \in 0..MaxErrors /\ panics \in 0..MaxPanics

Polling(i) == agent[i].state = "live" /\ ~Cancelled(i)

(* What the map lists has not been cancelled: an instance leaves the map    *)
(* before its cancel, so "already running" never names an agent that is     *)
(* being stopped, except by the end of the whole Run.                       *)
ListedNotCancelled ==
  \A x \in Accounts, i \in Agents :
    instances[x] = i => /\ agent[i].acc = x
                        /\ agent[i].state # "unused"
                        /\ ~agent[i].cancelled

(* Unless a Reload meets a loading or stopping Run, an account has at most  *)
(* one polling agent and that agent can be stopped: it is in the map or in  *)
(* the hands of stopAllAgents.                                              *)
NoOrphanUnlessRaced ==
  ~raced =>
    \A i \in Agents :
      Polling(i) =>
        /\ \A j \in Agents : (Polling(j) /\ agent[j].acc = agent[i].acc) => i = j
        /\ \/ instances[agent[i].acc] = i
           \/ \E t \in Threads : i \in th[t].taken

(* The manager is at rest: one Run has loaded and is not cancelled, no      *)
(* handler has work to do and no agent still has to end.                    *)
AtRest ==
  /\ \E r \in Runs : th[r].pc = "ready" /\ r \notin ctxDone
  /\ \A h \in Handlers : th[h].pc = "idle"
  /\ \A i \in Agents : agent[i].state = "live" => ~Cancelled(i)

Applied ==
  /\ \A x \in Accounts : db[x] # Null =>
       \E i \in Agents : Polling(i) /\ agent[i].acc = x /\ agent[i].ver = db[x]
  /\ \A i \in Agents : Polling(i) => agent[i].ver = db[agent[i].acc]

(* Unless raced, what polls at rest is what the database says, with the     *)
(* current keys: no change of an account is lost, whichever handlers        *)
(* overlap.                                                                 *)
AppliedUnlessRaced ==
  (~raced /\ errors = 0 /\ panics = 0 /\ AtRest) => Applied

(* Unless raced, the wait for the goroutines ends and Reload returns.       *)
ReloadReturnsUnlessRaced ==
  \A h \in Handlers : th[h].pc = "wait" ~> (th[h].pc = "idle" \/ raced)

(* zai_agent_manager.go:257, stopAllAgents "stops all running agents and    *)
(* waits for goroutines to finish": the wait ends.                          *)
StopAllEnds ==
  \A h \in Handlers : th[h].pc = "wait" ~> th[h].pc # "wait"

===============================================================================
