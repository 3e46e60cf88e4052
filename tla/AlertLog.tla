------------------------------- MODULE AlertLog -------------------------------
(***************************************************************************)
(* Quota alerts: NotificationEngine.Check and sendNotification of          *)
(* internal/notify/notify.go, the notification_log table of                *)
(* internal/store/store.go, and the two places that call Check: an agent   *)
(* after each poll, and the onReset callback main.go gives each tracker.   *)
(*                                                                         *)
(* An alert of a type fires once per cycle of a quota because the log      *)
(* holds an entry for it, and may fire again in the next cycle because the *)
(* reset clears the log.  Both depend on every caller naming a quota by    *)
(* the same key, and on the log being written and cleared between steps    *)
(* that can fail.  CheckKey and ResetKey say how the code names them.      *)
(*                                                                         *)
(* One agent goroutine per account; the store is shared.                   *)
(***************************************************************************)
EXTENDS Naturals, FiniteSets, Sequences

CONSTANTS Provider,      \* which provider's agents and callback run
          Accounts,      \* its accounts, each polled by an agent of its own
          Default,       \* the account whose id is "1", or the only one
          Quotas,        \* the quotas of an account
          MaxPolls,      \* bound on the polls of all agents
          MaxErrors,     \* bound on failing SQL statements
          MaxRestarts,   \* bound on crashes
          MaxReloads     \* bound on changes of the notification settings

ASSUME AlertAssumption ==
  /\ Provider \in {"anthropic", "codex", "zai", "antigravity"}
  /\ Default \in Accounts
  /\ MaxPolls \in Nat /\ MaxErrors \in Nat /\ MaxRestarts \in Nat
  /\ MaxReloads \in Nat

Thresholds == {"warning", "critical"}
Types == Thresholds \cup {"reset"}
Subjects == Accounts \X Quotas

(* notificationQuotaKey: the account is part of the key unless it is the     *)
(* default one or not given.                                                 *)
QuotaKey(a, name) == IF a = Default THEN <<name>> ELSE <<a, name>>

(* The key under which the agent of account a checks its quota q.  Only the  *)
(* Codex agent passes its account id; Antigravity alerts per model group.    *)
CheckKey(a, q) ==
  CASE Provider = "codex"       -> QuotaKey(a, q)
    [] Provider = "antigravity" -> QuotaKey(Default, <<"group", q>>)
    [] OTHER                    -> QuotaKey(Default, q)

(* The key the onReset callback clears: QuotaStatus without AccountID.  For  *)
(* Antigravity it is the model id, which is never a group's name.            *)
ResetKey(a, q) == QuotaKey(Default, q)

VARIABLES
  cfg,        \* e.cfg.Types, and whether a mailer or push sender exists
  log,        \* notification_log: <<key, type>> entries
  agent,      \* per account: where its agent is, and Check's local variables
  todo,       \* per account: the Check calls its poll has still to make
  sent,       \* history: how often a type was sent in a subject's cycle
  unlogged,   \* history: ... how many of those never reached the log
  lostReset,  \* history: subjects whose latest reset never reached the log
  polls, errors, restarts, reloads

vars == <<cfg, log, agent, todo, sent, unlogged, lostReset, polls, errors,
          restarts, reloads>>

Configs == [types : SUBSET Types, channel : BOOLEAN]

Idle == [pc |-> "idle", type |-> "reset"]

(* One Check call to make: a reset of quota q, or the thresholds its         *)
(* utilization has reached.                                                  *)
Jobs == [q : Quotas, reset : BOOLEAN, over : SUBSET Thresholds]

Init ==
  /\ cfg \in Configs
  /\ log = {}
  /\ agent = [a \in Accounts |-> Idle]
  /\ todo = [a \in Accounts |-> <<>>]
  /\ sent = [s \in Subjects |-> [t \in Types |-> 0]]
  /\ unlogged = [s \in Subjects |-> [t \in Types |-> 0]]
  /\ lostReset = {}
  /\ polls = 0 /\ errors = 0 /\ restarts = 0 /\ reloads = 0

Job(a) == Head(todo[a])
Subject(a) == <<a, Job(a).q>>
KeyOf(a) == IF Job(a).reset THEN ResetKey(a, Job(a).q) ELSE CheckKey(a, Job(a).q)

(* The Check call of agent a is over.                                        *)
Return(a) ==
  /\ agent' = [agent EXCEPT ![a] = Idle]
  /\ todo' = [todo EXCEPT ![a] = Tail(@)]

-------------------------------------------------------------------------------
(* A poll: the tracker will find some quotas reset, and afterwards the agent *)
(* checks every quota against its thresholds.                                *)
Poll(a) ==
  /\ todo[a] = <<>>
  /\ polls < MaxPolls
  /\ polls' = polls + 1
  /\ \E q \in Quotas, reset \in BOOLEAN, over \in SUBSET Thresholds :
       LET check == [q |-> q, reset |-> FALSE, over |-> over]
       IN todo' = [todo EXCEPT ![a] =
                     IF reset THEN <<[check EXCEPT !.reset = TRUE], check>>
                              ELSE <<check>>]
  /\ UNCHANGED <<cfg, log, agent, sent, unlogged, lostReset, errors, restarts,
                 reloads>>

(* Tracker: the old cycle is closed and the new one created in the database. *)
(* From here on the reset is not detected again; onReset comes next.         *)
CycleTurns(a) ==
  /\ todo[a] # <<>>
  /\ Job(a).reset
  /\ agent[a].pc = "idle"
  /\ agent' = [agent EXCEPT ![a].pc = "callback"]
  /\ sent' = [sent EXCEPT ![Subject(a)] = [t \in Types |-> 0]]
  /\ unlogged' = [unlogged EXCEPT ![Subject(a)] = [t \in Types |-> 0]]
  /\ lostReset' = lostReset \ {Subject(a)}
  /\ UNCHANGED <<cfg, log, todo, polls, errors, restarts, reloads>>

(* A faulty reset: it clears the log only if reset alerts are enabled.        *)
ResetIfEnabled(a) ==
  /\ agent[a].pc = "callback"
  /\ IF cfg.channel /\ "reset" \in cfg.types
       THEN /\ log' = {e \in log : e[1] # KeyOf(a)}
            /\ agent' = [agent EXCEPT ![a] = [pc |-> "read", type |-> "reset"]]
            /\ UNCHANGED todo
       ELSE Return(a) /\ UNCHANGED log
  /\ UNCHANGED <<cfg, sent, unlogged, lostReset, polls, errors, restarts, reloads>>

(* Check of a reset: with no channel it returns, else it clears the log.     *)
(* The statement may fail: that is logged and Check goes on.                 *)
Reset(a) ==
  /\ agent[a].pc = "callback"
  /\ \/ /\ ~cfg.channel
        /\ lostReset' = lostReset \cup {Subject(a)}
        /\ Return(a)
        /\ UNCHANGED <<log, errors>>
     \/ /\ cfg.channel
        /\ \/ /\ log' = {e \in log : e[1] # KeyOf(a)}
              /\ UNCHANGED <<errors, lostReset>>
           \/ /\ errors < MaxErrors
              /\ errors' = errors + 1
              /\ lostReset' = lostReset \cup {Subject(a)}
              /\ UNCHANGED log
        /\ IF "reset" \in cfg.types
             THEN /\ agent' = [agent EXCEPT ![a] = [pc |-> "read", type |-> "reset"]]
                  /\ UNCHANGED todo
             ELSE Return(a)
  /\ UNCHANGED <<cfg, sent, unlogged, polls, restarts, reloads>>

(* Check of a utilization: critical first, then warning, each returning.     *)
TypeToSend(over) ==
  IF "critical" \in over \cap cfg.types THEN {"critical"}
  ELSE over \cap cfg.types \cap {"warning"}

Check(a) ==
  /\ agent[a].pc = "idle"
  /\ todo[a] # <<>>
  /\ ~Job(a).reset
  /\ IF cfg.channel /\ TypeToSend(Job(a).over) # {}
       THEN /\ \E t \in TypeToSend(Job(a).over) :
                 agent' = [agent EXCEPT ![a] = [pc |-> "read", type |-> t]]
            /\ UNCHANGED todo
       ELSE Return(a)
  /\ UNCHANGED <<cfg, log, sent, unlogged, lostReset, polls, errors, restarts,
                 reloads>>

(* A faulty lookup: an error counts as "not sent yet".                       *)
ReadLogSendsOnError(a) ==
  /\ agent[a].pc = "read"
  /\ \/ /\ <<KeyOf(a), agent[a].type>> \in log
        /\ Return(a)
        /\ UNCHANGED errors
     \/ /\ <<KeyOf(a), agent[a].type>> \notin log \/ errors < MaxErrors
        /\ agent' = [agent EXCEPT ![a].pc = "send"]
        /\ errors' = IF <<KeyOf(a), agent[a].type>> \notin log THEN errors
                                                              ELSE errors + 1
        /\ UNCHANGED todo
  /\ UNCHANGED <<cfg, log, sent, unlogged, lostReset, polls, restarts, reloads>>

(* sendNotification: an entry in the log means already sent; when the log    *)
(* cannot be read nothing is sent either.                                    *)
ReadLog(a) ==
  /\ agent[a].pc = "read"
  /\ \/ /\ <<KeyOf(a), agent[a].type>> \in log
        /\ Return(a)
        /\ UNCHANGED errors
     \/ /\ <<KeyOf(a), agent[a].type>> \notin log
        /\ agent' = [agent EXCEPT ![a].pc = "send"]
        /\ UNCHANGED <<todo, errors>>
     \/ /\ errors < MaxErrors
        /\ errors' = errors + 1
        /\ Return(a)
  /\ UNCHANGED <<cfg, log, sent, unlogged, lostReset, polls, restarts, reloads>>

(* The channels: the alert goes out on at least one, or on none.             *)
Deliver(a) ==
  LET t == agent[a].type
  IN /\ agent[a].pc = "send"
     /\ \/ /\ agent' = [agent EXCEPT ![a].pc = "log"]
           /\ sent' = [sent EXCEPT ![Subject(a)][t] = @ + 1]
           /\ UNCHANGED todo
        \/ /\ Return(a)
           /\ UNCHANGED sent
     /\ UNCHANGED <<cfg, log, unlogged, lostReset, polls, errors, restarts,
                    reloads>>

WriteLog(a) ==
  LET t == agent[a].type
  IN /\ agent[a].pc = "log"
     /\ \/ /\ log' = log \cup {<<KeyOf(a), t>>}
           /\ UNCHANGED <<unlogged, errors>>
        \/ /\ errors < MaxErrors
           /\ errors' = errors + 1
           /\ unlogged' = [unlogged EXCEPT ![Subject(a)][t] = @ + 1]
           /\ UNCHANGED log
     /\ Return(a)
     /\ UNCHANGED <<cfg, sent, lostReset, polls, restarts, reloads>>

(* The daemon dies and starts again: what was between two steps is lost.     *)
Restart ==
  /\ restarts < MaxRestarts
  /\ restarts' = restarts + 1
  /\ unlogged' = [s \in Subjects |-> [t \in Types |->
                    IF /\ agent[s[1]].pc = "log" /\ Subject(s[1]) = s
                       /\ agent[s[1]].type = t
                      THEN unlogged[s][t] + 1 ELSE unlogged[s][t]]]
  /\ lostReset' = lostReset \cup {s \in Subjects : /\ agent[s[1]].pc = "callback"
                                                   /\ Subject(s[1]) = s}
  /\ agent' = [a \in Accounts |-> Idle]
  /\ todo' = [a \in Accounts |-> <<>>]
  /\ UNCHANGED <<cfg, log, sent, polls, errors, reloads>>

(* Reload, ConfigureSMTP and ConfigurePush replace the settings under e.mu.  *)
Reload ==
  /\ reloads < MaxReloads
  /\ reloads' = reloads + 1
  /\ cfg' \in Configs
  /\ UNCHANGED <<log, agent, todo, sent, unlogged, lostReset, polls, errors,
                 restarts>>

AgentStep(a) ==
  \/ Poll(a) \/ CycleTurns(a) \/ Reset(a) \/ Check(a)
  \/ ReadLog(a) \/ Deliver(a) \/ WriteLog(a)

Next == (\E a \in Accounts : AgentStep(a)) \/ Restart \/ Reload

Spec == Init /\ [][Next]_vars

-------------------------------------------------------------------------------
TypeOK ==
  /\ cfg \in Configs
  /\ \A e \in log : e[2] \in Types
  /\ agent \in [Accounts -> [pc : {"idle", "callback", "read", "send", "log"},
                             type : Types]]
  /\ todo \in [Accounts -> Seq(Jobs)]
  /\ \A a \in Accounts : agent[a].pc # "idle" => todo[a] # <<>>
  /\ sent \in [Subjects -> [Types -> Nat]]
  /\ unlogged \in [Subjects -> [Types -> Nat]]
  /\ lostReset \subseteq Subjects
  /\ polls \in 0..MaxPolls /\ errors \in 0..MaxErrors
  /\ restarts \in 0..MaxRestarts /\ reloads \in 0..MaxReloads

(* notify.go:507, "Each provider+quota+type combination fires at most once  *)
(* per cycle".  A repeat needs an alert that went out but never reached the *)
(* log, because the write failed or the daemon died before it.              *)
AtMostOncePerCycle ==
  \A s \in Subjects, t \in Types : sent[s][t] <= 1 + unlogged[s][t]

(* notify.go:508, "The notification_log entry is cleared on quota reset":   *)
(* outside the moment between the new cycle and its callback, the log       *)
(* silences an alert only if it has been sent in this very cycle.           *)
SilencedOnlyIfSent ==
  \A s \in Subjects, t \in Thresholds :
    (/\ <<CheckKey(s[1], s[2]), t>> \in log
     /\ s \notin lostReset
     /\ agent[s[1]].pc # "callback" \/ Subject(s[1]) # s)
      => sent[s][t] >= 1
===============================================================================
