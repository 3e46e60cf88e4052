---------------------------- MODULE AlertLog_proofs ----------------------------
(***************************************************************************)
(* The alerts of a provider with one account, for any quotas and any       *)
(* numbers of polls, failing statements, crashes and changes of settings.  *)
(*                                                                         *)
(* With more accounts, or for Antigravity, a reset clears an entry of      *)
(* another quota or none, and the invariants do not hold: so Single.       *)
(***************************************************************************)
EXTENDS AlertLog, SequenceTheorems, TLAPS

AgentType == [pc : {"idle", "callback", "read", "send", "log"}, type : Types]

(* One account, whose quotas are checked and reset under the same key.      *)
Single == Accounts = {Default} /\ Provider # "antigravity"

(* What its agent knows where it is: that no alert of a new cycle went out  *)
(* before the callback, that the log holds no entry for the alert it sends, *)
(* that the alert it is about to log was sent.                              *)
Underway ==
  LET i == agent[Default]
      q == Job(Default).q
  IN /\ i.pc = "callback" =>
          Job(Default).reset /\ \A t \in Types : sent[<<Default, q>>][t] = 0
     /\ i.pc = "send" => <<<<q>>, i.type>> \notin log
     /\ i.pc = "log" => sent[<<Default, q>>][i.type] >= 1

(* Of the alerts of a cycle that were not lost to the log one at most is    *)
(* left: it is in the log or about to be.                                   *)
Counted ==
  \A q \in Quotas, t \in Types :
    LET n == sent[<<Default, q>>][t]
        u == unlogged[<<Default, q>>][t]
    IN /\ n <= u + 1
       /\ n > u => \/ <<<<q>>, t>> \in log
                   \/ /\ agent[Default].pc = "log" /\ Job(Default).q = q
                      /\ agent[Default].type = t

(* SilencedOnlyIfSent, for the one account.                                 *)
Silenced ==
  \A q \in Quotas, t \in Thresholds :
    (/\ <<<<q>>, t>> \in log
     /\ <<Default, q>> \notin lostReset
     /\ ~(agent[Default].pc = "callback" /\ Job(Default).q = q))
      => sent[<<Default, q>>][t] >= 1

IInv == TypeOK /\ Underway /\ Counted /\ Silenced

-------------------------------------------------------------------------------
LEMMA JobFacts ==
  ASSUME TypeOK, NEW a \in Accounts, todo[a] # <<>>
  PROVE  /\ Job(a) \in Jobs /\ Job(a).q \in Quotas
         /\ Tail(todo[a]) \in Seq(Jobs)
         /\ Subject(a) \in Subjects
<1>1. todo[a] \in Seq(Jobs)
  BY DEF TypeOK
<1>2. Job(a) \in Jobs /\ Tail(todo[a]) \in Seq(Jobs)
  BY <1>1, HeadTailProperties DEF Job
<1> QED
  BY <1>2 DEF Jobs, Subject, Subjects

(* An agent that returns from Check, and one that goes on to another step.  *)
AgentsTyped ==
  /\ agent \in [Accounts -> AgentType] /\ todo \in [Accounts -> Seq(Jobs)]
  /\ \A a \in Accounts : agent[a].pc # "idle" => todo[a] # <<>>

LEMMA ReturnFacts ==
  ASSUME TypeOK, NEW a \in Accounts, todo[a] # <<>>, Return(a)
  PROVE  AgentsTyped' /\ agent'[a].pc = "idle"
<1>1. /\ agent' = [agent EXCEPT ![a] = Idle]
      /\ todo' = [todo EXCEPT ![a] = Tail(todo[a])]
      /\ agent \in [Accounts -> AgentType]
  BY DEF Return, TypeOK, AgentType
<1>2. Idle \in AgentType /\ Idle.pc = "idle"
  BY DEF Idle, AgentType, Types
<1>3. agent'[a].pc = "idle" /\ agent' \in [Accounts -> AgentType]
  BY <1>1, <1>2
<1>4. todo' \in [Accounts -> Seq(Jobs)]
  BY <1>1, JobFacts DEF TypeOK
<1>5. ASSUME NEW b \in Accounts, agent'[b].pc # "idle" PROVE todo'[b] # <<>>
  BY <1>1, <1>3, <1>5 DEF TypeOK
<1> QED
  BY <1>3, <1>4, <1>5 DEF AgentsTyped

LEMMA GoesOn ==
  ASSUME TypeOK, NEW a \in Accounts, todo[a] # <<>>, todo' = todo,
         NEW i \in AgentType, agent' = [agent EXCEPT ![a] = i]
  PROVE  AgentsTyped' /\ agent'[a] = i
<1>1. agent' \in [Accounts -> AgentType] /\ agent'[a] = i
  BY DEF TypeOK, AgentType
<1>2. \A b \in Accounts : agent'[b].pc # "idle" => todo'[b] # <<>>
  BY DEF TypeOK
<1> QED
  BY <1>1, <1>2 DEF AgentsTyped, TypeOK

LEMMA StepsOn ==
  ASSUME TypeOK, NEW a \in Accounts, todo[a] # <<>>, todo' = todo,
         NEW pc \in {"idle", "callback", "read", "send", "log"},
         agent' = [agent EXCEPT ![a].pc = pc]
  PROVE  AgentsTyped' /\ agent'[a].pc = pc /\ agent'[a].type = agent[a].type
<1> DEFINE i == [agent[a] EXCEPT !.pc = pc]
<1>1. agent' = [agent EXCEPT ![a] = i]
  OBVIOUS
<1>2. i \in AgentType /\ i.pc = pc /\ i.type = agent[a].type
  BY DEF TypeOK, AgentType
<1> HIDE DEF i
<1>3. AgentsTyped' /\ agent'[a] = i
  BY <1>1, <1>2, GoesOn
<1> QED
  BY <1>2, <1>3

(* TypeOK is AgentsTyped and the rest.                                      *)
Rest ==
  /\ cfg \in Configs
  /\ \A e \in log : e[2] \in Types
  /\ sent \in [Subjects -> [Types -> Nat]]
  /\ unlogged \in [Subjects -> [Types -> Nat]]
  /\ lostReset \subseteq Subjects
  /\ polls \in 0..MaxPolls /\ errors \in 0..MaxErrors
  /\ restarts \in 0..MaxRestarts /\ reloads \in 0..MaxReloads

LEMMA Parts == TypeOK <=> AgentsTyped /\ Rest
  BY DEF TypeOK, AgentsTyped, Rest, AgentType

LEMMA PartsNext == AgentsTyped' /\ Rest' => TypeOK'
  BY DEF TypeOK, AgentsTyped, Rest, AgentType

-------------------------------------------------------------------------------
LEMMA PollTyped ==
  ASSUME TypeOK, NEW a \in Accounts, Poll(a)
  PROVE  TypeOK'
<1>1. PICK q \in Quotas, reset \in BOOLEAN, over \in SUBSET Thresholds :
        todo' = [todo EXCEPT ![a] =
                   IF reset THEN <<[[q |-> q, reset |-> FALSE, over |-> over]
                                      EXCEPT !.reset = TRUE],
                                   [q |-> q, reset |-> FALSE, over |-> over]>>
                            ELSE <<[q |-> q, reset |-> FALSE, over |-> over]>>]
  BY DEF Poll
<1> DEFINE check == [q |-> q, reset |-> FALSE, over |-> over]
           turn == [check EXCEPT !.reset = TRUE]
           jobs == IF reset THEN <<turn, check>> ELSE <<check>>
<1>2. check \in Jobs /\ turn \in Jobs
  BY DEF Jobs
<1>3. todo' = [todo EXCEPT ![a] = jobs]
  BY <1>1
<1> HIDE DEF check, turn
<1>4. jobs \in Seq(Jobs) /\ jobs # <<>>
  BY <1>2
<1> HIDE DEF jobs
<1>5. /\ agent' = agent
      /\ UNCHANGED <<cfg, log, sent, unlogged, lostReset, errors, restarts, reloads>>
      /\ polls' = polls + 1 /\ polls < MaxPolls
  BY DEF Poll
<1>6. AgentsTyped'
  BY <1>3, <1>4, <1>5, Parts DEF AgentsTyped
<1>7. Rest'
  BY <1>5, Parts, AlertAssumption DEF Rest, AlertAssumption
<1> QED
  BY <1>6, <1>7, PartsNext

LEMMA CycleTurnsTyped ==
  ASSUME TypeOK, NEW a \in Accounts, CycleTurns(a)
  PROVE  TypeOK'
<1>1. todo[a] # <<>> /\ todo' = todo /\ agent' = [agent EXCEPT ![a].pc = "callback"]
  BY DEF CycleTurns
<1>2. AgentsTyped'
  BY <1>1, StepsOn
<1>3. sent' \in [Subjects -> [Types -> Nat]] /\ unlogged' \in [Subjects -> [Types -> Nat]]
  BY DEF CycleTurns, TypeOK
<1>4. Rest'
  BY <1>3, Parts DEF CycleTurns, Rest
<1> QED
  BY <1>2, <1>4, PartsNext

(* What a failing statement and a lost reset leave.                         *)
LEMMA FaultsTyped ==
  ASSUME TypeOK
  PROVE  /\ errors < MaxErrors => errors + 1 \in 0..MaxErrors
         /\ \A a \in Accounts : todo[a] # <<>> =>
              lostReset \cup {Subject(a)} \subseteq Subjects
BY JobFacts, AlertAssumption DEF TypeOK, AlertAssumption

LEMMA ResetTyped ==
  ASSUME TypeOK, NEW a \in Accounts, Reset(a)
  PROVE  TypeOK'
<1>1. agent[a].pc = "callback" /\ todo[a] # <<>>
  BY DEF Reset, TypeOK
<1>2. AgentsTyped'
  <2>1. CASE Return(a)
    BY <1>1, <2>1, ReturnFacts
  <2>2. CASE /\ agent' = [agent EXCEPT ![a] = [pc |-> "read", type |-> "reset"]]
             /\ UNCHANGED todo
    <3>1. [pc |-> "read", type |-> "reset"] \in AgentType
      BY DEF AgentType, Types
    <3> QED
      BY <1>1, <2>2, <3>1, GoesOn
  <2> QED
    BY <2>1, <2>2 DEF Reset
<1>3. Rest'
  <2>1. /\ log' \subseteq log /\ errors' \in 0..MaxErrors
        /\ lostReset' \subseteq Subjects
        /\ UNCHANGED <<cfg, sent, unlogged, polls, restarts, reloads>>
    BY <1>1, FaultsTyped DEF Reset, TypeOK
  <2> QED
    BY <2>1, Parts DEF Rest
<1> QED
  BY <1>2, <1>3, PartsNext

LEMMA CheckTyped ==
  ASSUME TypeOK, NEW a \in Accounts, Check(a)
  PROVE  TypeOK'
<1>1. todo[a] # <<>>
  BY DEF Check
<1>2. AgentsTyped'
  <2>1. CASE Return(a)
    BY <1>1, <2>1, ReturnFacts
  <2>2. ASSUME NEW t \in TypeToSend(Job(a).over), UNCHANGED todo,
               agent' = [agent EXCEPT ![a] = [pc |-> "read", type |-> t]]
        PROVE  AgentsTyped'
    <3>1. t \in Types
      BY DEF TypeToSend, Types, Thresholds
    <3>2. [pc |-> "read", type |-> t] \in AgentType
      BY <3>1 DEF AgentType
    <3> QED
      BY <1>1, <2>2, <3>2, GoesOn
  <2> QED
    BY <2>1, <2>2 DEF Check
<1>3. Rest'
  BY Parts DEF Check, Rest
<1> QED
  BY <1>2, <1>3, PartsNext

LEMMA ReadLogTyped ==
  ASSUME TypeOK, NEW a \in Accounts, ReadLog(a)
  PROVE  TypeOK'
<1>1. todo[a] # <<>>
  BY DEF ReadLog, TypeOK
<1>2. AgentsTyped'
  <2>1. CASE Return(a)
    BY <1>1, <2>1, ReturnFacts
  <2>2. CASE agent' = [agent EXCEPT ![a].pc = "send"] /\ UNCHANGED todo
    BY <1>1, <2>2, StepsOn
  <2> QED
    BY <2>1, <2>2 DEF ReadLog
<1>3. errors' \in 0..MaxErrors
  BY FaultsTyped DEF ReadLog, TypeOK
<1>4. Rest'
  BY <1>3, Parts DEF ReadLog, Rest
<1> QED
  BY <1>2, <1>4, PartsNext

LEMMA DeliverTyped ==
  ASSUME TypeOK, NEW a \in Accounts, Deliver(a)
  PROVE  TypeOK'
<1>1. todo[a] # <<>> /\ agent[a].type \in Types
  BY DEF Deliver, TypeOK
<1>2. AgentsTyped' /\ sent' \in [Subjects -> [Types -> Nat]]
  <2>1. CASE Return(a) /\ UNCHANGED sent
    BY <1>1, <2>1, ReturnFacts DEF TypeOK
  <2>2. CASE /\ agent' = [agent EXCEPT ![a].pc = "log"] /\ UNCHANGED todo
             /\ sent' = [sent EXCEPT ![Subject(a)][agent[a].type] = @ + 1]
    <3>1. AgentsTyped'
      BY <1>1, <2>2, StepsOn
    <3>2. sent' \in [Subjects -> [Types -> Nat]]
      BY <1>1, <2>2, JobFacts DEF TypeOK
    <3> QED
      BY <3>1, <3>2
  <2> QED
    BY <2>1, <2>2 DEF Deliver
<1>3. Rest'
  BY <1>2, Parts DEF Deliver, Rest
<1> QED
  BY <1>2, <1>3, PartsNext

LEMMA WriteLogTyped ==
  ASSUME TypeOK, NEW a \in Accounts, WriteLog(a)
  PROVE  TypeOK'
<1>1. todo[a] # <<>> /\ agent[a].type \in Types
  BY DEF WriteLog, TypeOK
<1>2. AgentsTyped'
  BY <1>1, ReturnFacts DEF WriteLog
<1>3. unlogged' \in [Subjects -> [Types -> Nat]] /\ errors' \in 0..MaxErrors
  <2>1. CASE UNCHANGED <<unlogged, errors>>
    BY <2>1 DEF TypeOK
  <2>2. CASE /\ errors < MaxErrors /\ errors' = errors + 1
             /\ unlogged' = [unlogged EXCEPT ![Subject(a)][agent[a].type] = @ + 1]
    BY <1>1, <2>2, JobFacts, FaultsTyped DEF TypeOK
  <2> QED
    BY <2>1, <2>2 DEF WriteLog
<1>4. \A e \in log' : e[2] \in Types
  BY <1>1 DEF WriteLog, TypeOK
<1>5. Rest'
  BY <1>3, <1>4, Parts DEF WriteLog, Rest
<1> QED
  BY <1>2, <1>5, PartsNext

LEMMA RestartTyped ==
  ASSUME TypeOK, Restart
  PROVE  TypeOK'
<1>1. AgentsTyped'
  <2>1. Idle \in AgentType /\ Idle.pc = "idle"
    BY DEF Idle, AgentType, Types
  <2>2. \A a \in Accounts : agent'[a] = Idle
    BY DEF Restart
  <2>3. agent' \in [Accounts -> AgentType]
    BY <2>1 DEF Restart
  <2>4. todo' \in [Accounts -> Seq(Jobs)]
    BY DEF Restart
  <2> QED
    BY <2>1, <2>2, <2>3, <2>4 DEF AgentsTyped
<1>2. unlogged' \in [Subjects -> [Types -> Nat]]
  BY DEF Restart, TypeOK
<1>3. lostReset' \subseteq Subjects /\ restarts' \in 0..MaxRestarts
  BY AlertAssumption DEF Restart, TypeOK, AlertAssumption
<1>4. Rest'
  BY <1>2, <1>3, Parts DEF Restart, Rest
<1> QED
  BY <1>1, <1>4, PartsNext

LEMMA ReloadTyped ==
  ASSUME TypeOK, Reload
  PROVE  TypeOK'
<1>1. reloads' \in 0..MaxReloads
  BY AlertAssumption DEF Reload, TypeOK, AlertAssumption
<1> QED
  BY <1>1 DEF Reload, TypeOK

LEMMA NextTyped ==
  ASSUME TypeOK, [Next]_vars
  PROVE  TypeOK'
<1>1. ASSUME NEW a \in Accounts, AgentStep(a) PROVE TypeOK'
  BY <1>1, PollTyped, CycleTurnsTyped, ResetTyped, CheckTyped, ReadLogTyped,
     DeliverTyped, WriteLogTyped DEF AgentStep
<1>2. CASE UNCHANGED vars
  BY <1>2 DEF vars, TypeOK
<1> QED
  BY <1>1, <1>2, RestartTyped, ReloadTyped DEF Next

LEMMA InitTyped == Init => TypeOK
<1> SUFFICES ASSUME Init PROVE TypeOK
  OBVIOUS
<1>1. Idle \in AgentType /\ Idle.pc = "idle"
  BY DEF Idle, AgentType, Types
<1>2. AgentsTyped
  BY <1>1 DEF Init, AgentsTyped
<1>3. Rest
  BY AlertAssumption DEF Init, Rest, AlertAssumption
<1> QED
  BY <1>2, <1>3, Parts

-------------------------------------------------------------------------------
(* With one account every subject is a quota of it, under its own key.      *)
LEMMA Keys ==
  ASSUME Single
  PROVE  /\ \A s \in Subjects : s = <<Default, s[2]>> /\ s[1] = Default /\ s[2] \in Quotas
         /\ \A s \in Subjects : CheckKey(s[1], s[2]) = <<s[2]>>
         /\ \A a \in Accounts : a = Default
         /\ Default \in Accounts
         /\ \A q \in Quotas : <<Default, q>> \in Subjects
         /\ KeyOf(Default) = <<Job(Default).q>>
         /\ Subject(Default) = <<Default, Job(Default).q>>
BY DEF Single, Subjects, CheckKey, ResetKey, QuotaKey, KeyOf, Subject

LEMMA PollKeeps ==
  ASSUME IInv, Single, Poll(Default)
  PROVE  Underway' /\ Counted' /\ Silenced'
<1>1. /\ UNCHANGED <<log, agent, sent, unlogged, lostReset>>
      /\ agent[Default].pc = "idle"
  BY Keys DEF Poll, IInv, TypeOK
<1> QED
  BY <1>1 DEF IInv, Underway, Counted, Silenced

LEMMA CycleTurnsKeeps ==
  ASSUME IInv, Single, CycleTurns(Default)
  PROVE  Underway' /\ Counted' /\ Silenced'
<1> DEFINE q == Job(Default).q
<1>1. /\ todo[Default] # <<>> /\ agent[Default].pc = "idle"
      /\ agent' = [agent EXCEPT ![Default].pc = "callback"]
      /\ Job(Default).reset
      /\ sent' = [sent EXCEPT ![<<Default, q>>] = [t \in Types |-> 0]]
      /\ unlogged' = [unlogged EXCEPT ![<<Default, q>>] = [t \in Types |-> 0]]
      /\ lostReset' = lostReset \ {<<Default, q>>}
      /\ UNCHANGED <<todo, log>>
  BY Keys DEF CycleTurns
<1>2. Job(Default)' = Job(Default)
  BY <1>1 DEF Job
<1>3. agent'[Default].pc = "callback"
  BY <1>1, Keys, StepsOn DEF IInv
<1>4. q \in Quotas
  BY <1>1, Keys, JobFacts DEF IInv
<1> HIDE DEF q
<1>5. /\ \A t \in Types : sent'[<<Default, q>>][t] = 0 /\ unlogged'[<<Default, q>>][t] = 0
      /\ \A x \in Quotas \ {q} : /\ sent'[<<Default, x>>] = sent[<<Default, x>>]
                                 /\ unlogged'[<<Default, x>>] = unlogged[<<Default, x>>]
  BY <1>1, <1>4, Keys DEF IInv, TypeOK
<1>6. Underway'
  BY <1>1, <1>2, <1>3, <1>5 DEF Underway, q
<1>7. Counted'
  <2> SUFFICES ASSUME NEW x \in Quotas, NEW t \in Types
               PROVE  LET n == sent'[<<Default, x>>][t]
                          u == unlogged'[<<Default, x>>][t]
                      IN n <= u + 1 /\ (n > u => <<<<x>>, t>> \in log')
    BY DEF Counted
  <2>1. CASE x = q
    BY <1>5, <2>1
  <2>2. CASE x # q
    BY <1>1, <1>5, <2>2 DEF IInv, Counted
  <2> QED
    BY <2>1, <2>2
<1>8. Silenced'
  <2> SUFFICES ASSUME NEW x \in Quotas, NEW t \in Thresholds,
                      <<<<x>>, t>> \in log', <<Default, x>> \notin lostReset', x # q
               PROVE  sent'[<<Default, x>>][t] >= 1
    BY <1>2, <1>3 DEF Silenced, q
  <2>1. <<Default, x>> \notin lostReset
    BY <1>1
  <2> QED
    BY <1>1, <1>5, <2>1 DEF IInv, Silenced
<1> QED
  BY <1>6, <1>7, <1>8

(* The reset's callback: the entries of its quota are gone, or the reset is *)
(* lost to the log.                                                         *)
LEMMA ResetKeeps ==
  ASSUME IInv, Single, Reset(Default)
  PROVE  Underway' /\ Counted' /\ Silenced'
<1> DEFINE q == Job(Default).q
<1>1. /\ agent[Default].pc = "callback" /\ todo[Default] # <<>>
      /\ UNCHANGED <<sent, unlogged>>
      /\ \/ log' = log /\ lostReset' = lostReset \cup {<<Default, q>>}
         \/ log' = {e \in log : e[1] # <<q>>} /\ lostReset' = lostReset
  BY Keys DEF Reset, IInv, TypeOK
<1>2. agent'[Default].pc \in {"idle", "read"}
  <2>1. CASE Return(Default)
    BY <1>1, <2>1, Keys, ReturnFacts DEF IInv
  <2>2. CASE agent' = [agent EXCEPT ![Default] = [pc |-> "read", type |-> "reset"]]
    BY <2>2, Keys DEF IInv, TypeOK
  <2> QED
    BY <2>1, <2>2 DEF Reset
<1>3. q \in Quotas /\ \A t \in Types : sent[<<Default, q>>][t] = 0
  BY <1>1, Keys, JobFacts DEF IInv, Underway
<1>4. \A x \in Quotas, t \in Types : unlogged[<<Default, x>>][t] \in Nat
  BY Keys DEF IInv, TypeOK
<1> HIDE DEF q
<1>5. Underway'
  BY <1>2 DEF Underway
<1>6. Counted'
  <2> SUFFICES ASSUME NEW x \in Quotas, NEW t \in Types
               PROVE  LET n == sent[<<Default, x>>][t]
                          u == unlogged[<<Default, x>>][t]
                      IN n <= u + 1 /\ (n > u => <<<<x>>, t>> \in log')
    BY <1>1 DEF Counted
  <2>1. CASE x = q
    BY <1>3, <1>4, <2>1
  <2>2. CASE x # q
    <3>1. <<<<x>>, t>> \in log => <<<<x>>, t>> \in log'
      BY <1>1, <2>2
    <3> QED
      BY <1>1, <3>1 DEF IInv, Counted
  <2> QED
    BY <2>1, <2>2
<1>7. Silenced'
  <2> SUFFICES ASSUME NEW x \in Quotas, NEW t \in Thresholds,
                      <<<<x>>, t>> \in log', <<Default, x>> \notin lostReset'
               PROVE  sent[<<Default, x>>][t] >= 1
    BY <1>1 DEF Silenced
  <2>1. x # q /\ <<<<x>>, t>> \in log /\ <<Default, x>> \notin lostReset
    BY <1>1
  <2> QED
    BY <2>1 DEF IInv, Silenced, q
<1> QED
  BY <1>5, <1>6, <1>7

LEMMA CheckKeeps ==
  ASSUME IInv, Single, Check(Default)
  PROVE  Underway' /\ Counted' /\ Silenced'
<1>1. /\ todo[Default] # <<>> /\ agent[Default].pc = "idle"
      /\ UNCHANGED <<log, sent, unlogged, lostReset>>
  BY DEF Check
<1>2. agent'[Default].pc \in {"idle", "read"}
  <2>1. CASE Return(Default)
    BY <1>1, <2>1, Keys, ReturnFacts DEF IInv
  <2>2. CASE \E t \in TypeToSend(Job(Default).over) :
               agent' = [agent EXCEPT ![Default] = [pc |-> "read", type |-> t]]
    BY <2>2, Keys DEF IInv, TypeOK
  <2> QED
    BY <2>1, <2>2 DEF Check
<1> QED
  BY <1>1, <1>2 DEF IInv, Underway, Counted, Silenced

LEMMA ReadLogKeeps ==
  ASSUME IInv, Single, ReadLog(Default)
  PROVE  Underway' /\ Counted' /\ Silenced'
<1>1. /\ todo[Default] # <<>> /\ agent[Default].pc = "read"
      /\ UNCHANGED <<log, sent, unlogged, lostReset>>
  BY Keys DEF ReadLog, IInv, TypeOK
<1>2. CASE agent'[Default].pc = "idle"
  BY <1>1, <1>2 DEF IInv, Underway, Counted, Silenced
<1>3. CASE /\ <<KeyOf(Default), agent[Default].type>> \notin log
           /\ agent' = [agent EXCEPT ![Default].pc = "send"]
           /\ todo' = todo
  <2>1. agent'[Default].pc = "send" /\ agent'[Default].type = agent[Default].type
    BY <1>1, <1>3, Keys, StepsOn DEF IInv
  <2>2. Job(Default)' = Job(Default)
    BY <1>3 DEF Job
  <2>3. Underway'
    BY <1>1, <1>3, <2>1, <2>2, Keys DEF Underway
  <2>4. Counted' /\ Silenced'
    BY <1>1, <2>1 DEF IInv, Counted, Silenced
  <2> QED
    BY <2>3, <2>4
<1> QED
  BY <1>1, <1>2, <1>3, Keys, ReturnFacts DEF ReadLog, IInv

LEMMA DeliverKeeps ==
  ASSUME IInv, Single, Deliver(Default)
  PROVE  Underway' /\ Counted' /\ Silenced'
<1> DEFINE q == Job(Default).q
           k == agent[Default].type
<1>1. /\ todo[Default] # <<>> /\ agent[Default].pc = "send" /\ k \in Types
      /\ UNCHANGED <<log, unlogged, lostReset>>
  BY Keys DEF Deliver, IInv, TypeOK
<1>2. CASE Return(Default) /\ UNCHANGED sent
  <2>1. agent'[Default].pc = "idle"
    BY <1>1, <1>2, Keys, ReturnFacts DEF IInv
  <2> QED
    BY <1>1, <1>2, <2>1 DEF IInv, Underway, Counted, Silenced
<1>3. CASE /\ agent' = [agent EXCEPT ![Default].pc = "log"] /\ UNCHANGED todo
           /\ sent' = [sent EXCEPT ![<<Default, q>>][k] = @ + 1]
  <2>1. agent'[Default].pc = "log" /\ agent'[Default].type = k
    BY <1>1, <1>3, Keys, StepsOn DEF IInv
  <2>2. Job(Default)' = Job(Default)
    BY <1>3 DEF Job
  <2>3. q \in Quotas /\ <<<<q>>, k>> \notin log
    BY <1>1, Keys, JobFacts DEF IInv, Underway
  <2>4. \A x \in Quotas, t \in Types :
          sent[<<Default, x>>][t] \in Nat /\ unlogged[<<Default, x>>][t] \in Nat
    BY Keys DEF IInv, TypeOK
  <2> HIDE DEF q, k
  <2>5. /\ sent'[<<Default, q>>][k] = sent[<<Default, q>>][k] + 1
        /\ \A x \in Quotas, t \in Types :
             (x # q \/ t # k) => sent'[<<Default, x>>][t] = sent[<<Default, x>>][t]
    BY <1>1, <1>3, <2>3, Keys DEF IInv, TypeOK
  <2>6. sent[<<Default, q>>][k] <= unlogged[<<Default, q>>][k]
    <3>1. ~(sent[<<Default, q>>][k] > unlogged[<<Default, q>>][k])
      BY <1>1, <2>3 DEF IInv, Counted
    <3> QED
      BY <1>1, <2>3, <2>4, <3>1
  <2>7. Underway'
    BY <1>1, <2>1, <2>2, <2>3, <2>4, <2>5 DEF Underway, q
  <2>8. Counted'
    <3> SUFFICES ASSUME NEW x \in Quotas, NEW t \in Types
                 PROVE  LET n == sent'[<<Default, x>>][t]
                            u == unlogged[<<Default, x>>][t]
                        IN /\ n <= u + 1
                           /\ n > u => (<<<<x>>, t>> \in log \/ (x = q /\ t = k))
      BY <1>1, <2>1, <2>2 DEF Counted, q
    <3>1. CASE x = q /\ t = k
      BY <2>4, <2>5, <2>6, <3>1
    <3>2. CASE x # q \/ t # k
      BY <1>1, <2>5, <3>2 DEF IInv, Counted
    <3> QED
      BY <3>1, <3>2
  <2>9. Silenced'
    <3> SUFFICES ASSUME NEW x \in Quotas, NEW t \in Thresholds,
                        <<<<x>>, t>> \in log, <<Default, x>> \notin lostReset
                 PROVE  sent'[<<Default, x>>][t] >= 1
      BY <1>1, <2>1 DEF Silenced
    <3>1. t \in Types /\ (x # q \/ t # k) /\ sent[<<Default, x>>][t] >= 1
      BY <1>1, <2>3 DEF IInv, Silenced, Types
    <3> QED
      BY <2>5, <3>1
  <2> QED
    BY <2>7, <2>8, <2>9
<1> QED
  BY <1>2, <1>3, Keys DEF Deliver

LEMMA WriteLogKeeps ==
  ASSUME IInv, Single, WriteLog(Default)
  PROVE  Underway' /\ Counted' /\ Silenced'
<1> DEFINE q == Job(Default).q
           k == agent[Default].type
<1>1. /\ todo[Default] # <<>> /\ agent[Default].pc = "log" /\ k \in Types
      /\ Return(Default)
      /\ UNCHANGED <<sent, lostReset>>
      /\ \/ log' = log \cup {<<<<q>>, k>>} /\ unlogged' = unlogged
         \/ /\ log' = log
            /\ unlogged' = [unlogged EXCEPT ![<<Default, q>>][k] = @ + 1]
  BY Keys DEF WriteLog, IInv, TypeOK
<1>2. agent'[Default].pc = "idle"
  BY <1>1, Keys, ReturnFacts DEF IInv
<1>3. q \in Quotas /\ sent[<<Default, q>>][k] >= 1
  BY <1>1, Keys, JobFacts DEF IInv, Underway
<1>4. \A x \in Quotas, t \in Types :
        sent[<<Default, x>>][t] \in Nat /\ unlogged[<<Default, x>>][t] \in Nat
  BY Keys DEF IInv, TypeOK
<1>5. \A x \in Quotas, t \in Types :
        /\ sent[<<Default, x>>][t] <= unlogged[<<Default, x>>][t] + 1
        /\ sent[<<Default, x>>][t] > unlogged[<<Default, x>>][t] =>
             <<<<x>>, t>> \in log \/ (x = q /\ t = k)
  BY <1>1 DEF IInv, Counted
<1> HIDE DEF q, k
<1>6. Underway'
  BY <1>2 DEF Underway
<1>7. Counted'
  <2> SUFFICES ASSUME NEW x \in Quotas, NEW t \in Types
               PROVE  LET n == sent[<<Default, x>>][t]
                          u == unlogged'[<<Default, x>>][t]
                      IN n <= u + 1 /\ (n > u => <<<<x>>, t>> \in log')
    BY <1>1 DEF Counted
  <2>1. CASE log' = log \cup {<<<<q>>, k>>} /\ unlogged' = unlogged
    BY <1>5, <2>1
  <2>2. CASE /\ log' = log
             /\ unlogged' = [unlogged EXCEPT ![<<Default, q>>][k] = @ + 1]
    <3>1. /\ unlogged'[<<Default, q>>][k] = unlogged[<<Default, q>>][k] + 1
          /\ (x # q \/ t # k) => unlogged'[<<Default, x>>][t] = unlogged[<<Default, x>>][t]
      BY <1>1, <1>3, <2>2, Keys DEF IInv, TypeOK
    <3>2. CASE x = q /\ t = k
      BY <1>4, <1>5, <3>1, <3>2
    <3>3. CASE x # q \/ t # k
      BY <1>5, <2>2, <3>1, <3>3
    <3> QED
      BY <3>2, <3>3
  <2> QED
    BY <1>1, <2>1, <2>2
<1>8. Silenced'
  <2> SUFFICES ASSUME NEW x \in Quotas, NEW t \in Thresholds,
                      <<<<x>>, t>> \in log', <<Default, x>> \notin lostReset
               PROVE  sent[<<Default, x>>][t] >= 1
    BY <1>1 DEF Silenced
  <2>1. CASE x = q /\ t = k
    BY <1>3, <2>1
  <2>2. CASE x # q \/ t # k
    <3>1. <<<<x>>, t>> \in log
      BY <1>1, <2>2
    <3> QED
      BY <1>1, <3>1 DEF IInv, Silenced
  <2> QED
    BY <2>1, <2>2
<1> QED
  BY <1>6, <1>7, <1>8

(* A crash: an alert that was about to be logged is lost to the log, and so *)
(* is a reset before its callback.                                          *)
LEMMA RestartKeeps ==
  ASSUME IInv, Single, Restart
  PROVE  Underway' /\ Counted' /\ Silenced'
<1> DEFINE q == Job(Default).q
           i == agent[Default]
<1>1. agent'[Default].pc = "idle" /\ log' = log /\ sent' = sent
  BY Keys DEF Restart, Idle
<1>2. \A x \in Quotas, t \in Types :
        /\ sent[<<Default, x>>][t] \in Nat /\ unlogged[<<Default, x>>][t] \in Nat
        /\ unlogged'[<<Default, x>>][t] =
             IF i.pc = "log" /\ q = x /\ i.type = t THEN unlogged[<<Default, x>>][t] + 1
                                                   ELSE unlogged[<<Default, x>>][t]
  <2> SUFFICES ASSUME NEW x \in Quotas, NEW t \in Types
               PROVE  /\ sent[<<Default, x>>][t] \in Nat
                      /\ unlogged[<<Default, x>>][t] \in Nat
                      /\ unlogged'[<<Default, x>>][t] =
                           IF i.pc = "log" /\ q = x /\ i.type = t
                             THEN unlogged[<<Default, x>>][t] + 1
                             ELSE unlogged[<<Default, x>>][t]
    OBVIOUS
  <2>1. <<Default, x>> \in Subjects /\ (Subject(Default) = <<Default, x>> <=> q = x)
    BY Keys
  <2>2. sent[<<Default, x>>][t] \in Nat /\ unlogged[<<Default, x>>][t] \in Nat
    BY <2>1 DEF IInv, TypeOK
  <2>3. unlogged'[<<Default, x>>][t] =
          IF i.pc = "log" /\ Subject(Default) = <<Default, x>> /\ i.type = t
            THEN unlogged[<<Default, x>>][t] + 1 ELSE unlogged[<<Default, x>>][t]
    BY <2>1 DEF Restart
  <2> QED
    BY <2>1, <2>2, <2>3
<1>3. \A x \in Quotas : <<Default, x>> \notin lostReset' =>
        <<Default, x>> \notin lostReset /\ ~(i.pc = "callback" /\ q = x)
  BY Keys DEF Restart
<1>4. Underway'
  BY <1>1 DEF Underway
<1>5. Counted'
  <2> SUFFICES ASSUME NEW x \in Quotas, NEW t \in Types
               PROVE  LET n == sent[<<Default, x>>][t]
                          u == unlogged'[<<Default, x>>][t]
                      IN n <= u + 1 /\ (n > u => <<<<x>>, t>> \in log)
    BY <1>1 DEF Counted
  <2>1. LET n == sent[<<Default, x>>][t]
            u == unlogged[<<Default, x>>][t]
        IN /\ n <= u + 1
           /\ n > u => (<<<<x>>, t>> \in log \/ (i.pc = "log" /\ q = x /\ i.type = t))
    BY DEF IInv, Counted
  <2> HIDE DEF i, q
  <2> QED
    BY <1>2, <2>1
<1>6. Silenced'
  BY <1>1, <1>3 DEF IInv, Silenced
<1> QED
  BY <1>4, <1>5, <1>6

LEMMA NextKeeps ==
  ASSUME Single, IInv, [Next]_vars
  PROVE  IInv'
<1>1. TypeOK'
  BY NextTyped DEF IInv
<1>2. ASSUME NEW a \in Accounts, AgentStep(a)
      PROVE  Underway' /\ Counted' /\ Silenced'
  <2>1. AgentStep(Default)
    BY <1>2, Keys
  <2> QED
    BY <2>1, PollKeeps, CycleTurnsKeeps, ResetKeeps, CheckKeeps, ReadLogKeeps,
       DeliverKeeps, WriteLogKeeps DEF AgentStep
<1>3. CASE Reload \/ UNCHANGED vars
  <2>1. UNCHANGED <<log, agent, todo, sent, unlogged, lostReset>>
    BY <1>3 DEF Reload, vars
  <2> QED
    BY <1>1, <2>1 DEF IInv, Underway, Counted, Silenced, Job
<1>4. Underway' /\ Counted' /\ Silenced' => IInv'
  BY <1>1 DEF IInv
<1> QED
  BY <1>2, <1>3, <1>4, RestartKeeps DEF Next

LEMMA InitIInv ==
  ASSUME Single, Init
  PROVE  IInv
<1>1. TypeOK
  BY InitTyped
<1>2. agent[Default].pc = "idle" /\ log = {}
  BY Keys DEF Init, Idle
<1>3. \A q \in Quotas, t \in Types :
        sent[<<Default, q>>][t] = 0 /\ unlogged[<<Default, q>>][t] = 0
  BY Keys DEF Init
<1> QED
  BY <1>1, <1>2, <1>3 DEF IInv, Underway, Counted, Silenced

-------------------------------------------------------------------------------
(* The settings, the log, the agents and their Check calls are well typed   *)
(* in every state, for every provider and any accounts.                     *)
THEOREM TypeCorrect == Spec => []TypeOK
BY InitTyped, NextTyped, PTL DEF Spec

THEOREM Invariance == ASSUME Single PROVE Spec => []IInv
BY InitIInv, NextKeeps, PTL DEF Spec

(* One account: an alert of a type goes out once in a cycle of its quota,   *)
(* and once more only for each one that never reached the log.              *)
THEOREM FiresOnce == ASSUME Single PROVE Spec => []AtMostOncePerCycle
<1>1. IInv => AtMostOncePerCycle
  <2> SUFFICES ASSUME IInv, NEW s \in Subjects, NEW t \in Types
               PROVE  sent[s][t] <= 1 + unlogged[s][t]
    BY DEF AtMostOncePerCycle
  <2>1. s = <<Default, s[2]>> /\ s[2] \in Quotas /\ unlogged[s][t] \in Nat
    BY Keys DEF IInv, TypeOK
  <2>2. sent[s][t] <= unlogged[s][t] + 1
    BY <2>1 DEF IInv, Counted
  <2>3. sent[s][t] \in Nat
    BY DEF IInv, TypeOK
  <2> QED
    BY <2>1, <2>2, <2>3
<1> QED
  BY <1>1, Invariance, PTL

(* One account: an entry of the log is from the current cycle of its quota, *)
(* whose alert has gone out, unless the reset was lost to the log.          *)
THEOREM SilencedRightly == ASSUME Single PROVE Spec => []SilencedOnlyIfSent
<1>1. IInv => SilencedOnlyIfSent
  <2> SUFFICES ASSUME IInv, NEW s \in Subjects, NEW t \in Thresholds,
                      <<CheckKey(s[1], s[2]), t>> \in log, s \notin lostReset,
                      agent[s[1]].pc # "callback" \/ Subject(s[1]) # s
               PROVE  sent[s][t] >= 1
    BY DEF SilencedOnlyIfSent
  <2> DEFINE q == s[2]
  <2>1. /\ s = <<Default, q>> /\ s[1] = Default /\ q \in Quotas
        /\ CheckKey(s[1], q) = <<q>> /\ Subject(Default) = <<Default, Job(Default).q>>
    BY Keys
  <2>2. <<<<q>>, t>> \in log
    BY <2>1
  <2>3. ~(agent[Default].pc = "callback" /\ Job(Default).q = q)
    BY <2>1
  <2> HIDE DEF q
  <2> QED
    BY <2>1, <2>2, <2>3 DEF IInv, Silenced
<1> QED
  BY <1>1, Invariance, PTL
===============================================================================
