------------------------- MODULE AccountManager_proofs -------------------------
(***************************************************************************)
(* The account managers, for any accounts, agents, handlers and Runs.      *)
(*                                                                         *)
(* Nobody is to find an agent polling that nothing can stop, or an account *)
(* that polls with an old key, unless a Reload met a Run that was loading  *)
(* or stopping.  Until that happens one thread at a time is busy with the  *)
(* agents, though Run does not take reloadMu, and what polls is in the map *)
(* or taken from it by that thread.                                        *)
(***************************************************************************)
EXTENDS AccountManager, TLAPS

Places == {"new", "idle", "lock", "ready", "done"} \cup Loading \cup Stopping

ThreadType ==
  [pc : Places, list : SUBSET (Accounts \X Versions),
   cur : (Accounts \X Versions) \cup {Null}, made : Agents \cup {Null},
   taken : SUBSET Agents]

AgentType ==
  [acc : Accounts \cup {Null}, ver : Versions \cup {Null}, parent : Runs \cup {Null},
   cancelled : BOOLEAN, state : {"unused", "made", "live", "done"}]

(* TypeOK, and which local variables of a thread are set where it is.       *)
Typed ==
  /\ TypeOK
  /\ th \in [Threads -> ThreadType]
  /\ \A t \in Threads : th[t].pc = "insert" => th[t].cur \in Accounts \X Versions
  /\ \A t \in Threads : th[t].pc = "launch" => th[t].made \in Agents
  /\ \A t \in Threads : th[t].taken # {} => th[t].pc = "cancel"

(* What a thread has taken to cancel was made, and is not in the map.       *)
TakenGone ==
  \A t \in Threads : \A i \in th[t].taken :
    agent[i].state # "unused" /\ \A x \in Accounts : instances[x] # i

Busy(t) == th[t].pc \in Loading \cup Stopping
Resting(r) == th[r].pc \in {"new", "done"}
Empty == \A x \in Accounts : instances[x] = Null

(* Who holds what: reloadMu is with the handler that is in Reload, m.ctx is *)
(* of the Run that has begun and not ended, which stops when it is done.    *)
Order ==
  /\ \A h \in Handlers : Busy(h) <=> reloadMu = h
  /\ \A r \in Runs : ~Resting(r) => mctx = r
  /\ \A r \in Runs : th[r].pc = "new" => r \notin ctxDone /\ mctx # r
  /\ \A r \in Runs : th[r].pc \in Stopping \cup {"done"} => r \in ctxDone

(* As long as no Reload has met a Run that was loading or stopping.         *)
Held ==
  /\ \A i \in Agents : Polling(i) =>
       /\ agent[i].acc \in Accounts
       /\ \/ instances[agent[i].acc] = i
          \/ \E t \in Threads : i \in th[t].taken
  /\ \A i, j \in Agents :
       Polling(i) /\ Polling(j) /\ agent[i].acc = agent[j].acc => i = j
  /\ \A t \in Threads : th[t].pc \in {"cancel", "wait", "query"} => Empty
  /\ \A t \in Threads : th[t].pc = "insert" => instances[th[t].cur[1]] = Null
  /\ \A t \in Threads : th[t].pc = "launch" =>
       agent[th[t].made].acc \in Accounts /\ instances[agent[th[t].made].acc] = th[t].made
  /\ (\A r \in Runs : Resting(r)) => Empty /\ reloadMu = Null
  /\ \A x \in Accounts : instances[x] # Null => agent[instances[x]].parent = mctx

(* The accounts will be loaded again: a handler is on its way to Reload, a  *)
(* thread is before its query, or there is no Run that is not cancelled.    *)
Pending ==
  \/ \E h \in Handlers : th[h].pc = "lock"
  \/ \E t \in Threads : th[t].pc \in Stopping \cup {"query"}
  \/ \A r \in Runs : Resting(r) \/ r \in ctxDone

After == {"load", "insert", "launch"}

(* If they will not, what the map, a thread's list and its account say is   *)
(* what the database says, and together they have every account.            *)
Loaded ==
  /\ \A t \in Threads : th[t].pc \in After => \A e \in th[t].list : db[e[1]] = e[2]
  /\ \A t \in Threads : th[t].pc = "insert" => db[th[t].cur[1]] = th[t].cur[2]
  /\ \A x \in Accounts : instances[x] # Null =>
       /\ agent[instances[x]].ver = db[x]
       /\ \/ agent[instances[x]].state = "live"
          \/ \E t \in Threads : th[t].pc = "launch" /\ th[t].made = instances[x]
  /\ \A x \in Accounts : db[x] # Null =>
       \/ instances[x] # Null
       \/ \E t \in Threads : \/ th[t].pc \in After /\ <<x, db[x]>> \in th[t].list
                             \/ th[t].pc = "insert" /\ th[t].cur = <<x, db[x]>>

Unharmed == ~raced /\ errors = 0 /\ panics = 0

IInv ==
  /\ Typed /\ ListedNotCancelled /\ TakenGone /\ Order
  /\ ~raced => ~Overlap /\ Held
  /\ Unharmed /\ ~Pending => Loaded

-------------------------------------------------------------------------------
LEMMA Names ==
  /\ Null \notin Runs /\ Null \notin Handlers /\ Null \notin Agents
  /\ \A r \in Runs : r \notin Handlers
  /\ Threads = Runs \cup Handlers
  /\ MaxVersion \in Nat /\ MaxErrors \in Nat /\ MaxPanics \in Nat
BY AccountAssumption DEF AccountAssumption, Threads

(* Typed is about the threads and about the rest.                           *)
Data ==
  /\ db \in [Accounts -> Versions \cup {Null}]
  /\ version \in Versions
  /\ instances \in [Accounts -> Agents \cup {Null}]
  /\ agent \in [Agents -> AgentType]
  /\ mctx \in Runs \cup {Null}
  /\ ctxDone \subseteq Runs
  /\ reloadMu \in Handlers \cup {Null}
  /\ errors \in 0..MaxErrors /\ panics \in 0..MaxPanics

ThreadsTyped ==
  /\ th \in [Threads -> ThreadType]
  /\ \A t \in Threads : th[t].pc = "insert" => th[t].cur \in Accounts \X Versions
  /\ \A t \in Threads : th[t].pc = "launch" => th[t].made \in Agents
  /\ \A t \in Threads : th[t].taken # {} => th[t].pc = "cancel"

LEMMA Parts == Typed => Data /\ ThreadsTyped /\ raced \in BOOLEAN
  BY DEF Typed, TypeOK, Data, ThreadsTyped, AgentType

LEMMA PartsNext == Data' /\ ThreadsTyped' /\ raced' \in BOOLEAN => Typed'
<1> SUFFICES ASSUME Data', ThreadsTyped', raced' \in BOOLEAN PROVE Typed'
  OBVIOUS
<1>1. \A t \in Threads :
        /\ th'[t].pc \in {"new", "idle", "lock", "ready", "done"}
                           \cup Loading \cup Stopping
        /\ th'[t].list \subseteq Accounts \X Versions
        /\ th'[t].cur \in (Accounts \X Versions) \cup {Null}
        /\ th'[t].made \in Agents \cup {Null}
        /\ th'[t].taken \subseteq Agents
  BY DEF ThreadsTyped, ThreadType, Places
<1>2. TypeOK'
  BY <1>1 DEF Data, TypeOK, AgentType
<1> QED
  BY <1>2 DEF ThreadsTyped, Typed

(* Every step keeps track of the races.                                     *)
Watched == raced' = (raced \/ Overlap')

LEMMA RacedFacts ==
  ASSUME Typed, Watched
  PROVE  raced' \in BOOLEAN /\ (~raced' => ~raced /\ ~Overlap')
<1>1. raced \in BOOLEAN
  BY Parts
<1> QED
  BY <1>1, Zenon DEF Watched

(* Unless raced, only one thread at a time is busy with the agents.         *)
LEMMA OneBusy ==
  ASSUME Order, ~Overlap, NEW t \in Threads, NEW u \in Threads, Busy(t), Busy(u)
  PROVE  t = u
<1>1. \A r \in Runs : Busy(r) => ~Resting(r)
  BY DEF Busy, Resting, Loading, Stopping
<1>2. \A h \in Handlers : Busy(h) => reloadMu = h /\ reloadMu # Null
  BY Names DEF Order
<1>3. ASSUME NEW h \in Handlers, NEW r \in Runs, Busy(h), Busy(r) PROVE FALSE
  BY <1>2, <1>3 DEF Overlap, Busy
<1> QED
  BY <1>1, <1>2, <1>3, Names DEF Order

(* A thread that goes to another place, and nothing else of it changes.     *)
LEMMA GotoFacts ==
  ASSUME Typed, NEW t \in Threads, NEW pc \in Places, Goto(t, pc)
  PROVE  /\ th' \in [Threads -> ThreadType]
         /\ th'[t].pc = pc
         /\ th'[t].list = th[t].list /\ th'[t].cur = th[t].cur
         /\ th'[t].made = th[t].made /\ th'[t].taken = th[t].taken
         /\ \A u \in Threads \ {t} : th'[u] = th[u]
<1>1. th \in [Threads -> ThreadType]
  BY DEF Typed
<1>2. th[t] \in ThreadType
  BY <1>1
<1> DEFINE v == [th[t] EXCEPT !.pc = pc]
<1>3. /\ v \in ThreadType /\ v.pc = pc
      /\ v.list = th[t].list /\ v.cur = th[t].cur
      /\ v.made = th[t].made /\ v.taken = th[t].taken
  BY <1>2 DEF ThreadType
<1>4. th' = [th EXCEPT ![t] = v]
  BY DEF Goto
<1> HIDE DEF v
<1>5. th'[t] = v /\ th' \in [Threads -> ThreadType]
      /\ \A u \in Threads \ {t} : th'[u] = th[u]
  BY <1>1, <1>3, <1>4
<1> QED
  BY <1>3, <1>5

(* Where it may go with its local variables as they are.                    *)
LEMMA GotoTyped ==
  ASSUME Typed, NEW t \in Threads, NEW pc \in Places \ {"insert", "launch"},
         th[t].pc # "cancel", Goto(t, pc)
  PROVE  ThreadsTyped'
<1>1. /\ th' \in [Threads -> ThreadType]
      /\ th'[t].pc = pc /\ th'[t].taken = th[t].taken
      /\ \A u \in Threads \ {t} : th'[u] = th[u]
  BY GotoFacts
<1>2. th[t].taken = {}
  BY DEF Typed
<1>3. \A u \in Threads : th'[u].pc = "insert" => th'[u].cur \in Accounts \X Versions
  BY <1>1 DEF Typed
<1>4. \A u \in Threads : th'[u].pc = "launch" => th'[u].made \in Agents
  BY <1>1 DEF Typed
<1>5. \A u \in Threads : th'[u].taken # {} => th'[u].pc = "cancel"
  BY <1>1, <1>2 DEF Typed
<1> QED
  BY <1>1, <1>3, <1>4, <1>5 DEF ThreadsTyped

(* A step keeps the invariant if it keeps its parts.                        *)
LEMMA Assemble ==
  ASSUME IInv, Watched, Data', ThreadsTyped', ListedNotCancelled', TakenGone', Order',
         ~raced' => Held', Unharmed' /\ ~Pending' => Loaded'
  PROVE  IInv'
<1>1. raced' \in BOOLEAN /\ (~raced' => ~Overlap')
  BY RacedFacts DEF IInv
<1>2. Typed'
  BY <1>1, PartsNext
<1> QED
  BY <1>1, <1>2 DEF IInv

LEMMA ListingKept ==
  ASSUME IInv, UNCHANGED <<instances, agent>>,
         \A t \in Threads : th'[t].taken = th[t].taken
  PROVE  ListedNotCancelled' /\ TakenGone'
BY DEF IInv, ListedNotCancelled, TakenGone

(* A thread moves, with the agents and the map as they are.                 *)
LEMMA HeldMoves ==
  ASSUME Typed, Held, NEW t \in Threads,
         th'[t].pc \notin {"launch", "cancel", "wait"},
         \A u \in Threads : th'[u].taken = th[u].taken,
         \A u \in Threads \ {t} : th'[u] = th[u],
         UNCHANGED <<instances, agent, ctxDone>>,
         mctx' = mctx \/ Empty,
         th'[t].pc = "query" => Empty,
         th'[t].pc = "insert" => instances[th'[t].cur[1]] = Null,
         (\A r \in Runs : Resting(r)') => Empty /\ reloadMu' = Null
  PROVE  Held'
<1>1. \A i \in Agents : Polling(i)' <=> Polling(i)
  BY DEF Polling, Cancelled
<1>2. Empty' <=> Empty
  BY DEF Empty
<1>3. \A i \in Agents : Polling(i)' =>
        /\ agent'[i].acc \in Accounts
        /\ \/ instances'[agent'[i].acc] = i
           \/ \E u \in Threads : i \in th'[u].taken
  BY <1>1 DEF Held
<1>4. \A i, j \in Agents :
        Polling(i)' /\ Polling(j)' /\ agent'[i].acc = agent'[j].acc => i = j
  BY <1>1 DEF Held
<1>5. \A u \in Threads : th'[u].pc \in {"cancel", "wait", "query"} => Empty'
  BY <1>2 DEF Held
<1>6. \A u \in Threads : th'[u].pc = "insert" => instances'[th'[u].cur[1]] = Null
  BY DEF Held
<1>7. \A u \in Threads : th'[u].pc = "launch" =>
        /\ agent'[th'[u].made].acc \in Accounts
        /\ instances'[agent'[th'[u].made].acc] = th'[u].made
  BY DEF Held
<1>8. (\A r \in Runs : Resting(r)') => Empty' /\ reloadMu' = Null
  BY <1>2
<1>9. \A x \in Accounts : instances'[x] # Null => agent'[instances'[x]].parent = mctx'
  BY DEF Held, Empty
<1> QED
  BY <1>3, <1>4, <1>5, <1>6, <1>7, <1>8, <1>9 DEF Held

-------------------------------------------------------------------------------
LEMMA RunBeginsKeeps ==
  ASSUME IInv, Watched, NEW r \in Runs, RunBegins(r)
  PROVE  IInv'
<1>1. /\ th[r].pc = "new" /\ (\A s \in Runs : Resting(s))
      /\ mctx' = r /\ Goto(r, "query") /\ r \in Threads
      /\ UNCHANGED <<db, version, instances, agent, ctxDone, reloadMu, errors, panics>>
  BY Names DEF RunBegins, Resting
<1>2. /\ th'[r].pc = "query"
      /\ \A u \in Threads : th'[u].taken = th[u].taken
      /\ \A u \in Threads \ {r} : th'[u] = th[u]
  BY <1>1, GotoFacts DEF IInv, Places, Loading
<1>3. Data'
  BY <1>1, Parts DEF IInv, Data
<1>4. ThreadsTyped'
  BY <1>1, GotoTyped DEF IInv, Places, Loading
<1>5. ListedNotCancelled' /\ TakenGone'
  BY <1>1, <1>2, ListingKept
<1>6. Order'
  <2>1. \A h \in Handlers : h \in Threads /\ h # r
    BY Names
  <2>2. \A h \in Handlers : Busy(h)' <=> reloadMu' = h
    BY <1>1, <1>2, <2>1 DEF IInv, Order, Busy
  <2>3. \A s \in Runs \ {r} : th'[s] = th[s]
    BY <1>2, Names
  <2> QED
    BY <1>1, <1>2, <2>2, <2>3 DEF IInv, Order, Resting, Stopping
<1>7. ~raced' => Held'
  <2> SUFFICES ASSUME ~raced' PROVE Held'
    OBVIOUS
  <2>1. Held /\ Empty
    BY <1>1, RacedFacts DEF IInv, Held
  <2>2. ~(\A s \in Runs : Resting(s)')
    BY <1>2 DEF Resting
  <2> QED
    BY <1>1, <1>2, <2>1, <2>2, HeldMoves DEF IInv
<1>8. Pending'
  BY <1>1, <1>2 DEF Pending
<1> QED
  BY <1>3, <1>4, <1>5, <1>6, <1>7, <1>8, Assemble

LEMMA StopRunKeeps ==
  ASSUME IInv, Watched, NEW r \in Runs, StopRun(r)
  PROVE  IInv'
<1>1. /\ ~Resting(r) /\ ctxDone' = ctxDone \cup {r}
      /\ UNCHANGED <<db, version, instances, agent, mctx, reloadMu, th, errors, panics>>
  BY DEF StopRun, Resting
<1>2. Data'
  BY <1>1, Parts DEF IInv, Data
<1>3. ThreadsTyped'
  BY <1>1, Parts DEF IInv, ThreadsTyped
<1>4. ListedNotCancelled' /\ TakenGone'
  BY <1>1, ListingKept
<1>5. Order'
  BY <1>1 DEF IInv, Order, Busy, Resting
<1>6. ~raced' => Held'
  <2> SUFFICES ASSUME ~raced' PROVE Held'
    OBVIOUS
  <2>1. Held
    BY RacedFacts DEF IInv
  <2>2. \A i \in Agents : Polling(i)' => Polling(i)
    BY <1>1 DEF Polling, Cancelled
  <2>3. Empty' <=> Empty
    BY <1>1 DEF Empty
  <2>4. \A i \in Agents : Polling(i)' =>
          /\ agent[i].acc \in Accounts
          /\ \/ instances[agent[i].acc] = i
             \/ \E t \in Threads : i \in th[t].taken
    BY <2>1, <2>2 DEF Held
  <2>5. \A i, j \in Agents :
          Polling(i)' /\ Polling(j)' /\ agent[i].acc = agent[j].acc => i = j
    BY <2>1, <2>2 DEF Held
  <2>6. (\A s \in Runs : Resting(s)') => Empty' /\ reloadMu' = Null
    BY <1>1 DEF Resting
  <2> QED
    BY <1>1, <2>1, <2>3, <2>4, <2>5, <2>6 DEF Held
<1>7. Pending'
  <2>1. \A s \in Runs : Resting(s) \/ s = r
    BY <1>1 DEF IInv, Order
  <2> QED
    BY <1>1, <2>1 DEF Pending, Resting
<1> QED
  BY <1>2, <1>3, <1>4, <1>5, <1>6, <1>7, Assemble

LEMMA RunStopsKeeps ==
  ASSUME IInv, Watched, NEW r \in Runs, RunStops(r)
  PROVE  IInv'
<1>1. /\ th[r].pc = "ready" /\ mctx \in ctxDone /\ Goto(r, "swap") /\ r \in Threads
      /\ UNCHANGED <<db, version, instances, agent, mctx, ctxDone, reloadMu, errors,
                    panics>>
  BY Names DEF RunStops
<1>2. /\ th'[r].pc = "swap"
      /\ \A u \in Threads : th'[u].taken = th[u].taken
      /\ \A u \in Threads \ {r} : th'[u] = th[u]
  BY <1>1, GotoFacts DEF IInv, Places, Stopping
<1>3. Data'
  BY <1>1, Parts DEF IInv, Data
<1>4. ThreadsTyped'
  BY <1>1, GotoTyped DEF IInv, Places, Stopping
<1>5. ListedNotCancelled' /\ TakenGone'
  BY <1>1, <1>2, ListingKept
<1>6. Order'
  <2>1. \A h \in Handlers : h \in Threads /\ h # r
    BY Names
  <2>2. \A h \in Handlers : Busy(h)' <=> reloadMu' = h
    BY <1>1, <1>2, <2>1 DEF IInv, Order, Busy
  <2>3. \A s \in Runs \ {r} : th'[s] = th[s]
    BY <1>2, Names
  <2>4. mctx = r
    BY <1>1 DEF IInv, Order, Resting
  <2> QED
    BY <1>1, <1>2, <2>2, <2>3, <2>4 DEF IInv, Order, Resting
<1>7. ~raced' => Held'
  <2> SUFFICES ASSUME ~raced' PROVE Held'
    OBVIOUS
  <2>1. Held
    BY RacedFacts DEF IInv
  <2>2. ~(\A s \in Runs : Resting(s)')
    BY <1>2 DEF Resting
  <2> QED
    BY <1>1, <1>2, <2>1, <2>2, HeldMoves DEF IInv
<1>8. Pending'
  BY <1>1, <1>2 DEF Pending, Stopping
<1> QED
  BY <1>3, <1>4, <1>5, <1>6, <1>7, <1>8, Assemble

LEMMA SaveAccountKeeps ==
  ASSUME IInv, Watched, NEW h \in Handlers, NEW x \in Accounts, SaveAccount(h, x)
  PROVE  IInv'
<1>1. /\ th[h].pc = "idle" /\ Goto(h, "lock") /\ h \in Threads
      /\ UNCHANGED <<instances, agent, mctx, ctxDone, reloadMu, errors, panics>>
  BY Names DEF SaveAccount
<1>2. /\ th'[h].pc = "lock"
      /\ \A u \in Threads : th'[u].taken = th[u].taken
      /\ \A u \in Threads \ {h} : th'[u] = th[u]
  BY <1>1, GotoFacts DEF IInv, Places
<1>3. version' \in Versions /\ db' \in [Accounts -> Versions \cup {Null}]
  <2>1. version \in 0..MaxVersion /\ version < MaxVersion /\ version' = version + 1
    BY Parts DEF IInv, Data, SaveAccount, Versions
  <2>2. version' \in Versions
    BY <2>1, Names DEF Versions
  <2>3. db \in [Accounts -> Versions \cup {Null}]
    BY Parts DEF IInv, Data
  <2>4. \E v \in Versions \cup {Null} : db' = [db EXCEPT ![x] = v]
    BY <2>1, <2>2 DEF SaveAccount
  <2> QED
    BY <2>2, <2>3, <2>4
<1>4. Data'
  BY <1>1, <1>3, Parts DEF IInv, Data
<1>5. ThreadsTyped'
  BY <1>1, GotoTyped DEF IInv, Places
<1>6. ListedNotCancelled' /\ TakenGone'
  BY <1>1, <1>2, ListingKept
<1>7. \A r \in Runs : r \in Threads /\ th'[r] = th[r]
  BY <1>2, Names
<1>8. Order'
  <2>1. \A g \in Handlers : Busy(g)' <=> Busy(g)
    BY <1>1, <1>2, Names DEF Busy, Loading, Stopping
  <2> QED
    BY <1>1, <1>7, <2>1 DEF IInv, Order, Resting
<1>9. ~raced' => Held'
  <2> SUFFICES ASSUME ~raced' PROVE Held'
    OBVIOUS
  <2>1. Held
    BY RacedFacts DEF IInv
  <2>2. (\A r \in Runs : Resting(r)') => Empty /\ reloadMu' = Null
    BY <1>1, <1>7, <2>1 DEF Held, Resting
  <2> QED
    BY <1>1, <1>2, <2>1, <2>2, HeldMoves DEF IInv
<1>10. Pending'
  BY <1>2 DEF Pending
<1> QED
  BY <1>4, <1>5, <1>6, <1>8, <1>9, <1>10, Assemble

(* A Run whose context nobody has cancelled is there for whoever looks.     *)
LEMMA LiveContext ==
  ASSUME Typed, Order, mctx # Null, mctx \notin ctxDone
  PROVE  mctx \in Runs /\ ~Resting(mctx)
BY Parts DEF Data, Order, Resting

LEMMA ReloadKeeps ==
  ASSUME IInv, Watched, NEW h \in Handlers, Reload(h)
  PROVE  IInv'
<1>1. /\ th[h].pc = "lock" /\ h \in Threads /\ reloadMu = Null
      /\ UNCHANGED <<db, version, instances, agent, mctx, ctxDone, errors, panics>>
  BY Names DEF Reload
<1>2. PICK pc \in {"idle", "swap"} :
        /\ Goto(h, pc)
        /\ pc = "idle" => (mctx = Null \/ mctx \in ctxDone) /\ reloadMu' = Null
        /\ pc = "swap" => mctx # Null /\ mctx \notin ctxDone /\ reloadMu' = h
  BY <1>1 DEF Reload
<1>3. /\ th'[h].pc = pc
      /\ \A u \in Threads : th'[u].taken = th[u].taken
      /\ \A u \in Threads \ {h} : th'[u] = th[u]
  BY <1>1, <1>2, GotoFacts DEF IInv, Places, Stopping
<1>4. Data'
  BY <1>1, <1>2, Parts DEF IInv, Data
<1>5. ThreadsTyped'
  BY <1>1, <1>2, GotoTyped DEF IInv, Places, Stopping
<1>6. ListedNotCancelled' /\ TakenGone'
  BY <1>1, <1>3, ListingKept
<1>7. \A r \in Runs : r \in Threads /\ th'[r] = th[r]
  BY <1>3, Names
<1>8. Order'
  <2>1. \A g \in Handlers : ~Busy(g)
    BY <1>1, Names DEF IInv, Order
  <2>2. \A g \in Handlers : Busy(g)' <=> g = h /\ pc = "swap"
    BY <1>2, <1>3, <2>1, Names DEF Busy, Loading, Stopping
  <2>3. \A g \in Handlers : Busy(g)' <=> reloadMu' = g
    BY <1>2, <2>2, Names
  <2> QED
    BY <1>1, <1>7, <2>3 DEF IInv, Order, Resting
<1>9. ~raced' => Held'
  <2> SUFFICES ASSUME ~raced' PROVE Held'
    OBVIOUS
  <2>1. Held
    BY RacedFacts DEF IInv
  <2>2. (\A r \in Runs : Resting(r)') => Empty /\ reloadMu' = Null
    BY <1>2, <1>7, <2>1, LiveContext DEF IInv, Held, Resting
  <2> QED
    BY <1>1, <1>2, <1>3, <2>1, <2>2, HeldMoves DEF IInv
<1>10. Pending'
  <2>1. CASE pc = "swap"
    BY <1>1, <1>3, <2>1 DEF Pending, Stopping
  <2>2. CASE pc = "idle"
    <3>1. \A r \in Runs : Resting(r) \/ r \in ctxDone
      BY <1>2, <2>2, Names DEF IInv, Order
    <3> QED
      BY <1>1, <1>7, <3>1 DEF Pending, Resting
  <2> QED
    BY <1>2, <2>1, <2>2
<1> QED
  BY <1>4, <1>5, <1>6, <1>8, <1>9, <1>10, Assemble

-------------------------------------------------------------------------------
(* While a thread is busy there is a Run, and unless raced no other thread  *)
(* is busy: none of them is inserting, launching or cancelling.             *)
LEMMA Alone ==
  ASSUME IInv, Watched, ~raced', NEW t \in Threads, Busy(t)
  PROVE  /\ Held
         /\ ~(\A r \in Runs : Resting(r))
         /\ \A u \in Threads \ {t} : ~Busy(u) /\ th[u].taken = {}
<1>1. ~Overlap /\ Held
  BY RacedFacts DEF IInv
<1>2. \A u \in Threads \ {t} : ~Busy(u)
  BY <1>1, OneBusy DEF IInv
<1>3. \A u \in Threads \ {t} : th[u].taken = {}
  BY <1>2 DEF IInv, Typed, Busy, Stopping
<1>4. ~(\A r \in Runs : Resting(r))
  <2>1. CASE t \in Runs
    BY <2>1 DEF Busy, Resting, Loading, Stopping
  <2>2. CASE t \in Handlers
    BY <1>1, <2>2, Names DEF IInv, Order, Held
  <2> QED
    BY <2>1, <2>2 DEF Threads
<1> QED
  BY <1>1, <1>2, <1>3, <1>4

(* A busy thread that stays busy.                                           *)
LEMMA OrderKept ==
  ASSUME Order, NEW t \in Threads, Busy(t), th'[t].pc \in Loading \cup Stopping,
         th'[t].pc \in Stopping => th[t].pc \in Stopping,
         \A u \in Threads \ {t} : th'[u] = th[u],
         UNCHANGED <<mctx, ctxDone, reloadMu>>
  PROVE  /\ Order'
         /\ \A r \in Runs : Resting(r)' <=> Resting(r)
<1>1. /\ t \in Runs => ~Resting(t) /\ ~Resting(t)'
      /\ th[t].pc # "new" /\ th'[t].pc # "new" /\ th'[t].pc # "done"
  BY DEF Busy, Resting, Loading, Stopping
<1>2. \A r \in Runs : r \in Threads /\ (r # t => th'[r] = th[r])
  BY Names
<1>3. \A h \in Handlers : Busy(h)' <=> Busy(h)
  BY Names DEF Busy
<1>4. \A r \in Runs : Resting(r)' <=> Resting(r)
  BY <1>1, <1>2 DEF Resting
<1>5. \A h \in Handlers : Busy(h)' <=> reloadMu' = h
  BY <1>3 DEF Order
<1>6. \A r \in Runs : ~Resting(r)' => mctx' = r
  BY <1>4 DEF Order
<1>7. \A r \in Runs : th'[r].pc = "new" => r \notin ctxDone' /\ mctx' # r
  BY <1>1, <1>2 DEF Order
<1>8. \A r \in Runs : th'[r].pc \in Stopping \cup {"done"} => r \in ctxDone'
  BY <1>1, <1>2 DEF Order
<1> QED
  BY <1>4, <1>5, <1>6, <1>7, <1>8 DEF Order

LEMMA SwapInstancesKeeps ==
  ASSUME IInv, Watched, NEW t \in Threads, SwapInstances(t)
  PROVE  IInv'
<1> DEFINE listed == {instances[x] : x \in Accounts} \ {Null}
           v == [th[t] EXCEPT !.pc = "cancel", !.taken = listed]
<1>1. /\ th[t].pc = "swap" /\ th' = [th EXCEPT ![t] = v]
      /\ instances' = [x \in Accounts |-> Null]
      /\ UNCHANGED <<db, version, agent, mctx, ctxDone, reloadMu, errors, panics>>
  BY DEF SwapInstances
<1>2. Data /\ ThreadsTyped
  BY Parts DEF IInv
<1>3. listed \subseteq Agents
  BY <1>2 DEF Data
<1>4. v \in ThreadType /\ v.pc = "cancel" /\ v.taken = listed
  <2>1. th[t] \in ThreadType
    BY <1>2 DEF ThreadsTyped
  <2> QED
    BY <1>3, <2>1 DEF ThreadType, Places, Stopping
<1> HIDE DEF v
<1>5. /\ th' \in [Threads -> ThreadType] /\ th'[t] = v
      /\ \A u \in Threads \ {t} : th'[u] = th[u]
  BY <1>1, <1>2, <1>4 DEF ThreadsTyped
<1>6. Data'
  BY <1>1, <1>2 DEF Data
<1>7. ThreadsTyped'
  BY <1>2, <1>4, <1>5 DEF ThreadsTyped
<1>8. Empty' /\ \A x \in Accounts, i \in Agents : instances'[x] # i
  BY <1>1, Names DEF Empty
<1>9. ListedNotCancelled' /\ TakenGone'
  <2>1. \A i \in listed : agent[i].state # "unused"
    BY <1>3 DEF IInv, ListedNotCancelled
  <2>2. \A u \in Threads : \A i \in th'[u].taken : i \in Agents /\ agent[i].state # "unused"
    BY <1>3, <1>4, <1>5, <2>1 DEF IInv, TakenGone, ThreadType
  <2> QED
    BY <1>1, <1>8, <2>2 DEF ListedNotCancelled, TakenGone
<1>10. Busy(t) /\ Order' /\ \A r \in Runs : Resting(r)' <=> Resting(r)
  <2>1. Busy(t) /\ th[t].pc \in Stopping /\ th'[t].pc \in Stopping
    BY <1>1, <1>4, <1>5 DEF Busy, Stopping
  <2> QED
    BY <1>1, <1>5, <2>1, OrderKept DEF IInv
<1>11. ~raced' => Held'
  <2> SUFFICES ASSUME ~raced' PROVE Held'
    OBVIOUS
  <2>1. /\ Held /\ ~(\A r \in Runs : Resting(r))
        /\ \A u \in Threads \ {t} : ~Busy(u) /\ th[u].taken = {}
    BY <1>10, Alone
  <2>2. \A i \in Agents : Polling(i)' <=> Polling(i)
    BY <1>1 DEF Polling, Cancelled
  <2>3. th[t].taken = {}
    BY <1>1, <1>2 DEF ThreadsTyped
  <2>4. \A i \in Agents : Polling(i) => i \in listed
    <3>1. \A i \in Agents : Polling(i) =>
            agent[i].acc \in Accounts /\ instances[agent[i].acc] = i
      BY <2>1, <2>3 DEF Held
    <3> QED
      BY <3>1, Names
  <2>5. \A i \in Agents : Polling(i)' =>
          agent'[i].acc \in Accounts /\ i \in th'[t].taken
    BY <1>1, <1>4, <1>5, <2>1, <2>2, <2>4 DEF Held
  <2>6. \A i, j \in Agents :
          Polling(i)' /\ Polling(j)' /\ agent'[i].acc = agent'[j].acc => i = j
    BY <1>1, <2>1, <2>2 DEF Held
  <2>7. \A u \in Threads : th'[u].pc \notin {"insert", "launch"}
    BY <1>4, <1>5, <2>1 DEF Busy, Loading
  <2> QED
    BY <1>8, <1>10, <2>1, <2>5, <2>6, <2>7 DEF Held, Empty
<1>12. Pending'
  BY <1>4, <1>5 DEF Pending, Stopping
<1> QED
  BY <1>6, <1>7, <1>9, <1>10, <1>11, <1>12, Assemble

LEMMA CancelAgentsKeeps ==
  ASSUME IInv, Watched, NEW t \in Threads, CancelAgents(t)
  PROVE  IInv'
<1> DEFINE v == [th[t] EXCEPT !.pc = "wait", !.taken = {}]
           Stop(i) == [agent[i] EXCEPT !.cancelled = TRUE]
<1>1. /\ th[t].pc = "cancel" /\ th' = [th EXCEPT ![t] = v]
      /\ agent' = [i \in Agents |-> IF i \in th[t].taken THEN Stop(i) ELSE agent[i]]
      /\ UNCHANGED <<db, version, instances, mctx, ctxDone, reloadMu, errors, panics>>
  BY DEF CancelAgents
<1>2. Data /\ ThreadsTyped
  BY Parts DEF IInv
<1>3. v \in ThreadType /\ v.pc = "wait" /\ v.taken = {}
  <2>1. th[t] \in ThreadType
    BY <1>2 DEF ThreadsTyped
  <2> QED
    BY <2>1 DEF ThreadType, Places, Stopping
<1>4. \A i \in Agents :
        /\ Stop(i) \in AgentType /\ Stop(i).cancelled
        /\ Stop(i).acc = agent[i].acc /\ Stop(i).state = agent[i].state
        /\ Stop(i).parent = agent[i].parent
  BY <1>2 DEF Data, AgentType
<1> HIDE DEF v, Stop
<1>5. /\ th' \in [Threads -> ThreadType] /\ th'[t] = v
      /\ \A u \in Threads \ {t} : th'[u] = th[u]
  BY <1>1, <1>2, <1>3 DEF ThreadsTyped
<1>6. agent \in [Agents -> AgentType]
  BY <1>2 DEF Data
<1>7. /\ agent' \in [Agents -> AgentType]
      /\ \A i \in Agents :
           /\ agent'[i].acc = agent[i].acc /\ agent'[i].state = agent[i].state
           /\ i \in th[t].taken => agent'[i].cancelled
           /\ i \notin th[t].taken => agent'[i] = agent[i]
  BY <1>1, <1>4, <1>6
<1>8. Data'
  BY <1>1, <1>2, <1>7 DEF Data
<1>9. ThreadsTyped'
  BY <1>2, <1>3, <1>5 DEF ThreadsTyped
<1>10. ListedNotCancelled' /\ TakenGone'
  <2>1. \A x \in Accounts, i \in Agents : instances[x] = i => agent'[i] = agent[i]
    BY <1>7 DEF IInv, TakenGone
  <2>2. ListedNotCancelled'
    BY <1>1, <2>1 DEF IInv, ListedNotCancelled
  <2>3. \A u \in Threads : \A i \in th'[u].taken : i \in Agents /\ i \in th[u].taken
    BY <1>2, <1>3, <1>5 DEF ThreadsTyped, ThreadType
  <2> QED
    BY <1>1, <1>7, <2>2, <2>3 DEF IInv, TakenGone
<1>11. Busy(t) /\ Order' /\ \A r \in Runs : Resting(r)' <=> Resting(r)
  <2>1. Busy(t) /\ th[t].pc \in Stopping /\ th'[t].pc \in Stopping
    BY <1>1, <1>3, <1>5 DEF Busy, Stopping
  <2> QED
    BY <1>1, <1>5, <2>1, OrderKept DEF IInv
<1>12. ~raced' => Held'
  <2> SUFFICES ASSUME ~raced' PROVE Held'
    OBVIOUS
  <2>1. /\ Held /\ ~(\A r \in Runs : Resting(r))
        /\ \A u \in Threads \ {t} : ~Busy(u) /\ th[u].taken = {}
    BY <1>11, Alone
  <2>2. Empty /\ Empty'
    BY <1>1, <2>1 DEF Held, Empty
  <2>3. \A i \in Agents : Polling(i) => i \in th[t].taken
    BY <2>1, <2>2, Names DEF Held, Empty
  <2>4. \A i \in Agents : ~Polling(i)'
    <3> SUFFICES ASSUME NEW i \in Agents PROVE ~Polling(i)'
      OBVIOUS
    <3>1. CASE i \in th[t].taken
      BY <1>7, <3>1 DEF Polling, Cancelled
    <3>2. CASE i \notin th[t].taken
      BY <1>1, <1>7, <2>3, <3>2 DEF Polling, Cancelled
    <3> QED
      BY <3>1, <3>2
  <2>5. \A u \in Threads : th'[u].pc \notin {"insert", "launch"}
    BY <1>3, <1>5, <2>1 DEF Busy, Loading
  <2> QED
    BY <1>11, <2>1, <2>2, <2>4, <2>5 DEF Held, Empty
<1>13. Pending'
  BY <1>3, <1>5 DEF Pending, Stopping
<1> QED
  BY <1>8, <1>9, <1>10, <1>11, <1>12, <1>13, Assemble

LEMMA WaitAgentsKeeps ==
  ASSUME IInv, Watched, NEW t \in Threads, WaitAgents(t)
  PROVE  IInv'
<1>1. /\ th[t].pc = "wait" /\ Goto(t, IF t \in Runs THEN "done" ELSE "query")
      /\ UNCHANGED <<db, version, instances, agent, mctx, ctxDone, reloadMu, errors,
                    panics>>
  BY DEF WaitAgents
<1>2. PICK pc \in {"done", "query"} :
        Goto(t, pc) /\ (t \in Runs => pc = "done") /\ (t \in Handlers => pc = "query")
  BY <1>1, Names
<1>3. /\ th'[t].pc = pc
      /\ \A u \in Threads : th'[u].taken = th[u].taken
      /\ \A u \in Threads \ {t} : th'[u] = th[u]
  BY <1>2, GotoFacts DEF IInv, Places, Loading
<1>4. Data'
  BY <1>1, Parts DEF IInv, Data
<1>5. ThreadsTyped'
  BY <1>1, <1>2, GotoTyped DEF IInv, Places, Loading
<1>6. ListedNotCancelled' /\ TakenGone'
  BY <1>1, <1>3, ListingKept
<1>7. Busy(t) /\ th[t].pc \in Stopping
  BY <1>1 DEF Busy, Stopping
<1>8. Order'
  <2>1. CASE t \in Runs
    <3>1. \A h \in Handlers : h \in Threads /\ th'[h] = th[h]
      BY <1>3, <2>1, Names
    <3>2. t \in ctxDone /\ th'[t].pc = "done"
      BY <1>2, <1>3, <1>7, <2>1 DEF IInv, Order
    <3>3. \A r \in Runs \ {t} : th'[r] = th[r]
      BY <1>3, Names
    <3> QED
      BY <1>1, <3>1, <3>2, <3>3 DEF IInv, Order, Busy, Resting
  <2>2. CASE t \in Handlers
    BY <1>1, <1>2, <1>3, <1>7, <2>2, OrderKept DEF IInv, Loading, Stopping
  <2> QED
    BY <2>1, <2>2, Names
<1>9. ~raced' => Held'
  <2> SUFFICES ASSUME ~raced' PROVE Held'
    OBVIOUS
  <2>1. Held /\ ~(\A r \in Runs : Resting(r)) /\ ~Overlap
    BY <1>7, Alone, RacedFacts DEF IInv
  <2>2. Empty
    BY <1>1, <2>1 DEF Held
  <2>3. (\A r \in Runs : Resting(r)') => reloadMu' = Null
    <3>1. CASE t \in Runs
      BY <1>1, <1>7, <2>1, <3>1 DEF Overlap
    <3>2. CASE t \in Handlers
      BY <1>3, <2>1, <3>2, Names DEF Resting
    <3> QED
      BY <3>1, <3>2, Names
  <2>4. th'[t].pc \in {"done", "query"}
    BY <1>3
  <2> QED
    BY <1>1, <1>3, <2>1, <2>2, <2>3, <2>4, HeldMoves DEF IInv
<1>10. Pending'
  <2>1. CASE t \in Handlers
    BY <1>2, <1>3, <2>1 DEF Pending
  <2>2. CASE t \in Runs
    <3>1. ~Resting(t) /\ t \in ctxDone
      BY <1>7, <2>2 DEF IInv, Order, Resting, Stopping
    <3>2. \A r \in Runs \ {t} : Resting(r) /\ th'[r] = th[r]
      BY <1>3, <2>2, <3>1, Names DEF IInv, Order
    <3> QED
      BY <1>1, <3>1, <3>2 DEF Pending, Resting
  <2> QED
    BY <2>1, <2>2, Names
<1> QED
  BY <1>4, <1>5, <1>6, <1>8, <1>9, <1>10, Assemble

-------------------------------------------------------------------------------
(* What a loading thread does to its own record.                            *)
LEMMA ThreadFacts ==
  ASSUME ThreadsTyped, NEW t \in Threads, NEW v \in ThreadType,
         th' = [th EXCEPT ![t] = v]
  PROVE  /\ th' \in [Threads -> ThreadType] /\ th'[t] = v
         /\ \A u \in Threads \ {t} : th'[u] = th[u]
BY DEF ThreadsTyped

LEMMA QueryAccountsKeeps ==
  ASSUME IInv, Watched, NEW t \in Threads, QueryAccounts(t)
  PROVE  IInv'
<1> DEFINE rows == {<<x, db[x]>> : x \in {y \in Accounts : db[y] # Null}}
<1>1. /\ th[t].pc = "query"
      /\ UNCHANGED <<db, version, instances, agent, mctx, ctxDone, reloadMu, panics>>
  BY DEF QueryAccounts
<1>2. Data /\ ThreadsTyped /\ th[t] \in ThreadType
  BY Parts DEF IInv, ThreadsTyped
<1>3. rows \subseteq Accounts \X Versions
  BY <1>2 DEF Data
<1>4. PICK list \in SUBSET (Accounts \X Versions) :
        /\ th' = [th EXCEPT ![t] = [@ EXCEPT !.pc = "load", !.list = list]]
        /\ \/ list = rows /\ errors' = errors
           \/ errors < MaxErrors /\ errors' = errors + 1
  <2>1. CASE errors' = errors + 1 /\ errors < MaxErrors /\ Goto(t, "load")
    <3>1. th[t] = [th[t] EXCEPT !.list = th[t].list]
          /\ th[t].list \in SUBSET (Accounts \X Versions)
      BY <1>2 DEF ThreadType
    <3>2. [th[t] EXCEPT !.pc = "load"] = [th[t] EXCEPT !.pc = "load", !.list = th[t].list]
      BY <1>2 DEF ThreadType
    <3>3. th' = [th EXCEPT ![t] = [@ EXCEPT !.pc = "load"]]
      BY <2>1 DEF Goto
    <3>4. th' = [th EXCEPT ![t] = [@ EXCEPT !.pc = "load", !.list = th[t].list]]
      BY <3>2, <3>3
    <3> QED
      BY <2>1, <3>1, <3>4
  <2>2. CASE errors' = errors
             /\ th' = [th EXCEPT ![t].pc = "load", ![t].list = rows]
    BY <1>3, <2>2
  <2> QED
    BY <2>1, <2>2 DEF QueryAccounts
<1> DEFINE v == [th[t] EXCEPT !.pc = "load", !.list = list]
<1>5. /\ v \in ThreadType /\ v.pc = "load" /\ v.list = list
      /\ v.taken = th[t].taken
  BY <1>2 DEF ThreadType, Places, Loading
<1>6. th' = [th EXCEPT ![t] = v]
  BY <1>4
<1> HIDE DEF v
<1>7. /\ th' \in [Threads -> ThreadType] /\ th'[t] = v
      /\ \A u \in Threads \ {t} : th'[u] = th[u]
  BY <1>2, <1>5, <1>6, ThreadFacts
<1>8. Data'
  <2>1. errors' \in 0..MaxErrors
    BY <1>2, <1>4, Names DEF Data
  <2> QED
    BY <1>1, <1>2, <2>1 DEF Data
<1>9. th[t].taken = {}
  BY <1>1, <1>2 DEF ThreadsTyped
<1>10. ThreadsTyped'
  BY <1>2, <1>5, <1>7, <1>9 DEF ThreadsTyped
<1>11. ListedNotCancelled' /\ TakenGone'
  BY <1>1, <1>5, <1>7, ListingKept
<1>12. Busy(t) /\ Order' /\ \A r \in Runs : Resting(r)' <=> Resting(r)
  <2>1. Busy(t) /\ th'[t].pc \in Loading /\ th'[t].pc \notin Stopping
    BY <1>1, <1>5, <1>7 DEF Busy, Loading, Stopping
  <2> QED
    BY <1>1, <1>7, <2>1, OrderKept DEF IInv
<1>13. ~raced' => Held'
  <2> SUFFICES ASSUME ~raced' PROVE Held'
    OBVIOUS
  <2>1. Held /\ ~(\A r \in Runs : Resting(r))
    BY <1>12, Alone
  <2>2. th'[t].pc = "load" /\ \A u \in Threads : th'[u].taken = th[u].taken
    BY <1>5, <1>7
  <2> QED
    BY <1>1, <1>7, <1>12, <2>1, <2>2, HeldMoves DEF IInv
<1>14. Unharmed' => Loaded'
  <2> SUFFICES ASSUME Unharmed' PROVE Loaded'
    OBVIOUS
  <2>1. /\ Held
        /\ \A u \in Threads \ {t} : ~Busy(u)
    BY <1>12, Alone DEF Unharmed
  <2>2. list = rows
    BY <1>2, <1>4 DEF Unharmed, Data
  <2>3. Empty /\ Empty'
    BY <1>1, <2>1 DEF Held, Empty
  <2>4. \A u \in Threads : th'[u].pc \in After => u = t
    BY <1>7, <2>1 DEF Busy, Loading, After
  <2>5. th'[t].pc = "load" /\ th'[t].list = rows
    BY <1>5, <1>7, <2>2
  <2>6. \A e \in rows : db'[e[1]] = e[2]
    BY <1>1
  <2>7. \A x \in Accounts : db'[x] # Null => <<x, db'[x]>> \in rows
    BY <1>1
  <2> QED
    BY <2>3, <2>4, <2>5, <2>6, <2>7 DEF Loaded, After, Empty
<1> QED
  BY <1>8, <1>10, <1>11, <1>12, <1>13, <1>14, Assemble

(* A step between the query and the end of the load settles nothing.        *)
LEMMA PendingKept ==
  ASSUME NEW t \in Threads, th[t].pc \in After, ctxDone' = ctxDone,
         \A u \in Threads \ {t} : th'[u] = th[u],
         Pending
  PROVE  Pending'
<1>1. /\ th[t].pc # "lock" /\ th[t].pc \notin Stopping \cup {"query"}
      /\ t \in Runs => ~Resting(t)
  BY DEF After, Stopping, Resting
<1>2. (\E h \in Handlers : th[h].pc = "lock") => Pending'
  BY <1>1, Names DEF Pending
<1>3. (\E u \in Threads : th[u].pc \in Stopping \cup {"query"}) => Pending'
  BY <1>1 DEF Pending
<1>4. (\A r \in Runs : Resting(r) \/ r \in ctxDone) => Pending'
  BY <1>1, Names DEF Pending, Resting
<1> QED
  BY <1>2, <1>3, <1>4 DEF Pending

LEMMA CheckAccountKeeps ==
  ASSUME IInv, Watched, NEW t \in Threads, CheckAccount(t)
  PROVE  IInv'
<1>1. /\ th[t].pc = "load"
      /\ UNCHANGED <<db, version, instances, agent, mctx, ctxDone, reloadMu, errors,
                    panics>>
  BY DEF CheckAccount
<1>2. Data /\ ThreadsTyped /\ th[t] \in ThreadType
  BY Parts DEF IInv, ThreadsTyped
<1>3. PICK e \in th[t].list :
        th' = [th EXCEPT ![t].list = @ \ {e},
                         ![t].cur = IF instances[e[1]] = Null THEN e ELSE Null,
                         ![t].pc = IF instances[e[1]] = Null THEN "insert" ELSE "load"]
  BY DEF CheckAccount
<1>4. e \in Accounts \X Versions
  BY <1>2 DEF ThreadType
<1> DEFINE free == instances[e[1]] = Null
           v == [th[t] EXCEPT !.list = @ \ {e}, !.cur = IF free THEN e ELSE Null,
                              !.pc = IF free THEN "insert" ELSE "load"]
<1>5. /\ v \in ThreadType /\ v.list = th[t].list \ {e}
      /\ v.taken = th[t].taken
      /\ free => v.pc = "insert" /\ v.cur = e
      /\ ~free => v.pc = "load"
  BY <1>2, <1>4 DEF ThreadType, Places, Loading
<1>6. th' = [th EXCEPT ![t] = v]
  BY <1>3
<1> HIDE DEF v
<1>7. /\ th' \in [Threads -> ThreadType] /\ th'[t] = v
      /\ \A u \in Threads \ {t} : th'[u] = th[u]
  BY <1>2, <1>5, <1>6, ThreadFacts
<1>8. Data'
  BY <1>1, <1>2 DEF Data
<1>9. th[t].taken = {}
  BY <1>1, <1>2 DEF ThreadsTyped
<1>10. ThreadsTyped'
  BY <1>2, <1>4, <1>5, <1>7, <1>9 DEF ThreadsTyped
<1>11. ListedNotCancelled' /\ TakenGone'
  BY <1>1, <1>5, <1>7, ListingKept
<1>12. Busy(t) /\ Order' /\ \A r \in Runs : Resting(r)' <=> Resting(r)
  <2>1. Busy(t) /\ th'[t].pc \in Loading /\ th'[t].pc \notin Stopping
    BY <1>1, <1>5, <1>7 DEF Busy, Loading, Stopping
  <2> QED
    BY <1>1, <1>7, <2>1, OrderKept DEF IInv
<1>13. ~raced' => Held'
  <2> SUFFICES ASSUME ~raced' PROVE Held'
    OBVIOUS
  <2>1. Held /\ ~(\A r \in Runs : Resting(r))
    BY <1>12, Alone
  <2>2. /\ th'[t].pc \in {"load", "insert"}
        /\ th'[t].pc = "insert" => instances[th'[t].cur[1]] = Null
        /\ \A u \in Threads : th'[u].taken = th[u].taken
    BY <1>5, <1>7
  <2> QED
    BY <1>1, <1>7, <1>12, <2>1, <2>2, HeldMoves DEF IInv
<1>14. Unharmed' /\ ~Pending' => Loaded'
  <2> SUFFICES ASSUME Unharmed', ~Pending' PROVE Loaded'
    OBVIOUS
  <2>1. Loaded
    BY <1>1, <1>7, RacedFacts, PendingKept DEF IInv, Unharmed, After
  <2>2. \A u \in Threads : th'[u].pc \in After => \A f \in th'[u].list : db'[f[1]] = f[2]
    BY <1>1, <1>5, <1>7, <2>1 DEF Loaded, After
  <2>3. \A u \in Threads : th'[u].pc = "insert" => db'[th'[u].cur[1]] = th'[u].cur[2]
    BY <1>1, <1>5, <1>7, <2>1 DEF Loaded, After
  <2>4. \A x \in Accounts : instances'[x] # Null =>
          /\ agent'[instances'[x]].ver = db'[x]
          /\ \/ agent'[instances'[x]].state = "live"
             \/ \E u \in Threads : th'[u].pc = "launch" /\ th'[u].made = instances'[x]
    BY <1>1, <1>7, <2>1 DEF Loaded
  <2>5. \A x \in Accounts : db'[x] # Null =>
          \/ instances'[x] # Null
          \/ \E u \in Threads : \/ th'[u].pc \in After /\ <<x, db'[x]>> \in th'[u].list
                                \/ th'[u].pc = "insert" /\ th'[u].cur = <<x, db'[x]>>
    <3> SUFFICES ASSUME NEW x \in Accounts, db[x] # Null, instances[x] = Null
                 PROVE  \E u \in Threads :
                          \/ th'[u].pc \in After /\ <<x, db[x]>> \in th'[u].list
                          \/ th'[u].pc = "insert" /\ th'[u].cur = <<x, db[x]>>
      BY <1>1
    <3>1. PICK u \in Threads : \/ th[u].pc \in After /\ <<x, db[x]>> \in th[u].list
                               \/ th[u].pc = "insert" /\ th[u].cur = <<x, db[x]>>
      BY <2>1 DEF Loaded
    <3>2. CASE u # t
      BY <1>7, <3>1, <3>2
    <3>3. CASE u = t
      <4>1. <<x, db[x]>> \in th[t].list
        BY <1>1, <3>1, <3>3
      <4>2. CASE <<x, db[x]>> = e
        BY <1>5, <1>7, <4>2
      <4>3. CASE <<x, db[x]>> # e
        BY <1>5, <1>7, <4>1, <4>3 DEF After
      <4> QED
        BY <4>2, <4>3
    <3> QED
      BY <3>2, <3>3
  <2> QED
    BY <2>2, <2>3, <2>4, <2>5 DEF Loaded
<1> QED
  BY <1>8, <1>10, <1>11, <1>12, <1>13, <1>14, Assemble

LEMMA InsertInstanceKeeps ==
  ASSUME IInv, Watched, NEW t \in Threads, InsertInstance(t)
  PROVE  IInv'
<1> DEFINE i == CHOOSE j \in Unused : TRUE
           x == th[t].cur[1]
           a == [acc |-> x, ver |-> th[t].cur[2], parent |-> mctx,
                 cancelled |-> FALSE, state |-> "made"]
           v == [th[t] EXCEPT !.pc = "launch", !.cur = Null, !.made = i]
<1>1. /\ th[t].pc = "insert" /\ Unused # {}
      /\ agent' = [agent EXCEPT ![i] = a] /\ instances' = [instances EXCEPT ![x] = i]
      /\ th' = [th EXCEPT ![t] = v]
      /\ UNCHANGED <<db, version, mctx, ctxDone, reloadMu, errors, panics>>
  BY DEF InsertInstance
<1>2. Data /\ ThreadsTyped /\ th[t] \in ThreadType
  BY Parts DEF IInv, ThreadsTyped
<1>3. i \in Agents /\ agent[i].state = "unused" /\ i # Null
  BY <1>1, Names DEF Unused
<1>4. th[t].cur \in Accounts \X Versions
  BY <1>1, <1>2 DEF ThreadsTyped
<1>5. /\ x \in Accounts /\ a \in AgentType
      /\ a.acc = x /\ a.ver = th[t].cur[2] /\ a.parent = mctx /\ a.state = "made"
      /\ ~a.cancelled
  BY <1>2, <1>4 DEF Data, AgentType
<1> HIDE DEF i
<1>6. /\ v \in ThreadType /\ v.pc = "launch" /\ v.made = i
      /\ v.list = th[t].list /\ v.taken = th[t].taken
  BY <1>2, <1>3 DEF ThreadType, Places, Loading
<1> HIDE DEF v, a, x
<1>7. /\ th' \in [Threads -> ThreadType] /\ th'[t] = v
      /\ \A u \in Threads \ {t} : th'[u] = th[u]
  BY <1>1, <1>2, <1>6, ThreadFacts
<1>8. /\ agent' \in [Agents -> AgentType] /\ agent'[i] = a
      /\ \A j \in Agents \ {i} : agent'[j] = agent[j]
  BY <1>1, <1>2, <1>3, <1>5 DEF Data
<1>9. /\ instances' \in [Accounts -> Agents \cup {Null}] /\ instances'[x] = i
      /\ \A y \in Accounts \ {x} : instances'[y] = instances[y]
  BY <1>1, <1>2, <1>3, <1>5 DEF Data
<1>10. Data'
  BY <1>1, <1>2, <1>5, <1>8, <1>9 DEF Data
<1>11. th[t].taken = {}
  BY <1>1, <1>2 DEF ThreadsTyped
<1>12. ThreadsTyped'
  BY <1>2, <1>3, <1>6, <1>7, <1>11 DEF ThreadsTyped
<1>13. \A y \in Accounts : instances[y] # i
  BY <1>3 DEF IInv, ListedNotCancelled
<1>14. ListedNotCancelled'
  <2> SUFFICES ASSUME NEW y \in Accounts, NEW j \in Agents, instances'[y] = j
               PROVE  /\ agent'[j].acc = y /\ agent'[j].state # "unused"
                      /\ ~agent'[j].cancelled
    BY DEF ListedNotCancelled
  <2>1. CASE y = x
    BY <1>5, <1>8, <1>9, <2>1
  <2>2. CASE y # x
    BY <1>8, <1>9, <1>13, <2>2 DEF IInv, ListedNotCancelled
  <2> QED
    BY <2>1, <2>2
<1>15. TakenGone'
  <2> SUFFICES ASSUME NEW u \in Threads, NEW j \in th'[u].taken
               PROVE  agent'[j].state # "unused" /\ \A y \in Accounts : instances'[y] # j
    BY DEF TakenGone
  <2>1. j \in th[u].taken /\ j \in Agents
    BY <1>2, <1>6, <1>7 DEF ThreadsTyped, ThreadType
  <2>2. agent[j].state # "unused" /\ \A y \in Accounts : instances[y] # j
    BY <2>1 DEF IInv, TakenGone
  <2> QED
    BY <1>3, <1>8, <1>9, <2>1, <2>2
<1>16. Busy(t) /\ Order' /\ \A r \in Runs : Resting(r)' <=> Resting(r)
  <2>1. Busy(t) /\ th'[t].pc \in Loading /\ th'[t].pc \notin Stopping
    BY <1>1, <1>6, <1>7 DEF Busy, Loading, Stopping
  <2> QED
    BY <1>1, <1>7, <2>1, OrderKept DEF IInv
<1>17. ~raced' => Held'
  <2> SUFFICES ASSUME ~raced' PROVE Held'
    OBVIOUS
  <2>1. /\ Held /\ ~(\A r \in Runs : Resting(r))
        /\ \A u \in Threads \ {t} : ~Busy(u) /\ th[u].taken = {}
    BY <1>16, Alone
  <2>2. \A j \in Agents : Polling(j)' => j # i /\ Polling(j) /\ agent'[j] = agent[j]
    BY <1>1, <1>5, <1>8 DEF Polling, Cancelled
  <2>3. instances[x] = Null
    BY <1>1, <2>1 DEF Held, x
  <2>4. \A j \in Agents : Polling(j) => agent[j].acc \in Accounts
    BY <2>1 DEF Held
  <2>5. \A j \in Agents : Polling(j) => instances[agent[j].acc] = j
    BY <1>11, <2>1 DEF Held
  <2>6. \A j \in Agents : Polling(j)' =>
          agent'[j].acc \in Accounts /\ instances'[agent'[j].acc] = j
    BY <1>9, <2>2, <2>3, <2>4, <2>5, Names
  <2>7. \A j, k \in Agents :
          Polling(j)' /\ Polling(k)' /\ agent'[j].acc = agent'[k].acc => j = k
    BY <2>6
  <2>8. \A u \in Threads : th'[u].pc \notin {"cancel", "wait", "query", "insert"}
    BY <1>6, <1>7, <2>1 DEF Busy, Loading, Stopping
  <2>9. \A u \in Threads : th'[u].pc = "launch" =>
          /\ agent'[th'[u].made].acc \in Accounts
          /\ instances'[agent'[th'[u].made].acc] = th'[u].made
    BY <1>5, <1>6, <1>7, <1>8, <1>9, <2>1 DEF Busy, Loading
  <2>10. \A y \in Accounts : instances'[y] # Null => agent'[instances'[y]].parent = mctx'
    <3> SUFFICES ASSUME NEW y \in Accounts, instances'[y] # Null
                 PROVE  agent'[instances'[y]].parent = mctx'
      OBVIOUS
    <3>1. CASE y = x
      BY <1>1, <1>5, <1>8, <1>9, <3>1
    <3>2. CASE y # x
      <4>1. instances'[y] = instances[y] /\ instances[y] \in Agents \ {i}
        BY <1>2, <1>9, <1>13, <3>2 DEF Data
      <4> QED
        BY <1>1, <1>8, <2>1, <4>1 DEF Held
    <3> QED
      BY <3>1, <3>2
  <2> QED
    BY <1>16, <2>1, <2>6, <2>7, <2>8, <2>9, <2>10 DEF Held
<1>18. Unharmed' /\ ~Pending' => Loaded'
  <2> SUFFICES ASSUME Unharmed', ~Pending' PROVE Loaded'
    OBVIOUS
  <2>1. Loaded
    BY <1>1, <1>7, RacedFacts, PendingKept DEF IInv, Unharmed, After
  <2>2. \A u \in Threads \ {t} : ~Busy(u)
    BY <1>16, Alone DEF Unharmed
  <2>3. /\ th'[t].pc = "launch" /\ th'[t].list = th[t].list /\ th'[t].made = i
        /\ \A u \in Threads : th'[u].pc \in After => u = t
    BY <1>6, <1>7, <2>2 DEF Busy, Loading, After
  <2>4. \A u \in Threads : th'[u].pc \in After => \A f \in th'[u].list : db'[f[1]] = f[2]
    BY <1>1, <2>1, <2>3 DEF Loaded, After
  <2>5. \A u \in Threads : th'[u].pc # "insert"
    BY <2>3 DEF After
  <2>6. \A y \in Accounts : instances'[y] # Null =>
          /\ agent'[instances'[y]].ver = db'[y]
          /\ \/ agent'[instances'[y]].state = "live"
             \/ \E u \in Threads : th'[u].pc = "launch" /\ th'[u].made = instances'[y]
    <3> SUFFICES ASSUME NEW y \in Accounts, instances'[y] # Null
                 PROVE  /\ agent'[instances'[y]].ver = db'[y]
                        /\ \/ agent'[instances'[y]].state = "live"
                           \/ th'[t].pc = "launch" /\ th'[t].made = instances'[y]
      OBVIOUS
    <3>1. CASE y = x
      <4>1. db[x] = th[t].cur[2]
        BY <1>1, <2>1 DEF Loaded, x
      <4> QED
        BY <1>1, <1>5, <1>8, <1>9, <2>3, <3>1, <4>1
    <3>2. CASE y # x
      <4>1. instances'[y] = instances[y] /\ instances[y] \in Agents \ {i}
        BY <1>2, <1>9, <1>13, <3>2 DEF Data
      <4>2. \A u \in Threads : th[u].pc # "launch"
        BY <1>1, <2>2 DEF Busy, Loading
      <4> QED
        BY <1>1, <1>8, <2>1, <4>1, <4>2 DEF Loaded
    <3> QED
      BY <3>1, <3>2
  <2>7. \A y \in Accounts : db'[y] # Null =>
          \/ instances'[y] # Null
          \/ th'[t].pc \in After /\ <<y, db'[y]>> \in th'[t].list
    <3> SUFFICES ASSUME NEW y \in Accounts, db[y] # Null, instances'[y] = Null
                 PROVE  <<y, db[y]>> \in th[t].list
      BY <1>1, <2>3 DEF After
    <3>1. y # x /\ instances[y] = Null
      BY <1>3, <1>9
    <3>2. PICK u \in Threads :
            \/ th[u].pc \in After /\ <<y, db[y]>> \in th[u].list
            \/ th[u].pc = "insert" /\ th[u].cur = <<y, db[y]>>
      BY <2>1, <3>1 DEF Loaded
    <3>3. u = t
      BY <2>2, <3>2 DEF Busy, Loading, After
    <3> QED
      BY <3>1, <3>2, <3>3 DEF x
  <2> QED
    BY <2>4, <2>5, <2>6, <2>7 DEF Loaded
<1> QED
  BY <1>10, <1>12, <1>14, <1>15, <1>16, <1>17, <1>18, Assemble

LEMMA LaunchAgentKeeps ==
  ASSUME IInv, Watched, NEW t \in Threads, LaunchAgent(t)
  PROVE  IInv'
<1> DEFINE i == th[t].made
           a == [agent[i] EXCEPT !.state = "live"]
           v == [th[t] EXCEPT !.pc = "load", !.made = Null]
<1>1. /\ th[t].pc = "launch" /\ agent' = [agent EXCEPT ![i] = a]
      /\ th' = [th EXCEPT ![t] = v]
      /\ UNCHANGED <<db, version, instances, mctx, ctxDone, reloadMu, errors, panics>>
  BY DEF LaunchAgent
<1>2. Data /\ ThreadsTyped /\ th[t] \in ThreadType
  BY Parts DEF IInv, ThreadsTyped
<1>3. i \in Agents
  BY <1>1, <1>2 DEF ThreadsTyped
<1>4. /\ a \in AgentType /\ a.state = "live" /\ a.acc = agent[i].acc
      /\ a.ver = agent[i].ver /\ a.parent = agent[i].parent
      /\ a.cancelled = agent[i].cancelled
  <2>1. agent[i] \in AgentType
    BY <1>2, <1>3 DEF Data
  <2> HIDE DEF i
  <2> QED
    BY <2>1 DEF AgentType
<1>5. /\ v \in ThreadType /\ v.pc = "load"
      /\ v.list = th[t].list /\ v.taken = th[t].taken
  BY <1>2 DEF ThreadType, Places, Loading
<1> HIDE DEF v, a
<1>6. /\ th' \in [Threads -> ThreadType] /\ th'[t] = v
      /\ \A u \in Threads \ {t} : th'[u] = th[u]
  BY <1>1, <1>2, <1>5, ThreadFacts
<1>7. /\ agent' \in [Agents -> AgentType] /\ agent'[i] = a
      /\ \A j \in Agents \ {i} : agent'[j] = agent[j]
  BY <1>1, <1>2, <1>3, <1>4 DEF Data
<1>8. \A j \in Agents :
        /\ agent'[j].acc = agent[j].acc /\ agent'[j].ver = agent[j].ver
        /\ agent'[j].parent = agent[j].parent
        /\ agent'[j].cancelled = agent[j].cancelled
        /\ agent[j].state # "unused" => agent'[j].state # "unused"
  BY <1>4, <1>7
<1>9. th[t].taken = {}
  BY <1>1, <1>2 DEF ThreadsTyped
<1>10. ThreadsTyped'
  BY <1>2, <1>5, <1>6, <1>9 DEF ThreadsTyped
<1>11. Busy(t) /\ Order' /\ \A r \in Runs : Resting(r)' <=> Resting(r)
  <2>1. Busy(t) /\ th'[t].pc \in Loading /\ th'[t].pc \notin Stopping
    BY <1>1, <1>5, <1>6 DEF Busy, Loading, Stopping
  <2> QED
    BY <1>1, <1>6, <2>1, OrderKept DEF IInv
<1>12. ListedNotCancelled' /\ TakenGone'
  <2>1. ListedNotCancelled'
    BY <1>1, <1>8 DEF IInv, ListedNotCancelled
  <2>2. \A u \in Threads : \A j \in th'[u].taken : j \in th[u].taken /\ j \in Agents
    BY <1>2, <1>5, <1>6 DEF ThreadsTyped, ThreadType
  <2> QED
    BY <1>1, <1>8, <2>1, <2>2 DEF IInv, TakenGone
<1>13. Data'
  BY <1>1, <1>2, <1>7 DEF Data
<1>14. ~raced' => Held'
  <2> SUFFICES ASSUME ~raced' PROVE Held'
    OBVIOUS
  <2>1. /\ Held /\ ~(\A r \in Runs : Resting(r))
        /\ \A u \in Threads \ {t} : ~Busy(u) /\ th[u].taken = {}
    BY <1>11, Alone
  <2>2. \A j \in Agents : Polling(j)' => j = i \/ Polling(j)
    BY <1>1, <1>7 DEF Polling, Cancelled
  <2>3. agent[i].acc \in Accounts /\ instances[agent[i].acc] = i
    BY <1>1, <2>1 DEF Held
  <2>4. \A j \in Agents : Polling(j) =>
          agent[j].acc \in Accounts /\ instances[agent[j].acc] = j
    BY <1>9, <2>1 DEF Held
  <2>5. \A j \in Agents : Polling(j)' =>
          agent'[j].acc \in Accounts /\ instances'[agent'[j].acc] = j
    BY <1>1, <1>8, <2>2, <2>3, <2>4
  <2>6. \A j, k \in Agents :
          Polling(j)' /\ Polling(k)' /\ agent'[j].acc = agent'[k].acc => j = k
    BY <2>5
  <2>7. \A u \in Threads :
          th'[u].pc \notin {"cancel", "wait", "query", "insert", "launch"}
    BY <1>5, <1>6, <2>1 DEF Busy, Loading, Stopping
  <2>8. \A y \in Accounts : instances'[y] # Null => agent'[instances'[y]].parent = mctx'
    <3>1. \A y \in Accounts : instances[y] # Null => instances[y] \in Agents
      BY <1>2 DEF Data
    <3> QED
      BY <1>1, <1>8, <2>1, <3>1 DEF Held
  <2> QED
    BY <1>11, <2>1, <2>5, <2>6, <2>7, <2>8 DEF Held
<1>15. Unharmed' /\ ~Pending' => Loaded'
  <2> SUFFICES ASSUME Unharmed', ~Pending' PROVE Loaded'
    OBVIOUS
  <2>1. Loaded
    BY <1>1, <1>6, RacedFacts, PendingKept DEF IInv, Unharmed, After
  <2>2. \A u \in Threads \ {t} : ~Busy(u)
    BY <1>11, Alone DEF Unharmed
  <2>3. /\ th'[t].pc = "load" /\ th'[t].list = th[t].list
        /\ \A u \in Threads : th'[u].pc \in After => u = t
    BY <1>5, <1>6, <2>2 DEF Busy, Loading, After
  <2>4. \A u \in Threads : th'[u].pc \in After => \A f \in th'[u].list : db'[f[1]] = f[2]
    BY <1>1, <2>1, <2>3 DEF Loaded, After
  <2>5. \A u \in Threads : th'[u].pc # "insert"
    BY <2>3 DEF After
  <2>6. \A y \in Accounts : instances'[y] # Null =>
          agent'[instances'[y]].ver = db'[y] /\ agent'[instances'[y]].state = "live"
    <3> SUFFICES ASSUME NEW y \in Accounts, instances[y] # Null
                 PROVE  /\ agent'[instances[y]].ver = db[y]
                        /\ agent'[instances[y]].state = "live"
      BY <1>1
    <3>1. instances[y] \in Agents /\ agent[instances[y]].ver = db[y]
      BY <1>2, <2>1 DEF Data, Loaded
    <3>2. agent[instances[y]].state = "live" \/ instances[y] = i
      BY <2>1, <2>2 DEF Loaded, Busy, Loading
    <3> QED
      BY <1>4, <1>7, <1>8, <3>1, <3>2
  <2>7. \A y \in Accounts : db'[y] # Null =>
          \/ instances'[y] # Null
          \/ th'[t].pc \in After /\ <<y, db'[y]>> \in th'[t].list
    <3> SUFFICES ASSUME NEW y \in Accounts, db[y] # Null, instances[y] = Null
                 PROVE  <<y, db[y]>> \in th[t].list
      BY <1>1, <2>3 DEF After
    <3>1. PICK u \in Threads :
            \/ th[u].pc \in After /\ <<y, db[y]>> \in th[u].list
            \/ th[u].pc = "insert" /\ th[u].cur = <<y, db[y]>>
      BY <2>1 DEF Loaded
    <3>2. u = t
      BY <2>2, <3>1 DEF Busy, Loading, After
    <3> QED
      BY <1>1, <3>1, <3>2
  <2> QED
    BY <2>4, <2>5, <2>6, <2>7 DEF Loaded
<1> QED
  BY <1>10, <1>11, <1>12, <1>13, <1>14, <1>15, Assemble

LEMMA LoadEndsKeeps ==
  ASSUME IInv, Watched, NEW t \in Threads, LoadEnds(t)
  PROVE  IInv'
<1>1. /\ th[t].pc = "load" /\ th[t].list = {}
      /\ UNCHANGED <<db, version, instances, agent, mctx, ctxDone, errors, panics>>
  BY DEF LoadEnds
<1>2. PICK pc \in {"ready", "idle"} :
        /\ Goto(t, pc)
        /\ t \in Runs => pc = "ready" /\ reloadMu' = reloadMu
        /\ t \in Handlers => pc = "idle" /\ reloadMu' = Null
  BY Names DEF LoadEnds
<1>3. /\ th'[t].pc = pc /\ th'[t].list = th[t].list
      /\ \A u \in Threads : th'[u].taken = th[u].taken
      /\ \A u \in Threads \ {t} : th'[u] = th[u]
  BY <1>2, GotoFacts DEF IInv, Places
<1>4. Data /\ Data'
  BY <1>1, <1>2, Parts, Names DEF IInv, Data
<1>5. ThreadsTyped'
  BY <1>1, <1>2, GotoTyped DEF IInv, Places
<1>6. ListedNotCancelled' /\ TakenGone'
  BY <1>1, <1>3, ListingKept
<1>7. Busy(t)
  BY <1>1 DEF Busy, Loading
<1>8. \A r \in Runs : r \in Threads /\ (Resting(r)' <=> Resting(r))
  BY <1>1, <1>3, Names DEF Resting
<1>9. Order'
  <2>1. \A h \in Handlers : Busy(h)' <=> reloadMu' = h
    <3>1. ~Busy(t)'
      BY <1>3 DEF Busy, Loading, Stopping
    <3>2. \A h \in Handlers \ {t} : Busy(h)' <=> reloadMu = h
      BY <1>3, Names DEF IInv, Order, Busy
    <3>3. CASE t \in Runs
      BY <1>2, <3>2, <3>3, Names
    <3>4. CASE t \in Handlers
      <4>1. reloadMu = t /\ reloadMu' = Null
        BY <1>2, <1>7, <3>4 DEF IInv, Order
      <4> QED
        BY <3>1, <3>2, <4>1, Names
    <3> QED
      BY <3>3, <3>4, Names
  <2>2. \A r \in Runs : ~Resting(r)' => mctx' = r
    BY <1>1, <1>8 DEF IInv, Order
  <2>3. \A r \in Runs : th'[r].pc = "new" => r \notin ctxDone' /\ mctx' # r
    BY <1>1, <1>3, <1>8 DEF IInv, Order
  <2>4. \A r \in Runs : th'[r].pc \in Stopping \cup {"done"} => r \in ctxDone'
    BY <1>1, <1>3, <1>8 DEF IInv, Order, Stopping
  <2> QED
    BY <2>1, <2>2, <2>3, <2>4 DEF Order
<1>10. ~raced' => Held'
  <2> SUFFICES ASSUME ~raced' PROVE Held'
    OBVIOUS
  <2>1. Held /\ ~(\A r \in Runs : Resting(r))
    BY <1>7, Alone
  <2>2. ~(\A r \in Runs : Resting(r)') /\ th'[t].pc \in {"ready", "idle"}
    BY <1>3, <1>8, <2>1
  <2> QED
    BY <1>1, <1>3, <2>1, <2>2, HeldMoves DEF IInv
<1>11. Unharmed' /\ ~Pending' => Loaded'
  <2> SUFFICES ASSUME Unharmed', ~Pending' PROVE Loaded'
    OBVIOUS
  <2>1. Loaded
    BY <1>1, <1>3, RacedFacts, PendingKept DEF IInv, Unharmed, After
  <2>2. th'[t].pc \notin After \cup {"insert"}
    BY <1>3 DEF After
  <2>3. \A y \in Accounts : instances'[y] # Null =>
          /\ agent'[instances'[y]].ver = db'[y]
          /\ \/ agent'[instances'[y]].state = "live"
             \/ \E u \in Threads : th'[u].pc = "launch" /\ th'[u].made = instances'[y]
    BY <1>1, <1>3, <2>1 DEF Loaded
  <2>4. \A y \in Accounts : db'[y] # Null =>
          \/ instances'[y] # Null
          \/ \E u \in Threads : \/ th'[u].pc \in After /\ <<y, db'[y]>> \in th'[u].list
                                \/ th'[u].pc = "insert" /\ th'[u].cur = <<y, db'[y]>>
    BY <1>1, <1>3, <2>1 DEF Loaded
  <2>5. \A u \in Threads : th'[u].pc \in After => \A f \in th'[u].list : db'[f[1]] = f[2]
    BY <1>1, <1>3, <2>1, <2>2 DEF Loaded
  <2>6. \A u \in Threads : th'[u].pc = "insert" => db'[th'[u].cur[1]] = th'[u].cur[2]
    BY <1>1, <1>3, <2>1, <2>2 DEF Loaded
  <2> QED
    BY <2>3, <2>4, <2>5, <2>6 DEF Loaded
<1> QED
  BY <1>4, <1>5, <1>6, <1>9, <1>10, <1>11, Assemble

-------------------------------------------------------------------------------
(* An agent that ends is not in the map, but for the end of the whole Run.  *)
LEMMA AgentEndsKeeps ==
  ASSUME IInv, Watched, NEW i \in Agents, AgentEnds(i) \/ AgentPanics(i)
  PROVE  IInv'
<1> DEFINE a == [agent[i] EXCEPT !.state = "done"]
<1>1. /\ agent[i].state = "live" /\ agent' = [agent EXCEPT ![i] = a]
      /\ UNCHANGED <<db, version, instances, mctx, ctxDone, reloadMu, th, errors>>
      /\ \/ Cancelled(i) /\ panics' = panics
         \/ panics < MaxPanics /\ panics' = panics + 1
  BY DEF AgentEnds, AgentPanics
<1>2. Data /\ ThreadsTyped
  BY Parts DEF IInv
<1>3. /\ a \in AgentType /\ a.state = "done" /\ a.acc = agent[i].acc
      /\ a.ver = agent[i].ver /\ a.parent = agent[i].parent
      /\ a.cancelled = agent[i].cancelled
  <2>1. agent[i] \in AgentType
    BY <1>2 DEF Data
  <2> QED
    BY <2>1 DEF AgentType
<1> HIDE DEF a
<1>4. /\ agent' \in [Agents -> AgentType] /\ agent'[i] = a
      /\ \A j \in Agents \ {i} : agent'[j] = agent[j]
  BY <1>1, <1>2, <1>3 DEF Data
<1>5. \A j \in Agents :
        /\ agent'[j].acc = agent[j].acc /\ agent'[j].parent = agent[j].parent
        /\ agent'[j].cancelled = agent[j].cancelled
        /\ agent[j].state # "unused" => agent'[j].state # "unused"
        /\ Polling(j)' => Polling(j)
  BY <1>1, <1>3, <1>4 DEF Polling, Cancelled
<1>6. Data'
  <2>1. panics' \in 0..MaxPanics
    BY <1>1, <1>2, Names DEF Data
  <2> QED
    BY <1>1, <1>2, <1>4, <2>1 DEF Data
<1>7. ThreadsTyped'
  BY <1>1, <1>2 DEF ThreadsTyped
<1>8. ListedNotCancelled' /\ TakenGone'
  <2>1. ListedNotCancelled'
    BY <1>1, <1>5 DEF IInv, ListedNotCancelled
  <2>2. \A u \in Threads : \A j \in th[u].taken : j \in Agents
    BY <1>2 DEF ThreadsTyped, ThreadType
  <2> QED
    BY <1>1, <1>5, <2>1, <2>2 DEF IInv, TakenGone
<1>9. Order'
  BY <1>1 DEF IInv, Order, Busy, Resting
<1>10. ~raced' => Held'
  <2> SUFFICES ASSUME ~raced' PROVE Held'
    OBVIOUS
  <2>1. Held
    BY RacedFacts DEF IInv
  <2>2. Empty' <=> Empty
    BY <1>1 DEF Empty
  <2>3. \A j \in Agents : Polling(j)' =>
          /\ agent'[j].acc \in Accounts
          /\ \/ instances'[agent'[j].acc] = j
             \/ \E u \in Threads : j \in th'[u].taken
    BY <1>1, <1>5, <2>1 DEF Held
  <2>4. \A j, k \in Agents :
          Polling(j)' /\ Polling(k)' /\ agent'[j].acc = agent'[k].acc => j = k
    BY <1>5, <2>1 DEF Held
  <2>5. \A u \in Threads : th'[u].pc = "launch" =>
          /\ agent'[th'[u].made].acc \in Accounts
          /\ instances'[agent'[th'[u].made].acc] = th'[u].made
    BY <1>1, <1>2, <1>5, <2>1 DEF Held, ThreadsTyped
  <2>6. \A y \in Accounts : instances'[y] # Null => agent'[instances'[y]].parent = mctx'
    <3>1. \A y \in Accounts : instances[y] # Null => instances[y] \in Agents
      BY <1>2 DEF Data
    <3> QED
      BY <1>1, <1>5, <2>1, <3>1 DEF Held
  <2>7. (\A r \in Runs : Resting(r)') => Empty' /\ reloadMu' = Null
    BY <1>1, <2>1, <2>2 DEF Held, Resting
  <2>8. \A u \in Threads :
          /\ th'[u].pc \in {"cancel", "wait", "query"} => Empty'
          /\ th'[u].pc = "insert" => instances'[th'[u].cur[1]] = Null
    BY <1>1, <2>1, <2>2 DEF Held
  <2> QED
    BY <2>3, <2>4, <2>5, <2>6, <2>7, <2>8 DEF Held
<1>11. Unharmed' /\ ~Pending' => Loaded'
  <2> SUFFICES ASSUME Unharmed', ~Pending' PROVE Loaded'
    OBVIOUS
  <2>1. ~Pending
    BY <1>1 DEF Pending, Resting
  <2>2. Unharmed /\ Cancelled(i)
    BY <1>1, <1>2, RacedFacts, Names DEF IInv, Unharmed, Data
  <2>3. Loaded /\ Held
    BY <2>1, <2>2 DEF IInv, Unharmed
  <2>4. \A y \in Accounts : instances[y] # i
    <3> SUFFICES ASSUME NEW y \in Accounts, instances[y] = i PROVE FALSE
      OBVIOUS
    <3>1. ~agent[i].cancelled /\ agent[i].parent = mctx
      BY <2>3, Names DEF IInv, ListedNotCancelled, Held
    <3>2. \E r \in Runs : mctx = r /\ r \notin ctxDone
      BY <2>1 DEF IInv, Order, Pending
    <3> QED
      BY <2>2, <3>1, <3>2 DEF Cancelled
  <2>5. \A y \in Accounts :
          instances[y] # Null => agent'[instances[y]] = agent[instances[y]]
    BY <1>2, <1>4, <2>4 DEF Data
  <2>6. \A y \in Accounts : instances'[y] # Null =>
          /\ agent'[instances'[y]].ver = db'[y]
          /\ \/ agent'[instances'[y]].state = "live"
             \/ \E u \in Threads : th'[u].pc = "launch" /\ th'[u].made = instances'[y]
    BY <1>1, <2>3, <2>5 DEF Loaded
  <2> QED
    BY <1>1, <2>3, <2>6 DEF Loaded
<1> QED
  BY <1>6, <1>7, <1>8, <1>9, <1>10, <1>11, Assemble

LEMMA InitHolds == Init => IInv
<1> SUFFICES ASSUME Init PROVE IInv
  OBVIOUS
<1>1. \A t \in Threads :
        th[t] = IF t \in Runs THEN Thread("new") ELSE Thread("idle")
  BY DEF Init
<1>2. \A r \in Runs : th[r] = Thread("new")
  BY <1>1, Names
<1>3. \A h \in Handlers : th[h] = Thread("idle")
  BY <1>1, Names
<1>4. \A t \in Threads : th[t].pc \in {"new", "idle"} /\ th[t].taken = {}
  BY <1>1 DEF Thread
<1>5. Thread("new") \in ThreadType /\ Thread("idle") \in ThreadType
  BY DEF Thread, ThreadType, Places
<1>6. Unmade \in AgentType
  BY DEF Unmade, AgentType
<1>7. Typed
  <2>1. th \in [Threads -> ThreadType]
    BY <1>5 DEF Init
  <2>2. 0 \in Versions /\ errors \in 0..MaxErrors /\ panics \in 0..MaxPanics
    BY Names DEF Init, Versions
  <2>3. agent \in [Agents -> AgentType]
    BY <1>6 DEF Init
  <2>4. \A t \in Threads :
          /\ th[t].pc \in {"new", "idle", "lock", "ready", "done"}
                            \cup Loading \cup Stopping
          /\ th[t].list \subseteq Accounts \X Versions
          /\ th[t].cur \in (Accounts \X Versions) \cup {Null}
          /\ th[t].made \in Agents \cup {Null}
          /\ th[t].taken \subseteq Agents
    BY <2>1 DEF ThreadType, Places
  <2>5. TypeOK
    BY <2>2, <2>3, <2>4 DEF Init, TypeOK, AgentType
  <2> QED
    BY <1>4, <2>1, <2>5 DEF Typed
<1>8. ListedNotCancelled /\ TakenGone
  BY <1>4, Names DEF Init, ListedNotCancelled, TakenGone
<1>9. Order
  BY <1>2, <1>3, Names DEF Init, Order, Thread, Busy, Resting, Loading, Stopping
<1>10. ~Overlap
  BY DEF Init, Overlap
<1>11. Held
  <2>1. \A i \in Agents : ~Polling(i)
    BY DEF Init, Unmade, Polling
  <2> QED
    BY <1>4, <2>1 DEF Init, Held, Empty
<1>12. Pending
  BY <1>2 DEF Pending, Resting, Thread
<1> QED
  BY <1>7, <1>8, <1>9, <1>10, <1>11, <1>12 DEF IInv

LEMMA Stutters == IInv /\ UNCHANGED vars => IInv'
BY DEF vars, IInv, Typed, TypeOK, ListedNotCancelled, TakenGone, Order, Busy, Resting,
       Held, Polling, Cancelled, Empty, Pending, Loaded, Unharmed, Overlap

-------------------------------------------------------------------------------
(* The invariant holds in every state of the managers.                      *)
THEOREM Invariance == Spec => []IInv
<1>1. IInv /\ [Next]_vars => IInv'
  <2> SUFFICES ASSUME IInv, [Next]_vars PROVE IInv'
    OBVIOUS
  <2>1. CASE UNCHANGED vars
    BY <2>1, Stutters
  <2>2. CASE Next
    <3>1. Watched
      BY <2>2 DEF Next, Watched
    <3>2. ASSUME NEW r \in Runs, RunBegins(r) \/ StopRun(r) \/ RunStops(r) PROVE IInv'
      BY <3>1, <3>2, RunBeginsKeeps, StopRunKeeps, RunStopsKeeps
    <3>3. ASSUME NEW h \in Handlers, Reload(h) \/ \E x \in Accounts : SaveAccount(h, x)
          PROVE  IInv'
      BY <3>1, <3>3, ReloadKeeps, SaveAccountKeeps
    <3>4. ASSUME NEW t \in Threads, StopStep(t) PROVE IInv'
      BY <3>1, <3>4, SwapInstancesKeeps, CancelAgentsKeeps, WaitAgentsKeeps DEF StopStep
    <3>5. ASSUME NEW t \in Threads, LoadStep(t) PROVE IInv'
      BY <3>1, <3>5, QueryAccountsKeeps, CheckAccountKeeps, InsertInstanceKeeps,
         LaunchAgentKeeps, LoadEndsKeeps DEF LoadStep
    <3>6. ASSUME NEW i \in Agents, AgentEnds(i) \/ AgentPanics(i) PROVE IInv'
      BY <3>1, <3>6, AgentEndsKeeps
    <3> QED
      BY <2>2, <3>2, <3>3, <3>4, <3>5, <3>6 DEF Next, Step
  <2> QED
    BY <2>1, <2>2
<1> QED
  BY <1>1, InitHolds, PTL DEF Spec

THEOREM TypeCorrect == Spec => []TypeOK
<1>1. IInv => TypeOK
  BY DEF IInv, Typed
<1> QED
  BY <1>1, Invariance, PTL

(* What startAgentForAccount finds in the map has not been cancelled by     *)
(* stopAllAgents, even when Reload and Run race.                            *)
THEOREM ListedAlive == Spec => []ListedNotCancelled
<1>1. IInv => ListedNotCancelled
  BY DEF IInv
<1> QED
  BY <1>1, Invariance, PTL

(* Unless a Reload met a Run that was loading or stopping, no agent polls   *)
(* that nothing can stop, and no account is polled twice.                   *)
THEOREM NoOrphan == Spec => []NoOrphanUnlessRaced
<1>1. IInv => NoOrphanUnlessRaced
  BY DEF IInv, Held, NoOrphanUnlessRaced
<1> QED
  BY <1>1, Invariance, PTL

(* Unless they raced, and when no query failed and no agent panicked, what  *)
(* polls at rest is what the database says: no change of an account is lost.*)
THEOREM NoChangeLost == Spec => []AppliedUnlessRaced
<1>1. IInv => AppliedUnlessRaced
  <2> SUFFICES ASSUME IInv, ~raced, errors = 0, panics = 0, AtRest PROVE Applied
    BY DEF AppliedUnlessRaced
  <2>1. PICK r \in Runs : th[r].pc = "ready" /\ r \notin ctxDone
    BY DEF AtRest
  <2>2. \A t \in Threads : ~Busy(t)
    <3>1. \A h \in Handlers : ~Busy(h)
      BY DEF AtRest, Busy, Loading, Stopping
    <3>2. \A s \in Runs : s # r => ~Busy(s)
      BY <2>1 DEF IInv, Order, Resting, Busy, Loading, Stopping
    <3> QED
      BY <2>1, <3>1, <3>2, Names DEF Busy, Loading, Stopping
  <2>3. ~Pending
    <3>1. \A h \in Handlers : th[h].pc # "lock"
      BY DEF AtRest
    <3>2. \A t \in Threads : th[t].pc \notin Stopping \cup {"query"}
      BY <2>2 DEF Busy, Loading
    <3>3. ~Resting(r)
      BY <2>1 DEF Resting
    <3> QED
      BY <2>1, <3>1, <3>2, <3>3 DEF Pending
  <2>4. Loaded /\ Held
    BY <2>3 DEF IInv, Unharmed
  <2>5. \A t \in Threads : th[t].pc \notin After /\ th[t].taken = {}
    BY <2>2 DEF IInv, Typed, Busy, Loading, Stopping, After
  <2>6. \A x \in Accounts : instances[x] # Null =>
          /\ instances[x] \in Agents /\ agent[instances[x]].acc = x
          /\ agent[instances[x]].ver = db[x] /\ agent[instances[x]].state = "live"
    <3>1. \A x \in Accounts : instances[x] # Null => instances[x] \in Agents
      BY Parts DEF IInv, Data
    <3> QED
      BY <2>4, <2>5, <3>1 DEF IInv, ListedNotCancelled, Loaded, After
  <2>7. \A x \in Accounts : db[x] # Null => instances[x] # Null
    BY <2>4, <2>5 DEF Loaded, After
  <2>8. \A x \in Accounts : db[x] # Null =>
          \E i \in Agents : Polling(i) /\ agent[i].acc = x /\ agent[i].ver = db[x]
    BY <2>6, <2>7 DEF AtRest, Polling
  <2>9. \A i \in Agents : Polling(i) => agent[i].ver = db[agent[i].acc]
    BY <2>4, <2>5, <2>6, Names DEF Held
  <2> QED
    BY <2>8, <2>9 DEF Applied
<1> QED
  BY <1>1, Invariance, PTL

===============================================================================
