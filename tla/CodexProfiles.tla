---------------------------- MODULE CodexProfiles -----------------------------
(***************************************************************************)
(* Several Codex accounts: CodexAgentManager                               *)
(* (internal/agent/codex_agent_manager.go), the handlers and commands that *)
(* write profile files (internal/web/handlers.go, codex_profiles.go) and   *)
(* the table provider_accounts (internal/store/codex_store.go).            *)
(*                                                                         *)
(* A profile is a file with the credentials of one account.  A scanner     *)
(* compares the modification times of the files with those it remembers    *)
(* and starts, restarts and stops agents.  The agents write the same files *)
(* when they refresh a token, the user's commands write them at any time,  *)
(* and scanner and commands enter the account in the database.  None of    *)
(* them holds a lock over more than one step.  A Run that is switched off  *)
(* while it works, or its scanner does, goes on to the end of that work,   *)
(* beside the Run that follows and with the context of that one.           *)
(*                                                                         *)
(* Where two of them meet within a few instructions, what one wrote is   *)
(* lost.  raced collects the profiles this happened to, each at the step *)
(* that loses: the properties say that these are the only ways.          *)
(*                                                                         *)
(* An account is a pair <<account_id, user_id>>: users of a team share the *)
(* first, and the second is empty in a login without an ID token.  A token *)
(* is named by the login it was issued to.                                 *)
(***************************************************************************)
EXTENDS Naturals, Sequences, FiniteSets

CONSTANTS Names,       \* profile names, in directory order
          Before,      \* those that may be there when the daemon starts
          Logins,      \* accounts the user logs in to
          Kept,        \* those of them saved as profiles (a bound)
          Agents,      \* identities of the agents alive at a time (a bound)
          Runs,        \* identities of the Runs, with their scanners (a bound)
          MaxEvents    \* bound on the commands, token refreshes, switchings
                       \* off and restarts, together

Default == "default"
Profiles == {Names[k] : k \in DOMAIN Names}

ASSUME ProfileAssumption ==
  /\ Default \notin Profiles /\ Before \subseteq Profiles
  /\ Logins \subseteq STRING \X STRING /\ Kept \subseteq Logins
  /\ \A x \in Logins : x[1] # ""
  /\ MaxEvents \in Nat

VARIABLES
  file,     \* per name: whose profile, whose token, modification time
  clock,    \* the latest modification time
  rows,     \* provider_accounts of "codex"; the index is the id
  seen,     \* m.lastScanProfiles (0: no entry)
  inst,     \* m.instances: name -> agent (0: no entry)
  agent,    \* per agent: profile, row, context, and its write in progress
  scan,     \* each Run and its profileScanner: where they are, their locals
  user,     \* the handler or command in progress
  on,       \* m.ctx, the context of the latest Run, is not cancelled
  raced,    \* history: profiles a race or a failing statement happened to
  doubled,  \* history: profiles whose agent another took the place of in the
            \* map without stopping it, since the contexts last ended
  events

store == <<file, clock, rows>>
profileVars == <<file, clock, rows, seen, inst, agent, scan, user, on, raced,
                 doubled, events>>

NoLogin == <<"", "">>
NoFile == [id |-> NoLogin, tok |-> NoLogin, time |-> 0]
NoPlan == [how |-> "", row |-> 0, name |-> "", gone |-> FALSE]
Free == [name |-> "", id |-> NoLogin, row |-> 0, live |-> FALSE, pc |-> "free",
         tok |-> NoLogin, own |-> FALSE, got |-> NoFile]
Scan(run, pc, todo) ==
  [run |-> run, pc |-> pc, todo |-> todo, got |-> NoFile, time |-> 0,
   plan |-> NoPlan]

(* run: the Run loads the profiles, waits for the end of its context, has   *)
(* still to call stopAllAgents, or has returned.  The scanner may outlast   *)
(* it.                                                                      *)
Absent == Scan("none", "off", <<>>)
Idle == [pc |-> "idle", name |-> "", id |-> NoLogin, plan |-> NoPlan]

(* A file as a command writes it.                                           *)
Fresh(x, time) == [id |-> x, tok |-> x, time |-> time]

Saved(n) == file[n].time > 0
ListDir == SelectSeq(Names, Saved)

Loads(s) == scan[s].run = "load"

(* The daemon starts: the first Run begins.                                 *)
Begun ==
  [s \in Runs |-> IF \A q \in Runs : s <= q THEN Scan("load", "entry", ListDir)
                                            ELSE Absent]

(* The daemon has started on an empty database, into which the migration    *)
(* has put the default account, and on the profiles of an earlier one.      *)
ProfilesInit ==
  /\ file \in [Profiles -> {NoFile} \cup {Fresh(x, 1) : x \in Kept}]
  /\ {n \in Profiles : Saved(n)} \subseteq Before
  /\ clock = 1
  /\ rows = <<[name |-> Default, ext |-> NoLogin, gone |-> FALSE]>>
  /\ seen = [n \in Profiles |-> 0]
  /\ inst = [n \in Profiles \cup {Default} |-> 0]
  /\ agent = [i \in Agents |-> Free]
  /\ scan = Begun
  /\ user = Idle
  /\ on = TRUE
  /\ raced = {} /\ doubled = {}
  /\ events = 0

Happens == events < MaxEvents /\ events' = events + 1

--------------------------------------------------------------------------------
(* GetOrCreateProviderAccountByExternalID in its two halves: the queries    *)
(* that decide what to do, and the statements that do it.                   *)
Having(col, v) == {r \in DOMAIN rows : rows[r][col] = v}

Plan(how, r) ==
  [how |-> how, row |-> r, name |-> rows[r].name, gone |-> rows[r].gone]

Find(n, id) ==
  CASE Having("ext", id) # {} ->
         Plan("known", CHOOSE r \in Having("ext", id) :
                         \A q \in Having("ext", id) : r <= q)
    [] Having("ext", id) = {} /\ Having("name", n) # {} ->
         Plan("named", CHOOSE r \in Having("name", n) : TRUE)
    [] Having("ext", id) = {} /\ Having("name", n) = {} ->
         IF n # Default /\ Len(rows) = 1 /\ rows[1].name = Default
         THEN Plan("rename", 1)
         ELSE [NoPlan EXCEPT !.how = "insert"]

(* UNIQUE(provider, name) refuses these.                                    *)
Clash(p, n) == Having("name", n) \ {p.row} # {}

Undelete(t, p, name) ==
  IF p.gone
  THEN [r \in DOMAIN t |-> IF t[r].name = name THEN [t[r] EXCEPT !.gone = FALSE]
                                               ELSE t[r]]
  ELSE t

(* A name that is taken keeps a known account under its old name.           *)
Apply(p, n, id) ==
  CASE p.how = "known" ->
         LET name == IF Clash(p, n) THEN p.name ELSE n
         IN Undelete([rows EXCEPT ![p.row].name =
                        IF Clash(p, n) THEN @ ELSE n], p, name)
    [] p.how = "named" ->
         [Undelete(rows, p, n) EXCEPT ![p.row].ext = id]
    [] p.how = "rename" ->
         [rows EXCEPT ![p.row].name = n, ![p.row].ext = id]
    [] p.how = "insert" ->
         Append(rows, [name |-> n, ext |-> id, gone |-> FALSE])

Fails(p, n) == p.how \in {"rename", "insert"} /\ Clash(p, n)
RowOf(p) == IF p.how = "insert" THEN Len(rows) + 1 ELSE p.row

MarkDeleted(t, S) ==
  [r \in DOMAIN t |-> IF t[r].name \in S THEN [t[r] EXCEPT !.gone = TRUE]
                                         ELSE t[r]]

(* DeduplicateProviderAccounts: of the rows of one account one is left, an  *)
(* active one if there is any, else the first.                              *)
Deduplicate(t) ==
  LET Group(r) == {q \in DOMAIN t : t[q].ext # NoLogin /\ t[q].ext = t[r].ext}
      Better(q, r) == \/ t[r].gone /\ ~t[q].gone
                      \/ t[r].gone = t[q].gone /\ q < r
  IN [r \in DOMAIN t |-> [t[r] EXCEPT !.gone =
        @ \/ \E q \in Group(r) \ {r} : Better(q, r)]]

--------------------------------------------------------------------------------
(* Run and profileScanner.  stopAgent takes the instance out of the map and *)
(* cancels it: an agent that waits then ends without a trace, one that      *)
(* saves a token goes on to the end of that.                                *)
Cancelled(a) == [a EXCEPT !.live = FALSE]

TakeOut(S) ==
  agent' = [i \in Agents |-> IF i \notin S THEN agent[i]
                             ELSE IF agent[i].pc = "wait" THEN Free
                             ELSE Cancelled(agent[i])]

StopAgent(n) ==
  /\ inst' = [inst EXCEPT ![n] = 0]
  /\ TakeOut({inst[n]})

Goes(s, next) == scan' = [scan EXCEPT ![s] = next]

NextEntry(s) == Scan(scan[s].run, "entry", Tail(scan[s].todo))

(* Back in its select, the scanner waits for m.ctx as it is then: if a new  *)
(* Run has begun meanwhile, for the context of that one.                    *)
Rests(run) == Scan(run, IF on THEN "idle" ELSE "off", <<>>)

(* Run: loadAndStartProfiles.  An earlier Run may still have its agents in  *)
(* the map: "already running", and stopAllAgents is yet to come.            *)
TurnOn ==
  /\ ~on /\ on' = TRUE
  /\ \E s \in Runs :
       /\ scan[s] = Absent /\ \A q \in Runs : scan[q] = Absent => s <= q
       /\ Goes(s, Scan("load", "entry", ListDir))
       /\ raced' = IF \E q \in Runs : scan[q] # Absent THEN Profiles ELSE raced
  /\ UNCHANGED <<store, seen, inst, agent, user, doubled, events>>

ScanTick(s) ==
  /\ scan[s].pc = "idle"
  /\ Goes(s, Scan(scan[s].run, "entry", ListDir))
  /\ UNCHANGED <<store, seen, inst, agent, user, on, raced, doubled, events>>

(* An entry whose time is the remembered one, or whose file has gone since  *)
(* ReadDir, is passed over; the agent of a modified one is stopped.         *)
ReadEntry(s) ==
  /\ scan[s].pc = "entry" /\ scan[s].todo # <<>>
  /\ LET n == Head(scan[s].todo)
         Unchanged == seen[n] # 0 /\ file[n].time <= seen[n]
     IN IF Loads(s)
        THEN /\ Goes(s, [scan[s] EXCEPT !.pc = "load"])
             /\ UNCHANGED <<inst, agent>>
        ELSE IF ~Saved(n) \/ Unchanged
        THEN /\ Goes(s, NextEntry(s))
             /\ UNCHANGED <<inst, agent>>
        ELSE /\ Goes(s, [scan[s] EXCEPT !.pc = "load", !.time = file[n].time])
             /\ IF seen[n] # 0 THEN StopAgent(n) ELSE UNCHANGED <<inst, agent>>
  /\ UNCHANGED <<store, seen, user, on, raced, doubled, events>>

(* startAgentForProfile asks for the account.                               *)
AskForAccount(s, n, profile) ==
  [scan[s] EXCEPT !.pc = "apply", !.got = profile, !.plan = Find(n, profile.id)]

(* loadAndStartProfile, until it has asked for the account.  A scan         *)
(* remembers the time of a profile that did not load as well, Run does not. *)
LoadProfile(s) ==
  /\ scan[s].pc = "load"
  /\ LET n == Head(scan[s].todo) IN
       Goes(s, CASE ~Saved(n) /\ Loads(s) -> NextEntry(s)
                 [] ~Saved(n) /\ ~Loads(s) -> [scan[s] EXCEPT !.pc = "record"]
                 [] Saved(n) /\ inst[n] # 0 -> [scan[s] EXCEPT !.pc = "record"]
                 [] OTHER -> AskForAccount(s, n, file[n]))
  /\ UNCHANGED <<store, seen, inst, agent, user, on, raced, doubled, events>>

(* With no profile running, Run starts an agent on the login in auth.json,  *)
(* which changes at any time.                                               *)
StartDefault(s) ==
  /\ scan[s].pc = "entry" /\ scan[s].todo = <<>> /\ Loads(s)
  /\ IF \A n \in DOMAIN inst : inst[n] = 0
     THEN \E x \in Logins :
            Goes(s, [AskForAccount(s, Default, [id |-> x, tok |-> x, time |-> 0])
                       EXCEPT !.todo = <<Default>>])
     ELSE Goes(s, [scan[s] EXCEPT !.pc = "settle"])
  /\ UNCHANGED <<store, seen, inst, agent, user, on, raced, doubled, events>>

(* What the statements find is no longer what the queries saw.              *)
Overtaken(p, n, id) == p # Find(n, id)

AfterStart(s, failed) ==
  IF Head(scan[s].todo) = Default
  THEN Scan(scan[s].run, "settle", <<>>)
  ELSE IF failed /\ Loads(s) THEN NextEntry(s) ELSE [scan[s] EXCEPT !.pc = "record"]

(* The rest of startAgentForProfile.  An agent that starts after the switch *)
(* is off has a cancelled context from the first.                           *)
StartAgent(s) ==
  /\ scan[s].pc = "apply"
  /\ LET n == Head(scan[s].todo)
         p == scan[s].plan
         id == scan[s].got.id
     IN /\ raced' = IF Overtaken(p, n, id) THEN Profiles ELSE raced
        /\ Goes(s, AfterStart(s, Fails(p, n)))
        /\ IF Fails(p, n)
           THEN UNCHANGED <<rows, inst, agent, doubled>>
           ELSE /\ rows' = Apply(p, n, id)
                /\ \E i \in Agents :
                     /\ agent[i] = Free
                     /\ \A j \in Agents : agent[j] = Free => i <= j
                     /\ inst' = [inst EXCEPT ![n] = i]
                     /\ agent' = [agent EXCEPT ![i] =
                          [Free EXCEPT !.name = n, !.id = id, !.row = RowOf(p),
                                       !.live = on, !.pc = "wait"]]
                /\ doubled' = IF inst[n] # 0 /\ agent[inst[n]].live
                              THEN doubled \cup {n} ELSE doubled
  /\ UNCHANGED <<file, clock, seen, user, on, events>>

(* The database refuses.  A profile of which Run knows no time is tried     *)
(* again by the next scan; any other waits for the next change of its file. *)
StartFails(s) ==
  /\ scan[s].pc = "apply"
  /\ Happens
  /\ Goes(s, AfterStart(s, TRUE))
  /\ LET n == Head(scan[s].todo)
         Retried == n = Default \/ (Loads(s) /\ seen[n] = 0)
     IN raced' = IF Retried THEN raced ELSE raced \cup {n}
  /\ UNCHANGED <<store, seen, inst, agent, user, on, doubled>>

(* A faulty scan: it remembers the time the file has now.                   *)
RecordTimeNow(s) ==
  /\ scan[s].pc = "record"
  /\ LET n == Head(scan[s].todo) IN
       /\ seen' = IF Saved(n) THEN [seen EXCEPT ![n] = file[n].time] ELSE seen
       /\ raced' = IF Loads(s) /\ file[n] # scan[s].got THEN raced \cup {n} ELSE raced
  /\ Goes(s, NextEntry(s))
  /\ UNCHANGED <<store, inst, agent, user, on, doubled, events>>

(* A scan writes down the time it read before it loaded the file; Run asks  *)
(* for it now, and may pass over what was written after it read the file.   *)
RecordTime(s) ==
  /\ scan[s].pc = "record"
  /\ LET n == Head(scan[s].todo)
         time == IF Loads(s) THEN file[n].time ELSE scan[s].time
     IN /\ seen' = IF Loads(s) /\ ~Saved(n) THEN seen ELSE [seen EXCEPT ![n] = time]
        /\ raced' = IF Loads(s) /\ file[n] # scan[s].got THEN raced \cup {n} ELSE raced
  /\ Goes(s, NextEntry(s))
  /\ UNCHANGED <<store, inst, agent, user, on, doubled, events>>

(* markOrphanedAccountsDeleted and DeduplicateProviderAccounts; then the    *)
(* scanner starts, and Run waits for the end of m.ctx.                      *)
SettleAccounts(s) ==
  /\ scan[s].pc = "settle"
  /\ LET running == {n \in DOMAIN inst : inst[n] # 0}
         orphans == {rows[r].name : r \in DOMAIN rows}
                      \ (running \cup {n \in Profiles : Saved(n)})
     IN rows' = Deduplicate(MarkDeleted(rows, orphans))
  /\ Goes(s, Rests(IF on THEN "wait" ELSE "close"))
  /\ UNCHANGED <<file, clock, seen, inst, agent, user, on, raced, doubled, events>>

Gone(s, todo) ==
  IF todo = <<>> THEN Rests(scan[s].run) ELSE Scan(scan[s].run, "gone", todo)

(* A faulty second half: it goes through the times and not the instances.   *)
ListRemembered(s) ==
  /\ scan[s].pc = "entry" /\ scan[s].todo = <<>> /\ ~Loads(s)
  /\ Goes(s, Gone(s, SelectSeq(Names, LAMBDA n : seen[n] # 0)))
  /\ UNCHANGED <<store, seen, inst, agent, user, on, raced, doubled, events>>

(* The second half of a scan: instances whose file is no longer there.      *)
ListInstances(s) ==
  /\ scan[s].pc = "entry" /\ scan[s].todo = <<>> /\ ~Loads(s)
  /\ Goes(s, Gone(s, SelectSeq(Names, LAMBDA n : inst[n] # 0)))
  /\ UNCHANGED <<store, seen, inst, agent, user, on, raced, doubled, events>>

StopDeleted(s) ==
  /\ scan[s].pc = "gone"
  /\ LET n == Head(scan[s].todo) IN
       IF Saved(n)
       THEN /\ Goes(s, Gone(s, Tail(scan[s].todo)))
            /\ UNCHANGED <<seen, inst, agent>>
       ELSE /\ Goes(s, [scan[s] EXCEPT !.pc = "mark"])
            /\ StopAgent(n)
            /\ seen' = [seen EXCEPT ![n] = 0]
  /\ UNCHANGED <<store, user, on, raced, doubled, events>>

MarkStopped(s) ==
  /\ scan[s].pc = "mark"
  /\ rows' = MarkDeleted(rows, {Head(scan[s].todo)})
  /\ Goes(s, Gone(s, Tail(scan[s].todo)))
  /\ UNCHANGED <<file, clock, seen, inst, agent, user, on, raced, doubled, events>>

Scanner(s) ==
  \/ ScanTick(s) \/ ReadEntry(s) \/ LoadProfile(s) \/ StartDefault(s)
  \/ StartAgent(s) \/ RecordTime(s) \/ SettleAccounts(s) \/ ListInstances(s)
  \/ StopDeleted(s) \/ MarkStopped(s)

(* The switch goes off: the context of every agent ends with that of Run,   *)
(* and a scanner that waits returns.                                        *)
TurnOff ==
  /\ on /\ on' = FALSE
  /\ Happens
  /\ scan' = [s \in Runs |->
               [scan[s] EXCEPT !.run = IF @ = "wait" THEN "close" ELSE @,
                               !.pc = IF @ = "idle" THEN "off" ELSE @]]
  /\ agent' = [i \in Agents |-> Cancelled(agent[i])] /\ doubled' = {}
  /\ UNCHANGED <<store, seen, inst, user, raced>>

(* stopAllAgents, by a Run that was switched off.                           *)
StopAllAgents(s) ==
  /\ scan[s].run = "close"
  /\ Goes(s, [scan[s] EXCEPT !.run = "none"])
  /\ TakeOut({inst[n] : n \in DOMAIN inst})
  /\ inst' = [n \in DOMAIN inst |-> 0]
  /\ UNCHANGED <<store, seen, user, on, raced, doubled, events>>

(* The daemon stops at any point and starts again; a command goes on.       *)
Restart ==
  /\ Happens
  /\ on' = TRUE
  /\ scan' = Begun
  /\ seen' = [n \in Profiles |-> 0]
  /\ inst' = [n \in DOMAIN inst |-> 0]
  /\ agent' = [i \in Agents |-> Free]
  /\ doubled' = {}
  /\ user' \in {user, Idle}
  /\ UNCHANGED <<store, raced>>

--------------------------------------------------------------------------------
(* A faulty test, which takes the users of a team for one.                  *)
UsableByTeam(x, i) ==
  /\ x[1] = agent[i].id[1]
  /\ x[1] = file[agent[i].name].id[1]

(* shouldUseSystemCredsForProfile: is auth.json the login of this profile?  *)
(* The users are compared if both are known.                                *)
Usable(x, i) ==
  /\ x[1] = agent[i].id[1]
  /\ x[1] = file[agent[i].name].id[1]
  /\ x[2] = agent[i].id[2] \/ x[2] = "" \/ agent[i].id[2] = ""

(* The token in the file expires soon: the agent has it refreshed, or takes *)
(* that of auth.json (own is FALSE).                                        *)
Refresh(i) ==
  LET n == agent[i].name IN
  /\ agent[i].live /\ agent[i].pc = "wait" /\ n # Default /\ Saved(n)
  /\ Happens
  /\ \/ agent' = [agent EXCEPT ![i].pc = "save", ![i].tok = file[n].tok,
                               ![i].own = TRUE]
     \/ \E x \in Logins :
          /\ Usable(x, i)
          /\ agent' = [agent EXCEPT ![i].pc = "save", ![i].tok = x]
  /\ UNCHANGED <<store, seen, inst, scan, user, on, raced, doubled>>

Polling(a) ==
  [a EXCEPT !.pc = "wait", !.tok = NoLogin, !.own = FALSE, !.got = NoFile]

(* saveTokensToProfile, updateProfileFromSystemCreds: read ...              *)
SaveRead(i) ==
  LET n == agent[i].name IN
  /\ agent[i].pc = "save"
  /\ agent' = [agent EXCEPT ![i] =
                  IF Saved(n) THEN [@ EXCEPT !.pc = "rename", !.got = file[n]]
                              ELSE Polling(@)]
  /\ UNCHANGED <<store, seen, inst, scan, user, on, raced, doubled, events>>

(* The user id that goes into the file: of a refreshed token that has one,  *)
(* of a login if the file has none.                                         *)
UserId(a) ==
  IF a.tok[2] # "" /\ (a.own \/ a.got.id[2] = "") THEN a.tok[2] ELSE a.got.id[2]

(* ... and replace by a rename, whatever has become of the file since: a    *)
(* profile saved or deleted in between is undone, and one that was saved    *)
(* for another account, or for the first time with a user id, since the     *)
(* agent started gets a token of the old one.                               *)
SaveRename(i) ==
  LET n == agent[i].name
      a == agent[i]
      new == [id |-> <<a.got.id[1], UserId(a)>>, tok |-> a.tok, time |-> clock + 1]
  IN /\ a.pc = "rename"
     /\ file' = [file EXCEPT ![n] = new]
     /\ clock' = clock + 1
     /\ agent' = [agent EXCEPT ![i].pc = "remember", ![i].got = new]
     /\ raced' = IF \/ file[n] # a.got
                    \/ a.got.id # a.id
                    \/ a.own /\ a.tok # a.got.tok
                 THEN raced \cup {n} ELSE raced
     /\ UNCHANGED <<rows, seen, inst, scan, user, on, doubled, events>>

(* The time of the file, which need not be that of this write any more; and *)
(* the scanner then passes over the write of an agent it has replaced.      *)
SaveRemember(i) ==
  LET n == agent[i].name IN
  /\ agent[i].pc = "remember"
  /\ seen' = IF Saved(n) THEN [seen EXCEPT ![n] = file[n].time] ELSE seen
  /\ raced' = IF Saved(n) /\ (file[n] # agent[i].got \/ inst[n] # i)
              THEN raced \cup {n} ELSE raced
  /\ agent' = [agent EXCEPT ![i] = Polling(@)]
  /\ UNCHANGED <<store, inst, scan, user, on, doubled, events>>

Save(i) == SaveRead(i) \/ SaveRename(i) \/ SaveRemember(i)

(* Its context has ended; removeInstanceIfCurrent.                          *)
AgentEnds(i) ==
  LET n == agent[i].name IN
  /\ agent[i].pc = "wait" /\ ~agent[i].live
  /\ inst' = IF inst[n] = i THEN [inst EXCEPT ![n] = 0] ELSE inst
  /\ agent' = [agent EXCEPT ![i] = Free]
  /\ UNCHANGED <<store, seen, scan, user, on, raced, doubled, events>>

--------------------------------------------------------------------------------
(* The user's handlers and commands.                                        *)
Command(pc, n, x) ==
  /\ user = Idle
  /\ Happens
  /\ user' = [Idle EXCEPT !.pc = pc, !.name = n, !.id = x]

(* isDuplicateCodexProfile.                                                 *)
HeldByOther(n, x) == \E m \in Profiles \ {n} : Saved(m) /\ file[m].id = x

(* profile save and profile refresh of the command line; the handler of     *)
(* save also wants the name to be free.                                     *)
SaveProfile(n, x) ==
  /\ ~HeldByOther(n, x)
  /\ Command("write", n, x)
  /\ UNCHANGED <<store, seen, inst, agent, scan, on, raced, doubled>>

(* The handler of refresh looks at the account id of this profile only.     *)
RefreshProfile(n, x) ==
  /\ Saved(n) /\ file[n].id[1] = x[1]
  /\ Command("write", n, x)
  /\ UNCHANGED <<store, seen, inst, agent, scan, on, raced, doubled>>

WriteProfile ==
  /\ user.pc = "write"
  /\ file' = [file EXCEPT ![user.name] = Fresh(user.id, clock + 1)]
  /\ clock' = clock + 1
  /\ user' = [user EXCEPT !.pc = "find"]
  /\ UNCHANGED <<rows, seen, inst, agent, scan, on, raced, doubled, events>>

UserFinds ==
  /\ user.pc = "find"
  /\ user' = [user EXCEPT !.pc = "apply", !.plan = Find(user.name, user.id)]
  /\ UNCHANGED <<store, seen, inst, agent, scan, on, raced, doubled, events>>

(* Best effort: an error is ignored.  The file may have another account by  *)
(* now, if an agent has filled in a user id.                                *)
UserApplies ==
  LET p == user.plan
      n == user.name
  IN /\ user.pc = "apply"
     /\ rows' = IF Fails(p, n) THEN rows ELSE Apply(p, n, user.id)
     /\ raced' = IF Overtaken(p, n, user.id) THEN Profiles
                 ELSE IF file[n].id # user.id THEN raced \cup {n} ELSE raced
     /\ user' = Idle
     /\ UNCHANGED <<file, clock, seen, inst, agent, scan, on, doubled, events>>

DeleteProfile(n) ==
  /\ Saved(n)
  /\ Command("mark", n, NoLogin)
  /\ file' = [file EXCEPT ![n] = NoFile]
  /\ UNCHANGED <<clock, rows, seen, inst, agent, scan, on, raced, doubled>>

UserMarks ==
  /\ user.pc = "mark"
  /\ rows' = MarkDeleted(rows, {user.name})
  /\ user' = Idle
  /\ UNCHANGED <<file, clock, seen, inst, agent, scan, on, raced, doubled, events>>

UserGoesOn == WriteProfile \/ UserFinds \/ UserApplies \/ UserMarks

ProfilesNext ==
  \/ \E s \in Runs : Scanner(s) \/ StartFails(s) \/ StopAllAgents(s)
  \/ TurnOff \/ TurnOn \/ Restart
  \/ \E i \in Agents : Refresh(i) \/ Save(i) \/ AgentEnds(i)
  \/ \E n \in Profiles, x \in Kept : SaveProfile(n, x) \/ RefreshProfile(n, x)
  \/ \E n \in Profiles : DeleteProfile(n)
  \/ UserGoesOn

Fairness ==
  /\ \A s \in Runs : WF_profileVars(Scanner(s)) /\ WF_profileVars(StopAllAgents(s))
  /\ WF_profileVars(UserGoesOn)
  /\ \A i \in Agents : WF_profileVars(Save(i) \/ AgentEnds(i))

ProfilesSpec == ProfilesInit /\ [][ProfilesNext]_profileVars /\ Fairness

--------------------------------------------------------------------------------
(* A profile that is no longer there is no longer polled, whatever was      *)
(* written, scanned, switched and restarted when it was deleted.  The       *)
(* exception are the agents nobody finds: where the scanner of a Run that   *)
(* was switched off and the next Run both load a profile, the second agent  *)
(* takes the place of the first in the map, and the first is polled on      *)
(* until the switch goes off again (doubled).                               *)
DeletedEnds ==
  \A n \in Profiles :
    <>[](~Saved(n) /\ n \notin doubled
           => \A i \in Agents : agent[i].name = n => ~agent[i].live)

(* The account of the file is that of the agent, but for a user id that was *)
(* filled in since.                                                         *)
SameAccount(agentId, fileId) ==
  agentId[1] = fileId[1] /\ agentId[2] \in {fileId[2], ""}

(* The agent that runs for profile n polls for the account of the file and  *)
(* into its row of the database.                                            *)
PolledAsSaved(n) ==
  /\ inst[n] # 0
  /\ agent[inst[n]].live
  /\ SameAccount(agent[inst[n]].id, file[n].id)
  /\ rows[agent[inst[n]].row].ext = agent[inst[n]].id

(* codex_profiles.go:595, "The running daemon will detect this change": a   *)
(* profile that stays is polled as it was saved, if the writes that came    *)
(* together were not within a few instructions of each other (raced).       *)
SavedIsPolledUnlessRaced ==
  \A n \in Profiles : <>[](on /\ Saved(n) /\ n \notin raced => PolledAsSaved(n))

(* codex_agent_manager.go:473: named profiles never take tokens of another  *)
(* account ("auth contamination between profiles"), neither of the login    *)
(* nor by a refresh: nor of another user of the team, as far as the login   *)
(* says whose it is.                                                        *)
TokensStayUnlessRaced ==
  \A n \in Profiles :
    Saved(n) /\ n \notin raced =>
      file[n].tok[1] = file[n].id[1] /\ file[n].tok[2] \in {file[n].id[2], ""}

(* docs/CODEX_SETUP.md:211: an account is identified by its account id,     *)
(* "this is the real identity, not the profile name": a row of usage stays  *)
(* with the account it was made for.  docs/CODEX_SETUP.md:157: "Each        *)
(* ChatGPT account can only have one profile."  A profile keeps to the user *)
(* it was saved for also when a login does not say whose it is.  No agent   *)
(* escapes the map.  None of these holds, and no run states it: the README  *)
(* says how to see them fail.                                               *)
RowKeepsAccount ==
  [][\A r \in DOMAIN rows :
       rows[r].ext # NoLogin => rows'[r].ext = rows[r].ext]_profileVars

OneProfile ==
  \A m, n \in Profiles :
    (m # n /\ Saved(m) /\ Saved(n)) => file[m].id # file[n].id

TokensOfTheUser ==
  \A n \in Profiles : Saved(n) /\ n \notin raced => file[n].tok = file[n].id

NoneEscapes == doubled = {}

================================================================================
