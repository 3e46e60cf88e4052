----------------------------- MODULE AnthropicAuth -----------------------------
(***************************************************************************)
(* How the Anthropic agent (internal/agent/anthropic_agent.go) keeps its   *)
(* access: it shares the credentials file with Claude Code, refreshes the  *)
(* OAuth tokens itself when they are about to expire, when the usage API   *)
(* limits it and when it is refused, backs off when the token endpoint     *)
(* limits it, and pauses when refused too often, with attempts at recovery *)
(* at growing intervals.                                                   *)
(*                                                                         *)
(* A refresh token is good for one use and yields the next pair: pairs are *)
(* numbered, and only the newest works.  The file holds one pair; an agent *)
(* that refreshes but cannot write the file has the new access token in    *)
(* memory only.                                                            *)
(*                                                                         *)
(* A poll is a few steps, each up to the answer of a request: Claude Code, *)
(* the user, the expiry of tokens and the end of the daemon come between   *)
(* them.  All that the agent knows it keeps in memory: the daemon that     *)
(* starts again has the file and nothing else.  Times are counted in polls.*)
(***************************************************************************)
EXTENDS Naturals

CONSTANTS MaxPairs,             \* bound on the pairs of tokens
          MaxFaults,            \* bound on the errors no token explains
          MaxRestarts,          \* bound on the restarts of the daemon
          MaxCount,             \* authRetryCount is not told apart above it
          maxAuthFailures, maxRateLimitFailures,
          authPausedRetryInterval, authPausedRetryMaxInterval,
          rateLimitBaseBackoff, rateLimitMaxBackoff,
          apiPollCycleInterval,
          None                  \* no token, no time

(* Who asks for a refresh.                                                  *)
Sources == {"proactive", "retry", "bypass", "auth"}

ASSUME AuthAssumption ==
  /\ {MaxPairs, MaxCount, maxAuthFailures, maxRateLimitFailures, apiPollCycleInterval}
        \subseteq Nat \ {0}
  /\ MaxFaults \in Nat /\ MaxRestarts \in Nat
  /\ authPausedRetryInterval \in Nat \ {0}
  /\ authPausedRetryMaxInterval \in Nat /\ authPausedRetryInterval <= authPausedRetryMaxInterval
  /\ authPausedRetryInterval * 2^(MaxCount - 1) >= authPausedRetryMaxInterval
  /\ rateLimitBaseBackoff \in Nat \ {0}
  /\ rateLimitMaxBackoff \in Nat /\ rateLimitBaseBackoff <= rateLimitMaxBackoff
  /\ None \notin Nat \cup Sources

(* Arithmetic that the provers do not know.                                 *)
ASSUME PowersAssumption ==
  \A n \in 0..(MaxCount + MaxFaults) : 2^n \in Nat \ {0} /\ 2^(n + 1) = 2 * 2^n

Pairs == 1..MaxPairs

VARIABLES
  newest, life,       \* the server: the newest pair, the age of its access token
  disk,               \* the pair in the credentials file
  claude,             \* Claude Code is running
  auto,               \* the setting auto_refresh_tokens
  faults, restarts,
  pollCycleCount,     \* modulo apiPollCycleInterval
  token,              \* the client's access token
  lastToken, superseded, lastFailedToken,
  authFailCount, authPaused,
  authRetryAt, authRetryCount,          \* polls to the next attempt, or None
  rateLimitFailCount, rateLimitPaused, rateLimitResumeAt,
  pc,                 \* where the poll is
  creds, source,      \* the refresh in flight: the pair read, who asks
  retryToken,         \* what the forced re-read found
  consumed,           \* history: pairs the agent has exchanged for the next
  forgotten,          \* history: of these, those a restart made it forget
  waited              \* history: the wait the latest attempt at recovery set

server == <<newest, life>>
env == <<claude, auto>>
tokens == <<token, lastToken, superseded>>
schedule == <<authRetryAt, authRetryCount>>
pause == <<authFailCount, authPaused, lastFailedToken>>
limit == <<rateLimitFailCount, rateLimitPaused, rateLimitResumeAt>>
request == <<creds, source, retryToken>>
daemon == <<restarts, forgotten>>
vars == <<server, disk, env, faults, pollCycleCount, tokens, schedule, pause, limit,
          pc, request, consumed, waited, daemon>>

Init ==
  /\ newest = 1 /\ life \in {"fresh", "expiring", "expired"}
  /\ disk = 1 /\ claude \in BOOLEAN /\ auto \in BOOLEAN
  /\ faults = 0 /\ restarts = 0 /\ forgotten = {} /\ pollCycleCount = 0
  /\ token = 1 /\ lastToken = None /\ superseded = None
  /\ authFailCount = 0 /\ authPaused = FALSE /\ lastFailedToken = None
  /\ authRetryAt = None /\ authRetryCount = 0
  /\ rateLimitFailCount = 0 /\ rateLimitPaused = FALSE /\ rateLimitResumeAt = 0
  /\ pc = "idle" /\ creds = None /\ source = None /\ retryToken = None
  /\ consumed = {} /\ waited = None

Least(a, b) == IF a <= b THEN a ELSE b

Decay(n) == IF n = 0 THEN 0 ELSE n - 1

authRetryBackoff(n) == Least(authPausedRetryInterval * 2^(n - 1), authPausedRetryMaxInterval)
rateLimitBackoff(n) == Least(rateLimitBaseBackoff * 2^(n - 1), rateLimitMaxBackoff)

BackoffActive == rateLimitPaused /\ rateLimitResumeAt > 0

(* A faulty pause that schedules no attempt at recovery.                    *)
pauseAuthForever(failed) ==
  /\ authPaused' = TRUE
  /\ lastFailedToken' = failed
  /\ UNCHANGED <<authRetryAt, authRetryCount>>

pauseAuth(failed) ==
  /\ authPaused' = TRUE
  /\ lastFailedToken' = failed
  /\ authRetryAt' = IF authRetryAt = None THEN authPausedRetryInterval ELSE authRetryAt
  /\ UNCHANGED authRetryCount
-------------------------------------------------------------------------------
(* Claude Code, the user, the server.                                       *)

Ages ==
  /\ \/ life = "fresh" /\ life' = "expiring"
     \/ life = "expiring" /\ life' = "expired"
  /\ UNCHANGED <<newest, disk, env, faults, pollCycleCount, tokens, schedule, pause, limit,
                 pc, request, consumed, waited>>

Settles ==
  /\ \/ claude' = ~claude /\ UNCHANGED auto
     \/ auto' = ~auto /\ UNCHANGED claude
  /\ UNCHANGED <<server, disk, faults, pollCycleCount, tokens, schedule, pause, limit,
                 pc, request, consumed, waited>>

(* Claude Code refreshes the pair in the file, or the user logs in anew.    *)
Rotates ==
  /\ newest < MaxPairs
  /\ newest' = newest + 1 /\ life' = "fresh" /\ disk' = newest + 1
  /\ UNCHANGED <<env, faults, pollCycleCount, tokens, schedule, pause, limit,
                 pc, request, consumed, waited>>

(* What the usage API may answer; an error no token explains is a fault.    *)
Works == token = newest /\ life # "expired"
Answers(kind) ==
  \/ kind = "ok" /\ Works /\ UNCHANGED faults
  \/ kind = "limited" /\ UNCHANGED faults
  \/ kind = "auth" /\ ~Works /\ UNCHANGED faults
  \/ kind \in {"auth", "other"} /\ Works /\ faults < MaxFaults /\ faults' = faults + 1

-------------------------------------------------------------------------------
(* The guards of tryOAuthRecovery; proactiveRefresh has one more.           *)
MayRefresh == auto /\ ~claude /\ ~BackoffActive
(* A faulty guard that does not know of exchanges it could not save.        *)
MayRefreshUnsaved == MayRefresh

MayRefreshProactively == MayRefresh /\ disk # superseded

Ask(who) ==
  /\ pc' = "asked" /\ source' = who /\ creds' = disk

(* An interval passes.  With a fresh statusline most polls end there; the   *)
(* others go on to the usage API, after a refresh if the pair in the file   *)
(* is about to expire.                                                      *)
Poll ==
  /\ pc = "idle"
  /\ rateLimitResumeAt' = Decay(rateLimitResumeAt)
  /\ authRetryAt' = IF authRetryAt = None THEN None ELSE Decay(authRetryAt)
  /\ \/ /\ pollCycleCount' = (pollCycleCount + 1) % apiPollCycleInterval
        /\ rateLimitFailCount' = Decay(rateLimitFailCount)
        /\ pc' = IF pollCycleCount' = 0 THEN "expiring" ELSE "idle"
     \/ UNCHANGED <<pollCycleCount, rateLimitFailCount>> /\ pc' = "expiring"
  /\ UNCHANGED <<server, disk, env, faults, tokens, authRetryCount, pause, rateLimitPaused,
                 request, consumed, waited>>

(* The pair in the file, if it is not the newest, may be of any age.        *)
Proactive ==
  /\ pc = "expiring"
  /\ \/ /\ ~authPaused /\ MayRefreshProactively /\ (disk = newest => life # "fresh")
        /\ Ask("proactive")
     \/ /\ authPaused \/ ~MayRefreshProactively \/ disk # newest \/ life = "fresh"
        /\ pc' = "reread" /\ UNCHANGED <<creds, source>>
  /\ UNCHANGED <<server, disk, env, faults, pollCycleCount, tokens, schedule, pause, limit,
                 retryToken, consumed, waited>>

(* A faulty re-read that takes whatever the file says.                      *)
RereadPlain ==
  /\ pc = "reread"
  /\ token' = disk /\ lastToken' = disk
  /\ pc' = IF authPaused THEN "paused" ELSE "fetch"
  /\ UNCHANGED <<server, disk, env, faults, pollCycleCount, superseded, request, consumed,
                 pause, schedule, waited, limit>>

(* The token of the next request: the file's, unless it is the one the      *)
(* agent has exchanged without being able to write the new one.             *)
Reread ==
  LET newToken == IF disk = superseded THEN lastToken ELSE disk
      changed == newToken # None /\ newToken # lastToken
      resumes == changed /\ authPaused /\ newToken # lastFailedToken
  IN /\ pc = "reread"
     /\ IF changed THEN token' = newToken /\ lastToken' = newToken
                   ELSE UNCHANGED <<token, lastToken>>
     /\ IF resumes
          THEN /\ authPaused' = FALSE /\ authFailCount' = 0 /\ lastFailedToken' = None
               /\ authRetryAt' = None /\ authRetryCount' = 0 /\ waited' = None
          ELSE UNCHANGED <<pause, schedule, waited>>
     /\ IF changed /\ rateLimitPaused
          THEN rateLimitPaused' = FALSE /\ rateLimitFailCount' = 0 /\ rateLimitResumeAt' = 0
          ELSE UNCHANGED limit
     /\ pc' = IF authPaused' THEN "paused" ELSE "fetch"
     /\ UNCHANGED <<server, disk, env, faults, pollCycleCount, superseded, request, consumed>>

tryPausedAuthRecovery ==
  /\ pc = "paused"
  /\ IF authRetryAt # 0
       THEN pc' = "idle" /\ UNCHANGED <<schedule, creds, source, waited>>
       ELSE /\ authRetryCount' = Least(authRetryCount + 1, MaxCount)
            /\ authRetryAt' = authRetryBackoff(authRetryCount')
            /\ waited' = authRetryAt'
            /\ IF MayRefresh THEN Ask("retry")
                             ELSE pc' = "idle" /\ UNCHANGED <<creds, source>>
  /\ UNCHANGED <<server, disk, env, faults, pollCycleCount, tokens, pause, limit,
                 retryToken, consumed>>
-------------------------------------------------------------------------------
(* A poll that succeeds clears all that a pause would start from.           *)
Succeed(decayed) ==
  /\ authFailCount' = 0 /\ authRetryCount' = 0 /\ authRetryAt' = None
  /\ waited' = None
  /\ rateLimitFailCount' = IF decayed THEN Decay(rateLimitFailCount) ELSE rateLimitFailCount
  /\ pc' = "idle"

(* The usage API limits the agent: a new access token has a new limit.      *)
Bypass ==
  /\ Answers("limited")
  /\ IF BackoffActive
       THEN pc' = "idle" /\ UNCHANGED <<rateLimitFailCount, rateLimitPaused, creds, source>>
       ELSE /\ rateLimitFailCount' =
                 IF rateLimitPaused THEN Decay(rateLimitFailCount) ELSE rateLimitFailCount
            /\ rateLimitPaused' = FALSE
            /\ IF auto /\ ~claude THEN Ask("bypass")
                                  ELSE pc' = "idle" /\ UNCHANGED <<creds, source>>
  /\ UNCHANGED <<tokens, schedule, pause, rateLimitResumeAt, retryToken, waited>>

(* It refuses the token: read the file again, whatever it says.             *)
ForceReread ==
  /\ Answers("auth")
  /\ token' = disk /\ lastToken' = disk /\ retryToken' = disk
  /\ pc' = "retry"
  /\ UNCHANGED <<superseded, schedule, pause, limit, creds, source, waited>>

Fetch ==
  /\ pc = "fetch"
  /\ \/ /\ Answers("ok") /\ Succeed(TRUE)
        /\ UNCHANGED <<tokens, authPaused, lastFailedToken, rateLimitPaused, rateLimitResumeAt,
                       request>>
     \/ Bypass
     \/ ForceReread
     \/ /\ Answers("other") /\ pc' = "idle"
        /\ UNCHANGED <<tokens, schedule, pause, limit, request, waited>>
  /\ UNCHANGED <<server, disk, env, pollCycleCount, consumed>>

(* The second request of a poll that was refused.                           *)
Retry ==
  /\ pc = "retry"
  /\ \/ /\ Answers("ok") /\ Succeed(FALSE)
        /\ retryToken' = None
        /\ UNCHANGED <<authPaused, lastFailedToken, creds, source>>
     \/ /\ Answers("auth")
        /\ LET n == authFailCount + 1 IN
           \/ /\ n < maxAuthFailures
              /\ authFailCount' = n /\ pc' = "idle" /\ retryToken' = None
              /\ UNCHANGED <<authPaused, lastFailedToken, schedule, creds, source>>
           \/ /\ n >= maxAuthFailures /\ MayRefresh
              /\ authFailCount' = n /\ Ask("auth")
              /\ UNCHANGED <<authPaused, lastFailedToken, schedule, retryToken>>
           \/ /\ n >= maxAuthFailures /\ ~MayRefresh
              /\ authFailCount' = n /\ pauseAuth(retryToken)
              /\ pc' = "idle" /\ retryToken' = None
              /\ UNCHANGED <<creds, source>>
        /\ UNCHANGED <<rateLimitFailCount, waited>>
     \/ /\ Answers("limited") \/ Answers("other")
        /\ pc' = "idle" /\ retryToken' = None
        /\ UNCHANGED <<pause, schedule, rateLimitFailCount, creds, source, waited>>
  /\ UNCHANGED <<server, disk, env, pollCycleCount, tokens, rateLimitPaused, rateLimitResumeAt,
                 consumed>>

(* The request after a refresh; "last" comes after refusals and pauses the  *)
(* agent if the new token does not help.                                    *)
Refetch ==
  /\ pc \in {"refetch", "last"}
  /\ \/ /\ Answers("ok") /\ Succeed(FALSE)
        /\ lastFailedToken' = IF pc = "last" THEN None ELSE lastFailedToken
        /\ UNCHANGED authPaused
     \/ /\ Answers("limited") \/ Answers("auth") \/ Answers("other")
        /\ pc' = "idle"
        /\ IF pc = "last" THEN pauseAuth(retryToken)
                          ELSE UNCHANGED <<authPaused, lastFailedToken, schedule>>
        /\ UNCHANGED <<authFailCount, rateLimitFailCount, waited>>
  /\ retryToken' = None
  /\ UNCHANGED <<server, disk, env, pollCycleCount, tokens, rateLimitPaused, rateLimitResumeAt,
                 creds, source, consumed>>
-------------------------------------------------------------------------------
(* The answers of the token endpoint, and what each asker does with them.   *)

(* The new pair is used even if it cannot be written: the old is spent.     *)
applyRefreshedTokens ==
  /\ \/ disk' = newest' /\ superseded' = None /\ UNCHANGED faults
     \/ faults < MaxFaults /\ faults' = faults + 1 /\ superseded' = creds /\ UNCHANGED disk
  /\ token' = newest' /\ lastToken' = newest'

(* A faulty resume that starts the schedule anew.                           *)
ResumedAnew ==
  IF source = "retry"
    THEN /\ authPaused' = FALSE /\ authFailCount' = 0 /\ lastFailedToken' = None
         /\ authRetryAt' = None /\ authRetryCount' = 0
    ELSE UNCHANGED <<pause, schedule>>

(* The schedule stays until a poll succeeds: the new token may be refused.  *)
Resumed ==
  IF source = "retry"
    THEN /\ authPaused' = FALSE /\ authFailCount' = 0 /\ lastFailedToken' = None
         /\ UNCHANGED schedule
    ELSE UNCHANGED <<pause, schedule>>

NextStep == [proactive |-> "reread", retry |-> "fetch", bypass |-> "refetch", auth |-> "last"]

Refreshed ==
  /\ creds = newest /\ newest < MaxPairs
  /\ newest' = newest + 1 /\ life' = "fresh"
  /\ consumed' = consumed \cup {creds}
  /\ applyRefreshedTokens
  /\ rateLimitFailCount' = 0 /\ rateLimitPaused' = FALSE /\ rateLimitResumeAt' = 0
  /\ Resumed
  /\ pc' = NextStep[source]
  /\ UNCHANGED <<retryToken, waited>>

(* What every asker does when it has no new pair.                           *)
GiveUp ==
  /\ pc' = IF source = "proactive" THEN "reread" ELSE "idle"
  /\ IF source = "auth" THEN authFailCount' = authFailCount /\ pauseAuth(retryToken)
                        ELSE UNCHANGED <<pause, schedule>>
  /\ retryToken' = None
  /\ UNCHANGED <<disk, tokens, consumed, waited>>

BackOff(wait) ==
  rateLimitPaused' = TRUE /\ rateLimitResumeAt' = wait

(* RetryAfter, if the endpoint says it, goes before the backoff.            *)
RefreshLimited ==
  /\ faults < MaxFaults /\ faults' = faults + 1
  /\ rateLimitFailCount' = rateLimitFailCount + 1
  /\ \E RetryAfter \in 0..rateLimitMaxBackoff :
       BackOff(IF RetryAfter > 0 THEN RetryAfter ELSE rateLimitBackoff(rateLimitFailCount'))
  /\ GiveUp
  /\ UNCHANGED server

(* invalid_grant: the refresh token was spent, by whomever.                 *)
RefreshInvalid ==
  /\ creds # newest
  /\ authFailCount' = maxAuthFailures /\ pauseAuth(lastToken)
  /\ pc' = IF source = "proactive" THEN "reread" ELSE "idle"
  /\ retryToken' = None
  /\ UNCHANGED <<server, disk, faults, tokens, limit, consumed, waited>>

(* Any other error; the endpoint may have spent the token before it.        *)
RefreshFails ==
  /\ faults < MaxFaults /\ faults' = faults + 1
  /\ \/ UNCHANGED server
     \/ /\ creds = newest /\ newest < MaxPairs
        /\ newest' = newest + 1 /\ life' = "fresh"
  /\ rateLimitFailCount' =
       IF source = "bypass" THEN rateLimitFailCount + 1 ELSE rateLimitFailCount
  /\ IF source = "bypass" /\ rateLimitFailCount' >= maxRateLimitFailures
       THEN BackOff(rateLimitBackoff(rateLimitFailCount'))
       ELSE UNCHANGED <<rateLimitPaused, rateLimitResumeAt>>
  /\ GiveUp

Answer ==
  /\ pc = "asked"
  /\ Refreshed \/ RefreshLimited \/ RefreshInvalid \/ RefreshFails
  /\ creds' = None /\ source' = None
  /\ UNCHANGED <<env, pollCycleCount>>
-------------------------------------------------------------------------------
(* The daemon ends at any point, of a request too, whose answer is lost     *)
(* with it, and starts again with the token of the file.                    *)
StartAgain ==
  /\ restarts < MaxRestarts /\ restarts' = restarts + 1
  /\ \/ UNCHANGED server
     \/ /\ creds = newest /\ newest < MaxPairs
        /\ newest' = newest + 1 /\ life' = "fresh"
  /\ forgotten' = forgotten \cup ({superseded} \ {None})
  /\ token' = disk /\ lastToken' = None /\ superseded' = None
  /\ pollCycleCount' = 0
  /\ authFailCount' = 0 /\ authPaused' = FALSE /\ lastFailedToken' = None
  /\ authRetryAt' = None /\ authRetryCount' = 0 /\ waited' = None
  /\ rateLimitFailCount' = 0 /\ rateLimitPaused' = FALSE /\ rateLimitResumeAt' = 0
  /\ pc' = "idle" /\ creds' = None /\ source' = None /\ retryToken' = None
  /\ UNCHANGED <<disk, env, faults, consumed>>

Step ==
  /\ Poll \/ Proactive \/ Reread \/ tryPausedAuthRecovery \/ Fetch \/ Retry \/ Refetch \/ Answer
  /\ UNCHANGED daemon

Outside ==
  /\ Ages \/ Settles \/ Rotates
  /\ UNCHANGED daemon

Next == Outside \/ Step \/ StartAgain

Spec == Init /\ [][Next]_vars

(* The ticker of Run polls again and every request has an answer or a       *)
(* timeout.                                                                 *)
FairSpec == Spec /\ WF_vars(Step)
-------------------------------------------------------------------------------
(* Type correctness of the agent's fields, of the poll's locals and of the  *)
(* credentials.                                                             *)
TypeOK ==
  /\ newest \in Pairs /\ life \in {"fresh", "expiring", "expired"} /\ disk \in Pairs
  /\ claude \in BOOLEAN /\ auto \in BOOLEAN
  /\ faults \in 0..MaxFaults /\ restarts \in 0..MaxRestarts
  /\ pollCycleCount \in 0..(apiPollCycleInterval - 1)
  /\ token \in Pairs
  /\ {lastToken, superseded, lastFailedToken, creds, retryToken} \subseteq Pairs \cup {None}
  /\ authFailCount \in 0..maxAuthFailures /\ authPaused \in BOOLEAN
  /\ authRetryAt \in (0..authPausedRetryMaxInterval) \cup {None}
  /\ authRetryCount \in 0..MaxCount
  /\ rateLimitFailCount \in 0..MaxFaults /\ rateLimitPaused \in BOOLEAN
  /\ rateLimitResumeAt \in 0..rateLimitMaxBackoff
  /\ pc \in {"idle", "expiring", "reread", "paused", "fetch", "retry", "refetch", "last", "asked"}
  /\ source \in Sources \cup {None}
  /\ pc = "asked" <=> source # None
  /\ creds # None <=> source # None
  /\ consumed \subseteq Pairs /\ forgotten \subseteq Pairs
  /\ waited \in (1..authPausedRetryMaxInterval) \cup {None}

(* proactiveRefresh never presents a refresh token the agent has exchanged  *)
(* before, also when it could not write the new pair: the old one still     *)
(* looks expiring in the file at every poll.  Only a restart may make it:   *)
(* a pair that could not be written is known to the running agent alone     *)
(* (supersededToken), and the next one has the spent pair from the file.    *)
ProactiveOnce == source = "proactive" => creds \notin consumed \ forgotten

(* Without that exception it does not hold; no run states it, and the       *)
(* README says how to see it fail.                                          *)
NeverPresentedAgain == source = "proactive" => creds \notin consumed

(* A refresh is never in flight while the token endpoint's backoff runs,    *)
(* whichever of the three paths asks for it.                                *)
NoAskInBackoff == pc = "asked" => ~BackoffActive

(* The re-read before a poll never goes back to an older access token: not  *)
(* to the one in the file when the newer one could not be written.          *)
NoDowngrade == [][pc = "reread" /\ restarts' = restarts => token' >= token]_vars

(* From one attempt of a paused agent to the next the wait doubles up to    *)
(* its limit, until a poll succeeds, the file has new credentials or the    *)
(* daemon starts again; a refresh that succeeds does not start it anew.     *)
WaitsGrow ==
  [][pc = "paused" /\ authRetryAt = 0 /\ pc' # "paused" /\ waited # None
      /\ restarts' = restarts
       => authRetryAt' = Least(2 * waited, authPausedRetryMaxInterval)]_vars

(* A paused agent recovers by itself as long as the file holds a refresh    *)
(* token that works, it may refresh and Claude Code is not running; the     *)
(* last pair of the model has no next.                                      *)
Recovers ==
  <>[](auto /\ ~claude) => []<>(~authPaused \/ disk # newest \/ newest = MaxPairs)
=================================================================================
