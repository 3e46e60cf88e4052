--------------------------- MODULE Credentials_proofs ---------------------------
(***************************************************************************)
(* What the agents do with the credentials on the disk: the Anthropic      *)
(* agent with its tokens and its back-off, for any number of pairs and     *)
(* errors and any lengths of the intervals, and the Codex agents with the  *)
(* tokens in their profiles, for any profiles, logins and events.          *)
(***************************************************************************)
EXTENDS AnthropicAuth, CodexProfiles, TLAPS

(* How the tokens of the server, of the file and of the agent are ordered:  *)
(* the agent is ahead of the file only if it could not write its pair, and  *)
(* then it knows.                                                           *)
Order ==
  /\ token <= newest /\ disk <= newest
  /\ creds # None => creds <= disk
  /\ lastToken # None => lastToken = token
  /\ disk # superseded => token <= disk
  /\ superseded # None => superseded <= newest /\ lastToken # None

(* A spent pair is in the file only if the agent knows of it or a restart   *)
(* made it forget.                                                          *)
Spent ==
  /\ \A c \in consumed : c < newest
  /\ disk \in consumed \ forgotten => disk = superseded
  /\ ProactiveOnce

(* The latest wait is that of the latest attempt.                           *)
Waiting ==
  waited # None => /\ authRetryCount \in 1..MaxCount
                   /\ waited = authRetryBackoff(authRetryCount)

(* Every failure to refresh is one of the faults.                           *)
Counted == rateLimitFailCount <= faults

(* A paused agent makes no request but for its recovery, and one that was   *)
(* refused too often is paused or trying to refresh.                        *)
Pausing ==
  /\ authPaused => \/ pc \in {"idle", "expiring", "reread", "paused"}
                   \/ pc = "asked" /\ source = "retry"
  /\ authFailCount = maxAuthFailures => \/ authPaused \/ pc = "last"
                                        \/ pc = "asked" /\ source = "auth"

(* The inductive invariant.                                                 *)
IInv == TypeOK /\ Counted /\ Pausing /\ Order /\ Spent /\ NoAskInBackoff /\ Waiting

-------------------------------------------------------------------------------
LEMMA Numbers ==
  /\ MaxPairs \in Nat /\ MaxPairs # 0 /\ MaxFaults \in Nat /\ MaxRestarts \in Nat
  /\ MaxCount \in Nat /\ MaxCount # 0 /\ maxAuthFailures \in Nat /\ maxAuthFailures # 0
  /\ apiPollCycleInterval \in Nat /\ apiPollCycleInterval # 0
  /\ authPausedRetryInterval \in Nat /\ authPausedRetryInterval # 0
  /\ authPausedRetryMaxInterval \in Nat
  /\ authPausedRetryInterval <= authPausedRetryMaxInterval
  /\ rateLimitBaseBackoff \in Nat /\ rateLimitBaseBackoff # 0
  /\ rateLimitMaxBackoff \in Nat /\ rateLimitBaseBackoff <= rateLimitMaxBackoff
BY AuthAssumption DEF AuthAssumption

LEMMA NoneIsNothing ==
  None \notin Nat /\ None # "proactive" /\ None # "retry" /\ None # "bypass" /\ None # "auth"
BY AuthAssumption DEF AuthAssumption, Sources

(* A back-off is a positive number of polls, up to its limit.               *)
LEMMA RetryBackoffTyped ==
  ASSUME NEW n \in 1..MaxCount
  PROVE  authRetryBackoff(n) \in 1..authPausedRetryMaxInterval
<1> DEFINE p == 2^(n - 1)
           b == authPausedRetryInterval * p
<1>1. n - 1 \in 0..(MaxCount + MaxFaults)
  BY Numbers
<1>2. p \in Nat /\ p # 0
  BY <1>1, PowersAssumption DEF PowersAssumption
<1> HIDE DEF p
<1>3. b \in Nat /\ b # 0
  BY <1>2, Numbers
<1>4. authRetryBackoff(n) = Least(b, authPausedRetryMaxInterval)
  BY DEF authRetryBackoff, p
<1> HIDE DEF b
<1> QED
  BY <1>3, <1>4, Numbers DEF Least

LEMMA LimitBackoffTyped ==
  ASSUME NEW n \in 1..MaxFaults
  PROVE  rateLimitBackoff(n) \in 0..rateLimitMaxBackoff
<1> DEFINE p == 2^(n - 1)
           b == rateLimitBaseBackoff * p
<1>1. n - 1 \in 0..(MaxCount + MaxFaults)
  BY Numbers
<1>2. p \in Nat
  BY <1>1, PowersAssumption DEF PowersAssumption
<1> HIDE DEF p
<1>3. b \in Nat
  BY <1>2, Numbers
<1>4. rateLimitBackoff(n) = Least(b, rateLimitMaxBackoff)
  BY DEF rateLimitBackoff, p
<1> HIDE DEF b
<1> QED
  BY <1>3, <1>4, Numbers DEF Least

(* From one attempt to the next it doubles.                                 *)
LEMMA RetryBackoffDoubles ==
  ASSUME NEW n \in 1..MaxCount
  PROVE  authRetryBackoff(Least(n + 1, MaxCount)) =
           Least(2 * authRetryBackoff(n), authPausedRetryMaxInterval)
<1> DEFINE p == 2^(n - 1)
           q == 2^n
           i == authPausedRetryInterval
           x == authPausedRetryMaxInterval
<1>1. n - 1 \in 0..(MaxCount + MaxFaults) /\ (n - 1) + 1 = n
  BY Numbers
<1>2. p \in Nat /\ 2^((n - 1) + 1) = 2 * p
  BY <1>1, PowersAssumption DEF PowersAssumption
<1>3. q = 2 * p
  BY <1>1, <1>2
<1>4. authRetryBackoff(n) = Least(i * p, x)
  BY DEF authRetryBackoff
<1>5. CASE n < MaxCount
  <2>1. Least(n + 1, MaxCount) = n + 1 /\ (n + 1) - 1 = n
    BY <1>5, Numbers DEF Least
  <2>2. authRetryBackoff(n + 1) = Least(i * q, x)
    BY <2>1 DEF authRetryBackoff
  <2> HIDE DEF p, q, i, x
  <2>3. i \in Nat /\ x \in Nat
    BY Numbers DEF i, x
  <2>4. i * p \in Nat /\ i * q = 2 * (i * p)
    BY <1>2, <1>3, <2>3
  <2> DEFINE a == i * p
             b == i * q
  <2>5. a \in Nat /\ b = 2 * a
    BY <2>4
  <2>6. authRetryBackoff(n) = Least(a, x) /\ authRetryBackoff(n + 1) = Least(b, x)
    BY <1>4, <2>2
  <2> HIDE DEF a, b
  <2>7. Least(b, x) = Least(2 * Least(a, x), x)
    BY <2>3, <2>5 DEF Least
  <2> QED
    BY <2>1, <2>6, <2>7 DEF x
<1>6. CASE n = MaxCount
  <2>1. Least(n + 1, MaxCount) = n
    BY <1>6, Numbers DEF Least
  <2>2. i * p >= x
    BY <1>6, AuthAssumption DEF AuthAssumption
  <2> HIDE DEF p, i, x
  <2>3. i \in Nat /\ x \in Nat
    BY Numbers DEF i, x
  <2>4. i * p \in Nat
    BY <1>2, <2>3
  <2>5. authRetryBackoff(n) = x
    BY <1>4, <2>2, <2>3, <2>4 DEF Least
  <2>6. Least(2 * x, x) = x
    BY <2>3 DEF Least
  <2> QED
    BY <2>1, <2>5, <2>6 DEF x
<1> QED
  BY <1>5, <1>6, Numbers

-------------------------------------------------------------------------------
(* A pair of tokens is the number of the exchange that issued it.           *)
LEMMA PairsAreNat ==
  ASSUME TypeOK
  PROVE  /\ newest \in Nat /\ disk \in Nat /\ token \in Nat
         /\ creds # None => creds \in Nat
         /\ lastToken # None => lastToken \in Nat
         /\ superseded # None => superseded \in Nat
         /\ \A c \in consumed : c \in Nat
         /\ newest <= MaxPairs
BY Numbers DEF TypeOK, Pairs

LEMMA AgesKeeps ==
  ASSUME IInv, Ages, UNCHANGED daemon
  PROVE  IInv'
<1>1. TypeOK'
  BY Numbers, NoneIsNothing
     DEF TypeOK, Pairs, Sources, env, tokens, schedule, pause, limit, request, Ages,
         IInv, daemon
<1>2. Counted'
  BY Numbers DEF TypeOK, Counted, env, tokens, schedule, pause, limit, request, Ages, IInv
<1>3. Pausing'
  BY Numbers, NoneIsNothing
     DEF TypeOK, Pausing, Sources, env, tokens, schedule, pause, limit, request, Ages,
         IInv
<1>4. Order'
  BY NoneIsNothing, PairsAreNat
     DEF TypeOK, Order, Pairs, env, tokens, schedule, pause, limit, request, Ages, IInv
<1>5. Spent'
  BY NoneIsNothing, PairsAreNat
     DEF TypeOK, Order, Spent, ProactiveOnce, env, tokens, schedule, pause, limit,
         request, Ages, IInv, daemon
<1>6. NoAskInBackoff'
  BY Numbers, NoneIsNothing
     DEF NoAskInBackoff, BackoffActive, TypeOK, Sources, env, tokens, schedule, pause,
         limit, request, Ages, IInv
<1>7. Waiting'
  BY Numbers, NoneIsNothing
     DEF TypeOK, Waiting, env, tokens, schedule, pause, limit, request, Ages, IInv
<1> QED
  BY <1>1, <1>2, <1>3, <1>4, <1>5, <1>6, <1>7 DEF IInv

LEMMA SettlesKeeps ==
  ASSUME IInv, Settles, UNCHANGED daemon
  PROVE  IInv'
<1>1. TypeOK'
  <2>1. claude' \in BOOLEAN /\ auto' \in BOOLEAN
    BY Zenon DEF Settles, IInv, TypeOK
  <2> QED
    BY <2>1 DEF Settles, server, tokens, schedule, pause, limit, request, IInv,
                TypeOK, daemon
<1>2. Counted'
  BY Numbers
     DEF TypeOK, Counted, server, tokens, schedule, pause, limit, request, Settles,
         IInv
<1>3. Pausing'
  BY Numbers, NoneIsNothing
     DEF TypeOK, Pausing, Sources, server, tokens, schedule, pause, limit, request,
         Settles, IInv
<1>4. Order'
  BY NoneIsNothing, PairsAreNat
     DEF TypeOK, Order, Pairs, server, tokens, schedule, pause, limit, request,
         Settles, IInv
<1>5. Spent'
  BY NoneIsNothing, PairsAreNat
     DEF TypeOK, Order, Spent, ProactiveOnce, server, tokens, schedule, pause, limit,
         request, Settles, IInv, daemon
<1>6. NoAskInBackoff'
  BY Numbers, NoneIsNothing
     DEF NoAskInBackoff, BackoffActive, TypeOK, Sources, server, tokens, schedule,
         pause, limit, request, Settles, IInv
<1>7. Waiting'
  BY Numbers, NoneIsNothing
     DEF TypeOK, Waiting, server, tokens, schedule, pause, limit, request, Settles,
         IInv
<1> QED
  BY <1>1, <1>2, <1>3, <1>4, <1>5, <1>6, <1>7 DEF IInv

LEMMA RotatesKeeps ==
  ASSUME IInv, Rotates, UNCHANGED daemon
  PROVE  IInv'
<1>1. TypeOK'
  BY Numbers, NoneIsNothing
     DEF TypeOK, Pairs, Sources, env, tokens, schedule, pause, limit, request,
         Rotates, IInv, daemon
<1>2. Counted'
  BY Numbers
     DEF TypeOK, Counted, env, tokens, schedule, pause, limit, request, Rotates, IInv
<1>3. Pausing'
  BY Numbers, NoneIsNothing
     DEF TypeOK, Pausing, Sources, env, tokens, schedule, pause, limit, request,
         Rotates, IInv
<1>4. Order'
  BY NoneIsNothing, PairsAreNat
     DEF TypeOK, Order, Pairs, env, tokens, schedule, pause, limit, request, Rotates,
         IInv
<1>5. Spent'
  BY NoneIsNothing, PairsAreNat
     DEF TypeOK, Order, Spent, ProactiveOnce, env, tokens, schedule, pause, limit,
         request, Rotates, IInv, daemon
<1>6. NoAskInBackoff'
  BY Numbers, NoneIsNothing
     DEF NoAskInBackoff, BackoffActive, TypeOK, Sources, env, tokens, schedule, pause,
         limit, request, Rotates, IInv
<1>7. Waiting'
  BY Numbers, NoneIsNothing
     DEF TypeOK, Waiting, env, tokens, schedule, pause, limit, request, Rotates, IInv
<1> QED
  BY <1>1, <1>2, <1>3, <1>4, <1>5, <1>6, <1>7 DEF IInv

LEMMA PollKeeps ==
  ASSUME IInv, Poll, UNCHANGED daemon
  PROVE  IInv'
<1>1. TypeOK'
  BY Numbers, NoneIsNothing
     DEF TypeOK, Pairs, Sources, Decay, server, env, tokens, pause, request, Poll,
         IInv, daemon
<1>2. Counted'
  BY Numbers DEF TypeOK, Counted, Decay, server, env, tokens, pause, request, Poll, IInv
<1>3. Pausing'
  BY Numbers, NoneIsNothing
     DEF TypeOK, Pausing, Sources, server, env, tokens, pause, request, Poll, IInv
<1>4. Order'
  BY NoneIsNothing, PairsAreNat
     DEF TypeOK, Order, Pairs, server, env, tokens, pause, request, Poll, IInv
<1>5. Spent'
  BY NoneIsNothing, PairsAreNat
     DEF TypeOK, Order, Spent, ProactiveOnce, server, env, tokens, pause, request,
         Poll, IInv, daemon
<1>6. NoAskInBackoff'
  BY Numbers, NoneIsNothing
     DEF NoAskInBackoff, BackoffActive, Decay, TypeOK, Sources, server, env, tokens,
         pause, request, Poll, IInv
<1>7. Waiting'
  BY Numbers, NoneIsNothing
     DEF TypeOK, Waiting, server, env, tokens, pause, request, Poll, IInv
<1> QED
  BY <1>1, <1>2, <1>3, <1>4, <1>5, <1>6, <1>7 DEF IInv

LEMMA ProactiveKeeps ==
  ASSUME IInv, Proactive, UNCHANGED daemon
  PROVE  IInv'
<1>1. TypeOK'
  BY Numbers, NoneIsNothing
     DEF TypeOK, Pairs, Sources, server, env, tokens, schedule, pause, limit,
         Proactive, Ask, MayRefresh, MayRefreshProactively, IInv, daemon
<1>2. Counted'
  BY Numbers
     DEF TypeOK, Counted, server, env, tokens, schedule, pause, limit, Proactive, Ask,
         MayRefresh, MayRefreshProactively, IInv
<1>3. Pausing'
  BY Numbers, NoneIsNothing
     DEF TypeOK, Pausing, Sources, server, env, tokens, schedule, pause, limit,
         Proactive, Ask, MayRefresh, MayRefreshProactively, IInv
<1>4. Order'
  BY NoneIsNothing, PairsAreNat
     DEF TypeOK, Order, Pairs, server, env, tokens, schedule, pause, limit, Proactive,
         Ask, MayRefresh, MayRefreshProactively, IInv
<1>5. Spent'
  BY NoneIsNothing, PairsAreNat
     DEF TypeOK, Order, Spent, ProactiveOnce, server, env, tokens, schedule, pause,
         limit, Proactive, Ask, MayRefresh, MayRefreshProactively, IInv, daemon
<1>6. NoAskInBackoff'
  BY Numbers, NoneIsNothing
     DEF NoAskInBackoff, BackoffActive, TypeOK, Sources, server, env, tokens, schedule,
         pause, limit, Proactive, Ask, MayRefresh, MayRefreshProactively, IInv
<1>7. Waiting'
  BY Numbers, NoneIsNothing
     DEF TypeOK, Waiting, server, env, tokens, schedule, pause, limit, Proactive, Ask,
         MayRefresh, MayRefreshProactively, IInv
<1> QED
  BY <1>1, <1>2, <1>3, <1>4, <1>5, <1>6, <1>7 DEF IInv

LEMMA RereadKeeps ==
  ASSUME IInv, Reread, UNCHANGED daemon
  PROVE  IInv'
<1>1. TypeOK'
  <2>1. authPaused' \in BOOLEAN /\ rateLimitPaused' \in BOOLEAN
    BY Zenon DEF Reread, pause, limit, IInv, TypeOK
  <2>2. pc' \in {"paused", "fetch"}
    BY Zenon DEF Reread
  <2>3. /\ token' \in Pairs /\ lastToken' \in Pairs \cup {None}
        /\ lastFailedToken' \in Pairs \cup {None}
    BY DEF Reread, pause, IInv, TypeOK
  <2>4. /\ authFailCount' \in 0..maxAuthFailures /\ authRetryCount' \in 0..MaxCount
        /\ authRetryAt' \in (0..authPausedRetryMaxInterval) \cup {None}
        /\ waited' \in (1..authPausedRetryMaxInterval) \cup {None}
    BY Numbers DEF Reread, pause, schedule, IInv, TypeOK
  <2>5. rateLimitFailCount' \in 0..MaxFaults /\ rateLimitResumeAt' \in 0..rateLimitMaxBackoff
    BY Numbers DEF Reread, limit, IInv, TypeOK
  <2> QED
    BY <2>1, <2>2, <2>3, <2>4, <2>5, NoneIsNothing
       DEF Reread, server, env, request, IInv, TypeOK, Sources, daemon
<1>2. Counted'
  BY Numbers DEF TypeOK, Counted, server, env, schedule, pause, limit, request, Reread, IInv
<1>3. Pausing'
  BY Numbers, NoneIsNothing
     DEF TypeOK, Pausing, Sources, server, env, schedule, pause, limit, request,
         Reread, IInv
<1>4. Order'
  BY NoneIsNothing, PairsAreNat
     DEF TypeOK, Order, Pairs, server, env, schedule, pause, limit, request, Reread,
         IInv
<1>5. Spent'
  BY NoneIsNothing, PairsAreNat
     DEF TypeOK, Order, Spent, ProactiveOnce, server, env, schedule, pause, limit,
         request, Reread, IInv, daemon
<1>6. NoAskInBackoff'
  BY Numbers, NoneIsNothing
     DEF NoAskInBackoff, BackoffActive, TypeOK, Sources, server, env, schedule, pause,
         limit, request, Reread, IInv
<1>7. Waiting'
  BY Numbers, NoneIsNothing
     DEF TypeOK, Waiting, server, env, schedule, pause, limit, request, Reread, IInv
<1> QED
  BY <1>1, <1>2, <1>3, <1>4, <1>5, <1>6, <1>7 DEF IInv

LEMMA RecoveryKeeps ==
  ASSUME IInv, tryPausedAuthRecovery, UNCHANGED daemon
  PROVE  IInv'
<1>1. TypeOK'
  BY Numbers, NoneIsNothing, RetryBackoffTyped
     DEF TypeOK, Pairs, Sources, Least, server, env, tokens, schedule, pause, limit,
         tryPausedAuthRecovery, Ask, MayRefresh, IInv, daemon
<1>2. Counted'
  BY Numbers
     DEF TypeOK, Counted, server, env, tokens, schedule, pause, limit,
         tryPausedAuthRecovery, Ask, MayRefresh, IInv
<1>3. Pausing'
  BY Numbers, NoneIsNothing
     DEF TypeOK, Pausing, Sources, server, env, tokens, schedule, pause, limit,
         tryPausedAuthRecovery, Ask, MayRefresh, IInv
<1>4. Order'
  BY NoneIsNothing, PairsAreNat
     DEF TypeOK, Order, Pairs, server, env, tokens, schedule, pause, limit,
         tryPausedAuthRecovery, Ask, MayRefresh, IInv
<1>5. Spent'
  BY NoneIsNothing, PairsAreNat
     DEF TypeOK, Order, Spent, ProactiveOnce, server, env, tokens, schedule, pause,
         limit, tryPausedAuthRecovery, Ask, MayRefresh, IInv, daemon
<1>6. NoAskInBackoff'
  BY Numbers, NoneIsNothing
     DEF NoAskInBackoff, BackoffActive, TypeOK, Sources, server, env, tokens, schedule,
         pause, limit, tryPausedAuthRecovery, Ask, MayRefresh, IInv
<1>7. Waiting'
  BY Numbers, NoneIsNothing
     DEF TypeOK, Waiting, server, env, tokens, schedule, pause, limit,
         tryPausedAuthRecovery, Ask, MayRefresh, Least, IInv
<1> QED
  BY <1>1, <1>2, <1>3, <1>4, <1>5, <1>6, <1>7 DEF IInv

LEMMA FetchKeeps ==
  ASSUME IInv, Fetch, UNCHANGED daemon
  PROVE  IInv'
<1>1. TypeOK'
  <2>1. authPaused' \in BOOLEAN /\ rateLimitPaused' \in BOOLEAN
    BY Zenon
       DEF Fetch, Bypass, ForceReread, Answers, Works, Succeed, Ask, tokens, pause,
           schedule, limit, request, server, env, IInv, TypeOK
  <2>2. faults' \in 0..MaxFaults
    BY Numbers
       DEF Fetch, Bypass, ForceReread, Answers, Works, Succeed, Ask, tokens, pause,
           schedule, limit, request, server, env, IInv, TypeOK
  <2>3. /\ token' \in Pairs /\ lastToken' \in Pairs \cup {None}
        /\ superseded' \in Pairs \cup {None} /\ lastFailedToken' \in Pairs \cup {None}
        /\ retryToken' \in Pairs \cup {None}
    BY DEF Fetch, Bypass, ForceReread, Answers, Works, Succeed, Ask, tokens, pause,
           schedule, limit, request, server, env, IInv, TypeOK
  <2>4. /\ authFailCount' \in 0..maxAuthFailures /\ authRetryCount' \in 0..MaxCount
        /\ authRetryAt' \in (0..authPausedRetryMaxInterval) \cup {None}
        /\ waited' \in (1..authPausedRetryMaxInterval) \cup {None}
    BY Numbers
       DEF Fetch, Bypass, ForceReread, Answers, Works, Succeed, Ask, tokens, pause,
           schedule, limit, request, server, env, IInv, TypeOK, Pausing
  <2>5. rateLimitFailCount' \in 0..MaxFaults /\ rateLimitResumeAt' \in 0..rateLimitMaxBackoff
    BY Numbers
       DEF Fetch, Bypass, ForceReread, Answers, Works, Succeed, Ask, tokens, pause,
           schedule, limit, request, server, env, Decay, IInv, TypeOK
  <2>6. /\ pc' \in {"idle", "expiring", "reread", "paused", "fetch", "retry", "refetch",
                   "last", "asked"}
        /\ creds' \in Pairs \cup {None} /\ source' \in Sources \cup {None}
        /\ pc' = "asked" <=> source' # None
        /\ creds' # None <=> source' # None
    BY NoneIsNothing, PairsAreNat
       DEF Fetch, Bypass, ForceReread, Answers, Works, Succeed, Ask, tokens, pause,
           schedule, limit, request, server, env, IInv, TypeOK, Sources
  <2> QED
    BY <2>1, <2>2, <2>3, <2>4, <2>5, <2>6
       DEF Fetch, Bypass, ForceReread, Answers, Works, Succeed, Ask, tokens, pause,
           schedule, limit, request, server, env, IInv, TypeOK, daemon
<1>2. Counted'
  BY Numbers
     DEF TypeOK, Counted, Decay, server, env, tokens, schedule, pause, limit, request,
         Fetch, Answers, Works, Succeed, Bypass, ForceReread, Ask, BackoffActive, IInv
<1>3. Pausing'
  BY Numbers, NoneIsNothing
     DEF TypeOK, Pausing, Sources, server, env, tokens, schedule, pause, limit,
         request, Fetch, Answers, Works, Succeed, Bypass, ForceReread, Ask,
         BackoffActive, IInv
<1>4. Order'
  BY NoneIsNothing, PairsAreNat
     DEF TypeOK, Order, Pairs, server, env, tokens, schedule, pause, limit, request,
         Fetch, Answers, Works, Succeed, Bypass, ForceReread, Ask, BackoffActive, IInv
<1>5. Spent'
  BY NoneIsNothing, PairsAreNat
     DEF TypeOK, Order, Spent, ProactiveOnce, server, env, tokens, schedule, pause,
         limit, request, Fetch, Answers, Works, Succeed, Bypass, ForceReread, Ask,
         BackoffActive, IInv, daemon
<1>6. NoAskInBackoff'
  BY Numbers, NoneIsNothing
     DEF NoAskInBackoff, BackoffActive, Decay, TypeOK, Sources, server, env, tokens,
         schedule, pause, limit, request, Fetch, Answers, Works, Succeed, Bypass,
         ForceReread, Ask, IInv
<1>7. Waiting'
  BY Numbers, NoneIsNothing
     DEF TypeOK, Waiting, server, env, tokens, schedule, pause, limit, request, Fetch,
         Answers, Works, Succeed, Bypass, ForceReread, Ask, BackoffActive, IInv
<1> QED
  BY <1>1, <1>2, <1>3, <1>4, <1>5, <1>6, <1>7 DEF IInv

LEMMA RetryKeeps ==
  ASSUME IInv, Retry, UNCHANGED daemon
  PROVE  IInv'
<1>1. TypeOK'
  <2>1. authPaused' \in BOOLEAN /\ rateLimitPaused' \in BOOLEAN
    BY Zenon
       DEF Retry, MayRefresh, pauseAuth, Answers, Works, Succeed, Ask, tokens, pause,
           schedule, server, env, IInv, TypeOK
  <2>2. faults' \in 0..MaxFaults
    BY Numbers
       DEF Retry, MayRefresh, pauseAuth, Answers, Works, Succeed, Ask, tokens, pause,
           schedule, server, env, IInv, TypeOK
  <2>3. /\ token' \in Pairs /\ lastToken' \in Pairs \cup {None}
        /\ superseded' \in Pairs \cup {None} /\ lastFailedToken' \in Pairs \cup {None}
        /\ retryToken' \in Pairs \cup {None}
    BY DEF Retry, MayRefresh, pauseAuth, Answers, Works, Succeed, Ask, tokens, pause,
           schedule, server, env, IInv, TypeOK
  <2>4. /\ authFailCount' \in 0..maxAuthFailures /\ authRetryCount' \in 0..MaxCount
        /\ authRetryAt' \in (0..authPausedRetryMaxInterval) \cup {None}
        /\ waited' \in (1..authPausedRetryMaxInterval) \cup {None}
    BY Numbers
       DEF Retry, MayRefresh, pauseAuth, Answers, Works, Succeed, Ask, tokens, pause,
           schedule, server, env, IInv, TypeOK, Pausing
  <2>5. rateLimitFailCount' \in 0..MaxFaults /\ rateLimitResumeAt' \in 0..rateLimitMaxBackoff
    BY Numbers
       DEF Retry, MayRefresh, pauseAuth, Answers, Works, Succeed, Ask, tokens, pause,
           schedule, server, env, Decay, IInv, TypeOK
  <2>6. /\ pc' \in {"idle", "expiring", "reread", "paused", "fetch", "retry", "refetch",
                   "last", "asked"}
        /\ creds' \in Pairs \cup {None} /\ source' \in Sources \cup {None}
        /\ pc' = "asked" <=> source' # None
        /\ creds' # None <=> source' # None
    BY NoneIsNothing, PairsAreNat
       DEF Retry, MayRefresh, pauseAuth, Answers, Works, Succeed, Ask, tokens, pause,
           schedule, server, env, IInv, TypeOK, Sources
  <2> QED
    BY <2>1, <2>2, <2>3, <2>4, <2>5, <2>6
       DEF Retry, MayRefresh, pauseAuth, Answers, Works, Succeed, Ask, tokens, pause,
           schedule, server, env, IInv, TypeOK, daemon
<1>2. Counted'
  BY Numbers
     DEF TypeOK, Counted, Decay, server, env, tokens, schedule, pause, Retry, Answers,
         Works, Succeed, Ask, MayRefresh, pauseAuth, IInv
<1>3. Pausing'
  BY Numbers, NoneIsNothing
     DEF TypeOK, Pausing, Sources, server, env, tokens, schedule, pause, Retry,
         Answers, Works, Succeed, Ask, MayRefresh, pauseAuth, IInv
<1>4. Order'
  BY NoneIsNothing, PairsAreNat
     DEF TypeOK, Order, Pairs, server, env, tokens, schedule, pause, Retry, Answers,
         Works, Succeed, Ask, MayRefresh, pauseAuth, IInv
<1>5. Spent'
  BY NoneIsNothing, PairsAreNat
     DEF TypeOK, Order, Spent, ProactiveOnce, server, env, tokens, schedule, pause,
         Retry, Answers, Works, Succeed, Ask, MayRefresh, pauseAuth, IInv, daemon
<1>6. NoAskInBackoff'
  BY Numbers, NoneIsNothing
     DEF NoAskInBackoff, BackoffActive, Decay, TypeOK, Sources, server, env, tokens,
         schedule, pause, Retry, Answers, Works, Succeed, Ask, MayRefresh, pauseAuth,
         IInv
<1>7. Waiting'
  BY Numbers, NoneIsNothing
     DEF TypeOK, Waiting, server, env, tokens, schedule, pause, Retry, Answers, Works,
         Succeed, Ask, MayRefresh, pauseAuth, IInv
<1> QED
  BY <1>1, <1>2, <1>3, <1>4, <1>5, <1>6, <1>7 DEF IInv

LEMMA RefetchKeeps ==
  ASSUME IInv, Refetch, UNCHANGED daemon
  PROVE  IInv'
<1>1. TypeOK'
  <2>1. authPaused' \in BOOLEAN /\ rateLimitPaused' \in BOOLEAN
    BY Zenon
       DEF Refetch, pauseAuth, Answers, Works, Succeed, tokens, schedule, server, env,
           IInv, TypeOK
  <2>2. faults' \in 0..MaxFaults
    BY Numbers
       DEF Refetch, pauseAuth, Answers, Works, Succeed, tokens, schedule, server, env,
           IInv, TypeOK
  <2>3. /\ token' \in Pairs /\ lastToken' \in Pairs \cup {None}
        /\ superseded' \in Pairs \cup {None} /\ lastFailedToken' \in Pairs \cup {None}
        /\ retryToken' \in Pairs \cup {None}
    BY DEF Refetch, pauseAuth, Answers, Works, Succeed, tokens, schedule, server, env,
           IInv, TypeOK
  <2>4. /\ authFailCount' \in 0..maxAuthFailures /\ authRetryCount' \in 0..MaxCount
        /\ authRetryAt' \in (0..authPausedRetryMaxInterval) \cup {None}
        /\ waited' \in (1..authPausedRetryMaxInterval) \cup {None}
    BY Numbers
       DEF Refetch, pauseAuth, Answers, Works, Succeed, tokens, schedule, server, env,
           IInv, TypeOK, Pausing
  <2>5. rateLimitFailCount' \in 0..MaxFaults /\ rateLimitResumeAt' \in 0..rateLimitMaxBackoff
    BY Numbers
       DEF Refetch, pauseAuth, Answers, Works, Succeed, tokens, schedule, server, env,
           Decay, IInv, TypeOK
  <2>6. /\ pc' \in {"idle", "expiring", "reread", "paused", "fetch", "retry", "refetch",
                   "last", "asked"}
        /\ creds' \in Pairs \cup {None} /\ source' \in Sources \cup {None}
        /\ pc' = "asked" <=> source' # None
        /\ creds' # None <=> source' # None
    BY NoneIsNothing, PairsAreNat
       DEF Refetch, pauseAuth, Answers, Works, Succeed, tokens, schedule, server, env,
           IInv, TypeOK, Sources
  <2> QED
    BY <2>1, <2>2, <2>3, <2>4, <2>5, <2>6
       DEF Refetch, pauseAuth, Answers, Works, Succeed, tokens, schedule, server, env,
           IInv, TypeOK, daemon
<1>2. Counted'
  BY Numbers
     DEF TypeOK, Counted, Decay, server, env, tokens, schedule, Refetch, Answers,
         Works, Succeed, pauseAuth, IInv
<1>3. Pausing'
  BY Numbers, NoneIsNothing
     DEF TypeOK, Pausing, Sources, server, env, tokens, schedule, Refetch, Answers,
         Works, Succeed, pauseAuth, IInv
<1>4. Order'
  BY NoneIsNothing, PairsAreNat
     DEF TypeOK, Order, Pairs, server, env, tokens, schedule, Refetch, Answers, Works,
         Succeed, pauseAuth, IInv
<1>5. Spent'
  BY NoneIsNothing, PairsAreNat
     DEF TypeOK, Order, Spent, ProactiveOnce, server, env, tokens, schedule, Refetch,
         Answers, Works, Succeed, pauseAuth, IInv, daemon
<1>6. NoAskInBackoff'
  BY Numbers, NoneIsNothing
     DEF NoAskInBackoff, BackoffActive, Decay, TypeOK, Sources, server, env, tokens,
         schedule, Refetch, Answers, Works, Succeed, pauseAuth, IInv
<1>7. Waiting'
  BY Numbers, NoneIsNothing
     DEF TypeOK, Waiting, server, env, tokens, schedule, Refetch, Answers, Works,
         Succeed, pauseAuth, IInv
<1> QED
  BY <1>1, <1>2, <1>3, <1>4, <1>5, <1>6, <1>7 DEF IInv

LEMMA RefreshedKeeps ==
  ASSUME IInv, Answer, Refreshed, UNCHANGED daemon
  PROVE  IInv'
<1>1. TypeOK'
  <2>1. authPaused' \in BOOLEAN /\ rateLimitPaused' \in BOOLEAN
    BY Zenon
       DEF Answer, Refreshed, applyRefreshedTokens, Resumed, NextStep, Pairs, pause,
           schedule, env, IInv, TypeOK
  <2>2. faults' \in 0..MaxFaults
    BY Numbers
       DEF Answer, Refreshed, applyRefreshedTokens, Resumed, NextStep, Pairs, pause,
           schedule, env, IInv, TypeOK
  <2>3. /\ token' \in Pairs /\ lastToken' \in Pairs \cup {None}
        /\ superseded' \in Pairs \cup {None} /\ lastFailedToken' \in Pairs \cup {None}
        /\ retryToken' \in Pairs \cup {None}
    <3>1. newest' \in Pairs
      BY PairsAreNat, Numbers DEF Refreshed, Pairs, IInv
    <3>2. creds \in Pairs \cup {None}
      BY DEF IInv, TypeOK
    <3>3. /\ lastFailedToken' \in Pairs \cup {None} /\ retryToken' \in Pairs \cup {None}
      BY DEF Refreshed, Resumed, pause, IInv, TypeOK
    <3>4. superseded' \in Pairs \cup {None}
      BY <3>2 DEF Refreshed, applyRefreshedTokens
    <3> QED
      BY <3>1, <3>3, <3>4 DEF Refreshed, applyRefreshedTokens
  <2>4. /\ authFailCount' \in 0..maxAuthFailures /\ authRetryCount' \in 0..MaxCount
        /\ authRetryAt' \in (0..authPausedRetryMaxInterval) \cup {None}
        /\ waited' \in (1..authPausedRetryMaxInterval) \cup {None}
    BY Numbers
       DEF Answer, Refreshed, applyRefreshedTokens, Resumed, NextStep, Pairs, pause,
           schedule, env, IInv, TypeOK, Pausing
  <2>5. rateLimitFailCount' \in 0..MaxFaults /\ rateLimitResumeAt' \in 0..rateLimitMaxBackoff
    BY Numbers
       DEF Answer, Refreshed, applyRefreshedTokens, Resumed, NextStep, Pairs, pause,
           schedule, env, IInv, TypeOK
  <2>6. /\ pc' \in {"idle", "expiring", "reread", "paused", "fetch", "retry", "refetch",
                   "last", "asked"}
        /\ creds' \in Pairs \cup {None} /\ source' \in Sources \cup {None}
        /\ pc' = "asked" <=> source' # None
        /\ creds' # None <=> source' # None
    BY NoneIsNothing, PairsAreNat
       DEF Answer, Refreshed, applyRefreshedTokens, Resumed, NextStep, Pairs, pause,
           schedule, env, IInv, TypeOK, Sources
  <2> QED
    BY <2>1, <2>2, <2>3, <2>4, <2>5, <2>6
       DEF Answer, Refreshed, applyRefreshedTokens, Resumed, NextStep, Pairs, pause,
           schedule, env, IInv, TypeOK, daemon
<1>2. Counted'
  BY Numbers
     DEF TypeOK, Counted, env, schedule, pause, Answer, Refreshed,
         applyRefreshedTokens, Resumed, NextStep, IInv
<1>3. Pausing'
  BY Numbers, NoneIsNothing
     DEF TypeOK, Pausing, Sources, env, schedule, pause, Answer, Refreshed,
         applyRefreshedTokens, Resumed, NextStep, IInv
<1>4. Order'
  BY NoneIsNothing, PairsAreNat
     DEF TypeOK, Order, Pairs, env, schedule, pause, Answer, Refreshed,
         applyRefreshedTokens, Resumed, NextStep, IInv
<1>5. Spent'
  BY NoneIsNothing, PairsAreNat
     DEF TypeOK, Order, Spent, ProactiveOnce, env, schedule, pause, Answer, Refreshed,
         applyRefreshedTokens, Resumed, NextStep, IInv, daemon
<1>6. NoAskInBackoff'
  BY Numbers, NoneIsNothing
     DEF NoAskInBackoff, BackoffActive, TypeOK, Sources, env, schedule, pause, Answer,
         Refreshed, applyRefreshedTokens, Resumed, NextStep, IInv
<1>7. Waiting'
  BY Numbers, NoneIsNothing
     DEF TypeOK, Waiting, env, schedule, pause, Answer, Refreshed,
         applyRefreshedTokens, Resumed, NextStep, IInv
<1> QED
  BY <1>1, <1>2, <1>3, <1>4, <1>5, <1>6, <1>7 DEF IInv

LEMMA RefreshLimitedKeeps ==
  ASSUME IInv, Answer, RefreshLimited, UNCHANGED daemon
  PROVE  IInv'
<1>1. TypeOK'
  <2>1. authPaused' \in BOOLEAN /\ rateLimitPaused' \in BOOLEAN
    BY Zenon
       DEF Answer, RefreshLimited, GiveUp, BackOff, pauseAuth, tokens, pause,
           schedule, server, env, IInv, TypeOK
  <2>2. faults' \in 0..MaxFaults
    BY Numbers
       DEF Answer, RefreshLimited, GiveUp, BackOff, pauseAuth, tokens, pause,
           schedule, server, env, IInv, TypeOK
  <2>3. /\ token' \in Pairs /\ lastToken' \in Pairs \cup {None}
        /\ superseded' \in Pairs \cup {None} /\ lastFailedToken' \in Pairs \cup {None}
        /\ retryToken' \in Pairs \cup {None}
    BY DEF Answer, RefreshLimited, GiveUp, BackOff, pauseAuth, tokens, pause,
           schedule, server, env, IInv, TypeOK
  <2>4. /\ authFailCount' \in 0..maxAuthFailures /\ authRetryCount' \in 0..MaxCount
        /\ authRetryAt' \in (0..authPausedRetryMaxInterval) \cup {None}
        /\ waited' \in (1..authPausedRetryMaxInterval) \cup {None}
    BY Numbers
       DEF Answer, RefreshLimited, GiveUp, BackOff, pauseAuth, tokens, pause,
           schedule, server, env, IInv, TypeOK, Pausing
  <2>5. rateLimitFailCount' \in 0..MaxFaults /\ rateLimitResumeAt' \in 0..rateLimitMaxBackoff
    <3>1. rateLimitFailCount' \in 1..MaxFaults
      BY Numbers DEF RefreshLimited, IInv, TypeOK, Counted
    <3>2. rateLimitBackoff(rateLimitFailCount') \in 0..rateLimitMaxBackoff
      BY <3>1, LimitBackoffTyped
    <3>3. rateLimitResumeAt' \in 0..rateLimitMaxBackoff
      BY <3>2, Numbers DEF RefreshLimited, BackOff
    <3> QED
      BY <3>1, <3>3, Numbers
  <2>6. /\ pc' \in {"idle", "expiring", "reread", "paused", "fetch", "retry", "refetch",
                   "last", "asked"}
        /\ creds' \in Pairs \cup {None} /\ source' \in Sources \cup {None}
        /\ pc' = "asked" <=> source' # None
        /\ creds' # None <=> source' # None
    BY NoneIsNothing, PairsAreNat
       DEF Answer, RefreshLimited, GiveUp, BackOff, pauseAuth, tokens, pause,
           schedule, server, env, IInv, TypeOK, Sources
  <2> QED
    BY <2>1, <2>2, <2>3, <2>4, <2>5, <2>6
       DEF Answer, RefreshLimited, GiveUp, BackOff, pauseAuth, tokens, pause,
           schedule, server, env, IInv, TypeOK, daemon
<1>2. Counted'
  BY Numbers
     DEF TypeOK, Counted, server, env, tokens, schedule, pause, Answer, RefreshLimited,
         GiveUp, pauseAuth, BackOff, IInv
<1>3. Pausing'
  BY Numbers, NoneIsNothing
     DEF TypeOK, Pausing, Sources, server, env, tokens, schedule, pause, Answer,
         RefreshLimited, GiveUp, pauseAuth, BackOff, IInv
<1>4. Order'
  BY NoneIsNothing, PairsAreNat
     DEF TypeOK, Order, Pairs, server, env, tokens, schedule, pause, Answer,
         RefreshLimited, GiveUp, pauseAuth, BackOff, IInv
<1>5. Spent'
  BY NoneIsNothing, PairsAreNat
     DEF TypeOK, Order, Spent, ProactiveOnce, server, env, tokens, schedule, pause,
         Answer, RefreshLimited, GiveUp, pauseAuth, BackOff, IInv, daemon
<1>6. NoAskInBackoff'
  BY Numbers, NoneIsNothing
     DEF NoAskInBackoff, BackoffActive, TypeOK, Sources, server, env, tokens, schedule,
         pause, Answer, RefreshLimited, GiveUp, pauseAuth, BackOff, IInv
<1>7. Waiting'
  BY Numbers, NoneIsNothing
     DEF TypeOK, Waiting, server, env, tokens, schedule, pause, Answer, RefreshLimited,
         GiveUp, pauseAuth, BackOff, IInv
<1> QED
  BY <1>1, <1>2, <1>3, <1>4, <1>5, <1>6, <1>7 DEF IInv

LEMMA RefreshInvalidKeeps ==
  ASSUME IInv, Answer, RefreshInvalid, UNCHANGED daemon
  PROVE  IInv'
<1>1. TypeOK'
  <2>1. authPaused' \in BOOLEAN /\ rateLimitPaused' \in BOOLEAN
    BY Zenon DEF Answer, RefreshInvalid, pauseAuth, tokens, limit, server, env, IInv,
                 TypeOK
  <2>2. faults' \in 0..MaxFaults
    BY Numbers
       DEF Answer, RefreshInvalid, pauseAuth, tokens, limit, server, env, IInv,
           TypeOK
  <2>3. /\ token' \in Pairs /\ lastToken' \in Pairs \cup {None}
        /\ superseded' \in Pairs \cup {None} /\ lastFailedToken' \in Pairs \cup {None}
        /\ retryToken' \in Pairs \cup {None}
    BY DEF Answer, RefreshInvalid, pauseAuth, tokens, limit, server, env, IInv,
           TypeOK
  <2>4. /\ authFailCount' \in 0..maxAuthFailures /\ authRetryCount' \in 0..MaxCount
        /\ authRetryAt' \in (0..authPausedRetryMaxInterval) \cup {None}
        /\ waited' \in (1..authPausedRetryMaxInterval) \cup {None}
    BY Numbers
       DEF Answer, RefreshInvalid, pauseAuth, tokens, limit, server, env, IInv,
           TypeOK, Pausing
  <2>5. rateLimitFailCount' \in 0..MaxFaults /\ rateLimitResumeAt' \in 0..rateLimitMaxBackoff
    BY Numbers
       DEF Answer, RefreshInvalid, pauseAuth, tokens, limit, server, env, IInv,
           TypeOK
  <2>6. /\ pc' \in {"idle", "expiring", "reread", "paused", "fetch", "retry", "refetch",
                   "last", "asked"}
        /\ creds' \in Pairs \cup {None} /\ source' \in Sources \cup {None}
        /\ pc' = "asked" <=> source' # None
        /\ creds' # None <=> source' # None
    BY NoneIsNothing, PairsAreNat
       DEF Answer, RefreshInvalid, pauseAuth, tokens, limit, server, env, IInv,
           TypeOK, Sources
  <2> QED
    BY <2>1, <2>2, <2>3, <2>4, <2>5, <2>6
       DEF Answer, RefreshInvalid, pauseAuth, tokens, limit, server, env, IInv,
           TypeOK, daemon
<1>2. Counted'
  BY Numbers
     DEF TypeOK, Counted, server, env, tokens, limit, Answer, RefreshInvalid,
         pauseAuth, IInv
<1>3. Pausing'
  BY Numbers, NoneIsNothing
     DEF TypeOK, Pausing, Sources, server, env, tokens, limit, Answer, RefreshInvalid,
         pauseAuth, IInv
<1>4. Order'
  BY NoneIsNothing, PairsAreNat
     DEF TypeOK, Order, Pairs, server, env, tokens, limit, Answer, RefreshInvalid,
         pauseAuth, IInv
<1>5. Spent'
  BY NoneIsNothing, PairsAreNat
     DEF TypeOK, Order, Spent, ProactiveOnce, server, env, tokens, limit, Answer,
         RefreshInvalid, pauseAuth, IInv, daemon
<1>6. NoAskInBackoff'
  BY Numbers, NoneIsNothing
     DEF NoAskInBackoff, BackoffActive, TypeOK, Sources, server, env, tokens, limit,
         Answer, RefreshInvalid, pauseAuth, IInv
<1>7. Waiting'
  BY Numbers, NoneIsNothing
     DEF TypeOK, Waiting, server, env, tokens, limit, Answer, RefreshInvalid,
         pauseAuth, IInv
<1> QED
  BY <1>1, <1>2, <1>3, <1>4, <1>5, <1>6, <1>7 DEF IInv

LEMMA RefreshFailsKeeps ==
  ASSUME IInv, Answer, RefreshFails, UNCHANGED daemon
  PROVE  IInv'
<1>1. TypeOK'
  <2>1. authPaused' \in BOOLEAN /\ rateLimitPaused' \in BOOLEAN
    BY Zenon
       DEF Answer, RefreshFails, GiveUp, BackOff, pauseAuth, tokens, pause, schedule,
           server, env, IInv, TypeOK
  <2>2. faults' \in 0..MaxFaults
    BY Numbers
       DEF Answer, RefreshFails, GiveUp, BackOff, pauseAuth, tokens, pause, schedule,
           server, env, IInv, TypeOK
  <2>3. /\ token' \in Pairs /\ lastToken' \in Pairs \cup {None}
        /\ superseded' \in Pairs \cup {None} /\ lastFailedToken' \in Pairs \cup {None}
        /\ retryToken' \in Pairs \cup {None}
    BY DEF Answer, RefreshFails, GiveUp, BackOff, pauseAuth, tokens, pause, schedule,
           server, env, IInv, TypeOK
  <2>4. /\ authFailCount' \in 0..maxAuthFailures /\ authRetryCount' \in 0..MaxCount
        /\ authRetryAt' \in (0..authPausedRetryMaxInterval) \cup {None}
        /\ waited' \in (1..authPausedRetryMaxInterval) \cup {None}
    BY Numbers
       DEF Answer, RefreshFails, GiveUp, BackOff, pauseAuth, tokens, pause, schedule,
           server, env, IInv, TypeOK, Pausing
  <2>5. rateLimitFailCount' \in 0..MaxFaults /\ rateLimitResumeAt' \in 0..rateLimitMaxBackoff
    <3>1. CASE source = "bypass"
      <4>1. rateLimitFailCount' \in 1..MaxFaults
        BY <3>1, Numbers DEF RefreshFails, IInv, TypeOK, Counted
      <4>2. rateLimitBackoff(rateLimitFailCount') \in 0..rateLimitMaxBackoff
        BY <4>1, LimitBackoffTyped
      <4>3. rateLimitResumeAt' \in 0..rateLimitMaxBackoff
        BY <4>2, Numbers DEF RefreshFails, BackOff, IInv, TypeOK
      <4> QED
        BY <4>1, <4>3, Numbers
    <3>2. CASE source # "bypass"
      BY <3>2, Numbers DEF RefreshFails, IInv, TypeOK
    <3> QED
      BY <3>1, <3>2
  <2>6. /\ pc' \in {"idle", "expiring", "reread", "paused", "fetch", "retry", "refetch",
                   "last", "asked"}
        /\ creds' \in Pairs \cup {None} /\ source' \in Sources \cup {None}
        /\ pc' = "asked" <=> source' # None
        /\ creds' # None <=> source' # None
    BY NoneIsNothing, PairsAreNat
       DEF Answer, RefreshFails, GiveUp, BackOff, pauseAuth, tokens, pause, schedule,
           server, env, IInv, TypeOK, Sources
  <2>7. newest' \in Pairs
    BY PairsAreNat, Numbers DEF RefreshFails, Pairs, server, IInv, TypeOK
  <2>8. life' \in {"fresh", "expiring", "expired"}
    BY Zenon DEF RefreshFails, server, IInv, TypeOK
  <2> QED
    BY <2>1, <2>2, <2>3, <2>4, <2>5, <2>6, <2>7, <2>8
       DEF Answer, RefreshFails, GiveUp, BackOff, pauseAuth, tokens, pause, schedule,
           server, env, IInv, TypeOK, daemon
<1>2. Counted'
  BY Numbers
     DEF TypeOK, Counted, server, env, tokens, schedule, pause, Answer, RefreshFails,
         GiveUp, pauseAuth, BackOff, IInv
<1>3. Pausing'
  BY Numbers, NoneIsNothing
     DEF TypeOK, Pausing, Sources, server, env, tokens, schedule, pause, Answer,
         RefreshFails, GiveUp, pauseAuth, BackOff, IInv
<1>4. Order'
  BY NoneIsNothing, PairsAreNat
     DEF TypeOK, Order, Pairs, server, env, tokens, schedule, pause, Answer,
         RefreshFails, GiveUp, pauseAuth, BackOff, IInv
<1>5. Spent'
  BY NoneIsNothing, PairsAreNat
     DEF TypeOK, Order, Spent, ProactiveOnce, server, env, tokens, schedule, pause,
         Answer, RefreshFails, GiveUp, pauseAuth, BackOff, IInv, daemon
<1>6. NoAskInBackoff'
  BY Numbers, NoneIsNothing
     DEF NoAskInBackoff, BackoffActive, TypeOK, Sources, server, env, tokens, schedule,
         pause, Answer, RefreshFails, GiveUp, pauseAuth, BackOff, IInv
<1>7. Waiting'
  BY Numbers, NoneIsNothing
     DEF TypeOK, Waiting, server, env, tokens, schedule, pause, Answer, RefreshFails,
         GiveUp, pauseAuth, BackOff, IInv
<1> QED
  BY <1>1, <1>2, <1>3, <1>4, <1>5, <1>6, <1>7 DEF IInv

-------------------------------------------------------------------------------
LEMMA StartAgainKeeps ==
  ASSUME IInv, StartAgain
  PROVE  IInv'
<1>1. TypeOK'
  <2>1. claude' \in BOOLEAN /\ auto' \in BOOLEAN /\ authPaused' \in BOOLEAN
        /\ rateLimitPaused' \in BOOLEAN
    BY Zenon DEF StartAgain, env, IInv, TypeOK
  <2>2. newest' \in Pairs
    BY PairsAreNat, Numbers DEF StartAgain, Pairs, server, IInv, TypeOK
  <2>3. life' \in {"fresh", "expiring", "expired"}
    BY Zenon DEF StartAgain, server, IInv, TypeOK
  <2>4. restarts' \in 0..MaxRestarts /\ forgotten' \subseteq Pairs
    BY Numbers DEF StartAgain, IInv, TypeOK
  <2> QED
    BY <2>1, <2>2, <2>3, <2>4, Numbers, NoneIsNothing
       DEF StartAgain, env, IInv, TypeOK, Sources
<1>2. Counted' /\ Pausing' /\ NoAskInBackoff' /\ Waiting'
  BY Numbers, NoneIsNothing
     DEF StartAgain, Counted, Pausing, NoAskInBackoff, BackoffActive, Waiting, IInv, TypeOK
<1>3. Order'
  BY PairsAreNat DEF StartAgain, Order, server, IInv
<1>4. Spent'
  BY PairsAreNat, NoneIsNothing DEF StartAgain, Order, Spent, ProactiveOnce, server, IInv
<1> QED
  BY <1>1, <1>2, <1>3, <1>4 DEF IInv

LEMMA InitIInv == Init => IInv
<1> SUFFICES ASSUME Init PROVE IInv
  OBVIOUS
<1>1. TypeOK
  <2>1. claude \in BOOLEAN /\ auto \in BOOLEAN /\ authPaused \in BOOLEAN
        /\ rateLimitPaused \in BOOLEAN
    BY Zenon DEF Init
  <2> QED
    BY <2>1, Numbers, NoneIsNothing DEF Init, TypeOK, Pairs, Sources
<1>2. Counted /\ Pausing /\ Order /\ Spent /\ NoAskInBackoff /\ Waiting
  BY Numbers, NoneIsNothing
     DEF Init, Counted, Pausing, Order, Spent, ProactiveOnce, NoAskInBackoff, Waiting
<1> QED
  BY <1>1, <1>2 DEF IInv

LEMMA NextKeeps ==
  ASSUME IInv, [Next]_vars
  PROVE  IInv'
<1>1. CASE Ages /\ UNCHANGED daemon
  BY <1>1, AgesKeeps
<1>2. CASE Settles /\ UNCHANGED daemon
  BY <1>2, SettlesKeeps
<1>3. CASE Rotates /\ UNCHANGED daemon
  BY <1>3, RotatesKeeps
<1>4. CASE Poll /\ UNCHANGED daemon
  BY <1>4, PollKeeps
<1>5. CASE Proactive /\ UNCHANGED daemon
  BY <1>5, ProactiveKeeps
<1>6. CASE Reread /\ UNCHANGED daemon
  BY <1>6, RereadKeeps
<1>7. CASE tryPausedAuthRecovery /\ UNCHANGED daemon
  BY <1>7, RecoveryKeeps
<1>8. CASE Fetch /\ UNCHANGED daemon
  BY <1>8, FetchKeeps
<1>9. CASE Retry /\ UNCHANGED daemon
  BY <1>9, RetryKeeps
<1>10. CASE Refetch /\ UNCHANGED daemon
  BY <1>10, RefetchKeeps
<1>11. CASE Answer /\ UNCHANGED daemon
  <2>1. CASE Refreshed
    BY <1>11, <2>1, RefreshedKeeps
  <2>2. CASE RefreshLimited
    BY <1>11, <2>2, RefreshLimitedKeeps
  <2>3. CASE RefreshInvalid
    BY <1>11, <2>3, RefreshInvalidKeeps
  <2>4. CASE RefreshFails
    BY <1>11, <2>4, RefreshFailsKeeps
  <2> QED
    BY <1>11, <2>1, <2>2, <2>3, <2>4 DEF Answer
<1>12. CASE UNCHANGED vars
  BY <1>12 DEF vars, server, env, tokens, schedule, pause, limit, request, daemon, IInv,
     TypeOK, Counted, Pausing, Order, Spent, ProactiveOnce, NoAskInBackoff, BackoffActive,
     Waiting
<1>13. CASE StartAgain
  BY <1>13, StartAgainKeeps
<1> QED
  BY <1>1, <1>2, <1>3, <1>4, <1>5, <1>6, <1>7, <1>8, <1>9, <1>10, <1>11, <1>12,
     <1>13 DEF Next, Step, Outside

-------------------------------------------------------------------------------
THEOREM Invariance == Spec => []IInv
<1>1. IInv /\ [Next]_vars => IInv'
  BY NextKeeps
<1> QED
  BY <1>1, InitIInv, PTL DEF Spec

(* The agent's fields, the locals of poll and the credentials are well      *)
(* typed in every state.                                                    *)
THEOREM TypeCorrect == Spec => []TypeOK
<1>1. IInv => TypeOK
  BY DEF IInv
<1> QED
  BY <1>1, Invariance, PTL

(* Between two restarts of the daemon proactiveRefresh never presents a     *)
(* refresh token the agent has exchanged, also when the new pair could not  *)
(* be written; after a restart it may present one whose successor could not *)
(* (forgotten), and no other.                                               *)
THEOREM NoSpentToken == Spec => []ProactiveOnce
<1>1. IInv => ProactiveOnce
  BY DEF IInv, Spent
<1> QED
  BY <1>1, Invariance, PTL

(* No path of the poll asks the token endpoint while its backoff runs.      *)
THEOREM BackoffKept == Spec => []NoAskInBackoff
<1>1. IInv => NoAskInBackoff
  BY DEF IInv
<1> QED
  BY <1>1, Invariance, PTL

(* The re-read before a poll never goes back to an older access token.      *)
THEOREM NeverDowngraded == Spec => NoDowngrade
<1>1. IInv /\ [Next]_vars => [pc = "reread" /\ restarts' = restarts => token' >= token]_vars
  <2> SUFFICES ASSUME IInv, Next, pc = "reread", restarts' = restarts PROVE token' >= token
    BY DEF vars
  <2>1. newest \in Nat /\ disk \in Nat /\ token \in Nat
    BY PairsAreNat DEF IInv
  <2>2. CASE Reread
    <3>1. token' = token \/ (token' = disk /\ disk # superseded)
      BY <2>2, NoneIsNothing DEF Reread, IInv, Order
    <3> QED
      BY <2>1, <3>1 DEF IInv, Order
  <2>3. CASE UNCHANGED token
    BY <2>1, <2>3
  <2>4. ~StartAgain
    BY DEF StartAgain, IInv, TypeOK
  <2> QED
    BY <2>2, <2>3, <2>4 DEF Next, Step, Outside, Ages, Settles, Rotates, Poll, Proactive,
       tokens, tryPausedAuthRecovery, Fetch, Retry, Refetch, Answer
<1> QED
  BY <1>1, Invariance, PTL DEF Spec, NoDowngrade

(* From one attempt of a paused agent at recovery to the next the wait      *)
(* doubles, up to its limit.                                                *)
THEOREM WaitsDouble == Spec => WaitsGrow
<1>1. IInv /\ [Next]_vars =>
        [pc = "paused" /\ authRetryAt = 0 /\ pc' # "paused" /\ waited # None
          /\ restarts' = restarts
           => authRetryAt' = Least(2 * waited, authPausedRetryMaxInterval)]_vars
  <2> SUFFICES ASSUME IInv, Next, pc = "paused", authRetryAt = 0, pc' # "paused",
                      waited # None, restarts' = restarts
               PROVE  authRetryAt' = Least(2 * waited, authPausedRetryMaxInterval)
    BY DEF vars
  <2>0. ~StartAgain
    BY DEF StartAgain, IInv, TypeOK
  <2>1. tryPausedAuthRecovery
    BY <2>0 DEF Next, Step, Outside, Ages, Settles, Rotates, Poll, Proactive, Reread, Fetch, Retry,
       Refetch, Answer
  <2>2. authRetryAt' = authRetryBackoff(Least(authRetryCount + 1, MaxCount))
    BY <2>1 DEF tryPausedAuthRecovery
  <2>3. authRetryCount \in 1..MaxCount /\ waited = authRetryBackoff(authRetryCount)
    BY DEF IInv, Waiting
  <2> QED
    BY <2>2, <2>3, RetryBackoffDoubles
<1> QED
  BY <1>1, Invariance, PTL DEF Spec, WaitsGrow
-------------------------------------------------------------------------------
(* The tokens of the Codex profiles.                                        *)

(* An account, a profile file, an agent and a command: what they are made of.*)
Id == STRING \cup {""}
Login == Id \X Id
FileType == [id : Login, tok : Login, time : Nat]

IsAgent(a) ==
  a \in [name : {a.name}, id : {a.id}, row : {a.row}, live : {a.live}, pc : {a.pc},
         tok : {a.tok}, own : {a.own}, got : {a.got}]

IsCommand(u) == u \in [pc : {u.pc}, name : {u.name}, id : {u.id}, plan : {u.plan}]

(* The token of a login goes with an account: of the same user, if both say *)
(* whose they are.                                                          *)
GoesWith(tok, id) ==
  tok[1] = id[1] /\ (tok[2] = "" \/ id[2] = "" \/ tok[2] = id[2])

Belongs(f) == f.tok[1] = f.id[1] /\ f.tok[2] \in {f.id[2], ""}

(* What an agent is about to save: the refreshed token of the file, or a    *)
(* login that goes with its account.                                        *)
SavesOwn(a) ==
  a.pc \in {"save", "rename"} =>
    /\ ~a.own => GoesWith(a.tok, a.id)
    /\ a.name \in Profiles => a.tok \in Login

(* The file it puts the token into was there.                               *)
HasRead(a) ==
  a.pc = "rename" /\ a.name \in Profiles => a.got \in FileType /\ a.got.time > 0

AgentKept(a) == IsAgent(a) /\ SavesOwn(a) /\ HasRead(a)

AgentsKept(f) == f = [i \in Agents |-> f[i]] /\ \A i \in Agents : AgentKept(f[i])

CommandKept(u) == IsCommand(u) /\ (u.pc = "write" => u.id \in Login)

(* The inductive invariant.                                                 *)
TokenInv ==
  /\ file \in [Profiles -> FileType] /\ clock \in Nat
  /\ AgentsKept(agent) /\ CommandKept(user)
  /\ TokensStayUnlessRaced

LEMMA RecordsAreKept ==
  ASSUME NEW a, AgentKept(a)
  PROVE  /\ AgentKept(Cancelled(a))
         /\ AgentKept(Polling(a))
<1> DEFINE b == Cancelled(a)
           c == Polling(a)
<1>1. IsAgent(a)
  BY DEF AgentKept
<1>2. /\ IsAgent(b) /\ b.name = a.name /\ b.id = a.id /\ b.pc = a.pc
      /\ b.tok = a.tok /\ b.own = a.own /\ b.got = a.got
  BY <1>1 DEF IsAgent, Cancelled
<1>3. IsAgent(c) /\ c.pc = "wait"
  BY <1>1 DEF IsAgent, Polling
<1> HIDE DEF b, c
<1>4. AgentKept(b)
  BY <1>2 DEF AgentKept, SavesOwn, HasRead
<1>5. AgentKept(c)
  BY <1>3 DEF AgentKept, SavesOwn, HasRead
<1> QED
  BY <1>4, <1>5 DEF b, c

LEMMA FreeIsKept == AgentKept(Free) /\ IsAgent(Free) /\ Free.pc = "free"
<1>1. IsAgent(Free) /\ Free.pc = "free"
  BY DEF IsAgent, Free
<1> QED
  BY <1>1 DEF AgentKept, SavesOwn, HasRead

LEMMA NoFileIsAFile == NoFile \in FileType /\ NoFile.time = 0
<1>1. NoLogin \in Login
  BY DEF NoLogin, Login, Id
<1> QED
  BY <1>1 DEF NoFile, FileType

(* A step that writes no file.                                              *)
LEMMA NothingWritten ==
  ASSUME TokenInv, file' = file, clock' = clock,
         \A n \in Profiles : n \in raced => n \in raced',
         AgentsKept(agent'), CommandKept(user')
  PROVE  TokenInv'
<1>1. TokensStayUnlessRaced'
  BY DEF TokenInv, TokensStayUnlessRaced, Saved
<1> QED
  BY <1>1 DEF TokenInv, AgentsKept, CommandKept

(* One agent changes.                                                       *)
LEMMA OneAgentChanges ==
  ASSUME AgentsKept(agent), NEW i \in Agents, NEW a, AgentKept(a),
         agent' = [agent EXCEPT ![i] = a]
  PROVE  AgentsKept(agent')
BY DEF AgentsKept

(* Agents that are taken out of the map, and agents whose context ends.     *)
LEMMA CancelKeeps ==
  ASSUME AgentsKept(agent),
         \/ \E S : TakeOut(S)
         \/ agent' = [i \in Agents |-> Cancelled(agent[i])]
  PROVE  AgentsKept(agent')
<1>1. agent' = [i \in Agents |-> agent'[i]]
  BY DEF TakeOut
<1>2. \A i \in Agents : agent'[i] \in {agent[i], Free, Cancelled(agent[i])}
  BY DEF TakeOut
<1>3. \A i \in Agents : AgentKept(agent[i]) /\ AgentKept(Cancelled(agent[i]))
  BY RecordsAreKept DEF AgentsKept
<1> QED
  BY <1>1, <1>2, <1>3, FreeIsKept DEF AgentsKept

LEMMA ScannerKeeps ==
  ASSUME TokenInv,
         \/ \E s \in Runs : Scanner(s) \/ StartFails(s) \/ StopAllAgents(s)
         \/ TurnOff \/ TurnOn
  PROVE  TokenInv'
<1>1. AgentsKept(agent) /\ CommandKept(user)
  BY DEF TokenInv
<1>2. file' = file /\ clock' = clock /\ user' = user
  BY DEF Scanner, ScanTick, ReadEntry, LoadProfile, StartDefault, StartAgent, RecordTime,
         SettleAccounts, ListInstances, StopDeleted, MarkStopped, StartFails, TurnOff,
         TurnOn, StopAllAgents, store
<1>3. \A n \in Profiles : n \in raced => n \in raced'
  <2>1. CASE \E s \in Runs : StartAgent(s)
    BY <2>1 DEF StartAgent
  <2>2. CASE \E s \in Runs : RecordTime(s)
    BY <2>2 DEF RecordTime
  <2>3. CASE \E s \in Runs : StartFails(s)
    BY <2>3 DEF StartFails
  <2>4. CASE TurnOn
    BY <2>4 DEF TurnOn
  <2>5. CASE TurnOff \/ \E s \in Runs :
               \/ ScanTick(s) \/ ReadEntry(s) \/ LoadProfile(s) \/ StartDefault(s)
               \/ SettleAccounts(s) \/ ListInstances(s) \/ StopDeleted(s)
               \/ MarkStopped(s) \/ StopAllAgents(s)
    BY <2>5 DEF ScanTick, ReadEntry, LoadProfile, StartDefault, SettleAccounts,
                ListInstances, StopDeleted, MarkStopped, StopAllAgents, TurnOff
  <2> QED
    BY <2>1, <2>2, <2>3, <2>4, <2>5 DEF Scanner
<1>4. AgentsKept(agent')
  <2>1. ASSUME NEW s \in Runs, StartAgent(s) PROVE AgentsKept(agent')
    <3>1. CASE agent' = agent
      BY <1>1, <3>1
    <3>2. CASE agent' # agent
      <4> DEFINE a == [Free EXCEPT !.name = Head(scan[s].todo), !.id = scan[s].got.id,
                           !.row = RowOf(scan[s].plan), !.live = on, !.pc = "wait"]
      <4>1. PICK i \in Agents : agent' = [agent EXCEPT ![i] = a]
        BY <2>1, <3>2 DEF StartAgent
      <4>2. IsAgent(a) /\ a.pc = "wait"
        BY DEF IsAgent, Free
      <4> HIDE DEF a
      <4>3. AgentKept(a)
        BY <4>2 DEF AgentKept, SavesOwn, HasRead
      <4> QED
        BY <1>1, <4>1, <4>3, OneAgentChanges
    <3> QED
      BY <3>1, <3>2
  <2>2. CASE TurnOff
    BY <1>1, <2>2, CancelKeeps DEF TurnOff
  <2>3. ASSUME NEW s \in Runs, StopAllAgents(s) PROVE AgentsKept(agent')
    BY <1>1, <2>3, CancelKeeps DEF StopAllAgents
  <2>4. ASSUME NEW s \in Runs, ReadEntry(s) PROVE AgentsKept(agent')
    BY <1>1, <2>4, CancelKeeps DEF ReadEntry, StopAgent
  <2>5. ASSUME NEW s \in Runs, StopDeleted(s) PROVE AgentsKept(agent')
    BY <1>1, <2>5, CancelKeeps DEF StopDeleted, StopAgent
  <2>6. CASE TurnOn \/ \E s \in Runs :
               \/ ScanTick(s) \/ LoadProfile(s) \/ StartDefault(s) \/ RecordTime(s)
               \/ SettleAccounts(s) \/ ListInstances(s) \/ MarkStopped(s)
               \/ StartFails(s)
    <3>1. agent' = agent
      BY <2>6 DEF ScanTick, LoadProfile, StartDefault, RecordTime,
                  SettleAccounts, ListInstances, MarkStopped, StartFails, TurnOn
    <3> QED
      BY <1>1, <3>1
  <2> QED
    BY <2>1, <2>2, <2>3, <2>4, <2>5, <2>6 DEF Scanner
<1> QED
  BY <1>1, <1>2, <1>3, <1>4, NothingWritten

(* A restart leaves no agent.                                               *)
LEMMA DaemonRestartKeeps ==
  ASSUME TokenInv, Restart
  PROVE  TokenInv'
<1>1. file' = file /\ clock' = clock /\ raced' = raced
  BY DEF Restart, store
<1>2. AgentsKept(agent')
  BY FreeIsKept DEF Restart, AgentsKept
<1>3. CommandKept(user')
  <2>1. CommandKept(Idle)
    BY DEF CommandKept, IsCommand, Idle
  <2> QED
    BY <2>1 DEF TokenInv, Restart
<1> QED
  BY <1>1, <1>2, <1>3, NothingWritten

(* The token to be saved: of the file, or a login the agent may use.        *)
LEMMA RefreshKeeps ==
  ASSUME TokenInv, NEW i \in Agents, Refresh(i)
  PROVE  TokenInv'
<1> DEFINE a == agent[i]
           n == a.name
<1>1. file' = file /\ clock' = clock /\ raced' = raced /\ user' = user
  BY DEF Refresh, store
<1>2. AgentsKept(agent) /\ CommandKept(user) /\ IsAgent(a) /\ a.pc = "wait"
  BY DEF TokenInv, AgentsKept, AgentKept, Refresh
<1>3. CASE agent' = [agent EXCEPT ![i].pc = "save", ![i].tok = file[n].tok, ![i].own = TRUE]
  <2> DEFINE b == [a EXCEPT !.pc = "save", !.tok = file[n].tok, !.own = TRUE]
  <2>1. agent' = [agent EXCEPT ![i] = b]
    BY <1>3
  <2>2. IsAgent(b) /\ b.pc = "save" /\ b.tok = file[n].tok /\ b.own = TRUE /\ b.name = n
    BY <1>2 DEF IsAgent
  <2>3. n \in Profiles => file[n].tok \in Login
    BY DEF TokenInv, FileType
  <2> HIDE DEF b, n
  <2>4. AgentKept(b)
    BY <2>2, <2>3 DEF AgentKept, SavesOwn, HasRead
  <2> QED
    BY <1>1, <1>2, <2>1, <2>4, OneAgentChanges, NothingWritten
<1>4. ASSUME NEW x \in Logins, Usable(x, i),
             agent' = [agent EXCEPT ![i].pc = "save", ![i].tok = x]
      PROVE  TokenInv'
  <2> DEFINE b == [a EXCEPT !.pc = "save", !.tok = x]
  <2>1. agent' = [agent EXCEPT ![i] = b]
    BY <1>4
  <2>2. IsAgent(b) /\ b.pc = "save" /\ b.tok = x /\ b.id = a.id
    BY <1>2 DEF IsAgent
  <2>3. x \in Login /\ GoesWith(x, a.id)
    <3>1. x \in STRING \X STRING
      BY ProfileAssumption DEF ProfileAssumption
    <3> QED
      BY <1>4, <3>1 DEF Usable, GoesWith, Login, Id
  <2> HIDE DEF b, a
  <2>4. AgentKept(b)
    BY <2>2, <2>3 DEF AgentKept, SavesOwn, HasRead
  <2> QED
    BY <1>1, <1>2, <2>1, <2>4, OneAgentChanges, NothingWritten
<1> QED
  BY <1>3, <1>4 DEF Refresh

LEMMA SaveReadKeeps ==
  ASSUME TokenInv, NEW i \in Agents, SaveRead(i)
  PROVE  TokenInv'
<1> DEFINE a == agent[i]
           n == a.name
<1>1. file' = file /\ clock' = clock /\ raced' = raced /\ user' = user
  BY DEF SaveRead, store
<1>2. AgentsKept(agent) /\ CommandKept(user) /\ AgentKept(a) /\ a.pc = "save"
  BY DEF TokenInv, AgentsKept, SaveRead
<1>3. CASE Saved(n)
  <2> DEFINE b == [a EXCEPT !.pc = "rename", !.got = file[n]]
  <2>1. agent' = [agent EXCEPT ![i] = b]
    BY <1>3 DEF SaveRead
  <2>2. /\ IsAgent(b) /\ b.pc = "rename" /\ b.got = file[n] /\ b.name = n
        /\ b.id = a.id /\ b.tok = a.tok /\ b.own = a.own
    BY <1>2 DEF AgentKept, IsAgent
  <2>3. n \in Profiles => file[n] \in FileType /\ file[n].time > 0
    BY <1>3 DEF TokenInv, Saved
  <2>4. SavesOwn(a)
    BY <1>2 DEF AgentKept
  <2> HIDE DEF b
  <2>5. AgentKept(b)
    BY <1>2, <2>2, <2>3, <2>4 DEF AgentKept, SavesOwn, HasRead
  <2> QED
    BY <1>1, <1>2, <2>1, <2>5, OneAgentChanges, NothingWritten
<1>4. CASE ~Saved(n)
  <2>1. agent' = [agent EXCEPT ![i] = Polling(a)]
    BY <1>4 DEF SaveRead
  <2> QED
    BY <1>1, <1>2, <2>1, RecordsAreKept, OneAgentChanges, NothingWritten
<1> QED
  BY <1>3, <1>4

(* A file written by one who did not race has a token of its account.       *)
LEMMA FileWritten ==
  ASSUME TokenInv, NEW n, NEW f \in FileType,
         file' = [file EXCEPT ![n] = f],
         \A m \in Profiles : m \in raced => m \in raced',
         n \in Profiles /\ n \notin raced' /\ f.time > 0 => Belongs(f),
         clock' \in Nat, AgentsKept(agent'), CommandKept(user')
  PROVE  TokenInv'
<1>1. file' \in [Profiles -> FileType]
  BY DEF TokenInv
<1>2. TokensStayUnlessRaced'
  BY DEF TokenInv, TokensStayUnlessRaced, Saved, Belongs
<1> QED
  BY <1>1, <1>2 DEF TokenInv, AgentsKept, CommandKept

LEMMA SaveRenameKeeps ==
  ASSUME TokenInv, NEW i \in Agents, SaveRename(i)
  PROVE  TokenInv'
<1> DEFINE a == agent[i]
           n == a.name
           new == [id |-> <<a.got.id[1], UserId(a)>>, tok |-> a.tok,
                   time |-> clock + 1]
           b == [a EXCEPT !.pc = "remember", !.got = new]
<1>1. /\ a.pc = "rename" /\ file' = [file EXCEPT ![n] = new]
      /\ clock' = clock + 1 /\ user' = user
      /\ agent' = [agent EXCEPT ![i] = b]
      /\ raced' = IF \/ file[n] # a.got \/ a.got.id # a.id
                     \/ a.own /\ a.tok # a.got.tok
                  THEN raced \cup {n} ELSE raced
  BY DEF SaveRename
<1>2. AgentsKept(agent) /\ CommandKept(user) /\ AgentKept(a) /\ clock + 1 \in Nat
  BY DEF TokenInv, AgentsKept
<1>3. AgentsKept(agent')
  <2>1. IsAgent(b) /\ b.pc = "remember"
    BY <1>2 DEF AgentKept, IsAgent
  <2> HIDE DEF b
  <2>2. AgentKept(b)
    BY <2>1 DEF AgentKept, SavesOwn, HasRead
  <2> QED
    BY <1>1, <1>2, <2>2, OneAgentChanges
<1>4. CASE n \notin Profiles
  <2>1. file' = file
    BY <1>1, <1>4 DEF TokenInv
  <2> QED
    BY <1>1, <1>2, <1>3, <1>4, <2>1 DEF TokenInv, TokensStayUnlessRaced, Saved,
                                       AgentsKept, CommandKept
<1>5. CASE n \in Profiles
  <2>1. a.tok \in Login /\ a.got \in FileType /\ a.got.time > 0
    BY <1>1, <1>2, <1>5 DEF AgentKept, SavesOwn, HasRead
  <2>2. /\ a.got.id \in Login /\ a.got.tok \in Login
        /\ a.tok[2] \in Id /\ a.got.id[1] \in Id /\ a.got.id[2] \in Id
    BY <2>1 DEF FileType, Login
  <2>3. new.id \in Login /\ new.tok = a.tok
    BY <2>2 DEF Login, UserId
  <2>4. new \in FileType
    BY <1>2, <2>1, <2>3 DEF FileType
  <2>5. ASSUME n \notin raced' PROVE Belongs(new)
    <3>1. file[n] = a.got /\ a.got.id = a.id /\ (a.own => a.tok = a.got.tok)
          /\ n \notin raced
      BY <1>1, <2>5
    <3>2. Belongs(a.got)
      <4>1. \A m \in Profiles : Saved(m) /\ m \notin raced => Belongs(file[m])
        BY DEF TokenInv, TokensStayUnlessRaced, Belongs
      <4>2. Saved(n)
        BY <2>1, <3>1 DEF Saved
      <4> HIDE DEF n, a
      <4> QED
        BY <1>5, <3>1, <4>1, <4>2
    <3>3. a.own \/ GoesWith(a.tok, a.got.id)
      BY <1>1, <1>2, <3>1 DEF AgentKept, SavesOwn
    <3>4. new.id[1] = a.got.id[1] /\ new.id[2] = UserId(a)
      OBVIOUS
    <3>5. a.tok[1] = a.got.id[1] /\ a.tok[2] \in {UserId(a), ""}
      BY <3>1, <3>2, <3>3 DEF Belongs, GoesWith, UserId
    <3> QED
      BY <2>3, <3>4, <3>5 DEF Belongs
  <2> HIDE DEF new, b
  <2> QED
    BY <1>1, <1>2, <1>3, <2>4, <2>5, FileWritten
<1> QED
  BY <1>4, <1>5

LEMMA AgentRests ==
  ASSUME TokenInv, NEW i \in Agents, SaveRemember(i) \/ AgentEnds(i)
  PROVE  TokenInv'
<1>1. file' = file /\ clock' = clock /\ user' = user
      /\ \A n \in Profiles : n \in raced => n \in raced'
  BY DEF SaveRemember, AgentEnds, store
<1>2. AgentsKept(agent) /\ CommandKept(user) /\ AgentKept(agent[i])
  BY DEF TokenInv, AgentsKept
<1>3. agent' = [agent EXCEPT ![i] = Polling(agent[i])] \/ agent' = [agent EXCEPT ![i] = Free]
  BY DEF SaveRemember, AgentEnds
<1>4. AgentsKept(agent')
  BY <1>2, <1>3, RecordsAreKept, FreeIsKept, OneAgentChanges
<1> QED
  BY <1>1, <1>2, <1>4, NothingWritten

(* The commands: they write a login with its own token, or no file.         *)
LEMMA CommandsKeep ==
  ASSUME TokenInv,
         \/ \E n \in Profiles, x \in Kept : SaveProfile(n, x) \/ RefreshProfile(n, x)
         \/ \E n \in Profiles : DeleteProfile(n)
         \/ UserGoesOn
  PROVE  TokenInv'
<1>1. AgentsKept(agent) /\ CommandKept(user) /\ IsCommand(user) /\ clock \in Nat
  BY DEF TokenInv, CommandKept
<1>2. CommandKept(Idle)
  BY DEF CommandKept, IsCommand, Idle
<1>3. ASSUME NEW n \in Profiles, NEW x \in Kept, SaveProfile(n, x) \/ RefreshProfile(n, x)
      PROVE  TokenInv'
  <2>1. user' = [Idle EXCEPT !.pc = "write", !.name = n, !.id = x]
    BY <1>3 DEF SaveProfile, RefreshProfile, Command
  <2>2. IsCommand(user') /\ user'.id = x
    BY <2>1 DEF IsCommand, Idle
  <2>3. CommandKept(user')
    BY <2>2, ProfileAssumption DEF CommandKept, ProfileAssumption, Login, Id
  <2>4. file' = file /\ clock' = clock /\ raced' = raced /\ agent' = agent
    BY <1>3 DEF SaveProfile, RefreshProfile, store
  <2> QED
    BY <1>1, <2>3, <2>4, NothingWritten
<1>4. ASSUME NEW n \in Profiles, DeleteProfile(n) PROVE TokenInv'
  <2>1. /\ user' = [Idle EXCEPT !.pc = "mark", !.name = n, !.id = NoLogin]
        /\ file' = [file EXCEPT ![n] = NoFile]
        /\ clock' = clock /\ raced' = raced /\ agent' = agent
    BY <1>4 DEF DeleteProfile, Command
  <2>2. IsCommand(user') /\ user'.pc = "mark"
    BY <2>1 DEF IsCommand, Idle
  <2>3. CommandKept(user')
    BY <2>2 DEF CommandKept
  <2>4. NoFile \in FileType /\ ~(NoFile.time > 0)
    BY NoFileIsAFile
  <2> QED
    BY <1>1, <2>1, <2>3, <2>4, FileWritten
<1>5. CASE WriteProfile
  <2> DEFINE f == [id |-> user.id, tok |-> user.id, time |-> clock + 1]
  <2>1. /\ user.pc = "write" /\ file' = [file EXCEPT ![user.name] = f]
        /\ clock' = clock + 1 /\ user' = [user EXCEPT !.pc = "find"]
        /\ raced' = raced /\ agent' = agent
    BY <1>5 DEF WriteProfile, Fresh
  <2>2. IsCommand(user') /\ user'.pc = "find"
    BY <1>1, <2>1 DEF IsCommand
  <2>3. CommandKept(user')
    BY <2>2 DEF CommandKept
  <2>4. f \in FileType /\ Belongs(f)
    BY <1>1, <2>1 DEF CommandKept, FileType, Belongs
  <2>5. clock + 1 \in Nat
    BY <1>1
  <2> HIDE DEF f
  <2> QED
    BY <1>1, <2>1, <2>3, <2>4, <2>5, FileWritten
<1>6. CASE UserFinds
  <2>1. user' = [user EXCEPT !.pc = "apply", !.plan = Find(user.name, user.id)]
    BY <1>6 DEF UserFinds
  <2>2. IsCommand(user') /\ user'.pc = "apply"
    BY <1>1, <2>1 DEF IsCommand
  <2>3. CommandKept(user')
    BY <2>2 DEF CommandKept
  <2>4. file' = file /\ clock' = clock /\ raced' = raced /\ agent' = agent
    BY <1>6 DEF UserFinds, store
  <2> QED
    BY <1>1, <2>3, <2>4, NothingWritten
<1>7. CASE UserApplies \/ UserMarks
  <2>1. /\ file' = file /\ clock' = clock /\ agent' = agent /\ user' = Idle
        /\ \A n \in Profiles : n \in raced => n \in raced'
    BY <1>7 DEF UserApplies, UserMarks
  <2> QED
    BY <1>1, <1>2, <2>1, NothingWritten
<1> QED
  BY <1>3, <1>4, <1>5, <1>6, <1>7 DEF UserGoesOn

(* A profile has a token of its own account - the one saved in it, a        *)
(* refreshed one, or that of a login which goes with it - and of its own    *)
(* user, if the token says whose it is, unless a save and a token write     *)
(* overlapped; whatever is scanned, restarted, switched (also while a scan  *)
(* is at work) and deleted.  shouldUseSystemCredsForProfile compares the    *)
(* ids that are known, and the user id of the token goes into a file that   *)
(* has none.                                                                *)
THEOREM TokensStay == ProfilesSpec => []TokensStayUnlessRaced
<1>1. ProfilesInit => TokenInv
  <2> SUFFICES ASSUME ProfilesInit PROVE TokenInv
    OBVIOUS
  <2>2. file \in [Profiles -> FileType] /\ TokensStayUnlessRaced
    <3>1. file \in [Profiles -> {NoFile} \cup {Fresh(x, 1) : x \in Kept}]
      BY DEF ProfilesInit
    <3>2. ASSUME NEW x \in Kept PROVE Fresh(x, 1) \in FileType /\ Belongs(Fresh(x, 1))
      <4>1. x \in STRING \X STRING
        BY ProfileAssumption DEF ProfileAssumption
      <4> QED
        BY <4>1 DEF Fresh, FileType, Login, Id, Belongs
    <3>3. ASSUME NEW n \in Profiles PROVE file[n] \in FileType /\ (Saved(n) => Belongs(file[n]))
      <4>1. CASE file[n] = NoFile
        BY <4>1, NoFileIsAFile DEF Saved
      <4>2. ASSUME NEW x \in Kept, file[n] = Fresh(x, 1)
            PROVE  file[n] \in FileType /\ Belongs(file[n])
        BY <4>2, <3>2
      <4> QED
        BY <3>1, <4>1, <4>2
    <3>4. file \in [Profiles -> FileType]
      BY <3>1, <3>3
    <3> QED
      BY <3>3, <3>4 DEF TokensStayUnlessRaced, Belongs
  <2>3. AgentsKept(agent)
    BY FreeIsKept DEF ProfilesInit, AgentsKept
  <2>4. CommandKept(user)
    BY DEF ProfilesInit, CommandKept, IsCommand, Idle
  <2> QED
    BY <2>2, <2>3, <2>4 DEF TokenInv, ProfilesInit
<1>2. TokenInv /\ [ProfilesNext]_profileVars => TokenInv'
  <2> SUFFICES ASSUME TokenInv, [ProfilesNext]_profileVars PROVE TokenInv'
    OBVIOUS
  <2>1. CASE UNCHANGED profileVars
    BY <2>1, NothingWritten DEF TokenInv, profileVars
  <2>2. ASSUME NEW i \in Agents, Save(i) PROVE TokenInv'
    BY <2>2, SaveReadKeeps, SaveRenameKeeps, AgentRests DEF Save
  <2> QED
    BY <2>1, <2>2, ScannerKeeps, DaemonRestartKeeps, RefreshKeeps, AgentRests, CommandsKeep
       DEF ProfilesNext
<1>3. TokenInv => TokensStayUnlessRaced
  BY DEF TokenInv
<1> QED
  BY <1>1, <1>2, <1>3, PTL DEF ProfilesSpec
===============================================================================
