---------------------------- MODULE LearningQuota ----------------------------
(* Program Pal's access control: anonymous signed sessions and the daily AI  *)
(* allowance of the learning routes (server/src/routes/learning), with the   *)
(* browser's side of the session (client/src/learning/api.ts).               *)
(*                                                                           *)
(* A request is one call of streamTutor.  Its handler reads the clock before *)
(* it awaits the lock of the usage counters, so its idea of the day may be   *)
(* older than the counters it then updates.                                  *)
EXTENDS Naturals, FiniteSets

CONSTANTS
    Requests, Browsers, Ips,
    Uuids,                \* session ids the server may draw
    ai_daily_limit, ai_global_daily_limit,
    SecretConfigured,     \* PG_LEARNING_SESSION_SECRET is set
    MidnightRace,         \* the day may change between clock and lock
    MaxDay, MaxRestarts,  \* bounds: days that pass, restarts
    None

ASSUME QuotaAssumption ==
    /\ ai_daily_limit \in Nat /\ ai_global_daily_limit \in Nat
    /\ SecretConfigured \in BOOLEAN /\ MidnightRace \in BOOLEAN
    /\ MaxDay \in Nat /\ MaxRestarts \in Nat
    /\ None \notin Uuids /\ None \notin Browsers /\ None \notin Ips

VARIABLES
    pc, browser, token, canRetry,        \* the client side of each request
    owner, ip, reqDay, reqRun, remaining,\* the server side of each request
    stored,                              \* localStorage of each browser
    issued,                              \* session ids drawn so far
    sessions, ips, global,               \* UsageCounters
    day, run,                            \* UTC day; server process number
    met                                  \* history: requests a restart met

clientVars == <<pc, browser, token, canRetry>>
serverVars == <<owner, ip, reqDay, reqRun, remaining>>
usageVars  == <<sessions, ips, global>>
vars == <<clientVars, serverVars, stored, issued, usageVars, day, run, met>>

Days == 0 .. MaxDay
Runs == 0 .. MaxRestarts
Tokens == [id : Uuids, secret : Runs]
NoToken == [id |-> None, secret |-> 0]

\* An entry that is not in the map is a DailyUsage of no turns.
DailyUsage == [day : Days, ai_turns : Nat]

Active   == {"headers", "signing", "send", "lock", "upstream"}
Outcomes == {"ok", "upstreamError", "tooMany", "badRequest", "unauthorized",
             "gone", "failed"}

QuotaTypeOK ==
    /\ pc \in [Requests -> Active \cup Outcomes \cup {"new"}]
    /\ browser \in [Requests -> Browsers \cup {None}]
    /\ token \in [Requests -> Tokens \cup {NoToken}]
    /\ canRetry \in [Requests -> BOOLEAN]
    /\ owner \in [Requests -> Uuids \cup {None}]
    /\ ip \in [Requests -> Ips \cup {None}]
    /\ reqDay \in [Requests -> Days]
    /\ reqRun \in [Requests -> Runs]
    /\ remaining \in [Requests -> Nat]
    /\ stored \in [Browsers -> Tokens \cup {NoToken}]
    /\ issued \subseteq Uuids
    /\ sessions \in [Uuids -> DailyUsage]
    /\ ips \in [Ips -> DailyUsage]
    /\ global \in DailyUsage
    /\ day \in Days
    /\ run \in Runs
    /\ met \subseteq Requests

Unused == [day |-> 0, ai_turns |-> 0]

Init ==
    /\ pc = [r \in Requests |-> "new"]
    /\ browser = [r \in Requests |-> None]
    /\ token = [r \in Requests |-> NoToken]
    /\ canRetry = [r \in Requests |-> TRUE]
    /\ owner = [r \in Requests |-> None]
    /\ ip = [r \in Requests |-> None]
    /\ reqDay = [r \in Requests |-> 0]
    /\ reqRun = [r \in Requests |-> 0]
    /\ remaining = [r \in Requests |-> 0]
    /\ stored = [b \in Browsers |-> NoToken]
    /\ issued = {}
    /\ sessions = [u \in Uuids |-> Unused]
    /\ ips = [i \in Ips |-> Unused]
    /\ global = Unused
    /\ day = 0
    /\ run = 0
    /\ met = {}

-----------------------------------------------------------------------------
(* The browser *)

\* streamTutor in one of the tabs of browser b; tabs share localStorage.
Ask(r, b) ==
    /\ pc[r] = "new"
    /\ browser' = [browser EXCEPT ![r] = b]
    /\ pc' = [pc EXCEPT ![r] = "headers"]
    /\ UNCHANGED <<token, canRetry, serverVars, stored, issued, usageVars,
                   day, run, met>>

\* learningHeaders with a saved session.
UseSaved(r) ==
    /\ pc[r] = "headers"
    /\ stored[browser[r]] # NoToken
    /\ token' = [token EXCEPT ![r] = stored[browser[r]]]
    /\ pc' = [pc EXCEPT ![r] = "send"]
    /\ UNCHANGED <<browser, canRetry, serverVars, stored, issued,
                   usageVars, day, run, met>>

\* The secret of a server process: the configured one, or one of its own.
Secret == IF SecretConfigured THEN 0 ELSE run

\* POST /learning/session: the server signs a new id ...
SignSession(r, u) ==
    /\ pc[r] = "headers"
    /\ stored[browser[r]] = NoToken
    /\ u \notin issued
    /\ issued' = issued \cup {u}
    /\ token' = [token EXCEPT ![r] = [id |-> u, secret |-> Secret]]
    /\ pc' = [pc EXCEPT ![r] = "signing"]
    /\ UNCHANGED <<browser, canRetry, serverVars, stored, usageVars,
                   day, run, met>>

\* ... and the browser saves the answer.
SaveSession(r) ==
    /\ pc[r] = "signing"
    /\ stored' = [stored EXCEPT ![browser[r]] = token[r]]
    /\ pc' = [pc EXCEPT ![r] = "send"]
    /\ UNCHANGED <<browser, token, canRetry, serverVars, issued,
                   usageVars, day, run, met>>

\* The connection is lost: before the session's answer is read, before the
\* request is served, or while it waits for the lock; no turn is used.
Fail(r) ==
    /\ pc[r] \in {"signing", "send", "lock"}
    /\ pc' = [pc EXCEPT ![r] = "failed"]
    /\ UNCHANGED <<browser, token, canRetry, serverVars, stored, issued,
                   usageVars, day, run, met>>

\* Mutant: a rejected token stays in localStorage.
RetryWithSameToken(r) ==
    /\ pc[r] = "send"
    /\ token[r].secret # Secret
    /\ canRetry' = [canRetry EXCEPT ![r] = FALSE]
    /\ pc' = [pc EXCEPT ![r] = IF canRetry[r] THEN "headers"
                                              ELSE "unauthorized"]
    /\ UNCHANGED <<browser, token, serverVars, stored, issued,
                   usageVars, day, run, met>>

\* verify_session fails: 401.  The browser forgets the session and tries once
\* more.
Unauthorized(r) ==
    /\ pc[r] = "send"
    /\ token[r].secret # Secret
    /\ canRetry' = [canRetry EXCEPT ![r] = FALSE]
    /\ IF canRetry[r]
       THEN /\ stored' = [stored EXCEPT ![browser[r]] = NoToken]
            /\ pc' = [pc EXCEPT ![r] = "headers"]
       ELSE /\ pc' = [pc EXCEPT ![r] = "unauthorized"]
            /\ UNCHANGED stored
    /\ UNCHANGED <<browser, token, serverVars, issued, usageVars, day,
                   run, met>>

-----------------------------------------------------------------------------
(* The server *)

\* validate_ai_request fails, or no OpenAI key is configured: no turn is used.
Refuse(r) ==
    /\ pc[r] = "send"
    /\ token[r].secret = Secret
    /\ pc' = [pc EXCEPT ![r] = "badRequest"]
    /\ UNCHANGED <<browser, token, canRetry, serverVars, stored, issued,
                   usageVars, day, run, met>>

\* consume_ai_turn reads the clock, then awaits the lock.
ReadClock(r, i) ==
    /\ pc[r] = "send"
    /\ token[r].secret = Secret
    /\ owner' = [owner EXCEPT ![r] = token[r].id]
    /\ ip' = [ip EXCEPT ![r] = i]
    /\ reqDay' = [reqDay EXCEPT ![r] = day]
    /\ reqRun' = [reqRun EXCEPT ![r] = run]
    /\ pc' = [pc EXCEPT ![r] = "lock"]
    /\ UNCHANGED <<browser, token, canRetry, remaining, stored, issued,
                   usageVars, day, run, met>>

\* `retain` drops the entries of other days, `entry` adds one of no turns.
Today(usage, d) == IF usage.day = d THEN usage ELSE [day |-> d, ai_turns |-> 0]
OneMore(usage) == [usage EXCEPT !.ai_turns = @ + 1]

\* Mutant: the ip's counter does not count against the limit.
LimitReachedNoIp(s, i, g) ==
    \/ s.ai_turns >= ai_daily_limit
    \/ g.ai_turns >= ai_global_daily_limit

\* Mutant: one turn too many, and `remaining` underflows.
LimitReachedLate(s, i, g) ==
    \/ s.ai_turns > ai_daily_limit
    \/ i.ai_turns > ai_daily_limit
    \/ g.ai_turns >= ai_global_daily_limit

\* The session, its address or all sessions have used their turns of the day.
LimitReached(s, i, g) ==
    \/ s.ai_turns >= ai_daily_limit
    \/ i.ai_turns >= ai_daily_limit
    \/ g.ai_turns >= ai_global_daily_limit

\* Mutant: the counters of the session and of the address are not written
\* back.
ConsumeForgets(r) ==
    LET d == reqDay[r]
        s == Today(sessions[owner[r]], d)
        i == Today(ips[ip[r]], d)
        g == Today(global, d)
    IN  /\ pc[r] = "lock"
        /\ ~ LimitReached(s, i, g)
        /\ global' = OneMore(g)
        /\ remaining' = [remaining EXCEPT ![r] = ai_daily_limit - s.ai_turns]
        /\ pc' = [pc EXCEPT ![r] = "upstream"]
        /\ UNCHANGED <<sessions, ips, browser, token, canRetry, owner,
                       ip, reqDay, reqRun, stored, issued, day, run, met>>

\* Under the lock: counters of other days go, then the turn is granted ...
ConsumeTurn(r) ==
    LET d == reqDay[r]
        s == Today(sessions[owner[r]], d)
        i == Today(ips[ip[r]], d)
        g == Today(global, d)
    IN  /\ pc[r] = "lock"
        /\ ~ LimitReached(s, i, g)
        /\ sessions' = [u \in Uuids |-> IF u = owner[r] THEN OneMore(s)
                                        ELSE Today(sessions[u], d)]
        /\ ips' = [j \in Ips |-> IF j = ip[r] THEN OneMore(i)
                                 ELSE Today(ips[j], d)]
        /\ global' = OneMore(g)
        /\ remaining' = [remaining EXCEPT
                            ![r] = ai_daily_limit - (s.ai_turns + 1)]
        /\ pc' = [pc EXCEPT ![r] = "upstream"]
        /\ UNCHANGED <<browser, token, canRetry, owner, ip, reqDay,
                       reqRun, stored, issued, day, run, met>>

\* ... or refused.
DenyTurn(r) ==
    LET d == reqDay[r]
    IN  /\ pc[r] = "lock"
        /\ LimitReached(Today(sessions[owner[r]], d), Today(ips[ip[r]], d),
                        Today(global, d))
        /\ sessions' = [u \in Uuids |-> Today(sessions[u], d)]
        /\ ips' = [j \in Ips |-> Today(ips[j], d)]
        /\ global' = Today(global, d)
        /\ pc' = [pc EXCEPT ![r] = "tooMany"]
        /\ UNCHANGED <<browser, token, canRetry, serverVars, stored,
                       issued, day, run, met>>

\* The answer of OpenAI is streamed, or its error is passed on; a turn that
\* was granted is not given back.
Answer(r) ==
    /\ pc[r] = "upstream"
    /\ \E o \in {"ok", "upstreamError"} : pc' = [pc EXCEPT ![r] = o]
    /\ UNCHANGED <<browser, token, canRetry, serverVars, stored, issued,
                   usageVars, day, run, met>>

-----------------------------------------------------------------------------
(* The environment *)

Midnight ==
    /\ day < MaxDay
    /\ MidnightRace \/ \A r \in Requests : pc[r] # "lock"
    /\ day' = day + 1
    /\ UNCHANGED <<clientVars, serverVars, stored, issued, usageVars, run,
                   met>>

\* The counters live in memory only.
Restart ==
    /\ run < MaxRestarts
    /\ run' = run + 1
    /\ pc' = [r \in Requests |->
                IF pc[r] \in {"lock", "upstream"} THEN "gone" ELSE pc[r]]
    /\ met' = met \cup {r \in Requests : pc[r] \in Active}
    /\ sessions' = [u \in Uuids |-> Unused]
    /\ ips' = [i \in Ips |-> Unused]
    /\ global' = Unused
    /\ UNCHANGED <<browser, token, canRetry, serverVars, stored, issued,
                   day>>

Finished ==
    /\ \A r \in Requests : pc[r] \in Outcomes \/ pc[r] = "headers"
    /\ UNCHANGED vars

Request(r) ==
    \/ \E b \in Browsers : Ask(r, b)
    \/ UseSaved(r)
    \/ \E u \in Uuids : SignSession(r, u)
    \/ SaveSession(r)
    \/ Fail(r)
    \/ Unauthorized(r)
    \/ Refuse(r)
    \/ \E i \in Ips : ReadClock(r, i)
    \/ ConsumeTurn(r)
    \/ DenyTurn(r)
    \/ Answer(r)

Next ==
    \/ \E r \in Requests : Request(r)
    \/ Midnight
    \/ Restart
    \/ Finished

Spec == Init /\ [][Next]_vars

-----------------------------------------------------------------------------
(* Properties *)

\* The requests that the running server process granted a turn of day d.
Granted(d) ==
    {r \in Requests : /\ pc[r] \in {"upstream", "ok", "upstreamError"}
                      /\ reqRun[r] = run
                      /\ reqDay[r] = d}
GrantedTo(u, d) == {r \in Granted(d) : owner[r] = u}
GrantedAt(i, d) == {r \in Granted(d) : ip[r] = i}

\* config.rs:28-31: "Anonymous AI turns allowed per UTC day" and "AI turns
\* allowed across all anonymous sessions per UTC day": on no day does a server
\* process grant more turns than that to a session, to an address or in all.
DailyLimits ==
    \A d \in Days :
        /\ \A u \in Uuids : Cardinality(GrantedTo(u, d)) <= ai_daily_limit
        /\ \A i \in Ips : Cardinality(GrantedAt(i, d)) <= ai_daily_limit
        /\ Cardinality(Granted(d)) <= ai_global_daily_limit

\* session.rs:93-96, mod.rs:129-133: the `x-solpg-ai-remaining` header counts
\* down: two turns granted to a session on a day never report the same rest.
RemainingCountsDown ==
    \A d \in Days : \A u \in Uuids : \A q, r \in GrantedTo(u, d) :
        q # r => remaining[q] # remaining[r]

\* api.ts:41-58: after a restart changed the secret, forgetting the session and
\* trying once more is enough: a learner sees "unauthorized" only if the server
\* restarted while that request, or one of another tab of the browser, was
\* under way (the other tab may save a session of the old process).
RetryRecovers ==
    \A r \in Requests : pc[r] = "unauthorized" =>
        \E q \in met : browser[q] = browser[r]
=============================================================================
