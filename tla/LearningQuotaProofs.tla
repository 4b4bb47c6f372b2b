------------------------- MODULE LearningQuotaProofs -------------------------
(* The daily limits hold for every limit and any number of requests, sessions *)
(* and addresses, as long as no request is caught between clock and lock at  *)
(* midnight.                                                                 *)
EXTENDS LearningQuota, FiniteSetTheorems, TLAPS

\* Where a request has got to tells what is known of it.
RequestInv ==
    /\ \A r \in Requests : pc[r] \in {"signing", "send"} => token[r] \in Tokens
    /\ \A r \in Requests :
          pc[r] \in {"lock", "upstream", "ok", "upstreamError"} =>
              owner[r] \in Uuids /\ ip[r] \in Ips
    /\ \A r \in Requests : reqDay[r] <= day /\ reqRun[r] <= run
    /\ \A r \in Requests : pc[r] = "lock" => reqDay[r] = day /\ reqRun[r] = run
    /\ \A b \in Browsers : stored[b] # NoToken => stored[b] \in Tokens
    /\ \A r \in Requests : pc[r] \in Active => browser[r] \in Browsers

Turns(usage) == Today(usage, day).ai_turns

\* No counter is ahead of the clock, and those of today are exact.
CounterInv ==
    /\ \A u \in Uuids : sessions[u].day <= day
    /\ \A i \in Ips : ips[i].day <= day
    /\ global.day <= day
    /\ \A d \in Days : IsFiniteSet(Granted(d))
    /\ \A u \in Uuids : Cardinality(GrantedTo(u, day)) = Turns(sessions[u])
    /\ \A i \in Ips : Cardinality(GrantedAt(i, day)) = Turns(ips[i])
    /\ Cardinality(Granted(day)) = Turns(global)

QuotaInv == QuotaTypeOK /\ RequestInv /\ CounterInv /\ DailyLimits

\* Initially nothing was granted.
LEMMA QuotaInit == Init => QuotaInv
<1> SUFFICES ASSUME Init PROVE QuotaInv
  OBVIOUS
<1> USE QuotaAssumption
<1>1. QuotaTypeOK
  BY DEF Init, QuotaTypeOK, Active, Outcomes, DailyUsage, Unused, Days, Runs
<1>2. RequestInv
  BY DEF Init, RequestInv, Active
<1>3. \A d \in Days : Granted(d) = {}
  BY DEF Init, Granted
<1>4. \A d \in Days : /\ \A u \in Uuids : GrantedTo(u, d) = {}
                      /\ \A i \in Ips : GrantedAt(i, d) = {}
  BY <1>3 DEF GrantedTo, GrantedAt
<1>5. day \in Days /\ Turns(Unused) = 0 /\ Unused.day <= day
  BY DEF Init, Days, Turns, Today, Unused
<1>6. IsFiniteSet({}) /\ Cardinality({}) = 0
  BY FS_EmptySet
<1>7. CounterInv
  BY <1>3, <1>4, <1>5, <1>6 DEF CounterInv, Init
<1>8. DailyLimits
  BY <1>3, <1>4, <1>6 DEF DailyLimits
<1>9. QED
  BY <1>1, <1>2, <1>7, <1>8 DEF QuotaInv

\* Steps that grant nothing and leave counters, clock and process alone keep
\* counters and limits exact.
LEMMA NothingGranted ==
    ASSUME QuotaInv, UNCHANGED <<usageVars, day, run>>,
           \A d \in Days : Granted(d)' = Granted(d),
           \A r \in Requests : pc[r] \in {"upstream", "ok", "upstreamError"} =>
               owner'[r] = owner[r] /\ ip'[r] = ip[r]
    PROVE  CounterInv' /\ DailyLimits'
<1>0. day \in Days
  BY DEF QuotaInv, QuotaTypeOK
<1>1. \A d \in Days : /\ \A u \in Uuids : GrantedTo(u, d)' = GrantedTo(u, d)
                      /\ \A i \in Ips : GrantedAt(i, d)' = GrantedAt(i, d)
  BY DEF GrantedTo, GrantedAt, Granted
<1>2. CounterInv'
  BY <1>0, <1>1 DEF CounterInv, QuotaInv, Turns, usageVars
<1>3. DailyLimits'
  BY <1>1 DEF DailyLimits, QuotaInv
<1>4. QED
  BY <1>2, <1>3

\* Granting a turn counts it once for the session, the address and in all.
LEMMA TurnCounted ==
    ASSUME QuotaInv, NEW r \in Requests, ConsumeTurn(r)
    PROVE  CounterInv' /\ DailyLimits'
<1> USE QuotaAssumption
<1>0. QuotaTypeOK /\ RequestInv /\ CounterInv /\ DailyLimits
  BY DEF QuotaInv
<1>1. /\ pc[r] = "lock" /\ pc'[r] = "upstream" /\ reqDay[r] = day
      /\ reqRun[r] = run /\ owner[r] \in Uuids /\ ip[r] \in Ips
      /\ \A q \in Requests : q # r => pc'[q] = pc[q]
      /\ UNCHANGED <<owner, ip, reqDay, reqRun, day, run>>
      /\ day \in Days
  BY <1>0 DEF ConsumeTurn, QuotaTypeOK, RequestInv
<1>2. \A d \in Days : Granted(d)' = IF d = day THEN Granted(d) \cup {r}
                                               ELSE Granted(d)
  BY <1>1 DEF Granted
<1>3. \A d \in Days : r \notin Granted(d)
  BY <1>1 DEF Granted
<1>4. \A d \in Days : \A u \in Uuids :
         GrantedTo(u, d)' = IF d = day /\ u = owner[r]
                            THEN GrantedTo(u, d) \cup {r} ELSE GrantedTo(u, d)
  BY <1>1, <1>2 DEF GrantedTo
<1>5. \A d \in Days : \A i \in Ips :
         GrantedAt(i, d)' = IF d = day /\ i = ip[r]
                            THEN GrantedAt(i, d) \cup {r} ELSE GrantedAt(i, d)
  BY <1>1, <1>2 DEF GrantedAt
<1>6. \A d \in Days : IsFiniteSet(Granted(d))
  BY <1>0 DEF CounterInv
<1>7. \A d \in Days : \A u \in Uuids : IsFiniteSet(GrantedTo(u, d))
                                       /\ r \notin GrantedTo(u, d)
  BY <1>3, <1>6, FS_Subset DEF GrantedTo
<1>8. \A d \in Days : \A i \in Ips : IsFiniteSet(GrantedAt(i, d))
                                     /\ r \notin GrantedAt(i, d)
  BY <1>3, <1>6, FS_Subset DEF GrantedAt
<1>9a. ASSUME NEW d \in Days, d = day
       PROVE  Cardinality(Granted(d)') = Turns(global) + 1
  <2>1. Cardinality(Granted(d)') = Cardinality(Granted(d)) + 1
    BY <1>2, <1>3, <1>6, <1>9a, FS_AddElement
  <2>2. QED
    BY <1>0, <1>9a, <2>1 DEF CounterInv
<1>9b. ASSUME NEW d \in Days, d = day, NEW u \in Uuids, u = owner[r]
       PROVE  Cardinality(GrantedTo(u, d)') = Turns(sessions[u]) + 1
  <2>1. Cardinality(GrantedTo(u, d)') = Cardinality(GrantedTo(u, d)) + 1
    BY <1>4, <1>7, <1>9b, FS_AddElement
  <2>2. QED
    BY <1>0, <1>9b, <2>1 DEF CounterInv
<1>9c. ASSUME NEW d \in Days, d = day, NEW i \in Ips, i = ip[r]
       PROVE  Cardinality(GrantedAt(i, d)') = Turns(ips[i]) + 1
  <2>1. Cardinality(GrantedAt(i, d)') = Cardinality(GrantedAt(i, d)) + 1
    BY <1>5, <1>8, <1>9c, FS_AddElement
  <2>2. QED
    BY <1>0, <1>9c, <2>1 DEF CounterInv
<1>10. /\ Turns(global) < ai_global_daily_limit
       /\ Turns(sessions[owner[r]]) < ai_daily_limit
       /\ Turns(ips[ip[r]]) < ai_daily_limit
       /\ Turns(global) \in Nat /\ Turns(sessions[owner[r]]) \in Nat
       /\ Turns(ips[ip[r]]) \in Nat
  BY <1>0, <1>1 DEF ConsumeTurn, LimitReached, Turns, Today, QuotaTypeOK,
                    DailyUsage
<1>11. DailyLimits'
  <2>1. ASSUME NEW d \in Days, NEW u \in Uuids
        PROVE  Cardinality(GrantedTo(u, d)') <= ai_daily_limit
    <3>1. CASE d = day /\ u = owner[r]
      BY <1>9b, <1>10, <3>1
    <3>2. CASE ~ (d = day /\ u = owner[r])
      BY <1>0, <1>4, <3>2 DEF DailyLimits
    <3>3. QED
      BY <3>1, <3>2
  <2>2. ASSUME NEW d \in Days, NEW i \in Ips
        PROVE  Cardinality(GrantedAt(i, d)') <= ai_daily_limit
    <3>1. CASE d = day /\ i = ip[r]
      BY <1>9c, <1>10, <3>1
    <3>2. CASE ~ (d = day /\ i = ip[r])
      BY <1>0, <1>5, <3>2 DEF DailyLimits
    <3>3. QED
      BY <3>1, <3>2
  <2>3. ASSUME NEW d \in Days
        PROVE  Cardinality(Granted(d)') <= ai_global_daily_limit
    <3>1. CASE d = day
      BY <1>9a, <1>10, <3>1
    <3>2. CASE d # day
      BY <1>0, <1>2, <3>2 DEF DailyLimits
    <3>3. QED
      BY <3>1, <3>2
  <2>4. QED
    BY <2>1, <2>2, <2>3 DEF DailyLimits
<1>12. CounterInv'
  <2>1. /\ \A u \in Uuids : sessions'[u].day = day
              /\ Turns(sessions[u])' = IF u = owner[r] THEN Turns(sessions[u]) + 1
                                       ELSE Turns(sessions[u])
        /\ \A i \in Ips : ips'[i].day = day
              /\ Turns(ips[i])' = IF i = ip[r] THEN Turns(ips[i]) + 1
                                  ELSE Turns(ips[i])
        /\ global'.day = day /\ Turns(global)' = Turns(global) + 1
    BY <1>0, <1>1 DEF ConsumeTurn, Turns, Today, OneMore, QuotaTypeOK,
                      DailyUsage
  <2>2. \A d \in Days : IsFiniteSet(Granted(d)')
    BY <1>2, <1>6, FS_AddElement
  <2>3. day \in Nat
    BY <1>1 DEF Days
  <2>4. ASSUME NEW d \in Days, d = day, NEW u \in Uuids
        PROVE  Cardinality(GrantedTo(u, d)') = Turns(sessions[u])'
    BY <1>0, <1>4, <1>9b, <2>1, <2>4 DEF CounterInv
  <2>5. ASSUME NEW d \in Days, d = day, NEW i \in Ips
        PROVE  Cardinality(GrantedAt(i, d)') = Turns(ips[i])'
    BY <1>0, <1>5, <1>9c, <2>1, <2>5 DEF CounterInv
  <2>6. ASSUME NEW d \in Days, d = day
        PROVE  Cardinality(Granted(d)') = Turns(global)'
    BY <1>9a, <2>1, <2>6
  <2>7. /\ \A u \in Uuids : Cardinality(GrantedTo(u, day)') = Turns(sessions[u])'
        /\ \A i \in Ips : Cardinality(GrantedAt(i, day)') = Turns(ips[i])'
        /\ Cardinality(Granted(day)') = Turns(global)'
    BY <1>1, <2>4, <2>5, <2>6
  <2>8. QED
    BY <1>1, <2>1, <2>2, <2>3, <2>7 DEF CounterInv
<1>13. QED
  BY <1>11, <1>12

\* Refusing a turn forgets the counters of other days and changes no count.
LEMMA DenyKeepsCounts ==
    ASSUME QuotaInv, NEW r \in Requests, DenyTurn(r)
    PROVE  CounterInv' /\ DailyLimits'
<1> USE QuotaAssumption
<1>0. QuotaTypeOK /\ RequestInv /\ CounterInv /\ DailyLimits
  BY DEF QuotaInv
<1>1. /\ reqDay[r] = day /\ pc[r] = "lock" /\ day \in Days /\ day \in Nat
      /\ UNCHANGED <<owner, ip, reqDay, reqRun, day, run>>
      /\ pc' = [pc EXCEPT ![r] = "tooMany"]
  BY <1>0 DEF DenyTurn, RequestInv, QuotaTypeOK, serverVars, Days
<1>2. \A d \in Days : Granted(d)' = Granted(d)
  BY <1>0, <1>1 DEF Granted, QuotaTypeOK
<1>3. \A d \in Days : /\ \A u \in Uuids : GrantedTo(u, d)' = GrantedTo(u, d)
                      /\ \A i \in Ips : GrantedAt(i, d)' = GrantedAt(i, d)
  BY <1>1, <1>2 DEF GrantedTo, GrantedAt
<1>4. /\ \A u \in Uuids : sessions'[u].day = day
                          /\ Turns(sessions[u])' = Turns(sessions[u])
      /\ \A i \in Ips : ips'[i].day = day /\ Turns(ips[i])' = Turns(ips[i])
      /\ global'.day = day /\ Turns(global)' = Turns(global)
  BY <1>0, <1>1 DEF DenyTurn, Turns, Today, QuotaTypeOK, DailyUsage
<1>5. DailyLimits'
  BY <1>0, <1>2, <1>3 DEF DailyLimits
<1>6. CounterInv'
  BY <1>0, <1>1, <1>2, <1>3, <1>4 DEF CounterInv
<1>7. QED
  BY <1>5, <1>6

\* A new day starts with every count at zero, whatever the maps still hold.
LEMMA MidnightKeepsCounts ==
    ASSUME QuotaInv, Midnight
    PROVE  CounterInv' /\ DailyLimits'
<1> USE QuotaAssumption
<1>0. QuotaTypeOK /\ RequestInv /\ CounterInv /\ DailyLimits
  BY DEF QuotaInv
<1>1. /\ day \in Nat /\ day' = day + 1 /\ day' \in Days
      /\ UNCHANGED <<pc, owner, ip, reqDay, reqRun, run, sessions, ips, global>>
  BY <1>0 DEF Midnight, QuotaTypeOK, Days, clientVars, serverVars, usageVars
<1>2. \A d \in Days : Granted(d)' = Granted(d)
  BY <1>1 DEF Granted
<1>3. \A d \in Days : /\ \A u \in Uuids : GrantedTo(u, d)' = GrantedTo(u, d)
                      /\ \A i \in Ips : GrantedAt(i, d)' = GrantedAt(i, d)
  BY <1>1, <1>2 DEF GrantedTo, GrantedAt
<1>4. DailyLimits'
  BY <1>0, <1>2, <1>3 DEF DailyLimits
<1>5. \A r \in Requests : reqDay[r] \in Nat /\ reqDay[r] <= day
  BY <1>0 DEF RequestInv, QuotaTypeOK, Days
<1>6. ASSUME NEW d \in Days, d = day + 1
      PROVE  Granted(d)' = {}
  BY <1>1, <1>5, <1>6 DEF Granted
<1>7. /\ Granted(day)' = {}
      /\ \A u \in Uuids : GrantedTo(u, day)' = {}
      /\ \A i \in Ips : GrantedAt(i, day)' = {}
  BY <1>1, <1>6 DEF GrantedTo, GrantedAt
<1>8. /\ \A u \in Uuids : sessions'[u].day <= day'
                          /\ Turns(sessions[u])' = 0
      /\ \A i \in Ips : ips'[i].day <= day' /\ Turns(ips[i])' = 0
      /\ global'.day <= day' /\ Turns(global)' = 0
  BY <1>0, <1>1 DEF CounterInv, Turns, Today, QuotaTypeOK, DailyUsage, Days
<1>9. CounterInv'
  BY <1>0, <1>2, <1>7, <1>8, FS_EmptySet DEF CounterInv
<1>10. QED
  BY <1>4, <1>9

\* A new process has granted nothing and counts nothing.
LEMMA RestartKeepsCounts ==
    ASSUME QuotaInv, Restart
    PROVE  CounterInv' /\ DailyLimits'
<1> USE QuotaAssumption
<1>0. QuotaTypeOK /\ RequestInv
  BY DEF QuotaInv
<1>1. /\ run \in Nat /\ run' = run + 1 /\ UNCHANGED <<reqRun, day>>
      /\ day \in Nat /\ day \in Days
      /\ \A r \in Requests : reqRun[r] \in Nat /\ reqRun[r] <= run
  BY <1>0 DEF Restart, QuotaTypeOK, Runs, Days, RequestInv, serverVars
<1>2. \A d : Granted(d)' = {}
  BY <1>1 DEF Granted
<1>3. \A d : /\ \A u \in Uuids : GrantedTo(u, d)' = {}
             /\ \A i \in Ips : GrantedAt(i, d)' = {}
  BY <1>2 DEF GrantedTo, GrantedAt
<1>4. IsFiniteSet({}) /\ Cardinality({}) = 0
  BY FS_EmptySet
<1>5. DailyLimits'
  BY <1>2, <1>3, <1>4 DEF DailyLimits
<1>6. /\ \A u \in Uuids : sessions'[u].day <= day'
                          /\ Turns(sessions[u])' = 0
      /\ \A i \in Ips : ips'[i].day <= day' /\ Turns(ips[i])' = 0
      /\ global'.day <= day' /\ Turns(global)' = 0
  BY <1>1 DEF Restart, Turns, Today, Unused
<1>7. CounterInv'
  BY <1>2, <1>3, <1>4, <1>6 DEF CounterInv
<1>8. QED
  BY <1>5, <1>7

\* Types and request facts are kept by every step.
LEMMA QuotaTypeStep ==
    ASSUME ~ MidnightRace, QuotaInv, Next
    PROVE  QuotaTypeOK' /\ RequestInv'
<1> USE QuotaAssumption
<1>0. QuotaTypeOK /\ RequestInv
  BY DEF QuotaInv
<1> DEFINE Goal == QuotaTypeOK' /\ RequestInv'
<1>1. ASSUME NEW r \in Requests, NEW b \in Browsers, Ask(r, b)
      PROVE  Goal
  BY <1>0, <1>1 DEF Ask, QuotaTypeOK, RequestInv, serverVars, usageVars,
                    Active, Outcomes
<1>2. ASSUME NEW r \in Requests, UseSaved(r)
      PROVE  Goal
  BY <1>0, <1>2 DEF UseSaved, QuotaTypeOK, RequestInv, serverVars, usageVars,
                    Active, Outcomes
<1>3. ASSUME NEW r \in Requests, NEW u \in Uuids, SignSession(r, u)
      PROVE  Goal
  <2>1. [id |-> u, secret |-> Secret] \in Tokens
    BY <1>0 DEF Tokens, Secret, Runs, QuotaTypeOK
  <2>2. QED
    BY <1>0, <1>3, <2>1 DEF SignSession, QuotaTypeOK, RequestInv, serverVars,
                            usageVars, Active, Outcomes
<1>4. ASSUME NEW r \in Requests, SaveSession(r)
      PROVE  Goal
  BY <1>0, <1>4 DEF SaveSession, QuotaTypeOK, RequestInv, serverVars,
                    usageVars, Active, Outcomes
<1>5. ASSUME NEW r \in Requests, Unauthorized(r)
      PROVE  Goal
  BY <1>0, <1>5 DEF Unauthorized, QuotaTypeOK, RequestInv, serverVars,
                    usageVars, Active, Outcomes
<1>15. ASSUME NEW r \in Requests, Fail(r)
       PROVE  Goal
  BY <1>0, <1>15 DEF Fail, QuotaTypeOK, RequestInv, serverVars, usageVars,
                     Active, Outcomes
<1>6. ASSUME NEW r \in Requests, Refuse(r)
      PROVE  Goal
  BY <1>0, <1>6 DEF Refuse, QuotaTypeOK, RequestInv, serverVars, usageVars,
                    Active, Outcomes
<1>7. ASSUME NEW r \in Requests, NEW i \in Ips, ReadClock(r, i)
      PROVE  Goal
  <2>1. token[r].id \in Uuids
    BY <1>0, <1>7 DEF ReadClock, RequestInv, Tokens
  <2>2. day \in Nat /\ run \in Nat
    BY <1>0 DEF QuotaTypeOK, Days, Runs
  <2>3. QED
    BY <1>0, <1>7, <2>1, <2>2 DEF ReadClock, QuotaTypeOK, RequestInv,
                                  usageVars, Active, Outcomes
<1>8. ASSUME NEW r \in Requests, ConsumeTurn(r)
      PROVE  Goal
  <2>1. reqDay[r] \in Days /\ owner[r] \in Uuids /\ ip[r] \in Ips
    BY <1>0, <1>8 DEF ConsumeTurn, QuotaTypeOK, RequestInv
  <2>2. \A e \in DailyUsage : Today(e, reqDay[r]) \in DailyUsage
                              /\ OneMore(Today(e, reqDay[r])) \in DailyUsage
    BY <2>1 DEF DailyUsage, Today, OneMore
  <2>3. ai_daily_limit - (Today(sessions[owner[r]], reqDay[r]).ai_turns + 1)
           \in Nat
    BY <1>0, <1>8, <2>1, <2>2 DEF ConsumeTurn, LimitReached, QuotaTypeOK,
                                  DailyUsage
  <2>4. QED
    BY <1>0, <1>8, <2>1, <2>2, <2>3 DEF ConsumeTurn, QuotaTypeOK, RequestInv,
                                        Active, Outcomes
<1>9. ASSUME NEW r \in Requests, DenyTurn(r)
      PROVE  Goal
  <2>1. reqDay[r] \in Days
    BY <1>0 DEF QuotaTypeOK
  <2>2. \A e \in DailyUsage : Today(e, reqDay[r]) \in DailyUsage
    BY <2>1 DEF DailyUsage, Today
  <2>3. QED
    BY <1>0, <1>9, <2>2 DEF DenyTurn, QuotaTypeOK, RequestInv, serverVars,
                            Active, Outcomes
<1>10. ASSUME NEW r \in Requests, Answer(r)
       PROVE  Goal
  BY <1>0, <1>10 DEF Answer, QuotaTypeOK, RequestInv, serverVars, usageVars,
                     Active, Outcomes
<1>11. ASSUME Midnight
       PROVE  Goal
  BY <1>0, <1>11 DEF Midnight, QuotaTypeOK, RequestInv, clientVars,
                     serverVars, usageVars, Days
<1>12. ASSUME Restart
       PROVE  Goal
  <2>1. Unused \in DailyUsage
    BY DEF Unused, DailyUsage, Days
  <2>2. QED
    BY <1>0, <1>12, <2>1 DEF Restart, QuotaTypeOK, RequestInv, serverVars,
                             Runs, Active, Outcomes
<1>13. ASSUME Finished
       PROVE  Goal
  BY <1>0, <1>13 DEF Finished, vars, clientVars, serverVars, usageVars,
                     QuotaTypeOK, RequestInv
<1>14. QED
  BY <1>1, <1>2, <1>3, <1>4, <1>5, <1>6, <1>7, <1>8, <1>9, <1>10, <1>11,
     <1>12, <1>13, <1>15 DEF Next, Request

\* The invariant is kept by every step.
LEMMA QuotaStep ==
    ASSUME ~ MidnightRace, QuotaInv, [Next]_vars
    PROVE  QuotaInv'
<1>0. QuotaTypeOK
  BY DEF QuotaInv
<1>1. ASSUME NEW r \in Requests,
             \/ \E b \in Browsers : Ask(r, b)
             \/ UseSaved(r) \/ (\E u \in Uuids : SignSession(r, u))
             \/ SaveSession(r) \/ Fail(r) \/ Unauthorized(r) \/ Refuse(r)
             \/ (\E i \in Ips : ReadClock(r, i)) \/ Answer(r)
      PROVE  CounterInv' /\ DailyLimits'
  <2>1. UNCHANGED <<usageVars, day, run>>
    BY <1>1 DEF Ask, UseSaved, SignSession, SaveSession, Fail, Unauthorized,
                Refuse, ReadClock, Answer
  <2>2. \A q \in Requests : pc[q] \in {"upstream", "ok", "upstreamError"} =>
          owner'[q] = owner[q] /\ ip'[q] = ip[q] /\ reqDay'[q] = reqDay[q]
          /\ reqRun'[q] = reqRun[q]
    BY <1>0, <1>1 DEF Ask, UseSaved, SignSession, SaveSession, Fail, Unauthorized,
                      Refuse, ReadClock, Answer, serverVars, QuotaTypeOK
  <2>3. \A q \in Requests :
          pc'[q] \in {"upstream", "ok", "upstreamError"} <=>
             pc[q] \in {"upstream", "ok", "upstreamError"}
    BY <1>0, <1>1 DEF Ask, UseSaved, SignSession, SaveSession, Fail, Unauthorized,
                      Refuse, ReadClock, Answer, QuotaTypeOK
  <2>4. \A d \in Days : Granted(d)' = Granted(d)
    BY <2>1, <2>2, <2>3 DEF Granted
  <2>5. QED
    BY <2>1, <2>2, <2>4, NothingGranted
<1>2. ASSUME UNCHANGED vars
      PROVE  QuotaInv'
  <2>1. \A d \in Days : Granted(d)' = Granted(d)
    BY <1>2 DEF Granted, vars, clientVars, serverVars
  <2>2. CounterInv' /\ DailyLimits'
    BY <1>2, <2>1, NothingGranted DEF vars, serverVars
  <2>3. QuotaTypeOK' /\ RequestInv'
    BY <1>2 DEF vars, clientVars, serverVars, usageVars, QuotaTypeOK,
                RequestInv, QuotaInv
  <2>4. QED
    BY <2>2, <2>3 DEF QuotaInv
<1>3. ASSUME Next
      PROVE  QuotaInv'
  <2>1. CounterInv' /\ DailyLimits'
    <3>1. CASE Finished
      BY <1>2, <3>1 DEF Finished, QuotaInv
    <3>2. QED
      BY <1>1, <1>3, <3>1, TurnCounted, DenyKeepsCounts, MidnightKeepsCounts,
         RestartKeepsCounts DEF Next, Request
  <2>2. QED
    BY <1>3, <2>1, QuotaTypeStep DEF QuotaInv
<1>4. QED
  BY <1>2, <1>3

\* session.rs:62-97, config.rs:28-31: for all limits, as long as no request
\* waits for the lock across midnight, no server process grants more turns on
\* a day than the limits allow, to a session, to an address or in all.
THEOREM LimitsHold ==
    ASSUME ~ MidnightRace
    PROVE  Spec => []DailyLimits
<1>1. QuotaInv /\ [Next]_vars => QuotaInv'
  BY QuotaStep
<1>2. QuotaInv => DailyLimits
  BY DEF QuotaInv
<1>3. QED
  BY <1>1, <1>2, QuotaInit, PTL DEF Spec

\* session.rs:96: under the same condition the types hold; the unsigned rest of
\* the turns, ai_daily_limit minus the turns used, never underflows.
THEOREM QuotaTyped ==
    ASSUME ~ MidnightRace
    PROVE  Spec => []QuotaTypeOK
<1>1. QuotaInv /\ [Next]_vars => QuotaInv'
  BY QuotaStep
<1>2. QuotaInv => QuotaTypeOK
  BY DEF QuotaInv
<1>3. QED
  BY <1>1, <1>2, QuotaInit, PTL DEF Spec

-----------------------------------------------------------------------------
(* The rest of the turns.                                                    *)

\* Who was granted a turn today was told at least what is left now.
RestInv ==
    \A u \in Uuids : \A r \in GrantedTo(u, day) :
        remaining[r] + Turns(sessions[u]) >= ai_daily_limit

RestFalls == RestInv /\ RemainingCountsDown

\* Steps that change neither grants nor counters of today leave the rest.
LEMMA RestKept ==
    ASSUME RestFalls, day' = day,
           \A d \in Days : \A u \in Uuids : GrantedTo(u, d)' = GrantedTo(u, d),
           \A u \in Uuids : Turns(sessions[u])' = Turns(sessions[u]),
           remaining' = remaining, day \in Days
    PROVE  RestFalls'
  BY DEF RestFalls, RestInv, RemainingCountsDown

\* The next turn tells less than every turn of the day before it.
LEMMA RestOfTurn ==
    ASSUME QuotaInv, RestFalls, NEW r \in Requests, ConsumeTurn(r)
    PROVE  RestFalls'
<1> USE QuotaAssumption
<1>0. QuotaTypeOK /\ RequestInv
  BY DEF QuotaInv
<1>1. /\ pc[r] = "lock" /\ pc'[r] = "upstream" /\ reqDay[r] = day
      /\ reqRun[r] = run /\ owner[r] \in Uuids
      /\ \A q \in Requests : q # r => pc'[q] = pc[q]
      /\ UNCHANGED <<owner, ip, reqDay, reqRun, day, run>>
      /\ day \in Days
  BY <1>0 DEF ConsumeTurn, QuotaTypeOK, RequestInv
<1>2. \A d \in Days : \A u \in Uuids :
         GrantedTo(u, d)' = IF d = day /\ u = owner[r]
                            THEN GrantedTo(u, d) \cup {r} ELSE GrantedTo(u, d)
  BY <1>1 DEF Granted, GrantedTo
<1>3. \A d \in Days : \A u \in Uuids : r \notin GrantedTo(u, d)
  BY <1>1 DEF Granted, GrantedTo
<1>4. /\ \A u \in Uuids : Turns(sessions[u]) \in Nat
      /\ \A q \in Requests : remaining[q] \in Nat
  BY <1>0, <1>1 DEF Turns, Today, QuotaTypeOK, DailyUsage
<1>5. /\ remaining'[r] = ai_daily_limit - (Turns(sessions[owner[r]]) + 1)
      /\ \A q \in Requests : q # r => remaining'[q] = remaining[q]
  BY <1>0, <1>1 DEF ConsumeTurn, Turns, QuotaTypeOK
<1>6. \A u \in Uuids : Turns(sessions[u])' =
          IF u = owner[r] THEN Turns(sessions[u]) + 1 ELSE Turns(sessions[u])
  BY <1>0, <1>1 DEF ConsumeTurn, Turns, Today, OneMore, QuotaTypeOK, DailyUsage
<1>7. \A d \in Days : \A u \in Uuids : GrantedTo(u, d) \subseteq Requests
  BY DEF Granted, GrantedTo
<1>8. RestInv'
  <2> SUFFICES ASSUME NEW u \in Uuids, NEW q \in GrantedTo(u, day)'
               PROVE  remaining'[q] + Turns(sessions[u])' >= ai_daily_limit
    BY <1>1 DEF RestInv
  <2>1. CASE q = r
    <3>1. u = owner[r]
      BY <1>1, <1>2, <1>3, <2>1
    <3> QED BY <1>1, <1>4, <1>5, <1>6, <2>1, <3>1
  <2>2. CASE q # r
    <3>1. q \in GrantedTo(u, day)
      BY <1>1, <1>2, <2>2
    <3>2. remaining[q] + Turns(sessions[u]) >= ai_daily_limit
      BY <3>1 DEF RestFalls, RestInv
    <3>3. q \in Requests
      BY <1>1, <1>7, <3>1
    <3> QED BY <1>4, <1>5, <1>6, <2>2, <3>2, <3>3
  <2> QED BY <2>1, <2>2
<1>9. RemainingCountsDown'
  <2>0. ASSUME NEW p \in GrantedTo(owner[r], day)
        PROVE  p \in Requests /\ p # r /\ remaining[p] # remaining'[r]
    <3>1. remaining[p] + Turns(sessions[owner[r]]) >= ai_daily_limit
      BY <1>1, <2>0 DEF RestFalls, RestInv
    <3>2. p \in Requests /\ p # r
      BY <1>1, <1>3, <1>7, <2>0
    <3> QED BY <1>1, <1>4, <1>5, <3>1, <3>2
  <2> SUFFICES ASSUME NEW d \in Days, NEW u \in Uuids,
                      NEW p \in GrantedTo(u, d)', NEW q \in GrantedTo(u, d)', p # q
               PROVE  remaining'[p] # remaining'[q]
    BY DEF RemainingCountsDown
  <2>1. CASE p = r
    <3>1. q \in GrantedTo(owner[r], day)
      BY <1>2, <1>3, <2>1
    <3> QED BY <1>5, <2>0, <2>1, <3>1
  <2>2. CASE q = r
    <3>1. p \in GrantedTo(owner[r], day)
      BY <1>2, <1>3, <2>2
    <3> QED BY <1>5, <2>0, <2>2, <3>1
  <2>3. CASE p # r /\ q # r
    <3>1. p \in GrantedTo(u, d) /\ q \in GrantedTo(u, d)
      BY <1>2, <2>3
    <3>2. remaining[p] # remaining[q]
      BY <3>1 DEF RestFalls, RemainingCountsDown
    <3>3. p \in Requests /\ q \in Requests
      BY <1>7, <3>1
    <3> QED BY <1>5, <2>3, <3>2, <3>3
  <2> QED BY <2>1, <2>2, <2>3
<1> QED BY <1>8, <1>9 DEF RestFalls

\* Where nothing is granted today, nothing can be told twice today.
LEMMA RestAnew ==
    ASSUME RestFalls, remaining' = remaining, day' \in Days,
           \A u \in Uuids : GrantedTo(u, day)' = {},
           \A d \in Days : \A u \in Uuids : GrantedTo(u, d)' \subseteq GrantedTo(u, d)
    PROVE  RestFalls'
  BY DEF RestFalls, RestInv, RemainingCountsDown

\* What was told is never less than what is left, after any step.
LEMMA RestStep ==
    ASSUME ~ MidnightRace, QuotaInv, RestFalls, [Next]_vars
    PROVE  RestFalls'
<1> USE QuotaAssumption
<1>0. QuotaTypeOK /\ RequestInv /\ day \in Days /\ day \in Nat
  BY DEF QuotaInv, QuotaTypeOK, Days
<1>1. ASSUME NEW r \in Requests,
             \/ \E b \in Browsers : Ask(r, b)
             \/ UseSaved(r) \/ (\E u \in Uuids : SignSession(r, u))
             \/ SaveSession(r) \/ Fail(r) \/ Unauthorized(r) \/ Refuse(r)
             \/ (\E i \in Ips : ReadClock(r, i)) \/ Answer(r)
      PROVE  RestFalls'
  <2>1. UNCHANGED <<usageVars, day, run, remaining>>
    BY <1>1 DEF Ask, UseSaved, SignSession, SaveSession, Fail, Unauthorized,
                Refuse, ReadClock, Answer, serverVars
  <2>2. \A q \in Requests : pc[q] \in {"upstream", "ok", "upstreamError"} =>
          owner'[q] = owner[q] /\ reqDay'[q] = reqDay[q] /\ reqRun'[q] = reqRun[q]
    BY <1>0, <1>1 DEF Ask, UseSaved, SignSession, SaveSession, Fail, Unauthorized,
                      Refuse, ReadClock, Answer, serverVars, QuotaTypeOK
  <2>3. \A q \in Requests :
          pc'[q] \in {"upstream", "ok", "upstreamError"} <=>
             pc[q] \in {"upstream", "ok", "upstreamError"}
    BY <1>0, <1>1 DEF Ask, UseSaved, SignSession, SaveSession, Fail, Unauthorized,
                      Refuse, ReadClock, Answer, QuotaTypeOK
  <2>4. \A d \in Days : \A u \in Uuids : GrantedTo(u, d)' = GrantedTo(u, d)
    BY <2>1, <2>2, <2>3 DEF Granted, GrantedTo
  <2> QED BY <1>0, <2>1, <2>4, RestKept DEF usageVars, Turns
<1>2. ASSUME UNCHANGED vars
      PROVE  RestFalls'
  <2>1. \A d \in Days : \A u \in Uuids : GrantedTo(u, d)' = GrantedTo(u, d)
    BY <1>2 DEF Granted, GrantedTo, vars, clientVars, serverVars
  <2> QED BY <1>0, <1>2, <2>1, RestKept DEF vars, serverVars, usageVars, Turns
<1>3. ASSUME NEW r \in Requests, DenyTurn(r)
      PROVE  RestFalls'
  <2>1. /\ reqDay[r] = day /\ pc[r] = "lock"
        /\ UNCHANGED <<owner, reqDay, reqRun, remaining, day, run>>
        /\ pc' = [pc EXCEPT ![r] = "tooMany"]
    BY <1>0, <1>3 DEF DenyTurn, RequestInv, serverVars
  <2>2. \A d \in Days : \A u \in Uuids : GrantedTo(u, d)' = GrantedTo(u, d)
    BY <1>0, <2>1 DEF Granted, GrantedTo, QuotaTypeOK
  <2>3. \A u \in Uuids : Turns(sessions[u])' = Turns(sessions[u])
    BY <1>0, <1>3, <2>1 DEF DenyTurn, Turns, Today, QuotaTypeOK, DailyUsage
  <2> QED BY <1>0, <2>1, <2>2, <2>3, RestKept
<1>4. ASSUME Midnight
      PROVE  RestFalls'
  <2>1. /\ day' = day + 1 /\ day' \in Days
        /\ UNCHANGED <<pc, owner, reqDay, reqRun, run, remaining>>
    BY <1>0, <1>4 DEF Midnight, QuotaTypeOK, Days, clientVars, serverVars
  <2>2. \A r \in Requests : reqDay[r] \in Nat /\ reqDay[r] <= day
    BY <1>0 DEF RequestInv, QuotaTypeOK, Days
  <2>3. \A u \in Uuids : GrantedTo(u, day)' = {}
    BY <1>0, <2>1, <2>2 DEF Granted, GrantedTo
  <2>4. \A d \in Days : \A u \in Uuids : GrantedTo(u, d)' = GrantedTo(u, d)
    BY <2>1 DEF Granted, GrantedTo
  <2> QED BY <2>1, <2>3, <2>4, RestAnew
<1>5. ASSUME Restart
      PROVE  RestFalls'
  <2>1. /\ run \in Nat /\ run' = run + 1
        /\ UNCHANGED <<reqRun, day, remaining>>
        /\ \A r \in Requests : reqRun[r] \in Nat /\ reqRun[r] <= run
    BY <1>0, <1>5 DEF Restart, QuotaTypeOK, Runs, RequestInv, serverVars
  <2>2. \A d : \A u \in Uuids : GrantedTo(u, d)' = {}
    BY <2>1 DEF Granted, GrantedTo
  <2> QED BY <1>0, <2>1, <2>2, RestAnew
<1>6. ASSUME NEW r \in Requests, ConsumeTurn(r)
      PROVE  RestFalls'
  BY <1>6, RestOfTurn
<1> QED
  BY <1>1, <1>2, <1>3, <1>4, <1>5, <1>6 DEF Next, Request, Finished

\* session.rs:88-97: whatever the limits and the order in which answers arrive,
\* no two turns of a session on one day tell the learner the same rest, as long
\* as no request waits for the lock across midnight.
THEOREM RestCountsDown ==
    ASSUME ~ MidnightRace
    PROVE  Spec => []RemainingCountsDown
<1>1. Init => QuotaInv /\ RestFalls
  <2>1. Init => \A d \in Days : \A u \in Uuids : GrantedTo(u, d) = {}
    BY DEF Init, Granted, GrantedTo
  <2>2. Init => day \in Days
    BY QuotaAssumption DEF Init, Days
  <2> QED BY <2>1, <2>2, QuotaInit DEF RestFalls, RestInv, RemainingCountsDown
<1>2. QuotaInv /\ RestFalls /\ [Next]_vars => (QuotaInv /\ RestFalls)'
  BY QuotaStep, RestStep
<1>3. RestFalls => RemainingCountsDown
  BY DEF RestFalls
<1> QED BY <1>1, <1>2, <1>3, PTL DEF Spec

-----------------------------------------------------------------------------
(* One retry is enough; this needs no condition on midnight.                 *)

Met(b)   == \E q \in met : browser[q] = b
Stale(t) == t.secret # Secret

RetryTypes ==
    /\ pc \in [Requests -> Active \cup Outcomes \cup {"new"}]
    /\ DOMAIN browser = Requests /\ DOMAIN token = Requests
    /\ DOMAIN canRetry = Requests
    /\ \A r \in Requests : pc[r] = "new" => canRetry[r] = TRUE
    /\ \A r \in Requests : pc[r] \in Active => browser[r] \in Browsers
    /\ DOMAIN stored = Browsers
    /\ \A q \in met : q \in Requests /\ pc[q] # "new"

\* A stale token that a second try could use, or save for one to use, was signed
\* before a restart that met its browser.
StaleMet ==
    /\ \A r \in Requests : pc[r] = "signing" /\ Stale(token[r]) => Met(browser[r])
    /\ \A r \in Requests : ~ canRetry[r] =>
          /\ pc[r] = "send" /\ Stale(token[r]) => Met(browser[r])
          /\ pc[r] = "headers" /\ stored[browser[r]] # NoToken
                /\ Stale(stored[browser[r]]) => Met(browser[r])

RetryInv == RetryTypes /\ StaleMet /\ RetryRecovers

\* Every step of a request other than the ones of the retry.
LEMMA RetryServed ==
    ASSUME RetryInv, NEW r \in Requests,
           \/ Fail(r) \/ Refuse(r) \/ (\E i \in Ips : ReadClock(r, i))
           \/ ConsumeTurn(r) \/ DenyTurn(r) \/ Answer(r)
    PROVE  RetryInv'
<1>1. /\ UNCHANGED <<browser, token, canRetry, stored, run, met>>
      /\ pc[r] # "new" /\ DOMAIN pc' = Requests
      /\ \A q \in Requests : q # r => pc'[q] = pc[q]
      /\ pc'[r] \in {"lock", "upstream", "ok", "upstreamError", "tooMany",
                     "badRequest", "failed"}
      /\ pc'[r] \in Active => pc[r] \in Active
      /\ pc' \in [Requests -> Active \cup Outcomes \cup {"new"}]
  BY DEF RetryInv, RetryTypes, Fail, Refuse, ReadClock, ConsumeTurn, DenyTurn,
         Answer, Active, Outcomes
<1>2. \A b : Met(b)' = Met(b)
  BY <1>1 DEF Met
<1>3. \A t : Stale(t)' = Stale(t)
  BY <1>1 DEF Stale, Secret
<1>4. RetryTypes'
  BY <1>1 DEF RetryInv, RetryTypes
<1>5. StaleMet'
  BY <1>1, <1>2, <1>3 DEF RetryInv, StaleMet
<1>6. RetryRecovers'
  BY <1>1, <1>2 DEF RetryInv, RetryRecovers, Met
<1> QED BY <1>4, <1>5, <1>6 DEF RetryInv

\* A request that sets out has met no restart yet.
LEMMA RetryAsk ==
    ASSUME RetryInv, NEW r \in Requests, NEW b \in Browsers, Ask(r, b)
    PROVE  RetryInv'
<1>1. /\ UNCHANGED <<token, canRetry, stored, run, met>>
      /\ pc[r] = "new" /\ canRetry[r] = TRUE
      /\ pc' = [pc EXCEPT ![r] = "headers"]
      /\ browser' = [browser EXCEPT ![r] = b]
      /\ r \notin met
  BY DEF RetryInv, RetryTypes, Ask
<1>2. \A q \in Requests : q # r => browser'[q] = browser[q] /\ pc'[q] = pc[q]
  BY <1>1 DEF RetryInv, RetryTypes
<1>3. pc'[r] = "headers" /\ browser'[r] = b
  BY <1>1 DEF RetryInv, RetryTypes
<1>4. \A c : Met(c)' = Met(c)
  BY <1>1, <1>2 DEF Met, RetryInv, RetryTypes
<1>5. \A t : Stale(t)' = Stale(t)
  BY <1>1 DEF Stale, Secret
<1>6. RetryTypes'
  BY <1>1, <1>2, <1>3 DEF RetryInv, RetryTypes, Active
<1>7. StaleMet'
  BY <1>1, <1>2, <1>3, <1>4, <1>5 DEF RetryInv, StaleMet
<1>8. RetryRecovers'
  BY <1>1, <1>2, <1>3, <1>4 DEF RetryInv, RetryRecovers, Met
<1> QED BY <1>6, <1>7, <1>8 DEF RetryInv

\* learningHeaders and the answer to a rejected token.
LEMMA RetryTokens ==
    ASSUME RetryInv, NEW r \in Requests,
           \/ UseSaved(r) \/ (\E u \in Uuids : SignSession(r, u))
           \/ SaveSession(r) \/ Unauthorized(r)
    PROVE  RetryInv'
<1>0. RetryTypes /\ StaleMet /\ RetryRecovers
  BY DEF RetryInv
<1>1. /\ UNCHANGED <<browser, run, met>> /\ pc[r] \in Active
      /\ \A q \in Requests : q # r => /\ pc'[q] = pc[q] /\ token'[q] = token[q]
                                      /\ canRetry'[q] = canRetry[q]
  BY <1>0 DEF RetryTypes, UseSaved, SignSession, SaveSession, Unauthorized, Active
<1>2. \A b : Met(b)' = Met(b)
  BY <1>1 DEF Met
<1>3. \A t : Stale(t)' = Stale(t)
  BY <1>1 DEF Stale, Secret
<1>4. CASE UseSaved(r)
  <2>1. /\ pc[r] = "headers" /\ pc'[r] = "send" /\ UNCHANGED <<canRetry, stored>>
        /\ stored[browser[r]] # NoToken /\ token'[r] = stored[browser[r]]
        /\ pc' \in [Requests -> Active \cup Outcomes \cup {"new"}]
        /\ DOMAIN token' = Requests
    BY <1>0, <1>4 DEF UseSaved, RetryTypes, Active
  <2>2. RetryTypes'
    BY <1>0, <1>1, <2>1 DEF RetryTypes
  <2>3. StaleMet'
    BY <1>0, <1>1, <1>2, <1>3, <2>1 DEF StaleMet
  <2>4. RetryRecovers'
    BY <1>0, <1>1, <1>2, <2>1 DEF RetryRecovers, Met
  <2> QED BY <2>2, <2>3, <2>4 DEF RetryInv
<1>5. ASSUME NEW u \in Uuids, SignSession(r, u) PROVE RetryInv'
  <2>1. /\ pc[r] = "headers" /\ pc'[r] = "signing" /\ UNCHANGED <<canRetry, stored>>
        /\ token'[r] = [id |-> u, secret |-> Secret]
        /\ pc' \in [Requests -> Active \cup Outcomes \cup {"new"}]
        /\ DOMAIN token' = Requests
    BY <1>0, <1>5 DEF SignSession, RetryTypes, Active
  <2>2. RetryTypes'
    BY <1>0, <1>1, <2>1 DEF RetryTypes
  <2>3. ~ Stale(token'[r])
    BY <2>1 DEF Stale
  <2>4. StaleMet'
    BY <1>0, <1>1, <1>2, <1>3, <2>1, <2>3 DEF StaleMet
  <2>5. RetryRecovers'
    BY <1>0, <1>1, <1>2, <2>1 DEF RetryRecovers, Met
  <2> QED BY <2>2, <2>4, <2>5 DEF RetryInv
<1>6. CASE SaveSession(r)
  <2>1. /\ pc[r] = "signing" /\ pc'[r] = "send" /\ UNCHANGED <<canRetry, token>>
        /\ stored' = [stored EXCEPT ![browser[r]] = token[r]]
        /\ pc' \in [Requests -> Active \cup Outcomes \cup {"new"}]
    BY <1>0, <1>6 DEF SaveSession, RetryTypes, Active
  <2>2. RetryTypes'
    BY <1>0, <1>1, <2>1 DEF RetryTypes
  <2>3. Stale(token[r]) => Met(browser[r])
    BY <1>0, <2>1 DEF StaleMet
  <2>4. \A q \in Requests : pc[q] = "headers" =>
          \/ browser[q] = browser[r] /\ stored'[browser[q]] = token[r]
          \/ stored'[browser[q]] = stored[browser[q]]
    BY <1>0, <2>1 DEF RetryTypes, Active
  <2>5. StaleMet'
    BY <1>0, <1>1, <1>2, <1>3, <2>1, <2>3, <2>4 DEF StaleMet
  <2>6. RetryRecovers'
    BY <1>0, <1>1, <1>2, <2>1 DEF RetryRecovers, Met
  <2> QED BY <2>2, <2>5, <2>6 DEF RetryInv
<1>7. CASE Unauthorized(r) /\ canRetry[r]
  <2>1. /\ pc'[r] = "headers" /\ canRetry'[r] = FALSE /\ UNCHANGED token
        /\ stored' = [stored EXCEPT ![browser[r]] = NoToken]
        /\ pc' \in [Requests -> Active \cup Outcomes \cup {"new"}]
        /\ DOMAIN canRetry' = Requests
    BY <1>0, <1>7 DEF Unauthorized, RetryTypes, Active
  <2>2. RetryTypes'
    BY <1>0, <1>1, <2>1 DEF RetryTypes
  <2>3. /\ stored'[browser[r]] = NoToken
        /\ \A q \in Requests : pc[q] = "headers" =>
             stored'[browser[q]] \in {NoToken, stored[browser[q]]}
    BY <1>0, <1>1, <2>1 DEF RetryTypes, Active
  <2>4. StaleMet'
    BY <1>0, <1>1, <1>2, <1>3, <2>1, <2>3 DEF StaleMet
  <2>5. RetryRecovers'
    BY <1>0, <1>1, <1>2, <2>1 DEF RetryRecovers, Met
  <2> QED BY <2>2, <2>4, <2>5 DEF RetryInv
<1>8. CASE Unauthorized(r) /\ ~ canRetry[r]
  <2>1. /\ pc[r] = "send" /\ Stale(token[r]) /\ pc'[r] = "unauthorized"
        /\ UNCHANGED <<token, stored>> /\ DOMAIN canRetry' = Requests
        /\ pc' \in [Requests -> Active \cup Outcomes \cup {"new"}]
    BY <1>0, <1>8 DEF Unauthorized, RetryTypes, Active, Outcomes, Stale
  <2>2. Met(browser[r])
    BY <1>0, <1>8, <2>1 DEF StaleMet
  <2>3. RetryTypes'
    BY <1>0, <1>1, <2>1 DEF RetryTypes, Active
  <2>4. StaleMet'
    BY <1>0, <1>1, <1>2, <1>3, <2>1 DEF StaleMet
  <2>5. RetryRecovers'
    BY <1>0, <1>1, <1>2, <2>1, <2>2 DEF RetryRecovers, Met
  <2> QED BY <2>3, <2>4, <2>5 DEF RetryInv
<1> QED BY <1>4, <1>5, <1>6, <1>7, <1>8

\* A restart meets every request whose token becomes stale.
LEMMA RetryRestart ==
    ASSUME RetryInv, Restart
    PROVE  RetryInv'
<1>0. RetryTypes /\ StaleMet /\ RetryRecovers
  BY DEF RetryInv
<1>1. /\ UNCHANGED <<browser, token, canRetry, stored>>
      /\ met' = met \cup {r \in Requests : pc[r] \in Active}
      /\ pc' \in [Requests -> Active \cup Outcomes \cup {"new"}]
      /\ \A r \in Requests : pc'[r] = pc[r] \/ (pc[r] \in Active /\ pc'[r] = "gone")
  BY <1>0 DEF Restart, RetryTypes, serverVars, Active, Outcomes
<1>2. /\ \A r \in Requests : pc[r] \in Active => Met(browser[r])'
      /\ \A b : Met(b) => Met(b)'
  BY <1>1 DEF Met
<1>3. RetryTypes'
  BY <1>0, <1>1 DEF RetryTypes, Active
<1>4. StaleMet'
  BY <1>0, <1>1, <1>2 DEF StaleMet, Active
<1>5. RetryRecovers'
  BY <1>0, <1>1, <1>2 DEF RetryRecovers, Met
<1> QED BY <1>3, <1>4, <1>5 DEF RetryInv

\* api.ts:41-58: for every number of tabs, browsers and restarts, a learner sees
\* "unauthorized" only if a restart met a request of that browser: to forget the
\* session and try once more is enough.
THEOREM RetrySuffices == Spec => []RetryRecovers
<1>1. Init => RetryInv
  BY DEF Init, RetryInv, RetryTypes, StaleMet, RetryRecovers, Active, Outcomes
<1>2. RetryInv /\ [Next]_vars => RetryInv'
  <2>1. ASSUME RetryInv,
               UNCHANGED <<pc, browser, token, canRetry, stored, run, met>>
        PROVE  RetryInv'
    BY <2>1 DEF RetryInv, RetryTypes, StaleMet, RetryRecovers, Met, Stale, Secret
  <2> SUFFICES ASSUME RetryInv, [Next]_vars PROVE RetryInv'
    OBVIOUS
  <2>2. CASE Midnight \/ Finished \/ UNCHANGED vars
    BY <2>1, <2>2 DEF Midnight, Finished, vars, clientVars
  <2> QED BY <2>2, RetryServed, RetryAsk, RetryTokens, RetryRestart DEF Next, Request
<1>3. RetryInv => RetryRecovers
  BY DEF RetryInv
<1> QED BY <1>1, <1>2, <1>3, PTL DEF Spec
=============================================================================
