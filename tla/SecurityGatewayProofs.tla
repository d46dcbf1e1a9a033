------------------------ MODULE SecurityGatewayProofs ------------------------
(***************************************************************************)
(* Proofs about SecurityGateway, for any accounts, instances, requests,    *)
(* limit, window and threshold.                                            *)
(***************************************************************************)
EXTENDS SecurityGateway, FiniteSetTheorems, TLAPS

-----------------------------------------------------------------------------
(***************************************************************************)
(* Types.                                                                  *)
(***************************************************************************)
RequestType ==
    /\ pc \in [Requests -> {"none"} \cup Waiting \cup Answers]
    /\ user \in [Requests -> Users \cup {Unknown}]
    /\ inst \in [Requests -> Instances]
    /\ at \in [Requests -> Times]
    /\ \A q \in Requests : pc[q] \in Waiting \cup {"403", "429", "served"} => user[q] \in Users
MemoryType ==
    kept \in [Instances -> SUBSET Requests] /\ accepted \in [Instances -> SUBSET Requests]
LogType ==
    log \subseteq Entry /\ unlogged \subseteq Entry /\ before \in [Requests -> SUBSET Entry]
RestType ==
    /\ now \in Times /\ status \in [Users -> Statuses]
    /\ free \subseteq Requests /\ counted \in [Requests -> Times]

LEMMA Parts == TypeOK <=> RequestType /\ MemoryType /\ LogType /\ RestType
BY DEF TypeOK, RequestType, MemoryType, LogType, RestType

LEMMA PartsNext == RequestType' /\ MemoryType' /\ LogType' /\ RestType' => TypeOK'
BY DEF TypeOK, RequestType, MemoryType, LogType, RestType

LEMMA RequestSame == ASSUME RequestType, UNCHANGED requestVars PROVE RequestType'
BY DEF RequestType, requestVars

LEMMA MemorySame == ASSUME MemoryType, UNCHANGED memory PROVE MemoryType'
BY DEF MemoryType, memory

LEMMA LogSame == ASSUME LogType, UNCHANGED <<logVars, before>> PROVE LogType'
BY DEF LogType, logVars

LEMMA RestSame == ASSUME RestType, UNCHANGED <<now, status, free, counted>> PROVE RestType'
BY DEF RestType

LEMMA InitType == Init => TypeOK
<1> SUFFICES ASSUME Init PROVE TypeOK
  OBVIOUS
<1>1. RequestType
  BY TimesAssumption DEF Init, RequestType, Waiting, Answers, Times
<1>2. MemoryType /\ LogType /\ RestType
  BY TimesAssumption DEF Init, MemoryType, LogType, RestType, Statuses, Times
<1>3. QED
  BY <1>1, <1>2, Parts

LEMMA LogEntryType ==
    ASSUME LogType, RestType, NEW q \in Requests, NEW u \in Users \cup {Unknown},
           NEW event \in Events, Log(q, u, event), UNCHANGED before
    PROVE  LogType'
<1>1. [event |-> event, userId |-> u, of |-> q, time |-> now] \in Entry
  BY DEF RestType, Entry
<1>2. QED
  BY <1>1 DEF LogType, Log

\* A request that goes on with its account known.
LEMMA GoesType ==
    ASSUME RequestType, NEW q \in Requests, NEW where \in Waiting \cup Answers,
           Goes(q, where), user[q] \in Users \/ where \in {"401", "dropped"},
           UNCHANGED <<user, inst, at>>
    PROVE  RequestType'
<1>1. pc' \in [Requests -> {"none"} \cup Waiting \cup Answers]
  BY DEF RequestType, Goes
<1>2. ASSUME NEW p \in Requests, pc'[p] \in Waiting \cup {"403", "429", "served"}
      PROVE  user[p] \in Users
  BY <1>2 DEF RequestType, Goes, Waiting
<1>3. QED
  BY <1>1, <1>2 DEF RequestType

LEMMA WriteLogType ==
    ASSUME TypeOK, NEW q \in Requests, NEW where \in Waiting, NEW event \in Events,
           NEW then \in Waiting \cup Answers, WriteLog(q, where, event, then)
    PROVE  TypeOK'
<1>1. RequestType /\ MemoryType /\ LogType /\ RestType
  BY Parts
<1>2. user[q] \in Users
  BY <1>1 DEF WriteLog, RequestType
<1>3. RequestType' /\ LogType'
  BY <1>1, <1>2, GoesType, LogEntryType DEF WriteLog
<1>4. QED
  BY <1>1, <1>3, MemorySame, RestSame, PartsNext DEF WriteLog

LEMMA WritesType ==
    ASSUME TypeOK, NEW q \in Requests,
           Refuse403(q) \/ Refuse429(q) \/ RaiseAlarm(q) \/ Serve(q)
    PROVE  TypeOK'
BY WriteLogType DEF Refuse403, Refuse429, RaiseAlarm, Serve, Waiting, Answers, Events

LEMMA ArriveType ==
    ASSUME TypeOK, NEW q \in Requests, ArriveBare(q) \/ ArriveInvalid(q) \/ \E u \in Users : Arrive(q, u)
    PROVE  TypeOK'
<1>1. RequestType /\ MemoryType /\ LogType /\ RestType
  BY Parts
<1>2. CASE ArriveInvalid(q)
  <2>1. RequestType'
    BY <1>1, <1>2, GoesType DEF ArriveInvalid, Answers
  <2>2. LogType'
    BY <1>1, <1>2, LogEntryType DEF ArriveInvalid, Events
  <2>3. QED
    BY <1>1, <1>2, <2>1, <2>2, MemorySame, RestSame, PartsNext DEF ArriveInvalid
<1>3. ASSUME NEW u \in Users, Arrive(q, u) PROVE TypeOK'
  <2>1. RequestType'
    BY <1>1, <1>3 DEF Arrive, Goes, RequestType, Waiting
  <2>2. EntriesOf(u) \subseteq Entry
    BY <1>1 DEF EntriesOf, LogType
  <2>3. LogType' /\ RestType'
    BY <1>1, <1>3, <2>2 DEF Arrive, LogType, RestType, logVars
  <2>4. QED
    BY <1>1, <1>3, <2>1, <2>3, MemorySame, PartsNext DEF Arrive
<1>4. CASE ArriveBare(q)
  <2>1. RequestType'
    BY <1>1, <1>4, GoesType DEF ArriveBare, Answers
  <2>2. QED
    BY <1>1, <1>4, <2>1, MemorySame, LogSame, RestSame, PartsNext DEF ArriveBare
<1>5. QED
  BY <1>2, <1>3, <1>4

LEMMA ReadStatusType ==
    ASSUME TypeOK, NEW q \in Requests, ReadStatus(q) PROVE TypeOK'
<1>1. RequestType /\ MemoryType /\ LogType /\ RestType
  BY Parts
<1>2. user[q] \in Users /\ inst[q] \in Instances /\ now \in Times
  BY <1>1 DEF ReadStatus, RequestType, RestType, Waiting
<1>3. RequestType' /\ MemoryType'
  <2>1. ASSUME NEW where \in Waiting, TurnAway(q, where) PROVE RequestType' /\ MemoryType'
    BY <1>1, <1>2, <2>1, GoesType, MemorySame DEF ReadStatus, TurnAway
  <2>2. CASE LetThrough(q)
    <3>1. RequestType'
      BY <1>1, <1>2, <2>2 DEF ReadStatus, LetThrough, Goes, Stamp, RequestType, Waiting
    <3>2. OfOthers(q) \cup InWindow(q) \cup {q} \subseteq Requests
      BY <1>1, <1>2 DEF MemoryType, OfOthers, InWindow
    <3>3. MemoryType'
      BY <1>1, <1>2, <2>2, <3>2 DEF LetThrough, MemoryType
    <3>4. QED
      BY <3>1, <3>3
  <2>3. QED
    BY <2>1, <2>2 DEF ReadStatus, Waiting
<1>4. QED
  BY <1>1, <1>3, LogSame, RestSame, PartsNext DEF ReadStatus

LEMMA TypeStep == ASSUME TypeOK, [Next]_vars PROVE TypeOK'
<1>1. RequestType /\ MemoryType /\ LogType /\ RestType
  BY Parts
<1>2. CASE Tick
  <2>1. RestType'
    BY <1>1, <1>2, TimesAssumption DEF Tick, RestType, Times
  <2>2. QED
    BY <1>1, <1>2, <2>1, RequestSame, MemorySame, LogSame, PartsNext DEF Tick
<1>3. ASSUME NEW u \in Users, NEW s \in Statuses, SetStatus(u, s) PROVE TypeOK'
  <2>1. RestType'
    BY <1>1, <1>3 DEF SetStatus, RestType
  <2>2. QED
    BY <1>1, <1>3, <2>1, RequestSame, MemorySame, LogSame, PartsNext DEF SetStatus
<1>4. ASSUME NEW q \in Requests, Count(q) \/ Throw(q) PROVE TypeOK'
  <2>1. user[q] \in Users
    BY <1>1, <1>4 DEF Count, Throw, RequestType, Waiting
  <2>2. RequestType'
    BY <1>1, <1>4, <2>1, GoesType DEF Count, Throw, Waiting, Answers
  <2>3. RestType'
    BY <1>1, <1>4 DEF Count, Throw, RestType
  <2>4. QED
    BY <1>1, <1>4, <2>2, <2>3, MemorySame, LogSame, PartsNext DEF Count, Throw
<1>5. ASSUME NEW i \in Instances, HourlyClear(i) \/ StopInstance(i) PROVE TypeOK'
  <2>1. RequestType'
    BY <1>1, <1>5 DEF HourlyClear, StopInstance, Clear, RequestType, Waiting, Answers
  <2>2. MemoryType'
    BY <1>1, <1>5 DEF HourlyClear, StopInstance, Clear, MemoryType
  <2>3. QED
    BY <1>1, <1>5, <2>1, <2>2, LogSame, RestSame, PartsNext
       DEF HourlyClear, StopInstance, Clear
<1>6. CASE UNCHANGED vars
  BY <1>1, <1>6, RequestSame, MemorySame, LogSame, RestSame, PartsNext DEF vars
<1>7. QED
  BY <1>2, <1>3, <1>4, <1>5, <1>6, WritesType, ArriveType, ReadStatusType
     DEF Next, RequestStep

\* Every variable keeps its type, and a request that was not refused at the
\* door has an account.
THEOREM TypeCorrect == Spec => []TypeOK
BY InitType, TypeStep, PTL DEF Spec

-----------------------------------------------------------------------------
(***************************************************************************)
(* Blocked accounts.                                                       *)
(***************************************************************************)
\* Whoever is past the account check was free at some time, and whoever still
\* waits for it while the account is active is.
FreeInv ==
    \A q \in Requests :
        \/ pc[q] \in {"none", "blocked log", "401", "403", "dropped"}
        \/ pc[q] = "status" /\ status[user[q]] # "active"
        \/ q \in free

LEMMA FreeStep ==
    ASSUME TypeOK, FreeInv, [Next]_vars PROVE FreeInv'
<1>1. RequestType /\ RestType
  BY Parts
<1>2. ASSUME UNCHANGED <<pc, user, status, free>> PROVE FreeInv'
  BY <1>2 DEF FreeInv
<1>3. CASE Tick \/ UNCHANGED vars
  BY <1>2, <1>3 DEF Tick, vars, requestVars
<1>4. ASSUME NEW u \in Users, NEW s \in Statuses, SetStatus(u, s) PROVE FreeInv'
  <2>1. pc' = pc /\ user' = user /\ free \subseteq free'
    BY <1>4 DEF SetStatus, requestVars
  <2>2. ASSUME NEW q \in Requests, pc[q] = "status", q \notin free'
        PROVE  status'[user[q]] # "active"
    <3>1. user[q] \in Users /\ pc[q] \in Waiting
      BY <1>1, <2>2 DEF RequestType, Waiting
    <3>2. CASE user[q] = u
      BY <1>1, <1>4, <2>2, <3>1, <3>2 DEF SetStatus, RestType
    <3>3. CASE user[q] # u
      BY <1>1, <1>4, <2>1, <2>2, <3>1, <3>3 DEF SetStatus, RestType, FreeInv
    <3>4. QED
      BY <3>2, <3>3
  <2>3. QED
    BY <2>1, <2>2 DEF FreeInv
<1>5. ASSUME NEW q \in Requests, RequestStep(q) PROVE FreeInv'
  <2>1. \A p \in Requests \ {q} : pc'[p] = pc[p] /\ user'[p] = user[p]
    BY <1>1, <1>5 DEF RequestStep, ArriveBare, ArriveInvalid, Arrive, ReadStatus, TurnAway, LetThrough,
       Refuse403, Refuse429, RaiseAlarm, Serve, WriteLog, Count, Throw, Goes, RequestType
  <2>2. status' = status /\ free \subseteq free'
    BY <1>5 DEF RequestStep, ArriveBare, ArriveInvalid, Arrive, ReadStatus,
       Refuse403, Refuse429, RaiseAlarm, Serve, WriteLog, Count, Throw
  <2>3. \/ pc'[q] \in {"none", "blocked log", "401", "403", "dropped"}
        \/ pc'[q] = "status" /\ status[user'[q]] # "active"
        \/ q \in free'
    <3>1. CASE ArriveBare(q) \/ ArriveInvalid(q) \/ Refuse403(q) \/ Throw(q)
      BY <1>1, <3>1 DEF ArriveBare, ArriveInvalid, Refuse403, WriteLog, Throw, Goes, RequestType
    <3>2. ASSUME NEW u \in Users, Arrive(q, u) PROVE <2>3!1 \/ <2>3!2 \/ <2>3!3
      BY <1>1, <3>2 DEF Arrive, Goes, RequestType
    <3>3. CASE ReadStatus(q)
      <4>1. user[q] \in Users /\ pc[q] = "status"
        BY <1>1, <3>3 DEF ReadStatus, RequestType, Waiting
      <4>2. CASE IsUserBlocked(user[q])
        BY <1>1, <3>3, <4>2 DEF ReadStatus, TurnAway, Goes, RequestType
      <4>3. CASE ~IsUserBlocked(user[q])
        <5>1. status[user[q]] = "active"
          BY <1>1, <4>1, <4>3 DEF IsUserBlocked, RestType, Statuses
        <5>2. QED
          BY <2>2, <4>1, <5>1 DEF FreeInv
      <4>4. QED
        BY <4>2, <4>3
    <3>4. CASE Refuse429(q) \/ Count(q) \/ RaiseAlarm(q) \/ Serve(q)
      <4>1. pc[q] \in {"limit log", "query", "alarm log", "access log"}
        BY <3>4 DEF Refuse429, Count, RaiseAlarm, Serve, WriteLog
      <4>2. QED
        BY <2>2, <4>1 DEF FreeInv
    <3>5. QED
      BY <1>5, <3>1, <3>2, <3>3, <3>4 DEF RequestStep
  <2>4. QED
    BY <2>1, <2>2, <2>3 DEF FreeInv
<1>6. ASSUME NEW i \in Instances, HourlyClear(i) \/ StopInstance(i) PROVE FreeInv'
  <2>1. \A q \in Requests : pc'[q] \in {pc[q], "dropped"}
    BY <1>1, <1>6 DEF HourlyClear, StopInstance, RequestType
  <2>2. UNCHANGED <<user, status, free>>
    BY <1>6 DEF HourlyClear, StopInstance, Clear
  <2>3. QED
    BY <2>1, <2>2 DEF FreeInv
<1>7. QED
  BY <1>3, <1>4, <1>5, <1>6 DEF Next

\* An account that is blocked while its request is under way is not served.
THEOREM NeverServesBlocked == Spec => []BlockedTurnedAway
<1>1. Init => FreeInv
  BY DEF Init, FreeInv
<1>2. TypeOK /\ FreeInv /\ [Next]_vars => FreeInv'
  BY FreeStep
<1>3. FreeInv => BlockedTurnedAway
  BY DEF FreeInv, BlockedTurnedAway
<1>4. QED
  BY <1>1, <1>2, <1>3, TypeCorrect, PTL DEF Spec

-----------------------------------------------------------------------------
(***************************************************************************)
(* The alarm.                                                              *)
(***************************************************************************)
Rang(q) == \E e \in log \cup unlogged : e.of = q /\ e.event = "RAPID_ACTIONS"

Often(q) == Cardinality({e \in before[q] : e.time > counted[q] - Hour}) > Threshold

\* The log only grows, and whoever does not raise the alarm need not or did.
AlarmInv ==
    /\ IsFiniteSet(log)
    /\ \A q \in Requests : before[q] \subseteq EntriesOf(user[q])
    /\ \A q \in Requests : pc[q] \in {"access log", "served"} /\ Often(q) => Rang(q)

LEMMA AlarmInit == Init => AlarmInv
BY FS_EmptySet DEF Init, AlarmInv

LEMMA LogGrows ==
    ASSUME NEW q, NEW u, NEW event, Log(q, u, event), IsFiniteSet(log)
    PROVE  IsFiniteSet(log') /\ log \subseteq log' /\ unlogged \subseteq unlogged'
BY FS_AddElement DEF Log

LEMMA AlarmStep ==
    ASSUME TypeOK, AlarmInv, [Next]_vars PROVE AlarmInv'
<1>1. RequestType /\ LogType /\ RestType
  BY Parts
<1>2. ASSUME IsFiniteSet(log'), log \subseteq log', unlogged \subseteq unlogged',
             UNCHANGED <<user, before, counted>>,
             \A p \in Requests : pc'[p] \in {"access log", "served"}
                                 => pc[p] \in {"access log", "served"} \/ ~Often(p) \/ Rang(p)'
      PROVE  AlarmInv'
  <2>1. \A p \in Requests : before'[p] \subseteq {e \in log' : e.userId = user'[p]}
    BY <1>2 DEF AlarmInv, EntriesOf
  <2>2. ASSUME NEW p \in Requests, pc'[p] \in {"access log", "served"}, Often(p)'
        PROVE  Rang(p)'
    <3>1. Often(p)
      BY <1>2, <2>2 DEF Often
    <3>2. Rang(p) => Rang(p)'
      BY <1>2 DEF Rang
    <3>3. QED
      BY <1>2, <2>2, <3>1, <3>2 DEF AlarmInv
  <2>3. QED
    BY <1>2, <2>1, <2>2 DEF AlarmInv, EntriesOf
<1>3. ASSUME UNCHANGED <<user, before, counted, log, unlogged>>,
             \A p \in Requests : pc'[p] = pc[p] \/ pc'[p] \notin {"access log", "served"}
      PROVE  AlarmInv'
  BY <1>2, <1>3 DEF AlarmInv
<1>4. CASE Tick \/ UNCHANGED vars
  BY <1>3, <1>4 DEF Tick, vars, requestVars, logVars
<1>5. ASSUME NEW u \in Users, NEW s \in Statuses, SetStatus(u, s) PROVE AlarmInv'
  BY <1>3, <1>5 DEF SetStatus, requestVars, logVars
<1>6. ASSUME NEW i \in Instances, HourlyClear(i) \/ StopInstance(i) PROVE AlarmInv'
  BY <1>1, <1>3, <1>6 DEF HourlyClear, StopInstance, Clear, logVars, RequestType
<1>7. ASSUME NEW q \in Requests, ArriveBare(q) \/ Throw(q) \/ ReadStatus(q) PROVE AlarmInv'
  BY <1>1, <1>3, <1>7
     DEF ArriveBare, Throw, ReadStatus, TurnAway, LetThrough, Goes, logVars, RequestType
<1>8. ASSUME NEW q \in Requests, ArriveInvalid(q) \/ Refuse403(q) \/ Refuse429(q)
      PROVE  AlarmInv'
  <2>1. IsFiniteSet(log') /\ log \subseteq log' /\ unlogged \subseteq unlogged'
    BY <1>8, LogGrows DEF ArriveInvalid, Refuse403, Refuse429, WriteLog, AlarmInv
  <2>2. \A p \in Requests : pc'[p] = pc[p] \/ pc'[p] \notin {"access log", "served"}
    BY <1>1, <1>8 DEF ArriveInvalid, Refuse403, Refuse429, WriteLog, Goes, RequestType
  <2>3. UNCHANGED <<user, before, counted>>
    BY <1>8 DEF ArriveInvalid, Refuse403, Refuse429, WriteLog
  <2>4. QED
    BY <1>2, <2>1, <2>2, <2>3
<1>9. ASSUME NEW q \in Requests, Serve(q) PROVE AlarmInv'
  <2>1. IsFiniteSet(log') /\ log \subseteq log' /\ unlogged \subseteq unlogged'
    BY <1>9, LogGrows DEF Serve, WriteLog, AlarmInv
  <2>2. \A p \in Requests : pc'[p] \in {"access log", "served"}
                            => pc[p] \in {"access log", "served"}
    BY <1>1, <1>9 DEF Serve, WriteLog, Goes, RequestType
  <2>3. QED
    BY <1>2, <1>9, <2>1, <2>2 DEF Serve, WriteLog
<1>10. ASSUME NEW q \in Requests, RaiseAlarm(q) PROVE AlarmInv'
  <2>1. IsFiniteSet(log') /\ log \subseteq log' /\ unlogged \subseteq unlogged'
    BY <1>10, LogGrows DEF RaiseAlarm, WriteLog, AlarmInv
  <2>2. Rang(q)'
    <3> DEFINE e == [event |-> "RAPID_ACTIONS", userId |-> user[q], of |-> q, time |-> now]
    <3>1. e \in log' \cup unlogged'
      BY <1>10 DEF RaiseAlarm, WriteLog, Log
    <3>2. QED
      BY <3>1 DEF Rang
  <2>3. \A p \in Requests : pc'[p] \in {"access log", "served"}
                            => pc[p] \in {"access log", "served"} \/ p = q
    BY <1>1, <1>10 DEF RaiseAlarm, WriteLog, Goes, RequestType
  <2>4. QED
    BY <1>2, <1>10, <2>1, <2>2, <2>3 DEF RaiseAlarm, WriteLog
<1>11. ASSUME NEW q \in Requests, Count(q) PROVE AlarmInv'
  <2>1. UNCHANGED <<user, before, log, unlogged>>
    BY <1>11 DEF Count, logVars
  <2>2. /\ \A p \in Requests \ {q} : pc'[p] = pc[p] /\ counted'[p] = counted[p]
        /\ counted'[q] = now
    BY <1>1, <1>11 DEF Count, Goes, RequestType, RestType
  <2>3. pc'[q] \in {"access log", "served"} => ~Often(q)'
    <3> DEFINE recent == {e \in before[q] : e.time > now - Hour}
               all    == InLastHour(EntriesOf(user[q]))
    <3>1. recent \subseteq all /\ all \subseteq log
      BY DEF AlarmInv, InLastHour, EntriesOf
    <3>2. IsFiniteSet(all) /\ IsFiniteSet(recent) /\ Cardinality(recent) <= Cardinality(all)
      <4> HIDE DEF recent, all
      <4>1. IsFiniteSet(all)
        BY <3>1, FS_Subset DEF AlarmInv
      <4>2. QED
        BY <3>1, <4>1, FS_Subset
    <3>3. Cardinality(recent) \in Nat /\ Cardinality(all) \in Nat
      <4> HIDE DEF recent, all
      <4>1. QED
        BY <3>2, FS_CardinalityType
    <3>4. Cardinality(all) > Threshold => pc'[q] = "alarm log"
      BY <1>1, <1>11 DEF Count, Goes, RequestType
    <3>5. Often(q)' <=> Cardinality(recent) > Threshold
      BY <2>1, <2>2 DEF Often
    <3> HIDE DEF recent, all
    <3>6. pc'[q] \in {"access log", "served"} => ~(Cardinality(all) > Threshold)
      BY <3>4
    <3>7. ~(Cardinality(all) > Threshold) => ~(Cardinality(recent) > Threshold)
      BY <3>2, <3>3, TimesAssumption
    <3>8. QED
      BY <3>5, <3>6, <3>7
  <2>4. \A p \in Requests \ {q} : (Often(p)' <=> Often(p)) /\ (Rang(p)' <=> Rang(p))
    BY <2>1, <2>2 DEF Often, Rang
  <2>5. IsFiniteSet(log') /\ \A p \in Requests : before'[p] \subseteq {e \in log' : e.userId = user'[p]}
    BY <2>1 DEF AlarmInv, EntriesOf
  <2>6. QED
    BY <2>2, <2>3, <2>4, <2>5 DEF AlarmInv, EntriesOf
<1>12. ASSUME NEW q \in Requests, NEW u \in Users, Arrive(q, u) PROVE AlarmInv'
  <2>1. /\ \A p \in Requests \ {q} : pc'[p] = pc[p] /\ user'[p] = user[p]
                                     /\ before'[p] = before[p]
        /\ pc'[q] = "status" /\ user'[q] = u /\ before'[q] = EntriesOf(u)
        /\ log' = log /\ unlogged' = unlogged /\ counted' = counted
    BY <1>1, <1>12 DEF Arrive, Goes, RequestType, LogType, logVars
  <2>2. \A p \in Requests \ {q} : (Often(p)' <=> Often(p)) /\ (Rang(p)' <=> Rang(p))
    BY <2>1 DEF Often, Rang
  <2>3. \A p \in Requests : before'[p] \subseteq {e \in log' : e.userId = user'[p]}
    BY <2>1 DEF AlarmInv, EntriesOf
  <2>4. QED
    BY <2>1, <2>2, <2>3 DEF AlarmInv, EntriesOf
<1>13. QED
  BY <1>4, <1>5, <1>6, <1>7, <1>8, <1>9, <1>10, <1>11, <1>12 DEF Next, RequestStep

\* A request of an account that was logged too often before it came is served
\* with an alarm, whatever other requests are under way.
THEOREM AlarmsAreRaised == Spec => []AlarmRaised
<1>1. TypeOK /\ AlarmInv /\ [Next]_vars => AlarmInv'
  BY AlarmStep
<1>2. AlarmInv => AlarmRaised
  BY DEF AlarmInv, AlarmRaised, Often, Rang
<1>3. QED
  BY <1>1, <1>2, AlarmInit, TypeCorrect, PTL DEF Spec

-----------------------------------------------------------------------------
(***************************************************************************)
(* The limit.                                                              *)
(***************************************************************************)
Passed(i, u, t) ==
    {q \in accepted[i] : user[q] = u /\ t - Window < at[q] /\ at[q] <= t}

\* An instance remembers what it let through in the last window.
Remembers ==
    \A i \in Instances : \A q \in accepted[i] :
        /\ inst[q] = i /\ pc[q] \notin {"none", "status"} /\ at[q] <= now
        /\ at[q] > now - Window => q \in kept[i]

Limits == \A i \in Instances, u \in Users, t \in Times : Cardinality(Passed(i, u, t)) <= Limit

LimitInv == Limits /\ Remembers

LEMMA LimitInit == Init => LimitInv
BY FS_EmptySet, TimesAssumption DEF Init, LimitInv, Limits, Remembers, Passed

\* An instance lets another request through.
LEMMA LetThroughLimit ==
    ASSUME TypeOK, LimitInv, NEW q \in Requests, ReadStatus(q), LetThrough(q),
           Cardinality(InWindow(q)) < Limit
    PROVE  LimitInv'
<1>1. RequestType /\ MemoryType /\ RestType /\ now \in Int /\ Window \in Nat
  BY Parts, TimesAssumption DEF RestType, Times
<1>2. pc[q] = "status" /\ inst[q] \in Instances /\ user[q] \in Users /\ Limits /\ Remembers
  BY <1>1 DEF ReadStatus, RequestType, Waiting, LimitInv
<1>3. \A i \in Instances : q \notin accepted[i]
  BY <1>2 DEF Remembers
<1>4. /\ \A p \in Requests : p # q => at'[p] = at[p] /\ pc'[p] = pc[p]
      /\ at'[q] = now /\ pc'[q] = "query" /\ UNCHANGED <<user, inst, now>>
  BY <1>1 DEF LetThrough, ReadStatus, Goes, Stamp, RequestType
<1>5. /\ accepted'[inst[q]] = accepted[inst[q]] \cup {q}
      /\ kept'[inst[q]] = OfOthers(q) \cup InWindow(q) \cup {q}
      /\ \A i \in Instances : i # inst[q] => accepted'[i] = accepted[i] /\ kept'[i] = kept[i]
  BY <1>1, <1>2 DEF LetThrough, MemoryType
<1>6. Remembers'
  <2>1. ASSUME NEW i \in Instances, NEW p \in accepted'[i]
        PROVE  /\ inst'[p] = i /\ pc'[p] \notin {"none", "status"} /\ at'[p] <= now'
               /\ at'[p] > now' - Window => p \in kept'[i]
    <3>1. CASE p = q
      BY <1>1, <1>3, <1>4, <1>5, <3>1
    <3>2. CASE p # q
      <4>1. p \in accepted[i] /\ p \in Requests
        BY <1>1, <1>5, <2>1, <3>2 DEF MemoryType
      <4>2. /\ inst[p] = i /\ pc[p] \notin {"none", "status"} /\ at[p] <= now
            /\ at[p] > now - Window => p \in kept[i]
        BY <1>2, <4>1 DEF Remembers
      <4>3. at[p] > now - Window => p \in kept'[i]
        BY <1>5, <4>2 DEF OfOthers, InWindow
      <4>4. QED
        BY <1>4, <3>2, <4>1, <4>2, <4>3
    <3>3. QED
      BY <3>1, <3>2
  <2>2. QED
    BY <2>1 DEF Remembers
<1>7. Limits'
  <2>1. ASSUME NEW i \in Instances, NEW u \in Users, NEW t \in Times
        PROVE  Cardinality(Passed(i, u, t)') <= Limit
    <3> DEFINE new == {p \in accepted'[i] : user'[p] = u /\ t - Window < at'[p] /\ at'[p] <= t}
    <3>1. Passed(i, u, t)' = new
      BY DEF Passed
    <3>2. \A p \in accepted[i] : p \in Requests /\ p # q /\ at'[p] = at[p] /\ user'[p] = user[p]
      BY <1>1, <1>3, <1>4 DEF MemoryType
    <3>3. CASE i # inst[q] \/ u # user[q] \/ t < now
      <4>1. new = Passed(i, u, t)
        BY <1>1, <1>4, <1>5, <3>2, <3>3 DEF Passed, Times
      <4>2. QED
        BY <1>2, <3>1, <4>1 DEF Limits
    <3>4. CASE i = inst[q] /\ u = user[q] /\ t >= now
      <4>1. new \subseteq InWindow(q) \cup {q}
        <5>1. ASSUME NEW p \in new, p # q PROVE p \in InWindow(q)
          <6>1. p \in accepted[i] /\ at[p] > t - Window /\ user[p] = user[q]
            BY <1>5, <3>2, <3>4, <5>1
          <6>2. at[p] \in Int
            BY <1>1, <3>2, <6>1 DEF RequestType, Times
          <6>3. at[p] > now - Window
            BY <1>1, <3>4, <6>1, <6>2 DEF Times
          <6>4. QED
            BY <1>2, <3>4, <6>1, <6>3 DEF Remembers, InWindow
        <5>2. QED
          BY <5>1
      <4>2. InWindow(q) \subseteq Requests
        BY <1>1, <1>2 DEF InWindow, MemoryType
      <4>3. IsFiniteSet(InWindow(q))
        BY <4>2, RequestsAssumption, FS_Subset
      <4>4. /\ IsFiniteSet(InWindow(q) \cup {q}) /\ Cardinality(InWindow(q)) \in Nat
            /\ Cardinality(InWindow(q) \cup {q}) <= Cardinality(InWindow(q)) + 1
        <5> DEFINE S == InWindow(q)
        <5> HIDE DEF S
        <5>1. IsFiniteSet(S)
          BY <4>3 DEF S
        <5>2. Cardinality(S) \in Nat
          BY <5>1, FS_CardinalityType
        <5>3. IsFiniteSet(S \cup {q}) /\ Cardinality(S \cup {q}) <= Cardinality(S) + 1
          BY <5>1, <5>2, FS_AddElement
        <5>4. QED
          BY <5>2, <5>3 DEF S
      <4>5. Cardinality(InWindow(q) \cup {q}) \in Nat
        BY <4>4, FS_CardinalityType
      <4> HIDE DEF new
      <4>6. Cardinality(new) <= Cardinality(InWindow(q) \cup {q}) /\ IsFiniteSet(new)
        BY <4>1, <4>4, FS_Subset
      <4>7. Cardinality(new) \in Nat
        BY <4>6, FS_CardinalityType
      <4>8. QED
        BY <3>1, <4>4, <4>5, <4>6, <4>7, TimesAssumption
    <3>5. QED
      BY <1>1, <3>3, <3>4 DEF Times
  <2>2. QED
    BY <2>1 DEF Limits
<1>8. QED
  BY <1>6, <1>7 DEF LimitInv

LEMMA LimitStep ==
    ASSUME TypeOK, LimitInv, [Next]_vars PROVE LimitInv'
<1>1. RequestType /\ MemoryType /\ RestType /\ now \in Int /\ Window \in Nat
  BY Parts, TimesAssumption DEF RestType, Times
<1>2. Limits /\ Remembers
  BY DEF LimitInv
<1>3. ASSUME UNCHANGED <<accepted, kept, at, inst>>, now' \in {now, now + 1},
             \A q \in Requests :
                pc[q] \notin {"none", "status"}
                => user'[q] = user[q] /\ pc'[q] \notin {"none", "status"}
      PROVE  LimitInv'
  <2>1. \A i \in Instances : \A q \in accepted[i] : /\ q \in Requests /\ at[q] \in Int
           /\ pc[q] \notin {"none", "status"}
    BY <1>1, <1>2 DEF MemoryType, RequestType, Remembers, Times
  <2>2. Remembers'
    BY <1>1, <1>2, <1>3, <2>1 DEF Remembers
  <2>3. \A i \in Instances, u \in Users, t \in Times : Passed(i, u, t)' = Passed(i, u, t)
    BY <1>3, <2>1 DEF Passed
  <2>4. Limits'
    BY <1>2, <2>3 DEF Limits
  <2>5. QED
    BY <2>2, <2>4 DEF LimitInv
<1>4. CASE Tick \/ UNCHANGED vars
  BY <1>3, <1>4 DEF Tick, vars, requestVars, memory
<1>5. ASSUME NEW u \in Users, NEW s \in Statuses, SetStatus(u, s) PROVE LimitInv'
  BY <1>3, <1>5 DEF SetStatus, requestVars, memory
<1>6. ASSUME NEW q \in Requests, ArriveBare(q) \/ ArriveInvalid(q) \/ Refuse403(q)
             \/ Refuse429(q) \/ Count(q) \/ RaiseAlarm(q) \/ Serve(q) \/ Throw(q)
      PROVE  LimitInv'
  <2>1. UNCHANGED <<accepted, kept, at, inst, now, user>>
    BY <1>6 DEF ArriveBare, ArriveInvalid, Refuse403, Refuse429, Count, RaiseAlarm, Serve, WriteLog,
                Throw, memory
  <2>2. \A p \in Requests : pc'[p] = pc[p] \/ pc'[p] \notin {"none", "status"}
    BY <1>1, <1>6 DEF ArriveBare, ArriveInvalid, Refuse403, Refuse429, Count, RaiseAlarm, Serve,
                      WriteLog, Throw, Goes, RequestType
  <2>3. QED
    BY <1>3, <2>1, <2>2
<1>7. ASSUME NEW q \in Requests, NEW u \in Users, Arrive(q, u) PROVE LimitInv'
  <2>1. UNCHANGED <<accepted, kept, at, inst, now>> /\ pc[q] = "none"
    BY <1>7 DEF Arrive, memory
  <2>2. \A p \in Requests \ {q} : pc'[p] = pc[p] /\ user'[p] = user[p]
    BY <1>1, <1>7 DEF Arrive, Goes, RequestType
  <2>3. QED
    BY <1>3, <2>1, <2>2
<1>8. ASSUME NEW q \in Requests, ReadStatus(q) PROVE LimitInv'
  <2>1. ASSUME NEW where \in {"blocked log", "limit log"}, TurnAway(q, where)
        PROVE  LimitInv'
    <3>1. UNCHANGED <<accepted, kept, at, inst, now, user>>
      BY <1>8, <2>1 DEF ReadStatus, TurnAway, memory
    <3>2. \A p \in Requests : pc'[p] = pc[p] \/ pc'[p] \notin {"none", "status"}
      BY <1>1, <2>1 DEF TurnAway, Goes, RequestType
    <3>3. QED
      BY <1>3, <3>1, <3>2
  <2>2. CASE LetThrough(q) /\ ~(Cardinality(InWindow(q)) >= Limit)
    <3>1. user[q] \in Users /\ inst[q] \in Instances
      BY <1>1, <1>8 DEF ReadStatus, RequestType, Waiting
    <3>2. InWindow(q) \subseteq Requests
      BY <1>1, <3>1 DEF InWindow, MemoryType
    <3>3. Cardinality(InWindow(q)) \in Nat
      BY <3>2, RequestsAssumption, FS_Subset, FS_CardinalityType
    <3>4. Cardinality(InWindow(q)) < Limit
      BY <2>2, <3>3, TimesAssumption
    <3>5. QED
      BY <1>8, <2>2, <3>4, LetThroughLimit
  <2>3. QED
    BY <1>8, <2>1, <2>2 DEF ReadStatus
<1>9. ASSUME NEW i \in Instances, HourlyClear(i) \/ StopInstance(i) PROVE LimitInv'
  <2>1. /\ accepted'[i] = {} /\ UNCHANGED <<user, inst, at, now>>
        /\ \A j \in Instances : j # i => accepted'[j] = accepted[j] /\ kept'[j] = kept[j]
        /\ \A q \in Requests : pc'[q] \in {pc[q], "dropped"}
    BY <1>1, <1>9 DEF HourlyClear, StopInstance, Clear, MemoryType, RequestType
  <2>2. Remembers'
    BY <1>1, <1>2, <2>1 DEF Remembers, MemoryType
  <2>3. ASSUME NEW j \in Instances, NEW u \in Users, NEW t \in Times
        PROVE  Cardinality(Passed(j, u, t)') <= Limit
    <3>1. CASE j = i
      <4>1. Passed(j, u, t)' = {}
        BY <2>1, <3>1 DEF Passed
      <4>2. Cardinality({}) = 0
        BY FS_EmptySet
      <4>3. QED
        BY <4>1, <4>2, TimesAssumption
    <3>2. CASE j # i
      <4>1. Passed(j, u, t)' = Passed(j, u, t)
        BY <2>1, <3>2 DEF Passed
      <4>2. QED
        BY <1>2, <4>1 DEF Limits
    <3>3. QED
      BY <3>1, <3>2
  <2>4. QED
    BY <2>2, <2>3 DEF LimitInv, Limits
<1>10. QED
  BY <1>4, <1>5, <1>6, <1>7, <1>8, <1>9 DEF Next, RequestStep

\* An instance whose memory is not cleared keeps the limit in every window.
THEOREM LimitHolds == Spec => []WithinLimit
<1>1. TypeOK /\ LimitInv /\ [Next]_vars => LimitInv'
  BY LimitStep
<1>2. LimitInv => WithinLimit
  BY DEF LimitInv, Limits, Passed, WithinLimit
<1>3. QED
  BY <1>1, <1>2, LimitInit, TypeCorrect, PTL DEF Spec

-----------------------------------------------------------------------------
(***************************************************************************)
(* The limiter implements SlidingWindow: with Remembers and Recalls, what  *)
(* it finds in its memory is what the abstract one finds in all that it    *)
(* admitted.                                                               *)
(***************************************************************************)
Recalls == \A i \in Instances : kept[i] \subseteq accepted[i]

ExactInv == TypeOK /\ LimitInv /\ Recalls

AbsVars == <<now, user, inst, at, accepted, Through, Refused>>

LEMMA RecallsStep == ASSUME TypeOK, Recalls, [Next]_vars PROVE Recalls'
<1>1. MemoryType /\ RequestType
  BY Parts
<1>2. CASE UNCHANGED memory
  BY <1>2 DEF Recalls, memory
<1>3. ASSUME NEW q \in Requests, LetThrough(q) PROVE Recalls'
  <2>1. inst[q] \in Instances
    BY <1>1 DEF RequestType
  <2>2. OfOthers(q) \cup InWindow(q) \subseteq kept[inst[q]]
    BY DEF OfOthers, InWindow
  <2>3. QED
    BY <1>1, <1>3, <2>1, <2>2 DEF LetThrough, Recalls, MemoryType
<1>4. ASSUME NEW i \in Instances, Clear(i) PROVE Recalls'
  BY <1>1, <1>4 DEF Clear, Recalls, MemoryType
<1>5. ASSUME NEW q \in Requests, RequestStep(q)
      PROVE  LetThrough(q) \/ UNCHANGED memory
  BY <1>5 DEF RequestStep, ArriveBare, ArriveInvalid, Arrive, ReadStatus, TurnAway, Refuse403,
     Refuse429, Count, RaiseAlarm, Serve, WriteLog, Throw
<1>6. CASE Tick \/ (\E u \in Users, s \in Statuses : SetStatus(u, s)) \/ UNCHANGED vars
  BY <1>2, <1>6 DEF Tick, SetStatus, vars
<1>7. QED
  BY <1>2, <1>3, <1>4, <1>5, <1>6 DEF Next, HourlyClear, StopInstance

\* The two modules count with the same Cardinality.
LEMMA SameCount == ASSUME NEW S PROVE Limiter!Cardinality(S) = Cardinality(S)
BY DEF Limiter!Cardinality, Cardinality

\* The window in memory is the window of all that was admitted.
LEMMA WindowIsRecent ==
    ASSUME ExactInv, NEW q \in Requests
    PROVE  Limiter!Recent(q) = InWindow(q) /\ Cardinality(InWindow(q)) \in Nat
<1>1. inst[q] \in Instances /\ MemoryType
  BY Parts DEF ExactInv, RequestType
<1>2. \A p \in accepted[inst[q]] : at[p] > now - Window => p \in kept[inst[q]]
  BY <1>1 DEF ExactInv, LimitInv, Remembers
<1>3. kept[inst[q]] \subseteq accepted[inst[q]]
  BY <1>1 DEF ExactInv, Recalls
<1>4. Limiter!Recent(q) = InWindow(q)
  BY <1>2, <1>3 DEF Limiter!Recent, InWindow
<1>5. InWindow(q) \subseteq Requests
  BY <1>1 DEF InWindow, MemoryType
<1>6. QED
  BY <1>4, <1>5, RequestsAssumption, FS_Subset, FS_CardinalityType

\* The answer about the account: the limiter admits, refuses, or is not asked.
LEMMA ReadStatusExact ==
    ASSUME ExactInv, NEW q \in Requests, ReadStatus(q)
    PROVE  Limiter!Next \/ UNCHANGED AbsVars
<1>1. RequestType /\ MemoryType /\ Limit \in Nat
  BY Parts, TimesAssumption DEF ExactInv
<1>2. pc[q] = "status" /\ UNCHANGED <<now, user, inst>> /\ q \notin Through \cup Refused
  BY DEF ReadStatus, Through, Refused
<1>3. CASE LetThrough(q) /\ ~(Cardinality(InWindow(q)) >= Limit)
  <2>1. Cardinality(Limiter!Recent(q)) < Limit
    BY <1>1, <1>3, WindowIsRecent
  <2>2. Through' = Through \cup {q} /\ Refused' = Refused
    BY <1>1, <1>2, <1>3 DEF LetThrough, Goes, Through, Refused, RequestType
  <2>3. Limiter!Admit(q)
    BY <1>2, <1>3, <2>1, <2>2, SameCount DEF Limiter!Admit, LetThrough, Stamp
  <2>4. QED
    BY <2>3 DEF Limiter!Next
<1>4. CASE TurnAway(q, "limit log") /\ Cardinality(InWindow(q)) >= Limit
  <2>1. Cardinality(Limiter!Recent(q)) >= Limit
    BY <1>4, WindowIsRecent
  <2>2. Refused' = Refused \cup {q} /\ Through' = Through
    BY <1>1, <1>2, <1>4 DEF TurnAway, Goes, Through, Refused, RequestType
  <2>3. Limiter!Refuse(q)
    BY <1>2, <1>4, <2>1, <2>2, SameCount DEF Limiter!Refuse, TurnAway, memory
  <2>4. QED
    BY <2>3 DEF Limiter!Next
<1>5. CASE TurnAway(q, "blocked log")
  <2>1. Refused' = Refused /\ Through' = Through
    BY <1>1, <1>2, <1>5 DEF TurnAway, Goes, Through, Refused, RequestType
  <2>2. QED
    BY <1>2, <1>5, <2>1 DEF TurnAway, memory, AbsVars
<1>6. QED
  BY <1>3, <1>4, <1>5 DEF ReadStatus

\* A step that only takes a request from one await to another, or ends it.
LEMMA GoesExact ==
    ASSUME TypeOK, NEW q \in Requests, NEW where, Goes(q, where),
           UNCHANGED <<now, user, inst, at, accepted>>,
           where \in {"query", "alarm log", "access log", "served"} => q \in Through,
           where \in {"limit log", "429"} => q \in Refused
    PROVE  Limiter!Next
<1>1. Through' \subseteq Through /\ Refused' \subseteq Refused
  BY Parts DEF Goes, Through, Refused, RequestType
<1>2. QED
  BY <1>1 DEF Limiter!Next, Limiter!Drop, Limiter!Lose

LEMMA ExactStep ==
    ASSUME ExactInv, [Next]_vars
    PROVE  Limiter!Next \/ UNCHANGED AbsVars
<1>1. RequestType /\ MemoryType /\ RestType /\ TypeOK
  BY Parts DEF ExactInv
<1>2. CASE Tick
  <2>1. now' > now
    BY <1>1, <1>2, TimesAssumption DEF Tick, RestType, Times
  <2>2. Limiter!Pass
    BY <1>2, <2>1 DEF Tick, requestVars, memory, Through, Refused, Limiter!Pass
  <2>3. QED
    BY <2>2 DEF Limiter!Next
<1>3. CASE (\E u \in Users, s \in Statuses : SetStatus(u, s)) \/ UNCHANGED vars
  BY <1>3 DEF SetStatus, vars, requestVars, memory, AbsVars, Through, Refused
<1>4. ASSUME NEW q \in Requests, NEW u \in Users, Arrive(q, u) PROVE Limiter!Next
  <2>1. pc[q] = "none" /\ pc' = [pc EXCEPT ![q] = "status"]
        /\ user' = [user EXCEPT ![q] = u] /\ UNCHANGED <<now, inst, at, accepted>>
    BY <1>4 DEF Arrive, Goes, memory
  <2>2. q \notin Through \cup Refused \cup UNION {accepted[i] : i \in Instances}
    <3>1. \A i \in Instances : q \notin accepted[i]
      BY <2>1 DEF ExactInv, LimitInv, Remembers
    <3>2. QED
      BY <2>1, <3>1 DEF Through, Refused
  <2>3. Through' = Through /\ Refused' = Refused
    BY <1>1, <2>1 DEF Through, Refused, RequestType
  <2>4. Limiter!Arrive(q, u)
    BY <2>1, <2>2, <2>3 DEF Limiter!Arrive
  <2>5. QED
    BY <2>4 DEF Limiter!Next
<1>5. ASSUME NEW q \in Requests,
             ArriveBare(q) \/ ArriveInvalid(q) \/ Throw(q) \/ Refuse403(q) \/ Refuse429(q)
      PROVE  Limiter!Next
  BY <1>1, <1>5, GoesExact DEF ArriveBare, ArriveInvalid, Throw, Refuse403, Refuse429, WriteLog, memory,
     Refused
<1>6. ASSUME NEW q \in Requests, Count(q) \/ RaiseAlarm(q) \/ Serve(q) PROVE Limiter!Next
  <2>1. q \in Through /\ UNCHANGED <<now, user, inst, at, accepted>>
    BY <1>6 DEF Count, RaiseAlarm, Serve, WriteLog, memory, Through
  <2>2. \E where \in {"alarm log", "access log", "served"} : Goes(q, where)
    BY <1>6 DEF Count, RaiseAlarm, Serve, WriteLog
  <2>3. QED
    BY <1>1, <2>1, <2>2, GoesExact
<1>7. ASSUME NEW i \in Instances, HourlyClear(i) \/ StopInstance(i) PROVE Limiter!Next
  <2>1. Clear(i) /\ Through' \subseteq Through /\ Refused' \subseteq Refused
    BY <1>1, <1>7 DEF HourlyClear, StopInstance, Through, Refused, RequestType, Waiting
  <2>2. Limiter!Forget(i)
    BY <2>1 DEF Clear, Limiter!Forget, Limiter!Lose
  <2>3. QED
    BY <2>2 DEF Limiter!Next
<1>8. QED
  BY <1>2, <1>3, <1>4, <1>5, <1>6, <1>7, ReadStatusExact DEF Next, RequestStep

\* For any limit and any windows, accounts, instances and requests: pruning the
\* memory never changes an answer of the limiter.
THEOREM PruningIsExact == Spec => LimiterIsExact
<1>1. Init => Limiter!Init
  BY DEF Init, Limiter!Init, Through, Refused
<1>2. Init => ExactInv
  BY InitType, LimitInit DEF Init, ExactInv, Recalls
<1>3. ExactInv /\ [Next]_vars => ExactInv'
  BY TypeStep, LimitStep, RecallsStep DEF ExactInv
<1>4. ExactInv /\ [Next]_vars => [Limiter!Next]_AbsVars
  BY ExactStep
<1>5. QED
  BY <1>1, <1>2, <1>3, <1>4, PTL DEF Spec, LimiterIsExact, Limiter!Spec, AbsVars
=============================================================================
