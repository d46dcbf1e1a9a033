------------------------ MODULE AccountStatusProofs ------------------------
(***************************************************************************)
(* Proofs about AccountStatus, for any number of clicks, accounts, reports *)
(* and failures.                                                           *)
(***************************************************************************)
EXTENDS AccountStatus, TLAPS

-----------------------------------------------------------------------------
LEMMA InitType == Init => TypeOK
BY UsersAssumption, ReportsAssumption, LimitsAssumption DEF Init, TypeOK, Steps

\* A click takes the accounts and reports it is about from the page.
Started(h) ==
    \E step \in Steps, rs \in SUBSET Reports, us \in SUBSET Users :
       /\ Click(h, step, rs, us)
       /\ step # "count"
       /\ step \in {"readAccount", "judge", "block", "log"} =>
             \E u \in Users : us = {u}

LEMMA StartedClick ==
    ASSUME TypeOK, NEW h \in Clicks, ClickStart(h) PROVE Started(h)
<1> USE ReportsAssumption, ItemsAssumption DEF Steps
<1>1. ASSUME NEW i \in Items, ClickBlockItem(h, i) PROVE Started(h)
  BY <1>1 DEF Started, ClickBlockItem
<1>2. ASSUME NEW r \in Reports, ClickConfirm(h, r) PROVE Started(h)
  BY <1>2 DEF Started, ClickConfirm
<1>3. ASSUME NEW u \in Users, ClickBlockUser(h, u) PROVE Started(h)
  BY <1>3 DEF Started, ClickBlockUser
<1>4. CASE ClickScan(h)
  BY <1>4 DEF Started, ClickScan, TypeOK
<1>5. CASE ClickDeleteFlagged(h)
  BY <1>5 DEF Started, ClickDeleteFlagged, TypeOK
<1>6. CASE ClickBlockOwners(h)
  BY <1>6 DEF Started, ClickBlockOwners, TypeOK
<1>7. QED
  BY <1>1, <1>2, <1>3, <1>4, <1>5, <1>6 DEF ClickStart

LEMMA TypeStep == ASSUME TypeOK, [Next]_vars PROVE TypeOK'
<1> USE UsersAssumption, ReportsAssumption, ItemsAssumption, LimitsAssumption
<1> USE DEF accountVars, boardVars, clickVars, timerVars, histVars, decideVars,
            countVars, rulingVars, Steps
<1>1. ASSUME NEW h \in Clicks, NEW u \in Users, ReadAccount(h, u) PROVE TypeOK'
  BY <1>1 DEF TypeOK, ReadAccount, Go, AfterRead, AccountData
<1>2. ASSUME NEW h \in Clicks, NEW u \in Users, CountViolation(h, u) PROVE TypeOK'
  <2> DEFINE others == Reviewing(u) \ {h}
             n == read[h].n + 1
  <2>1. n \in Nat /\ read[h].st \in {"active", "blocked"}
    BY <1>2 DEF TypeOK, CountViolation
  <2>2. /\ status' \in [Users -> {"none", "active", "blocked"}]
        /\ decided' \in [Users -> {"none", "block", "lift"}]
        /\ muddled' \subseteq Users /\ open' \subseteq Reports
        /\ dropped' \subseteq Users
    <3>1. CASE Block(u, others)
      BY <3>1 DEF TypeOK, Block, Decide
    <3>2. CASE WriteBack(h, u, others)
      BY <2>1, <3>2 DEF TypeOK, WriteBack, NewStatus
    <3>3. QED
      BY <1>2, <3>1, <3>2 DEF CountViolation
  <2>3. /\ violations' \in [Users -> Nat] /\ tally' \in [Users -> Nat]
        /\ miscounted' \subseteq Users
    BY <1>2, <2>1 DEF TypeOK, CountViolation
  <2>4. at' \in [Clicks -> Steps \cup {"idle", "done"}]
    BY <1>2 DEF TypeOK, CountViolation, Go
  <2>5. UNCHANGED <<logs, boardVars, left, owners, read, timerVars, failures>>
    BY <1>2 DEF CountViolation
  <2>6. ASSUME NEW g \in Clicks
        PROVE  /\ at'[g] = "count" => read'[g].st # "none"
               /\ at'[g] \in {"readAccount", "count", "judge", "block", "log"} =>
                     \E v \in Users : owners'[g] = {v}
    BY <1>2, <2>5 DEF TypeOK, CountViolation, Go
  <2>7. QED
    BY <2>2, <2>3, <2>4, <2>5, <2>6 DEF TypeOK
<1>3. ASSUME NEW h \in Clicks, NEW u \in Users, BlockOwner(h, u) PROVE TypeOK'
  BY <1>3 DEF TypeOK, BlockOwner, Go, Keep, Block, Decide, BlockNext
<1>4. ASSUME NEW h \in Clicks, NEW u \in Users, OwnerMissing(h, u) PROVE TypeOK'
  BY <1>4 DEF TypeOK, OwnerMissing, Stop, Go
<1>5. ASSUME NEW h \in Clicks, NEW u \in Users, LogBlock(h, u) PROVE TypeOK'
  BY <1>5 DEF TypeOK, LogBlock, Go, Log
<1>6. ASSUME NEW h \in Clicks, NEW r \in Reports, Judge(h, r) PROVE TypeOK'
  BY <1>6 DEF TypeOK, Judge, Go
<1>7. ASSUME NEW h \in Clicks, NEW r \in Reports, ScanReport(h, r) PROVE TypeOK'
  BY <1>7 DEF TypeOK, ScanReport, Go, Keep, Collected
<1>8. ASSUME NEW h \in Clicks, NEW r \in Reports, ScanAborts(h, r) PROVE TypeOK'
  BY <1>8 DEF TypeOK, ScanAborts, Stop, Go
<1>9. ASSUME NEW h \in Clicks, NEW r \in Reports, DeleteFlagged(h, r) PROVE TypeOK'
  BY <1>9 DEF TypeOK, DeleteFlagged, Go, Keep
<1>10. ASSUME NEW h \in Clicks, ClickFails(h) PROVE TypeOK'
  BY <1>10 DEF TypeOK, ClickFails, Stop, Go
<1>11. ASSUME NEW h \in Clicks, ClickStart(h) PROVE TypeOK'
  <2>1. Started(h)
    BY <1>11, StartedClick
  <2>2. QED
    BY <2>1 DEF Started, TypeOK, Click, Go, Keep
<1>12. ASSUME NEW r \in Reports, ClearFlag(r) PROVE TypeOK'
  BY <1>12 DEF TypeOK, ClearFlag
<1>13. CASE StartRound \/ TimerStep \/ RoundFails
  BY <1>13 DEF TypeOK, StartRound, TimerStep, RoundFails, BlockOffender, LookUp, Skip, EndRound, Offenders, Block, Decide
<1>14. ASSUME NEW u \in Users, OneRequest(u) PROVE TypeOK'
  <2>1. CASE FixExpiredUser(u)
    BY <2>1 DEF TypeOK, FixExpiredUser, Block, Decide
  <2>2. CASE Lift(u)
    BY <2>2 DEF TypeOK, Lift, Decide
  <2>3. CASE GatewayLogs(u) \/ LogAges(u)
    <3>1. logs[u] \in 0 .. MaxLogs /\ MaxLogs \in Nat
      BY DEF TypeOK
    <3>2. logs' \in [Users -> 0 .. MaxLogs]
      <4>1. CASE GatewayLogs(u)
        BY <3>1, <4>1 DEF TypeOK, GatewayLogs, Log
      <4>2. CASE LogAges(u)
        <5>1. logs[u] - 1 \in 0 .. MaxLogs
          BY <3>1, <4>2 DEF LogAges
        <5>2. QED
          BY <4>2, <5>1 DEF TypeOK, LogAges
      <4>3. QED
        BY <2>3, <4>1, <4>2
    <3>3. QED
      BY <2>3, <3>2 DEF TypeOK, GatewayLogs, LogAges
  <2>4. QED
    BY <1>14, <2>1, <2>2, <2>3 DEF OneRequest, UnblockUser, RedeemCode
<1>15. CASE UNCHANGED vars
  BY <1>15 DEF TypeOK, vars
<1>16. QED
  BY <1>1, <1>2, <1>3, <1>4, <1>5, <1>6, <1>7, <1>8, <1>9, <1>10, <1>11, <1>12, <1>13, <1>14, <1>15 DEF Next, ClickStep

\* Every variable keeps its type; a click that writes an account has one, and
\* a review never counts for an account without a document.
THEOREM TypeCorrect == Spec => []TypeOK
BY InitType, TypeStep, PTL DEF Spec

-----------------------------------------------------------------------------
(***************************************************************************)
(* Reviews hold what they read: unless somebody wrote behind its back, the *)
(* account still is what a review in flight is going to build on.          *)
(***************************************************************************)
ReadsCurrent ==
    \A h \in Clicks : \A u \in owners[h] :
        at[h] = "count" =>
            /\ u \notin muddled => read[h].st = status[u]
            /\ u \notin miscounted => read[h].n = violations[u]

ReviewInv == TypeOK /\ ReadsCurrent /\ StatusAsDecided /\ CountedInTurn

LEMMA InitReview == Init => ReviewInv
BY InitType DEF Init, ReviewInv, ReadsCurrent, StatusAsDecided, CountedInTurn

\* A decision about u, made by a click or by none, that is no review.
Decided(u) == \E d \in {"block", "lift"} :
    /\ Decide(u, d, Reviewing(u))
    /\ UNCHANGED <<violations, countVars, read>>

\* The reviews in flight, and their accounts, stay or get fewer.
ReviewsStay ==
    \A h \in Clicks : at'[h] = "count" => /\ at[h] = "count"
                                          /\ owners'[h] = owners[h]

LEMMA DecidedStep ==
    ASSUME ReviewInv, NEW u \in Users, Decided(u), ReviewsStay
    PROVE  (ReadsCurrent /\ StatusAsDecided /\ CountedInTurn)'
<1>1. PICK d \in {"block", "lift"} : Decide(u, d, Reviewing(u))
  BY DEF Decided
<1>2. UNCHANGED <<violations, countVars, read>>
  BY DEF Decided
<1>3. StatusAsDecided'
  BY <1>1 DEF ReviewInv, TypeOK, StatusAsDecided, Decide
<1>4. CountedInTurn'
  BY <1>2 DEF ReviewInv, CountedInTurn, countVars
<1>5. ASSUME NEW h \in Clicks, NEW v \in owners'[h], at'[h] = "count"
      PROVE  /\ v \notin muddled' => read'[h].st = status'[v]
             /\ v \notin miscounted' => read'[h].n = violations'[v]
  <2>1. at[h] = "count" /\ v \in owners[h] /\ v \in Users
    BY <1>5 DEF ReviewsStay, ReviewInv, TypeOK
  <2>2. CASE v = u
    BY <1>1, <1>2, <2>1, <2>2 DEF Decide, Reviewing, ReviewInv, ReadsCurrent, countVars
  <2>3. CASE v # u
    BY <1>1, <1>2, <2>1, <2>3 DEF Decide, ReviewInv, TypeOK, ReadsCurrent, countVars
  <2>4. QED
    BY <2>2, <2>3
<1>6. QED
  BY <1>3, <1>4, <1>5 DEF ReadsCurrent

LEMMA QuietStep ==
    ASSUME ReviewInv, ReviewsStay,
           UNCHANGED <<status, violations, read, decideVars, countVars>>
    PROVE  (ReadsCurrent /\ StatusAsDecided /\ CountedInTurn)'
BY DEF ReviewInv, ReviewsStay, ReadsCurrent, StatusAsDecided, CountedInTurn,
       decideVars, countVars

LEMMA ReadStep ==
    ASSUME ReviewInv, NEW h \in Clicks, NEW u \in Users, ReadAccount(h, u)
    PROVE  (ReadsCurrent /\ StatusAsDecided /\ CountedInTurn)'
<1>1. (StatusAsDecided /\ CountedInTurn)'
  BY DEF ReviewInv, StatusAsDecided, CountedInTurn, ReadAccount, accountVars,
         histVars, decideVars, countVars
<1>2. owners[h] = {u}
  BY DEF ReviewInv, TypeOK, ReadAccount
<1>3. ReadsCurrent'
  BY <1>2 DEF ReviewInv, TypeOK, ReadsCurrent, ReadAccount, Go, AccountData,
     accountVars, histVars, decideVars, countVars
<1>4. QED
  BY <1>1, <1>3

LEMMA CountStep ==
    ASSUME ReviewInv, NEW h \in Clicks, NEW u \in Users, CountViolation(h, u)
    PROVE  (ReadsCurrent /\ StatusAsDecided /\ CountedInTurn)'
<1> DEFINE others == Reviewing(u) \ {h}
           n == read[h].n + 1
<1>1. /\ at[h] = "count" /\ owners[h] = {u}
      /\ at' = [at EXCEPT ![h] = "done"]
      /\ violations' = [violations EXCEPT ![u] = n]
      /\ tally' = [tally EXCEPT ![u] = @ + 1]
      /\ miscounted' = IF others = {} THEN miscounted ELSE miscounted \cup {u}
      /\ owners' = owners /\ read' = read
  BY DEF ReviewInv, TypeOK, CountViolation, Go
<1>2. /\ u \notin muddled => read[h].st = status[u]
      /\ u \notin miscounted => read[h].n = violations[u]
  BY <1>1 DEF ReviewInv, ReadsCurrent
<1>3. CountedInTurn'
  BY <1>1, <1>2 DEF ReviewInv, TypeOK, CountedInTurn
<1>4. /\ muddled \ {u} \subseteq muddled' /\ muddled' \subseteq muddled \cup {u}
      /\ \A v \in Users \ {u} : status'[v] = status[v] /\ decided'[v] = decided[v]
      /\ u \notin muddled' =>
            /\ others = {}
            /\ status'[u] = "blocked" <=> decided'[u] = "block"
  <2>1. CASE Block(u, others)
    BY <2>1 DEF ReviewInv, TypeOK, Block, Decide
  <2>2. CASE WriteBack(h, u, others)
    BY <1>2, <2>2 DEF ReviewInv, TypeOK, StatusAsDecided, WriteBack, NewStatus
  <2>3. QED
    BY <2>1, <2>2 DEF CountViolation
<1>5. StatusAsDecided'
  BY <1>4 DEF ReviewInv, StatusAsDecided
<1>6. ASSUME NEW g \in Clicks, NEW v \in owners'[g], at'[g] = "count"
      PROVE  /\ v \notin muddled' => read'[g].st = status'[v]
             /\ v \notin miscounted' => read'[g].n = violations'[v]
  <2>1. g # h /\ at[g] = "count" /\ v \in owners[g] /\ v \in Users
    BY <1>1, <1>6 DEF ReviewInv, TypeOK
  <2>2. CASE v = u
    BY <1>1, <1>4, <2>1, <2>2 DEF Reviewing
  <2>3. CASE v # u
    BY <1>1, <1>4, <2>1, <2>3 DEF ReviewInv, TypeOK, ReadsCurrent
  <2>4. QED
    BY <2>2, <2>3
<1>7. QED
  BY <1>3, <1>5, <1>6 DEF ReadsCurrent

LEMMA ReviewStep == ASSUME ReviewInv, [Next]_vars PROVE ReviewInv'
<1>1. TypeOK'
  BY TypeStep DEF ReviewInv
<1> USE DEF accountVars, boardVars, clickVars, timerVars, histVars, rulingVars
<1>2. ASSUME NEW h \in Clicks, ClickStart(h)
      PROVE  (ReadsCurrent /\ StatusAsDecided /\ CountedInTurn)'
  <2>1. Started(h)
    BY <1>2, StartedClick DEF ReviewInv
  <2>2. ReviewsStay
    BY <2>1 DEF Started, Click, Go, Keep, ReviewsStay, ReviewInv, TypeOK
  <2>3. QED
    BY <2>1, <2>2, QuietStep DEF Started, Click
<1>3. ASSUME NEW h \in Clicks, ClickStep(h)
      PROVE  (ReadsCurrent /\ StatusAsDecided /\ CountedInTurn)'
  <2>1. ASSUME NEW u \in Users, BlockOwner(h, u)
        PROVE  (ReadsCurrent /\ StatusAsDecided /\ CountedInTurn)'
    <3>1. ReviewsStay
      BY <2>1 DEF BlockOwner, BlockNext, Go, Keep, ReviewsStay, ReviewInv, TypeOK
    <3>2. Decided(u)
      BY <2>1 DEF BlockOwner, Block, Decided
    <3>3. QED
      BY <3>1, <3>2, DecidedStep
  <2>2. ASSUME NEW u \in Users, OwnerMissing(h, u) \/ LogBlock(h, u)
        PROVE  (ReadsCurrent /\ StatusAsDecided /\ CountedInTurn)'
    BY <2>2, QuietStep
       DEF OwnerMissing, LogBlock, Stop, Go, ReviewsStay, ReviewInv, TypeOK
  <2>3. ASSUME NEW r \in Reports, Judge(h, r) \/ ScanAborts(h, r)
        PROVE  (ReadsCurrent /\ StatusAsDecided /\ CountedInTurn)'
    BY <2>3, QuietStep
       DEF Judge, ScanAborts, Stop, Go, ReviewsStay, ReviewInv, TypeOK
  <2>4. ASSUME NEW r \in Reports, ScanReport(h, r) \/ DeleteFlagged(h, r)
        PROVE  (ReadsCurrent /\ StatusAsDecided /\ CountedInTurn)'
    BY <2>4, QuietStep
       DEF ScanReport, DeleteFlagged, Go, Keep, ReviewsStay, ReviewInv, TypeOK
  <2>5. QED
    BY <1>3, <2>1, <2>2, <2>3, <2>4, ReadStep, CountStep DEF ClickStep
<1>4. ASSUME NEW h \in Clicks, ClickFails(h)
      PROVE  (ReadsCurrent /\ StatusAsDecided /\ CountedInTurn)'
  BY <1>4, QuietStep DEF ClickFails, Stop, Go, ReviewsStay, ReviewInv, TypeOK
<1>5. ASSUME NEW r \in Reports, ClearFlag(r)
      PROVE  (ReadsCurrent /\ StatusAsDecided /\ CountedInTurn)'
  BY <1>5, QuietStep DEF ClearFlag, ReviewsStay
<1>6. CASE StartRound \/ RoundFails
  <2>1. ReviewsStay
    BY <1>6 DEF StartRound, RoundFails, ReviewsStay
  <2>2. QED
    BY <1>1, <1>6, <2>1, QuietStep DEF StartRound, RoundFails, ReviewInv
<1>7. CASE TimerStep
  <2>1. CASE BlockOffender
    <3>1. ReviewsStay
      BY <2>1 DEF BlockOffender, ReviewsStay
    <3>2. PICK u \in Users : u = looked
      BY <2>1 DEF BlockOffender, ReviewInv, TypeOK
    <3>3. Decided(u)
      BY <2>1, <3>2 DEF BlockOffender, Block, Decided
    <3>4. QED
      BY <1>1, <3>1, <3>3, DecidedStep DEF ReviewInv
  <2>2. ASSUME NEW u \in Users, LookUp(u)
        PROVE  (ReadsCurrent /\ StatusAsDecided /\ CountedInTurn)'
    <3>1. ReviewsStay
      BY <2>2 DEF LookUp, ReviewsStay
    <3>2. QED
      BY <2>2, <3>1, QuietStep DEF LookUp
  <2>3. QED
    BY <1>1, <1>7, <2>1, <2>2 DEF TimerStep, ReviewInv
<1>8. ASSUME NEW u \in Users, OneRequest(u)
      PROVE  (ReadsCurrent /\ StatusAsDecided /\ CountedInTurn)'
  <2>1. CASE FixExpiredUser(u) \/ Lift(u)
    <3>1. ReviewsStay /\ Decided(u)
      BY <2>1 DEF FixExpiredUser, Lift, Block, Decided, ReviewsStay
    <3>2. QED
      BY <3>1, DecidedStep
  <2>2. CASE GatewayLogs(u) \/ LogAges(u)
    BY <2>2, QuietStep DEF GatewayLogs, LogAges, ReviewsStay
  <2>3. QED
    BY <1>8, <2>1, <2>2 DEF OneRequest, UnblockUser, RedeemCode
<1>9. CASE UNCHANGED vars
  <2>1. ReviewsStay
    BY <1>9 DEF vars, ReviewsStay
  <2>2. QED
    BY <1>1, <1>9, <2>1, QuietStep DEF vars, ReviewInv
<1>10. QED
  BY <1>1, <1>2, <1>3, <1>4, <1>5, <1>6, <1>7, <1>8, <1>9 DEF Next, ReviewInv

LEMMA AlwaysReview == Spec => []ReviewInv
BY InitReview, ReviewStep, PTL DEF Spec

\* The status of an account is the last decision about it, whoever made it,
\* unless a review had read the account before another write and not written.
THEOREM LastDecisionHolds == Spec => []StatusAsDecided
<1>1. ReviewInv => StatusAsDecided
  BY DEF ReviewInv
<1>2. QED
  BY <1>1, AlwaysReview, PTL

\* No violation is lost or counted twice unless two reviews overlapped.
THEOREM ViolationsCounted == Spec => []CountedInTurn
<1>1. ReviewInv => CountedInTurn
  BY DEF ReviewInv
<1>2. QED
  BY <1>1, AlwaysReview, PTL

\* Every step is part of a review, or leaves reviews in flight and what they
\* counted alone.
LEMMA StepReviews ==
    ASSUME TypeOK, [Next]_vars
    PROVE  \/ \E h \in Clicks, u \in Users : ReadAccount(h, u) \/ CountViolation(h, u)
           \/ ReviewsStay /\ UNCHANGED <<violations, tally, read>>
<1> DEFINE Uncounted == ReviewsStay /\ UNCHANGED <<violations, tally, read>>
<1> USE DEF accountVars, boardVars, clickVars, timerVars, histVars, countVars, rulingVars
<1>1. ASSUME NEW h \in Clicks, ClickStart(h) PROVE Uncounted
  <2>1. Started(h)
    BY <1>1, StartedClick
  <2>2. QED
    BY <2>1 DEF Started, Click, Go, Keep, ReviewsStay, TypeOK
<1>2. ASSUME NEW h \in Clicks, NEW u \in Users, BlockOwner(h, u) PROVE Uncounted
  BY <1>2 DEF BlockOwner, BlockNext, Go, Keep, ReviewsStay, TypeOK
<1>3. ASSUME NEW h \in Clicks, Stop(h) PROVE Uncounted
  BY <1>3 DEF Stop, Go, ReviewsStay, TypeOK
<1>4. ASSUME NEW h \in Clicks, NEW u \in Users, LogBlock(h, u) PROVE Uncounted
  BY <1>4 DEF LogBlock, Go, ReviewsStay, TypeOK
<1>5. ASSUME NEW h \in Clicks, NEW r \in Reports,
             Judge(h, r) \/ ScanReport(h, r) \/ DeleteFlagged(h, r)
      PROVE  Uncounted
  BY <1>5 DEF Judge, ScanReport, DeleteFlagged, Go, Keep, ReviewsStay, TypeOK
<1>6. ASSUME NEW u \in Users, OneRequest(u) PROVE Uncounted
  BY <1>6 DEF OneRequest, FixExpiredUser, UnblockUser, RedeemCode, Lift,
     GatewayLogs, LogAges, ReviewsStay
<1>7. CASE \/ StartRound \/ TimerStep \/ RoundFails \/ UNCHANGED vars
           \/ \E r \in Reports : ClearFlag(r)
  BY <1>7 DEF StartRound, TimerStep, BlockOffender, LookUp, RoundFails, ClearFlag,
     vars, ReviewsStay
<1>8. QED
  BY <1>1, <1>2, <1>3, <1>4, <1>5, <1>6, <1>7
     DEF Next, ClickStep, ClickFails, ScanAborts, OwnerMissing

\* What a review read is no more than what was counted.
ReadsWithin ==
    \A h \in Clicks : at[h] = "count" => \A u \in owners[h] : read[h].n <= tally[u]

CountInv == ReadsWithin /\ CountedWithin

\* A step that is no part of a review leaves what was read and counted alone.
LEMMA UncountedStep ==
    ASSUME TypeOK, CountInv, ReviewsStay, UNCHANGED <<violations, tally, read>>
    PROVE  CountInv'
BY DEF CountInv, ReadsWithin, CountedWithin, ReviewsStay

\* The others, too, have read no more than what is counted now.
LEMMA CountWithinStep ==
    ASSUME TypeOK, CountInv, NEW h \in Clicks, NEW u \in Users, CountViolation(h, u)
    PROVE  CountInv'
<1>1. /\ at[h] = "count" /\ u \in owners[h]
      /\ at' = [at EXCEPT ![h] = "done"]
      /\ violations' = [violations EXCEPT ![u] = read[h].n + 1]
      /\ tally' = [tally EXCEPT ![u] = @ + 1]
      /\ owners' = owners /\ read' = read
  BY DEF CountViolation, Go
<1>2. read[h].n \in Nat /\ read[h].n <= tally[u] /\ tally \in [Users -> Nat]
  BY <1>1 DEF TypeOK, CountInv, ReadsWithin
<1>3. CountedWithin'
  BY <1>1, <1>2 DEF TypeOK, CountInv, CountedWithin
<1>4. ASSUME NEW g \in Clicks, at'[g] = "count", NEW v \in owners'[g]
      PROVE  read'[g].n <= tally'[v]
  <2>1. /\ at[g] = "count" /\ v \in owners[g] /\ v \in Users
        /\ read[g].n \in Nat /\ tally[v] \in Nat
    BY <1>1, <1>4 DEF TypeOK
  <2>2. read[g].n <= tally[v] /\ tally[v] <= tally'[v]
    BY <1>1, <2>1 DEF TypeOK, CountInv, ReadsWithin
  <2>3. QED
    BY <1>1, <1>2, <2>1, <2>2
<1>5. QED
  BY <1>3, <1>4 DEF CountInv, ReadsWithin

LEMMA ReadWithinStep ==
    ASSUME TypeOK, CountInv, NEW h \in Clicks, NEW u \in Users, ReadAccount(h, u)
    PROVE  CountInv'
<1>1. /\ owners[h] = {u} /\ owners' = owners
      /\ \A g \in Clicks \ {h} : at'[g] = at[g] /\ read'[g] = read[g]
      /\ read'[h].n = violations[u]
      /\ UNCHANGED <<violations, tally>>
  BY DEF TypeOK, ReadAccount, Go, AccountData, accountVars, histVars, countVars
<1>2. QED
  BY <1>1 DEF CountInv, ReadsWithin, CountedWithin

\* However the reviews overlap, lost updates only ever lose.
THEOREM NeverOvercounted == Spec => []CountedWithin
<1>1. Init => CountInv
  BY DEF Init, CountInv, ReadsWithin, CountedWithin
<1>2. TypeOK /\ CountInv /\ [Next]_vars => CountInv'
  <2> SUFFICES ASSUME TypeOK, CountInv, [Next]_vars PROVE CountInv'
    OBVIOUS
  <2>1. ASSUME NEW h \in Clicks, NEW u \in Users, ReadAccount(h, u) \/ CountViolation(h, u)
        PROVE  CountInv'
    BY <2>1, ReadWithinStep, CountWithinStep
  <2>2. CASE ReviewsStay /\ UNCHANGED <<violations, tally, read>>
    BY <2>2, UncountedStep
  <2>3. QED
    BY <2>1, <2>2, StepReviews
<1>3. CountInv => CountedWithin
  BY DEF CountInv
<1>4. QED
  BY <1>1, <1>2, <1>3, TypeCorrect, PTL DEF Spec

\* The count of an account in both cases, for any number of clicks and accounts.
THEOREM CountsHold == Spec => []ViolationsAreCounted
BY ViolationsCounted, NeverOvercounted, PTL DEF ViolationsAreCounted

-----------------------------------------------------------------------------
(***************************************************************************)
(* A ruling is either in the hands of the click that made it, or carried   *)
(* out, or dropped by a failure.  Clicks only let go of an account with    *)
(* Block or Stop.                                                          *)
(***************************************************************************)
Holds(h, u) == at[h] \in {"block", "scan", "blockOwners"} /\ u \in owners[h]

LEMMA RulingsHeld ==
    RulingsReachAccounts <=>
    \A r \in open : Author[r] \in dropped \/ \E h \in Clicks : Holds(h, Author[r])
BY DEF RulingsReachAccounts, Holds

\* Nothing to rule on is new, and what is let go of is dropped.
LEMMA HeldStep ==
    ASSUME TypeOK, RulingsReachAccounts, open' \subseteq open,
           dropped \subseteq dropped',
           \A h \in Clicks, u \in Users : Holds(h, u) => Holds(h, u)' \/ u \in dropped'
    PROVE  RulingsReachAccounts'
<1>1. RulingsReachAccounts' <=>
      \A r \in open' : Author[r] \in dropped' \/ \E h \in Clicks : Holds(h, Author[r])'
  BY DEF RulingsReachAccounts, Holds
<1>2. ASSUME NEW r \in open'
      PROVE  Author[r] \in dropped' \/ \E h \in Clicks : Holds(h, Author[r])'
  <2>1. r \in open /\ Author[r] \in Users
    BY ReportsAssumption DEF TypeOK
  <2>2. QED
    BY <2>1, RulingsHeld
<1>3. QED
  BY <1>1, <1>2

\* A block carries out every ruling on the account.
LEMMA BlockStep ==
    ASSUME TypeOK, RulingsReachAccounts, NEW u \in Users, NEW others, Block(u, others),
           \A h \in Clicks, v \in Users \ {u} : Holds(h, v) => Holds(h, v)'
    PROVE  RulingsReachAccounts'
<1>1. RulingsReachAccounts' <=>
      \A r \in open' : Author[r] \in dropped' \/ \E h \in Clicks : Holds(h, Author[r])'
  BY DEF RulingsReachAccounts, Holds
<1>2. ASSUME NEW r \in open'
      PROVE  Author[r] \in dropped' \/ \E h \in Clicks : Holds(h, Author[r])'
  <2>1. r \in open /\ Author[r] \in Users \ {u}
    BY ReportsAssumption DEF TypeOK, Block
  <2>2. QED
    BY <2>1, RulingsHeld DEF Block
<1>3. QED
  BY <1>1, <1>2

LEMMA StopStep ==
    ASSUME TypeOK, RulingsReachAccounts, NEW h \in Clicks, Stop(h)
    PROVE  RulingsReachAccounts'
BY HeldStep DEF Stop, Go, Holds, TypeOK

\* A click that rules on a report holds its author from then on.
LEMMA RuledStep ==
    ASSUME TypeOK, RulingsReachAccounts, NEW h \in Clicks, NEW r \in Reports,
           open' = open \cup {r}, dropped' = dropped, Holds(h, Author[r])',
           \A g \in Clicks, u \in Users : Holds(g, u) => Holds(g, u)'
    PROVE  RulingsReachAccounts'
<1>1. RulingsReachAccounts' <=>
      \A p \in open' : Author[p] \in dropped' \/ \E g \in Clicks : Holds(g, Author[p])'
  BY DEF RulingsReachAccounts, Holds
<1>2. ASSUME NEW p \in open'
      PROVE  Author[p] \in dropped' \/ \E g \in Clicks : Holds(g, Author[p])'
  <2>1. Author[p] \in Users
    BY ReportsAssumption DEF TypeOK
  <2>2. QED
    BY <2>1, RulingsHeld
<1>3. QED
  BY <1>1, <1>2

\* confirmViolation is given the author with the report.
JudgesOwner ==
    \A h \in Clicks : at[h] = "judge" => \A r \in left[h] : Author[r] \in owners[h]

LEMMA JudgeStep ==
    ASSUME TypeOK, JudgesOwner, [Next]_vars PROVE JudgesOwner'
<1> USE DEF accountVars, boardVars, clickVars, timerVars, histVars, rulingVars
<1>1. ASSUME NEW h \in Clicks, ClickStart(h) PROVE JudgesOwner'
  <2>1. ASSUME NEW r \in Reports, ClickConfirm(h, r) PROVE JudgesOwner'
    BY <2>1 DEF ClickConfirm, Click, Go, Keep, JudgesOwner, TypeOK
  <2>2. ASSUME NEW step \in Steps \ {"judge"}, NEW rs, NEW us, Click(h, step, rs, us)
        PROVE  JudgesOwner'
    BY <2>2 DEF Click, Go, Keep, JudgesOwner, TypeOK
  <2>3. QED
    BY <1>1, <2>1, <2>2 DEF ClickStart, ClickBlockItem, ClickBlockUser,
       ClickScan, ClickDeleteFlagged, ClickBlockOwners, Steps
<1>2. ASSUME NEW h \in Clicks, ClickStep(h) \/ ClickFails(h) PROVE JudgesOwner'
  <2> DEFINE NoNewJudge(k) ==
        /\ \A g \in Clicks : at'[g] = "judge" => g # k /\ at[g] = "judge"
        /\ \A g \in Clicks \ {k} : left'[g] = left[g] /\ owners'[g] = owners[g]
  <2>1. NoNewJudge(h)
    <3>1. ASSUME NEW u \in Users, ReadAccount(h, u) \/ CountViolation(h, u) \/ LogBlock(h, u)
          PROVE  NoNewJudge(h)
      BY <3>1 DEF ReadAccount, AfterRead, CountViolation, LogBlock, Go, TypeOK
    <3>2. ASSUME NEW u \in Users, BlockOwner(h, u) PROVE NoNewJudge(h)
      BY <3>2 DEF BlockOwner, BlockNext, Go, Keep, TypeOK
    <3>3. ASSUME NEW r \in Reports, Judge(h, r) PROVE NoNewJudge(h)
      BY <3>3 DEF Judge, Go, TypeOK
    <3>4. ASSUME NEW r \in Reports, ScanReport(h, r) \/ DeleteFlagged(h, r) PROVE NoNewJudge(h)
      BY <3>4 DEF ScanReport, DeleteFlagged, Go, Keep, TypeOK
    <3>5. CASE Stop(h)
      BY <3>5 DEF Stop, Go, TypeOK
    <3>6. QED
      BY <1>2, <3>1, <3>2, <3>3, <3>4, <3>5
         DEF ClickStep, ClickFails, ScanAborts, OwnerMissing
  <2>2. QED
    BY <2>1 DEF JudgesOwner
<1>3. CASE TimerStep
  BY <1>3 DEF TimerStep, BlockOffender, LookUp, JudgesOwner
<1>4. ASSUME NEW u \in Users, OneRequest(u) PROVE JudgesOwner'
  BY <1>4 DEF OneRequest, FixExpiredUser, UnblockUser, RedeemCode, Lift,
     GatewayLogs, LogAges, JudgesOwner
<1>5. CASE UNCHANGED vars \/ StartRound \/ RoundFails \/ \E r \in Reports : ClearFlag(r)
  BY <1>5 DEF vars, StartRound, RoundFails, ClearFlag, JudgesOwner
<1>6. QED
  BY <1>1, <1>2, <1>3, <1>4, <1>5 DEF Next

LEMMA RulingsStep ==
    ASSUME TypeOK, JudgesOwner, RulingsReachAccounts, [Next]_vars
    PROVE  RulingsReachAccounts'
<1> USE ReportsAssumption
<1> USE DEF accountVars, boardVars, clickVars, timerVars, histVars, rulingVars
<1>1. ASSUME NEW h \in Clicks, ClickStart(h) PROVE RulingsReachAccounts'
  BY <1>1, StartedClick, HeldStep DEF Started, Click, Go, Keep, Holds, TypeOK
<1>2. ASSUME NEW h \in Clicks, ClickStep(h) PROVE RulingsReachAccounts'
  <2>1. ASSUME NEW u \in Users, ReadAccount(h, u) \/ LogBlock(h, u)
        PROVE  RulingsReachAccounts'
    BY <2>1, HeldStep DEF ReadAccount, LogBlock, Go, Holds, TypeOK
  <2>2. ASSUME NEW u \in Users, CountViolation(h, u) PROVE RulingsReachAccounts'
    <3>1. \A g \in Clicks, v \in Users : Holds(g, v) => Holds(g, v)'
      BY <2>2 DEF CountViolation, Go, Holds, TypeOK
    <3>2. CASE Block(u, Reviewing(u) \ {h})
      BY <3>1, <3>2, BlockStep
    <3>3. CASE WriteBack(h, u, Reviewing(u) \ {h})
      BY <3>1, <3>3, HeldStep DEF WriteBack
    <3>4. QED
      BY <2>2, <3>2, <3>3 DEF CountViolation
  <2>3. ASSUME NEW u \in Users, BlockOwner(h, u) PROVE RulingsReachAccounts'
    <3>1. \A g \in Clicks, v \in Users \ {u} : Holds(g, v) => Holds(g, v)'
      BY <2>3 DEF BlockOwner, BlockNext, Go, Keep, Holds, TypeOK
    <3>2. QED
      BY <2>3, <3>1, BlockStep DEF BlockOwner
  <2>4. ASSUME NEW r \in Reports, Judge(h, r) PROVE RulingsReachAccounts'
    <3>0. \A g \in Clicks, v \in Users : Holds(g, v) => Holds(g, v)'
      BY <2>4 DEF Judge, Go, Holds, TypeOK
    <3>1. CASE r \notin board
      BY <2>4, <3>0, <3>1, HeldStep DEF Judge
    <3>2. CASE r \in board
      <4>1. Holds(h, Author[r])'
        BY <2>4, <3>2 DEF Judge, Go, Holds, TypeOK, JudgesOwner
      <4>2. QED
        BY <2>4, <3>0, <3>2, <4>1, RuledStep DEF Judge
    <3>3. QED
      BY <3>1, <3>2
  <2>5. ASSUME NEW r \in Reports, ScanReport(h, r) PROVE RulingsReachAccounts'
    <3>1. \A g \in Clicks, v \in Users : Holds(g, v) => Holds(g, v)'
      BY <2>5 DEF ScanReport, Collected, Go, Keep, Holds, TypeOK
    <3>2. Holds(h, Author[r])'
      BY <2>5 DEF ScanReport, Collected, Go, Keep, Holds, TypeOK
    <3>3. QED
      BY <2>5, <3>1, <3>2, RuledStep DEF ScanReport
  <2>6. ASSUME NEW r \in Reports, DeleteFlagged(h, r) PROVE RulingsReachAccounts'
    BY <2>6, HeldStep DEF DeleteFlagged, Go, Keep, Holds, TypeOK
  <2>7. QED
    BY <1>2, <2>1, <2>2, <2>3, <2>4, <2>5, <2>6, StopStep
       DEF ClickStep, ScanAborts, OwnerMissing
<1>3. ASSUME NEW h \in Clicks, ClickFails(h) PROVE RulingsReachAccounts'
  BY <1>3, StopStep DEF ClickFails
<1>4. CASE TimerStep
  <2>1. CASE BlockOffender
    <3>1. looked \in Users
      BY <2>1 DEF BlockOffender, TypeOK
    <3>2. QED
      BY <2>1, <3>1, BlockStep DEF BlockOffender, Holds
  <2>2. ASSUME NEW u \in Users, LookUp(u) PROVE RulingsReachAccounts'
    BY <2>2, HeldStep DEF LookUp, Holds
  <2>3. QED
    BY <1>4, <2>1, <2>2 DEF TimerStep
<1>5. ASSUME NEW u \in Users, OneRequest(u) PROVE RulingsReachAccounts'
  <2>1. CASE FixExpiredUser(u)
    BY <2>1, BlockStep DEF FixExpiredUser, Holds
  <2>2. CASE Lift(u) \/ GatewayLogs(u) \/ LogAges(u)
    BY <2>2, HeldStep DEF Lift, GatewayLogs, LogAges, Holds
  <2>3. QED
    BY <1>5, <2>1, <2>2 DEF OneRequest, UnblockUser, RedeemCode
<1>6. CASE UNCHANGED vars \/ StartRound \/ RoundFails \/ \E r \in Reports : ClearFlag(r)
  BY <1>6, HeldStep DEF vars, StartRound, RoundFails, ClearFlag, Holds
<1>7. QED
  BY <1>1, <1>2, <1>3, <1>4, <1>5, <1>6 DEF Next

\* No ruling is forgotten: its author gets blocked, or the click that ruled is
\* still at it, or it failed half way.
THEOREM NoRulingForgotten == Spec => []RulingsReachAccounts
<1>1. Init => JudgesOwner /\ RulingsReachAccounts
  BY DEF Init, JudgesOwner, RulingsReachAccounts
<1>2. QED
  BY <1>1, TypeCorrect, JudgeStep, RulingsStep, PTL DEF Spec
=============================================================================
