-------------------------- MODULE ShareLinksProofs --------------------------
(***************************************************************************)
(* Proofs about ShareLinks, for any number of shares of a page and readers. *)
(***************************************************************************)
EXTENDS ShareLinks, TLAPS

USE DEF Settled

-----------------------------------------------------------------------------
LEMMA InitType == Init => TypeOK
<1>1. [of |-> NoShare, tries |-> 0, shows |-> "none"] \in Readings
  BY TriesAssumption DEF Readings
<1>2. Init => view \in [Views -> Readings] /\ excused \in [Views -> Nat]
  BY <1>1 DEF Init
<1>3. QED
  BY <1>2 DEF Init, TypeOK

\* The ways a share ends its wait, or never waits.
LEMMA SendType ==
    ASSUME TypeOK, NEW s \in Shares, NEW sent \in Shares \cup {Raw, NoShare}, Send(s, sent)
    PROVE  TypeOK'
BY DEF TypeOK, Send, Unlock, Resharing, pageVars, viewVars

LEMMA BriefType ==
    ASSUME TypeOK, NEW s \in Shares, Brief(s, NoShare) \/ Brief(s, Raw)
    PROVE  TypeOK'
<1>1. ASSUME NEW sent \in {NoShare, Raw}, Brief(s, sent) PROVE TypeOK'
  <2>1. CASE s \in Reshares
    BY <1>1, <2>1 DEF TypeOK, Brief, Unlock, Resharing, viewVars
  <2>2. CASE s \notin Reshares
    BY <1>1, <2>2 DEF TypeOK, Brief, viewVars
  <2>3. QED
    BY <2>1, <2>2
<1>2. QED
  BY <1>1

LEMMA TellType ==
    ASSUME TypeOK, NEW v \in Views, NEW n \in 0 .. MaxTries,
           NEW told \in {"images", "missing", "none"},
           told = "none" => n < MaxTries,
           Tell(v, n, told),
           UNCHANGED <<pageVars, shareVars, store, stored, shared>>,
           NEW good \in BOOLEAN, excused' = excused \/ Excuse(v, good)
    PROVE  TypeOK'
<1>1. view[v] \in Readings
  BY DEF TypeOK
<1>2. [of |-> view[v].of, tries |-> n, shows |-> told] \in Readings
  BY <1>1 DEF Readings
<1>3. QED
  BY <1>2 DEF Tell, Excuse, TypeOK, pageVars, shareVars

LEMMA TypeStep == ASSUME TypeOK, [Next]_vars PROVE TypeOK'
<1> USE DEF pageVars, shareVars, viewVars
<1>1. ASSUME NEW s \in Shares, Begin(s) PROVE TypeOK'
  BY <1>1 DEF TypeOK, Begin, TakeLock, CurrentId, Waiting
<1>2. ASSUME NEW s \in Shares, Created(s) \/ TimedOut(s) PROVE TypeOK'
  BY <1>2, SendType DEF TypeOK, Created, TimedOut
<1>3. ASSUME NEW s \in Shares, Opened(s) PROVE TypeOK'
  BY <1>3 DEF TypeOK, Opened, OpenedLink, LeavePage
<1>4. ASSUME NEW s \in Shares, StoreStep(s) PROVE TypeOK'
  BY <1>4 DEF TypeOK, StoreStep, TokenGot, WriteLands, WriteOk, StoreFails, Store
<1>5. ASSUME NEW s \in Shares, LockTimer(s) PROVE TypeOK'
  BY <1>5 DEF TypeOK, LockTimer, Unlock, Resharing
<1>6. ASSUME NEW v \in Views, NEW s \in Shares, Follow(v, s) PROVE TypeOK'
  <2>1. [view[v] EXCEPT !.of = link[s]] \in Readings
    BY <1>6 DEF TypeOK, Follow, Readings
  <2>2. view' = [view EXCEPT ![v] = [view[v] EXCEPT !.of = link[s]]]
    BY <1>6 DEF Follow, TypeOK
  <2>3. QED
    BY <1>6, <2>1, <2>2 DEF Follow, TypeOK
<1>7. ASSUME NEW v \in Views, ViewStep(v) PROVE TypeOK'
  <2>1. view[v] \in Readings
    BY DEF TypeOK
  <2>2. CASE Found(v)
    <3>1. view[v].of \in Shares \cup {NoShare} /\ 0 \in 0 .. MaxTries
      BY <2>1, TriesAssumption DEF Readings
    <3>2. QED
      BY <2>2, <3>1, TellType DEF Found
  <2>3. ASSUME NEW good \in BOOLEAN, Miss(v), Excuse(v, good) PROVE TypeOK'
    <3>1. view[v].tries \in 0 .. MaxTries - 1
      BY <2>1, <2>3, TriesAssumption DEF Readings, Miss, Looking
    <3>2. QED
      BY <2>3, <3>1, TellType, TriesAssumption DEF Miss, IsLast, TypeOK
  <2>4. QED
    BY <1>7, <2>2, <2>3 DEF ViewStep, NotFound, AttemptFails
<1>8. CASE UNCHANGED vars
  BY <1>8 DEF TypeOK, vars
<1>9. ASSUME NEW s \in Shares, ProhibitStep(s) PROVE TypeOK'
  <2>1. CASE Prohibit(s)
    BY <2>1 DEF TypeOK, Prohibit, TakeLock
  <2>2. CASE SignedOut(s)
    BY <2>2 DEF TypeOK, SignedOut, LeavePage
  <2>3. CASE SignOutFails(s)
    BY <2>3, SendType DEF SignOutFails
  <2>4. QED
    BY <1>9, <2>1, <2>2, <2>3 DEF ProhibitStep
<1>10. QED
  BY <1>1, <1>2, <1>3, <1>4, <1>5, <1>6, <1>7, <1>8, <1>9, BriefType
     DEF Next, ShareStep

\* Every variable keeps its type, a share that has not begun has written and
\* sent nothing.
THEOREM TypeCorrect == Spec => []TypeOK
BY InitType, TypeStep, PTL DEF Spec

-----------------------------------------------------------------------------
(***************************************************************************)
(* The lock.                                                               *)
(***************************************************************************)
Guarded == Resharing \ unguarded

LockHeld == Guarded # {} => lock

\* Whoever clears the lock leaves every reshare under way without one.
LEMMA NoneGuarded ==
    ASSUME Guarded' = {} PROVE LockHeld' /\ OneReshareAtATime'
BY DEF Guarded, LockHeld, OneReshareAtATime

\* A step that guards no further reshare and leaves the lock alone.
LEMMA NoMoreGuarded ==
    ASSUME LockHeld, OneReshareAtATime, Guarded' \subseteq Guarded, UNCHANGED lock
    PROVE  LockHeld' /\ OneReshareAtATime'
BY DEF Guarded, LockHeld, OneReshareAtATime

LEMMA SendLock ==
    ASSUME TypeOK, LockHeld, OneReshareAtATime,
           NEW s \in Shares, pc' = [pc EXCEPT ![s] = "done"],
           IF s \in Reshares THEN Unlock(s) ELSE UNCHANGED <<lock, unguarded>>
    PROVE  LockHeld' /\ OneReshareAtATime'
<1>1. Resharing' = Resharing \ {s}
  BY DEF Resharing, TypeOK
<1>2. CASE s \in Reshares
  <2>1. Guarded' = {}
    BY <1>1, <1>2 DEF Guarded, Unlock
  <2>2. QED
    BY <2>1, NoneGuarded
<1>3. CASE s \notin Reshares
  <2>1. Guarded' \subseteq Guarded
    BY <1>1, <1>3 DEF Guarded
  <2>2. QED
    BY <1>3, <2>1, NoMoreGuarded
<1>4. QED
  BY <1>2, <1>3

LEMMA PageLeft ==
    ASSUME TypeOK, NEW s \in Shares, LeavePage(s) PROVE Resharing' = {} /\ ~lock'
BY DEF LeavePage, Resharing, Shares, TypeOK

LEMMA LockStep ==
    ASSUME TypeOK, LockHeld, OneReshareAtATime, [Next]_vars
    PROVE  LockHeld' /\ OneReshareAtATime'
<1> USE DEF pageVars, shareVars, viewVars
<1>1. ASSUME NEW s \in Shares, NEW x \in {"waiting", "leaving"},
             TakeLock(s), pc' = [pc EXCEPT ![s] = x]
      PROVE  LockHeld' /\ OneReshareAtATime'
  <2>1. Resharing' = Resharing \cup ({s} \cap Reshares)
    BY <1>1 DEF Resharing, TypeOK
  <2>2. CASE s \in Reshares
    <3>1. Guarded = {} /\ lock'
      BY <1>1, <2>2 DEF TakeLock, MayStart, LockHeld
    <3>2. Guarded' \subseteq {s}
      BY <1>1, <2>1, <3>1 DEF Guarded, TakeLock
    <3>3. QED
      BY <3>1, <3>2 DEF Guarded, LockHeld, OneReshareAtATime
  <2>3. CASE s \notin Reshares
    <3>1. Guarded' \subseteq Guarded
      BY <1>1, <2>1, <2>3 DEF Guarded, TakeLock
    <3>2. lock' = lock
      BY <1>1, <2>3 DEF TakeLock, TypeOK
    <3>3. QED
      BY <3>1, <3>2, NoMoreGuarded
  <2>4. QED
    BY <2>2, <2>3
<1>2. ASSUME NEW s \in Shares, Created(s) \/ TimedOut(s) \/ SignOutFails(s)
      PROVE  LockHeld' /\ OneReshareAtATime'
  BY <1>2, SendLock DEF Created, TimedOut, SignOutFails, Send
<1>3. ASSUME NEW s \in Shares, LeavePage(s) PROVE LockHeld' /\ OneReshareAtATime'
  <2>1. Guarded' = {}
    BY <1>3, PageLeft DEF Guarded
  <2>2. QED
    BY <2>1, NoneGuarded
<1>4. ASSUME NEW s \in Shares, LockTimer(s) PROVE LockHeld' /\ OneReshareAtATime'
  <2>1. Guarded' = {}
    BY <1>4, SharesAssumption DEF LockTimer, Unlock, Guarded, Resharing, Shares
  <2>2. QED
    BY <2>1, NoneGuarded
<1>5. ASSUME NEW s \in Shares, Brief(s, NoShare) \/ Brief(s, Raw)
      PROVE  LockHeld' /\ OneReshareAtATime'
  BY <1>5, SendLock DEF Brief
<1>6. CASE UNCHANGED <<pc, lock, unguarded>>
  BY <1>6, NoMoreGuarded DEF Guarded, Resharing
<1>7. ASSUME NEW s \in Shares, StoreStep(s) PROVE UNCHANGED <<pc, lock, unguarded>>
  BY <1>7 DEF StoreStep, TokenGot, WriteLands, WriteOk, StoreFails, Store
<1>8. ASSUME NEW v \in Views, ViewStep(v) \/ \E s \in Shares : Follow(v, s)
      PROVE  UNCHANGED <<pc, lock, unguarded>>
  BY <1>8 DEF ViewStep, Found, NotFound, AttemptFails, Miss, Follow
<1>9. CASE UNCHANGED vars
  BY <1>6, <1>9 DEF vars
<1>10. ASSUME NEW s \in Shares, Begin(s) \/ ProhibitStep(s)
       PROVE  LockHeld' /\ OneReshareAtATime'
  BY <1>1, <1>2, <1>3, <1>10 DEF Begin, ProhibitStep, Prohibit, SignedOut
<1>11. QED
  BY <1>2, <1>3, <1>4, <1>5, <1>6, <1>7, <1>8, <1>9, <1>10 DEF Next, ShareStep, Opened

\* Two reshares are under way together only if the lock was cleared under the
\* first of them.
THEOREM LockGuards == Spec => []OneReshareAtATime
<1>1. Init => LockHeld /\ OneReshareAtATime
  BY DEF Init, LockHeld, Guarded, OneReshareAtATime, Resharing, Shares
<1>2. QED
  BY <1>1, TypeCorrect, LockStep, PTL DEF Spec

\* The end of a reshare frees the lock, that of another share leaves the
\* reshares as they are.
LEMMA SendFrees ==
    ASSUME TypeOK, LockIsFreed, NEW s \in Shares, pc' = [pc EXCEPT ![s] = "done"],
           IF s \in Reshares THEN Unlock(s) ELSE UNCHANGED <<lock, unguarded>>
    PROVE  LockIsFreed'
BY DEF LockIsFreed, Unlock, Resharing, Shares, TypeOK

LEMMA FreedStep ==
    ASSUME TypeOK, LockIsFreed, [Next]_vars PROVE LockIsFreed'
<1> USE DEF pageVars, shareVars, viewVars
<1>1. ASSUME NEW s \in Shares, NEW x \in {"waiting", "leaving"},
             TakeLock(s), pc' = [pc EXCEPT ![s] = x]
      PROVE  LockIsFreed'
  BY <1>1 DEF TakeLock, LockIsFreed, Resharing, TypeOK
<1>2. ASSUME NEW s \in Shares, Created(s) \/ TimedOut(s) \/ SignOutFails(s)
      PROVE  LockIsFreed'
  BY <1>2, SendFrees DEF Created, TimedOut, SignOutFails, Send
<1>3. ASSUME NEW s \in Shares, LeavePage(s) \/ LockTimer(s) PROVE LockIsFreed'
  BY <1>3, PageLeft DEF LockIsFreed, LockTimer, Unlock
<1>4. ASSUME NEW s \in Shares, Brief(s, NoShare) \/ Brief(s, Raw) PROVE LockIsFreed'
  BY <1>4, SendFrees DEF Brief
<1>5. CASE UNCHANGED <<pc, lock>>
  BY <1>5 DEF LockIsFreed, Resharing
<1>6. ASSUME NEW s \in Shares, StoreStep(s) PROVE UNCHANGED <<pc, lock>>
  BY <1>6 DEF StoreStep, TokenGot, WriteLands, WriteOk, StoreFails, Store
<1>7. ASSUME NEW v \in Views, ViewStep(v) \/ \E s \in Shares : Follow(v, s)
      PROVE  UNCHANGED <<pc, lock>>
  BY <1>7 DEF ViewStep, Found, NotFound, AttemptFails, Miss, Follow
<1>8. CASE UNCHANGED vars
  BY <1>5, <1>8 DEF vars
<1>9. ASSUME NEW s \in Shares, Begin(s) \/ ProhibitStep(s) PROVE LockIsFreed'
  BY <1>1, <1>2, <1>3, <1>9 DEF Begin, ProhibitStep, Prohibit, SignedOut
<1>10. QED
  BY <1>2, <1>3, <1>4, <1>5, <1>6, <1>7, <1>8, <1>9 DEF Next, ShareStep, Opened

\* The lock is held only while a reshare is under way.
THEOREM NoLockForNothing == Spec => []LockIsFreed
<1>1. Init => LockIsFreed
  BY DEF Init, LockIsFreed
<1>2. QED
  BY <1>1, TypeCorrect, FreedStep, PTL DEF Spec

\* The lock does what it is for, for any number of reshares.
THEOREM LockWorks == Spec => []LockIsRight
BY LockGuards, NoLockForNothing, PTL DEF LockIsRight

-----------------------------------------------------------------------------
(***************************************************************************)
(* Where the links lead.                                                   *)
(***************************************************************************)
StoredWhenLanded == \A s \in Shares : store[s] \in {"landed", "ok"} => s \in stored

CurrentBegan == current \in Shares => store[current] # "none"

Pending == {"token", "sent", "failed"}
Leads(s, p) == p \in stored \/ (s \notin Openings /\ store[p] \in Pending)

LinkInv == StoredWhenLanded /\ CurrentBegan /\ LinksResolve

\* A package that is there or on its way stays so.
LEMMA LeadsOn ==
    ASSUME TypeOK, StoredWhenLanded, StoredWhenLanded', stored \subseteq stored',
           NEW s \in Shares, NEW p \in Shares, Leads(s, p),
           store'[p] = store[p] \/ store'[p] \in Pending \cup {"landed", "ok"}
    PROVE  Leads(s, p)'
BY DEF Leads, Pending, StoredWhenLanded

\* The links sent before a step hold on when no write is undone by it.
LEMMA OldLinks ==
    ASSUME TypeOK, LinkInv, StoredWhenLanded', stored \subseteq stored',
           \A p \in Shares :
              store'[p] = store[p] \/ store'[p] \in Pending \cup {"landed", "ok"},
           \A s, p \in Shares :
              link'[s] = p => link[s] = p \/ Leads(s, p)'
    PROVE  LinksResolve'
<1>1. SUFFICES ASSUME NEW s \in Shares, NEW p \in Shares, link'[s] = p
               PROVE  Leads(s, p)'
  BY DEF LinksResolve, Leads, Pending
<1>2. CASE link[s] = p
  <2>1. Leads(s, p)
    BY <1>2 DEF LinkInv, LinksResolve, Leads, Pending
  <2>2. QED
    BY <2>1, LeadsOn DEF LinkInv
<1>3. QED
  BY <1>1, <1>2

LEMMA LinkStep == ASSUME TypeOK, LinkInv, [Next]_vars PROVE LinkInv'
<1> USE DEF pageVars, shareVars, viewVars
<1>1. ASSUME NEW s \in Shares, Begin(s) PROVE LinkInv'
  <2>1. StoredWhenLanded' /\ CurrentBegan'
    BY <1>1 DEF Begin, LinkInv, StoredWhenLanded, CurrentBegan, CurrentId, TypeOK
  <2>2. QED
    BY <1>1, <2>1, OldLinks DEF Begin, LinkInv, Pending, TypeOK
<1>2. ASSUME NEW s \in Shares, NEW sent \in Shares \cup {Raw},
             Send(s, sent), sent \in Shares => Leads(s, sent)
      PROVE  LinkInv'
  <2>1. StoredWhenLanded' /\ CurrentBegan'
    BY <1>2 DEF Send, LinkInv, StoredWhenLanded, CurrentBegan
  <2>2. sent \in Shares => Leads(s, sent)'
    BY <1>2 DEF Send, Leads, Pending
  <2>3. QED
    BY <1>2, <2>1, <2>2, OldLinks DEF Send, LinkInv, TypeOK
<1>3. ASSUME NEW s \in Shares, Created(s) PROVE LinkInv'
  BY <1>2, <1>3 DEF Created, LinkInv, StoredWhenLanded, Leads, Pending
<1>4. ASSUME NEW s \in Shares, TimedOut(s) PROVE LinkInv'
  <2>1. current \in Shares => Leads(s, current)
    BY <1>4 DEF TimedOut, TimeIsUp, LinkInv, CurrentBegan, StoredWhenLanded, Leads,
                Pending, TypeOK
  <2>2. CASE current = NoShare
    <3>1. Send(s, Raw)
      BY <1>4, <2>2 DEF TimedOut
    <3>2. QED
      BY <1>2, <3>1, SharesAssumption
  <2>3. CASE current # NoShare
    <3>1. Send(s, current) /\ current \in Shares
      BY <1>4, <2>3 DEF TimedOut, TypeOK
    <3>2. QED
      BY <1>2, <2>1, <3>1
  <2>4. QED
    BY <2>2, <2>3
<1>5. ASSUME NEW s \in Shares, Opened(s) PROVE LinkInv'
  <2>1. StoredWhenLanded' /\ CurrentBegan'
    BY <1>5, SharesAssumption
       DEF Opened, LeavePage, LinkInv, StoredWhenLanded, CurrentBegan, TypeOK
  <2>2. link'[s] = s => Leads(s, s)'
    BY <1>5, SharesAssumption
       DEF Opened, LeavePage, OpenedLink, Leads, LinkInv, StoredWhenLanded, TypeOK
  <2>3. QED
    BY <1>5, <2>1, <2>2, OldLinks, SharesAssumption
       DEF Opened, LeavePage, OpenedLink, LinkInv, Pending, TypeOK
<1>6. ASSUME NEW s \in Shares, StoreStep(s) PROVE LinkInv'
  <2>1. /\ stored \subseteq stored' /\ UNCHANGED <<current, link>>
        /\ \A p \in Shares :
              store'[p] = store[p] \/ store'[p] \in Pending \cup {"landed", "ok"}
    BY <1>6 DEF StoreStep, TokenGot, WriteLands, WriteOk, StoreFails, Store, Pending,
                TypeOK
  <2>2. StoredWhenLanded'
    BY <1>6 DEF StoreStep, TokenGot, WriteLands, WriteOk, StoreFails, Store, TypeOK,
                LinkInv, StoredWhenLanded
  <2>3. CurrentBegan'
    BY <2>1 DEF LinkInv, CurrentBegan, Pending
  <2>4. QED
    BY <2>1, <2>2, <2>3, OldLinks DEF LinkInv
<1>7. ASSUME NEW s \in Shares, Brief(s, NoShare) \/ Brief(s, Raw) PROVE LinkInv'
  <2>1. StoredWhenLanded' /\ CurrentBegan'
    BY <1>7 DEF Brief, LinkInv, StoredWhenLanded, CurrentBegan
  <2>2. QED
    BY <1>7, <2>1, OldLinks, SharesAssumption DEF Brief, LinkInv, TypeOK
<1>8. CASE UNCHANGED <<link, store, stored, current>>
  BY <1>8 DEF LinkInv, StoredWhenLanded, CurrentBegan, LinksResolve
<1>9. ASSUME NEW s \in Shares, LockTimer(s) PROVE LinkInv'
  BY <1>8, <1>9 DEF LockTimer
<1>10. ASSUME NEW v \in Views, ViewStep(v) \/ \E s \in Shares : Follow(v, s)
       PROVE  LinkInv'
  BY <1>8, <1>10 DEF ViewStep, Found, NotFound, AttemptFails, Miss, Follow
<1>11. CASE UNCHANGED vars
  BY <1>8, <1>11 DEF vars
<1>12. ASSUME NEW s \in Shares, ProhibitStep(s) PROVE LinkInv'
  <2>1. CASE Prohibit(s)
    BY <1>8, <2>1 DEF Prohibit
  <2>2. CASE SignedOut(s)
    <3>1. StoredWhenLanded' /\ CurrentBegan'
      BY <2>2, SharesAssumption
         DEF SignedOut, LeavePage, LinkInv, StoredWhenLanded, CurrentBegan, TypeOK
    <3>2. QED
      BY <2>2, <3>1, OldLinks DEF SignedOut, LeavePage, LinkInv, Pending, TypeOK
  <2>3. CASE SignOutFails(s)
    <3>1. StoredWhenLanded' /\ CurrentBegan'
      BY <2>3 DEF SignOutFails, Send, LinkInv, StoredWhenLanded, CurrentBegan
    <3>2. QED
      BY <2>3, <3>1, OldLinks, SharesAssumption DEF SignOutFails, Send, LinkInv, TypeOK
  <2>4. QED
    BY <1>12, <2>1, <2>2, <2>3 DEF ProhibitStep
<1>13. QED
  BY <1>1, <1>3, <1>4, <1>5, <1>6, <1>7, <1>9, <1>10, <1>11, <1>12 DEF Next, ShareStep

\* Whatever link is sent, its package is there, or its write is under way or
\* has failed; one opened in place is there.
THEOREM LinksLead == Spec => []LinksResolve
<1>1. Init => LinkInv
  BY SharesAssumption
     DEF Init, LinkInv, StoredWhenLanded, CurrentBegan, LinksResolve
<1>2. LinkInv => LinksResolve
  BY DEF LinkInv
<1>3. QED
  BY <1>1, <1>2, TypeCorrect, LinkStep, PTL DEF Spec

-----------------------------------------------------------------------------
(***************************************************************************)
(* What a reader sees.                                                     *)
(***************************************************************************)
Own(s, p) == p = s \/ p \in later[s]

\* A share that waits can only fall back on itself or on a later one.
WaitsForOwn ==
    \A s \in Waiting \ Openings : current \in Shares => Own(s, current)

SentOwn ==
    \A s \in Shares : pc[s] = "done" /\ link[s] \in Shares => Own(s, link[s])

ReadsLink ==
    \A v \in Views :
        view[v].of # NoShare =>
            /\ shared[v] \in Shares /\ pc[shared[v]] = "done"
            /\ view[v].of = link[shared[v]] /\ link[shared[v]] \in Shares

ReadInv == WaitsForOwn /\ SentOwn /\ ReadsLink

\* What a share sent stays as it was, and so does what became its own.
SentStays ==
    \A s \in Shares :
        pc[s] = "done" => /\ pc'[s] = "done" /\ link'[s] = link[s]
                          /\ later'[s] = later[s]

LEMMA ReadsOn ==
    ASSUME ReadsLink, SentStays, UNCHANGED <<view, shared>>
    PROVE  ReadsLink'
BY DEF ReadsLink, SentStays

LEMMA ReadStep == ASSUME TypeOK, ReadInv, [Next]_vars PROVE ReadInv'
<1> USE DEF pageVars, shareVars, viewVars
<1>1. ASSUME NEW s \in Shares, Begin(s) PROVE ReadInv'
  <2>1. SentStays
    BY <1>1 DEF Begin, SentStays, TypeOK, Waiting
  <2>2. SentOwn'
    BY <1>1, <2>1 DEF Begin, SentOwn, SentStays, Own, ReadInv, TypeOK
  <2>3. WaitsForOwn'
    <3>1. CASE s \in Openings
      BY <1>1, <3>1 DEF Begin, WaitsForOwn, Own, CurrentId, Waiting, ReadInv, TypeOK
    <3>2. CASE s \notin Openings
      BY <1>1, <3>2 DEF Begin, WaitsForOwn, Own, CurrentId, Waiting, TypeOK
    <3>3. QED
      BY <3>1, <3>2
  <2>4. QED
    BY <1>1, <2>1, <2>2, <2>3, ReadsOn DEF Begin, ReadInv
<1>2. ASSUME NEW s \in Shares, NEW sent \in Shares \cup {Raw, NoShare},
             pc[s] # "done", pc' = [pc EXCEPT ![s] = "done"],
             link' = [link EXCEPT ![s] = sent],
             later' = later \/ later' = [later EXCEPT ![s] = IF sent = s THEN {} ELSE @],
             sent \in Shares => Own(s, sent),
             UNCHANGED <<current, view, shared>>
      PROVE  ReadInv'
  <2>1. SentStays
    BY <1>2 DEF SentStays, TypeOK
  <2>2. SentOwn'
    BY <1>2, SharesAssumption DEF SentOwn, Own, ReadInv, TypeOK
  <2>3. WaitsForOwn'
    BY <1>2 DEF WaitsForOwn, Own, Waiting, ReadInv, TypeOK
  <2>4. QED
    BY <1>2, <2>1, <2>2, <2>3, ReadsOn DEF ReadInv
<1>3. ASSUME NEW s \in Shares, Created(s) PROVE ReadInv'
  BY <1>2, <1>3 DEF Created, Send, Own
<1>4. ASSUME NEW s \in Shares, TimedOut(s) PROVE ReadInv'
  <2> DEFINE sent == IF current = NoShare THEN Raw ELSE current
  <2>1. sent \in Shares \cup {Raw, NoShare} /\ Send(s, sent)
    BY <1>4 DEF TimedOut, TypeOK
  <2>2. sent \in Shares => Own(s, sent)
    BY <1>4, SharesAssumption
       DEF TimedOut, TimeIsUp, ReadInv, WaitsForOwn, Waiting, TypeOK
  <2>3. pc[s] # "done"
    BY <1>4 DEF TimedOut
  <2> HIDE DEF sent
  <2>4. QED
    BY <1>2, <2>1, <2>2, <2>3 DEF Send
<1>5. ASSUME NEW s \in Shares, pc[s] \in {"waiting", "leaving"},
             NEW sent \in {s, Raw, NoShare}, LeavePage(s), link' = [link EXCEPT ![s] = sent]
      PROVE  ReadInv'
  <2>1. SentStays
    BY <1>5 DEF LeavePage, SentStays, Waiting, Resharing, TypeOK
  <2>2. SentOwn'
    BY <1>5, <2>1, SharesAssumption
       DEF LeavePage, SentOwn, SentStays, Own, ReadInv, TypeOK
  <2>3. WaitsForOwn'
    BY <1>5, SharesAssumption DEF LeavePage, WaitsForOwn
  <2>4. QED
    BY <1>5, <2>1, <2>2, <2>3, ReadsOn DEF LeavePage, ReadInv
<1>6. ASSUME NEW s \in Shares, NEW sent \in {NoShare, Raw}, Brief(s, sent) PROVE ReadInv'
  BY <1>2, <1>6, SharesAssumption DEF Brief
<1>7. ASSUME NEW v \in Views, NEW s \in Shares, Follow(v, s) PROVE ReadInv'
  <2>1. WaitsForOwn' /\ SentOwn'
    BY <1>7 DEF Follow, ReadInv, WaitsForOwn, SentOwn, Own, Waiting
  <2>2. ReadsLink'
    BY <1>7 DEF Follow, ReadInv, ReadsLink, TypeOK, Readings
  <2>3. QED
    BY <2>1, <2>2 DEF ReadInv
<1>8. ASSUME NEW v \in Views, NEW n, NEW told, Tell(v, n, told),
             UNCHANGED <<pageVars, shareVars, shared>>
      PROVE  ReadInv'
  <2>1. WaitsForOwn' /\ SentOwn'
    BY <1>8 DEF ReadInv, WaitsForOwn, SentOwn, Own, Waiting
  <2>2. ReadsLink'
    BY <1>8 DEF Tell, ReadInv, ReadsLink, TypeOK
  <2>3. QED
    BY <2>1, <2>2 DEF ReadInv
<1>9. ASSUME NEW v \in Views, ViewStep(v) PROVE ReadInv'
  BY <1>8, <1>9 DEF ViewStep, Found, NotFound, AttemptFails, Miss
<1>10. CASE UNCHANGED <<shareVars, current, view, shared>>
  BY <1>10 DEF ReadInv, WaitsForOwn, SentOwn, Own, Waiting, ReadsLink
<1>11. ASSUME NEW s \in Shares, StoreStep(s) \/ LockTimer(s) PROVE ReadInv'
  BY <1>10, <1>11
     DEF StoreStep, TokenGot, WriteLands, WriteOk, StoreFails, Store, LockTimer
<1>12. CASE UNCHANGED vars
  BY <1>10, <1>12 DEF vars
<1>13. ASSUME NEW s \in Shares, Opened(s) PROVE ReadInv'
  BY <1>5, <1>13 DEF Opened, OpenedLink
<1>14. ASSUME NEW s \in Shares, ProhibitStep(s) PROVE ReadInv'
  <2>1. CASE Prohibit(s)
    <3>1. SentStays
      BY <2>1 DEF Prohibit, SentStays, TypeOK
    <3>2. Waiting' = Waiting
      BY <2>1 DEF Prohibit, Waiting, TypeOK
    <3>3. WaitsForOwn' /\ SentOwn'
      BY <2>1, <3>2 DEF Prohibit, WaitsForOwn, SentOwn, Own, ReadInv, TypeOK
    <3>4. QED
      BY <2>1, <3>1, <3>3, ReadsOn DEF Prohibit, ReadInv
  <2>2. CASE SignedOut(s)
    <3>1. link' = [link EXCEPT ![s] = NoShare]
      BY <2>2 DEF SignedOut, TypeOK
    <3>2. QED
      BY <1>5, <2>2, <3>1 DEF SignedOut
  <2>3. CASE SignOutFails(s)
    BY <1>2, <2>3, SharesAssumption DEF SignOutFails, Send
  <2>4. QED
    BY <1>14, <2>1, <2>2, <2>3 DEF ProhibitStep
<1>15. QED
  BY <1>1, <1>3, <1>4, <1>6, <1>7, <1>9, <1>11, <1>12, <1>13, <1>14 DEF Next, ShareStep

ShowsFollowed == \A v \in Views : view[v].shows # "none" => view[v].of # NoShare

\* A reader without images had an excuse for each of its attempts, and gives up
\* with the last.
Excused ==
    \A v \in Views :
        /\ view[v].shows # "images" => excused[v] = view[v].tries
        /\ view[v].shows = "missing" => view[v].tries = MaxTries

ShowInv == ShowsFollowed /\ Excused

\* An attempt with an excuse, the only kind that does not find the package.
LEMMA MissExcused ==
    ASSUME TypeOK, ShowInv, NEW v \in Views, Miss(v), Excuse(v, TRUE)
    PROVE  ShowInv'
<1>1. /\ view[v] \in Readings /\ view[v].shows = "none" /\ view[v].of # NoShare
      /\ excused[v] = view[v].tries /\ view[v].tries \in Nat
  BY TriesAssumption DEF Miss, Looking, ShowInv, Excused, TypeOK, Readings
<1>2. /\ view'[v].tries = view[v].tries + 1 /\ view'[v].of = view[v].of
      /\ view'[v].shows \in {"none", "missing"}
      /\ view'[v].shows = "missing" => view[v].tries + 1 = MaxTries
      /\ excused'[v] = excused[v] + 1
  BY DEF Miss, Tell, IsLast, Excuse, TypeOK
<1>3. \A w \in Views \ {v} : view'[w] = view[w] /\ excused'[w] = excused[w]
  BY DEF Miss, Tell, Excuse, TypeOK
<1>4. ShowsFollowed'
  BY <1>1, <1>2, <1>3 DEF ShowInv, ShowsFollowed
<1>5. Excused'
  <2>1. ASSUME NEW w \in Views
        PROVE  /\ view'[w].shows # "images" => excused'[w] = view'[w].tries
               /\ view'[w].shows = "missing" => view'[w].tries = MaxTries
    <3>1. CASE w = v
      BY <1>1, <1>2, <3>1
    <3>2. CASE w # v
      BY <1>3, <3>2 DEF ShowInv, Excused
    <3>3. QED
      BY <3>1, <3>2
  <2>2. QED
    BY <2>1 DEF Excused
<1>6. QED
  BY <1>4, <1>5 DEF ShowInv

LEMMA ShowStep == ASSUME TypeOK, ShowInv, [Next]_vars PROVE ShowInv'
<1> USE DEF pageVars, shareVars, viewVars
<1>1. ASSUME UNCHANGED viewVars PROVE ShowInv'
  BY <1>1 DEF ShowInv, ShowsFollowed, Excused
<1>2. ASSUME NEW s \in Shares,
             Begin(s) \/ ShareStep(s) \/ StoreStep(s) \/ LockTimer(s)
                \/ Brief(s, NoShare) \/ Brief(s, Raw) \/ ProhibitStep(s)
      PROVE  ShowInv'
  BY <1>1, <1>2
     DEF Begin, ShareStep, Created, TimedOut, Opened, Send, StoreStep, TokenGot,
         WriteLands, WriteOk, StoreFails, Store, LockTimer, Brief, LeavePage,
         ProhibitStep, Prohibit, SignedOut, SignOutFails
<1>3. ASSUME NEW v \in Views, NEW s \in Shares, Follow(v, s) PROVE ShowInv'
  <2>1. ASSUME NEW w \in Views
        PROVE  /\ view'[w].shows = view[w].shows /\ view'[w].tries = view[w].tries
               /\ view'[w].of = IF w = v THEN link[s] ELSE view[w].of
    BY <1>3 DEF Follow, TypeOK, Readings
  <2>2. link[s] # NoShare /\ excused' = excused
    BY <1>3, SharesAssumption DEF Follow
  <2>3. QED
    BY <2>1, <2>2 DEF ShowInv, ShowsFollowed, Excused
<1>4. ASSUME NEW v \in Views, Found(v) PROVE ShowInv'
  BY <1>4 DEF Found, Looking, Tell, ShowInv, ShowsFollowed, Excused, TypeOK
<1>5. ASSUME NEW v \in Views, NotFound(v) \/ AttemptFails(v) PROVE ShowInv'
  <2>1. Miss(v) /\ Excuse(v, TRUE)
    BY <1>5 DEF NotFound, Absent, AttemptFails, Excuse
  <2>2. QED
    BY <2>1, MissExcused
<1>6. CASE UNCHANGED vars
  BY <1>1, <1>6 DEF vars
<1>7. QED
  BY <1>2, <1>3, <1>4, <1>5, <1>6 DEF Next, ViewStep

LEMMA InitShow == Init => ReadInv /\ ShowInv
BY SharesAssumption
   DEF Init, ReadInv, WaitsForOwn, SentOwn, ReadsLink, Waiting, ShowInv, ShowsFollowed,
       Excused

\* A reader sees the images that were shared, or those of a share that began
\* while that one waited.
THEOREM ReadersSeeOwn == Spec => []ReadersSeeTheReport
<1>1. ReadInv /\ ShowInv => ReadersSeeTheReport
  BY DEF ReadInv, ReadsLink, SentOwn, Own, ShowInv, ShowsFollowed, ReadersSeeTheReport
<1>2. QED
  BY <1>1, InitShow, TypeCorrect, ReadStep, ShowStep, PTL DEF Spec

\* Whoever is told that a package is missing made all attempts, each before the
\* package was stored or without an answer, for any number of attempts and
\* whenever between them the write of the package lands.
THEOREM NotToldMissing == Spec => []MissingIsMissing
<1>1. ShowInv => MissingIsMissing
  BY DEF ShowInv, Excused, MissingIsMissing
<1>2. QED
  BY <1>1, InitShow, TypeCorrect, ShowStep, PTL DEF Spec

\* Readers are told the truth, for any number of shares, readers and attempts.
THEOREM ReadersKnow == Spec => []ReadersAreTold
BY ReadersSeeOwn, NotToldMissing, PTL DEF ReadersAreTold
=============================================================================
