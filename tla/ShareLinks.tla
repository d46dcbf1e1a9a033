----------------------------- MODULE ShareLinks -----------------------------
(***************************************************************************)
(* Sharing a report with several images (js/sharing.js): the images are    *)
(* stored as a package of their own in imagePackages/<id>, and the message *)
(* carries a link to image-package.html, which looks the package up.       *)
(*                                                                         *)
(* A share is one run of getImagesForPlatform with what its caller does    *)
(* with the answer.  All shares of a page see one window.currentPackageId  *)
(* and one lock; the package of a share has a fresh id, here the share.    *)
(***************************************************************************)
EXTENDS Integers, FiniteSets

CONSTANTS
    Reshares, \* clicks on Reshare, which take the lock
    Previews, \* shares without a lock: Facebook previews, the board
    Openings, \* openImagesFromSaved: a package that is opened in place
    Views,    \* readers that follow a link
    MaxTries, \* attempts of a reader (5)
    NoShare, Raw

Shares == Reshares \cup Previews \cup Openings

ASSUME SharesAssumption ==
    /\ Reshares \cap Previews = {} /\ Openings \cap (Reshares \cup Previews) = {}
    /\ NoShare \notin Shares /\ Raw \notin Shares /\ NoShare # Raw
ASSUME TriesAssumption == MaxTries \in Nat \ {0}

VARIABLES
    pc,        \* where each share is
    store,     \* where its storeInFirestore is, which the time limit leaves alone
    current,   \* window.currentPackageId
    lock,      \* window._resharingInProgress
    timers,    \* reshares whose 3 s timer has not gone off
    stored,    \* packages in imagePackages
    link,      \* the link each share sent: a package or the first image
    view,      \* the package each reader looks for, its attempts, what it shows
    later,     \* history: shares that began while a share waited that ran
               \* out of time, or still waits
    unguarded, \* history: reshares under way under which the lock was cleared
    shared,    \* history: the share whose link a reader follows
    excused    \* history: attempts of each reader that were made before its
               \* package was there, or got no answer

pageVars  == <<current, lock, timers, unguarded>>
shareVars == <<pc, link, later>>
viewVars  == <<view, shared, excused>>
vars      == <<pageVars, shareVars, store, stored, viewVars>>

-----------------------------------------------------------------------------
Waiting == {s \in Shares : pc[s] = "waiting"}
Settled == {"ok", "failed"}

Resharing == {s \in Reshares : pc[s] \in {"waiting", "leaving"}}

Init ==
    /\ pc = [s \in Shares |-> "idle"]
    /\ store = [s \in Shares |-> "none"]
    /\ current = NoShare
    /\ lock = FALSE
    /\ timers = {}
    /\ stored = {}
    /\ link = [s \in Shares |-> NoShare]
    /\ view = [v \in Views |-> [of |-> NoShare, tries |-> 0, shows |-> "none"]]
    /\ later = [s \in Shares |-> {}]
    /\ unguarded = {}
    /\ shared = [v \in Views |-> NoShare]
    /\ excused = [v \in Views |-> 0]

-----------------------------------------------------------------------------
(***************************************************************************)
(* The lock.  Its timer is not cancelled by the end of the reshare, and    *)
(* prompt() holds it up, so that it goes off once the share waits.         *)
(***************************************************************************)
\* Mutant: only the timer frees the lock.
TimerUnlocks(s) ==
    /\ lock' = (lock /\ s # NoShare)
    /\ unguarded' = Resharing \ {s}
Unlock(s) ==
    /\ lock' = FALSE
    /\ unguarded' = Resharing \ {s}

LockTimer(s) ==
    /\ s \in timers
    /\ timers' = timers \ {s}
    /\ Unlock(NoShare)
    /\ UNCHANGED <<current, shareVars, store, stored, viewVars>>

MayStart(s) == s \in Reshares => ~lock

TakeLock(s) ==
    /\ MayStart(s)
    /\ lock' = (lock \/ s \in Reshares)
    /\ timers' = timers \cup ({s} \cap Reshares)
    /\ UNCHANGED unguarded

\* No platform was chosen, or there is one image at most: the lock is free
\* again before anything else happens.
Brief(s, sent) ==
    /\ pc[s] = "idle" /\ s \notin Openings
    /\ MayStart(s)
    /\ pc' = [pc EXCEPT ![s] = "done"]
    /\ link' = [link EXCEPT ![s] = sent]
    /\ timers' = timers \cup ({s} \cap Reshares)
    /\ IF s \in Reshares THEN Unlock(s) ELSE UNCHANGED <<lock, unguarded>>
    /\ UNCHANGED <<current, store, stored, viewVars, later>>

-----------------------------------------------------------------------------
(***************************************************************************)
(* A share with a package.                                                 *)
(***************************************************************************)
\* Mutant: an opened package becomes the current one, too.
AlwaysCurrent(s) == s
CurrentId(s) == IF s \in Openings THEN current ELSE s

Begin(s) ==
    /\ pc[s] = "idle"
    /\ TakeLock(s)
    /\ pc' = [pc EXCEPT ![s] = "waiting"]
    /\ store' = [store EXCEPT ![s] = "token"]
    /\ current' = CurrentId(s)
    /\ later' = [t \in Shares |->
                    IF t \in Waiting \ Openings /\ s \notin Openings
                    THEN later[t] \cup {s} ELSE later[t]]
    /\ UNCHANGED <<link, stored, viewVars>>

\* The message goes out with this link, if any; a reshare frees the lock.
Send(s, sent) ==
    /\ pc' = [pc EXCEPT ![s] = "done"]
    /\ link' = [link EXCEPT ![s] = sent]
    /\ later' = [later EXCEPT ![s] = IF sent = s THEN {} ELSE @]
    /\ IF s \in Reshares THEN Unlock(s) ELSE UNCHANGED <<lock, unguarded>>
    /\ UNCHANGED <<current, timers, store, stored, viewVars>>

\* createPackageWithFirestore: the link whatever storeInFirestore answered.
Created(s) ==
    /\ pc[s] = "waiting" /\ s \notin Openings
    /\ store[s] \in Settled
    /\ Send(s, s)

\* Mutant: nothing limits the wait.
NoLimit(s) == FALSE
TimeIsUp(s) == s \notin Openings

\* withTimeout: what the caller falls back to is window.currentPackageId.
TimedOut(s) ==
    /\ pc[s] = "waiting" /\ TimeIsUp(s)
    /\ store[s] \notin Settled
    /\ Send(s, IF current = NoShare THEN Raw ELSE current)

\* Mutant: the answer is not looked at.
OpenedUnasked(s) == s
OpenedLink(s) == IF store[s] = "ok" THEN s ELSE Raw

\* Whatever else is under way in the page is cut off.
LeavePage(s) ==
    /\ pc' = [t \in Shares |-> IF t = s THEN "done"
                               ELSE IF t \in Waiting \cup Resharing THEN "cut" ELSE pc[t]]
    /\ store' = [t \in Shares |-> IF store[t] = "token" THEN "failed" ELSE store[t]]
    /\ current' = NoShare
    /\ lock' = FALSE /\ timers' = {} /\ unguarded' = {}
    /\ later' = [t \in Shares |-> IF t \in Waiting THEN {} ELSE later[t]]
    /\ UNCHANGED <<stored, viewVars>>

\* openImagesFromSaved waits without a limit, asks for the answer, and leaves
\* the page.
Opened(s) ==
    /\ pc[s] = "waiting" /\ s \in Openings
    /\ store[s] \in Settled
    /\ link' = [link EXCEPT ![s] = OpenedLink(s)]
    /\ LeavePage(s)

\* A report with a keyword is not shared: its account is to be blocked, which
\* fails quietly, and is signed out, which leaves the page.
Prohibit(s) ==
    /\ pc[s] = "idle" /\ s \in Reshares
    /\ TakeLock(s)
    /\ pc' = [pc EXCEPT ![s] = "leaving"]
    /\ UNCHANGED <<current, link, later, store, stored, viewVars>>

SignedOut(s)    == pc[s] = "leaving" /\ LeavePage(s) /\ UNCHANGED link
SignOutFails(s) == pc[s] = "leaving" /\ Send(s, NoShare)

ProhibitStep(s) == Prohibit(s) \/ SignedOut(s) \/ SignOutFails(s)

-----------------------------------------------------------------------------
(***************************************************************************)
(* storeInFirestore: a token, the PATCH, its answer.                       *)
(***************************************************************************)
Store(s, from, to) ==
    /\ store[s] \in from
    /\ store' = [store EXCEPT ![s] = to]
    /\ UNCHANGED <<pageVars, shareVars, viewVars>>

TokenGot(s)  == Store(s, {"token"}, "sent") /\ UNCHANGED stored
WriteOk(s)   == Store(s, {"landed"}, "ok") /\ UNCHANGED stored
WriteLands(s) == Store(s, {"sent"}, "landed") /\ stored' = stored \cup {s}

\* No token, a refused request, or no answer, whether it landed or not.
StoreFails(s) == Store(s, {"token", "sent", "landed"}, "failed") /\ UNCHANGED stored

-----------------------------------------------------------------------------
(***************************************************************************)
(* A reader: image-package.html asks imagePackages/<id> once a second, then *)
(* storage of the browser, which nothing is put into any more.             *)
(***************************************************************************)
Follow(v, s) ==
    /\ shared[v] = NoShare
    /\ pc[s] = "done" /\ link[s] \in Shares
    /\ view' = [view EXCEPT ![v] = [@ EXCEPT !.of = link[s]]]
    /\ shared' = [shared EXCEPT ![v] = s]
    /\ UNCHANGED <<pageVars, shareVars, store, stored, excused>>

Looking(v) == view[v].of # NoShare /\ view[v].shows = "none"

Tell(v, n, told) ==
    view' = [view EXCEPT ![v] = [of |-> view[v].of, tries |-> n, shows |-> told]]

Found(v) ==
    /\ Looking(v) /\ view[v].of \in stored
    /\ Tell(v, 0, "images")
    /\ UNCHANGED <<pageVars, shareVars, store, stored, shared, excused>>

\* Mutant: one attempt too many.
OneMore(n) == n > MaxTries
IsLast(n) == n = MaxTries

Miss(v) ==
    /\ Looking(v)
    /\ LET n == view[v].tries + 1
       IN Tell(v, n, IF IsLast(n) THEN "missing" ELSE "none")
    /\ UNCHANGED <<pageVars, shareVars, store, stored, shared>>

Excuse(v, good) ==
    excused' = [excused EXCEPT ![v] = IF good THEN @ + 1 ELSE @]

\* Mutant: whatever is answered counts as nothing there.
NotLookedAt(v) == TRUE
Absent(v) == view[v].of \notin stored

NotFound(v) == Absent(v) /\ Miss(v) /\ Excuse(v, view[v].of \notin stored)

\* The attempt gets no answer, an error, or one that lags behind the write.
AttemptFails(v) == Miss(v) /\ Excuse(v, TRUE)

-----------------------------------------------------------------------------
ShareStep(s) == Created(s) \/ TimedOut(s) \/ Opened(s)
StoreStep(s) == TokenGot(s) \/ WriteLands(s) \/ WriteOk(s) \/ StoreFails(s)
ViewStep(v)  == Found(v) \/ NotFound(v) \/ AttemptFails(v)

Next ==
    \/ \E s \in Shares : \/ Begin(s) \/ ShareStep(s) \/ StoreStep(s) \/ LockTimer(s)
                         \/ Brief(s, NoShare) \/ Brief(s, Raw) \/ ProhibitStep(s)
    \/ \E v \in Views : ViewStep(v) \/ \E s \in Shares : Follow(v, s)

Spec == Init /\ [][Next]_vars

\* Timers go off and promises that are settled are handed on; Firestore need
\* not answer.
FairSpec ==
    /\ Spec
    /\ \A s \in Shares : WF_vars(ShareStep(s))
    /\ \A v \in Views : WF_vars(ViewStep(v))

-----------------------------------------------------------------------------
Readings ==
    {w \in [of : Shares \cup {NoShare}, tries : 0 .. MaxTries,
            shows : {"none", "images", "missing"}] :
        w.shows = "none" => w.tries < MaxTries}

TypeOK ==
    /\ pc \in [Shares -> {"idle", "waiting", "leaving", "done", "cut"}]
    /\ store \in [Shares -> {"none", "token", "sent", "landed"} \cup Settled]
    /\ current \in Shares \cup {NoShare}
    /\ lock \in BOOLEAN
    /\ timers \subseteq Reshares /\ unguarded \subseteq Reshares
    /\ stored \subseteq Shares
    /\ link \in [Shares -> Shares \cup {NoShare, Raw}]
    /\ view \in [Views -> Readings]
    /\ later \in [Shares -> SUBSET Shares]
    /\ shared \in [Views -> Shares \cup {NoShare}]
    /\ excused \in [Views -> Nat]
    /\ \A s \in Shares :
          pc[s] \in {"idle", "leaving"} => store[s] = "none" /\ link[s] = NoShare

\* A reader sees the images of the report that was shared, unless the share
\* ran out of time and another one of that page began while it waited: then
\* the link is that of the other one (sharing.js:692, :713).
ReadersSeeTheReport ==
    \A v \in Views :
        view[v].shows = "images" =>
            view[v].of = shared[v] \/ view[v].of \in later[shared[v]]

\* A link leads to a package that is there, or whose write is under way or has
\* failed; one opened in place is there (sharing.js:735 and 2004-2006).
LinksResolve ==
    \A s \in Shares :
        link[s] \in Shares =>
            \/ link[s] \in stored
            \/ s \notin Openings /\ store[link[s]] \in {"token", "sent", "failed"}

\* A reader that is told a package is missing looked for it as often as it may,
\* each time before it was stored or without an answer: nobody who had one good
\* answer gives up on a package that is there, however late its write landed
\* between the attempts (image-package.html:598-646).
MissingIsMissing ==
    \A v \in Views : view[v].shows = "missing" => excused[v] = MaxTries

\* What a reader is told is so: the images are those that were shared, and
\* "missing" is no answer for a package that is there.
ReadersAreTold == ReadersSeeTheReport /\ MissingIsMissing

\* Two reshares are under way only if the lock was cleared under the first, by
\* a timer or by the end of an earlier one (sharing.js:2603-2611, 2941).
OneReshareAtATime ==
    \A s, t \in Resharing \ unguarded : s = t

\* The lock is held only while a reshare is under way: each of its ends, and
\* the page's, frees it, so that no reshare is turned away for nothing
\* (sharing.js:2604-2607, 2704-2715, 2941).
LockIsFreed == lock => Resharing # {}

\* The lock excludes and does not stick: it keeps reshares apart unless it is
\* cleared under one of them, and is never held on behalf of none.
LockIsRight == OneReshareAtATime /\ LockIsFreed

\* A share sends its message, whether or not Firestore ever answers, unless the
\* page is left; and a reader is told something (sharing.js:647-656).
SharesEnd ==
    /\ \A s \in Reshares \cup Previews : s \in Waiting ~> s \notin Waiting
    /\ \A v \in Views : Looking(v) ~> ~Looking(v)
=============================================================================
