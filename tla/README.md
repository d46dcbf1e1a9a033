# A verification model of Connections

Connections is a Capacitor/Firebase application: a community board where people
who look for someone post a report (a text and up to five images). The browser
(plain JavaScript in `public/`) talks to Firestore, Storage and Identity Toolkit,
mostly over REST because the Firebase SDK hangs in the iOS web view;
`functions/` holds the Cloud Functions (payments, moderation, scheduled jobs),
and `firestore.rules` / `storage.rules` say who may write what. There are no
tests. This directory holds TLA+ models of its parts, the TLC configurations that
check them, and proofs checked by TLAPS.

## Where to start

| file | what it is |
| --- | --- |
| `ReportBoard.tla` | abstract: what a user who posts a report may rely on |
| `ReportSubmission.tla` | the submit handler of `js/reports.js` and everything it waits for |
| `ReportSubmissionProofs.tla` | the proofs of its ten theorems |
| `MCReportSubmission.tla`, `Report*.cfg` | instances for TLC |
| `PassCodeLedger.tla` | abstract: what a pass code promises whatever races or gets lost |
| `PassCodes.tla` | generation, redemption and sign-up with a pass code |
| `PassCodesProofs.tla` | its inductive invariants, five invariants proved, and the refinement |
| `MCPassCodes.tla`, `Codes*.cfg` | instances for TLC |
| `AccountStatus.tla`, `...Proofs.tla`, `MCAccountStatus.tla`, `Status*.cfg` | blocks, violations and rulings of the admin panel |
| `Subscriptions.tla`, `...Proofs.tla`, `MCSubscriptions.tla`, `Subscriptions.cfg` | the end of subscriptions and the reminders before it |
| `SlidingWindow.tla` | abstract: a limiter that counts exactly and forgets nothing |
| `SecurityGateway.tla`, `...Proofs.tla`, `MCSecurityGateway.tla`, `Gateway.cfg` | rate limiter, block check and alarms |
| `ShareLinks.tla`, `...Proofs.tla`, `MCShareLinks.tla`, `ShareLinks.cfg` | image packages and the links to them |
| `SavedReports.tla`, `...Proofs.tla`, `MCSavedReports.tla`, `Saved*.cfg` | saved reports and the images they take along |
| `PROJECT.json` | components, runs, mutants, source lines of each definition, findings, hazards, theorems |

`tlc -config ReportOneRun.cfg MCReportSubmission.tla` runs one configuration,
`tlapm PassCodesProofs.tla` checks the proofs of one module.

## Inventory

Vendored and generated code (about 6950 of the 7097 files, mostly iOS Pods), native
shells, static pages and translations hold no logic of the application and are
left out.

**Report submission** (`js/reports.js` 39-146, 305-352, 480-617, 2257-2945,
6281-6356). State: the popup and the button, `window._submitCancelled`, the file
input, `window.lastUploadedImages`, the user in localStorage, the objects in
Storage, the reports in Firestore. Operations: submit, pick files, Cancel,
sign in and out, reload. The handler awaits moderation of each image,
compression, a token refresh, the upload against a 30 s timer, another refresh
and the POST. Hard: two runs of the handler on one page; state that is read
again after an await; a Cancel that comes between two looks at the flag; a
timeout that races the late upload; a lost answer to the POST. Right if: runs do
not overlap, only what was judged safe is uploaded, a Cancel counts, a published
image exists, the author is the one who wrote, messages are true, the page comes
back.

**Pass codes** (`premium-iap.html` 763-1103, `js/users-auth.js` 73-165, 366-524,
1290-1704, `dashboard.html` 596-708, `firestore.rules` 10-40). State: the
documents `pass_codes/<code>` and `users/<uid>`, the premium flag in localStorage.
Operations: generate in bulk, redeem, sign up with a code, expiry. Reading the
code, marking it and crediting the account are separate requests without a
precondition. Hard: two devices on one code; a page closed, an answer lost or a
write refused between the two writes; two names (`used`, `isUsed`) for one field;
another account in another tab; an SDK that never answers. Right if: a code
sponsors one account, a spent code credits its account, nobody is credited on a
code that stays good, and the handlers end.

**Account status and violations** (`admin.html` 602-642, 805-818, 1062-1336,
1419-1470, `functions/index.js` 62-318, `premium-iap.html` 920-952). State: `status`
and `violations` of `users/<uid>`, the flags of reports, the security log, the
unchecked images. Operations: review an image, confirm or clear a report, scan all,
delete all flagged, block all authors, block and unblock, the six-hourly round over
repeat offenders. Each is a chain of Firestore requests without a transaction. Hard:
two reviews of one account, a decision between the read and the write of a review,
a chain that stops half way, old log entries that block an unblocked account again.
Right if: the last decision holds, every violation counts, a ruling reaches the
author, offenders are blocked in the end.

**Expiry of subscriptions and reminders** (`functions/index.js` 883-949, `admin.html`
560-597, 694-818, 1399-1418). State: `hasActiveSubscription`, `subscriptionExpiry` and
the reminder flags. Operations: the daily run, the hourly round of an open admin
page, the list with Fix buttons, renewal, the admin's change of type. Hard: accounts
read at the start of a run and written later, runs that fail and start again, renewal
in between. Right if: who paid stays active, a reminder comes once, who is over ends,
a run that gets to its end has seen to everybody.

**Security gateway and rate limiter** (`functions/index.js` 27-200). State: request
times in the memory of each instance, accounts, the log. Hard: the hourly clear
inside the sliding window, several instances, the log counted before the entry is
written, a status read before five awaits, a memory that is pruned. Right if: the limit
holds between clears, nobody is refused below it, a blocked account is not served, an account that is logged too often raises an alarm.

**Image packages and share links** (`js/sharing.js` 636-890, 1965-2085, 2603-2947,
3400-3411, `image-package.html` 430-644). State: `window.currentPackageId`, the reshare
lock and its timer, `imagePackages`. Hard: a time limit that races the write, a shared
id as the fallback, a lock that a timer frees and that every end must free, readers
that come before the write.
Right if: a reader sees the images that were shared, a link leads somewhere, two
reshares do not overlap, everybody gets an answer.

**Saved reports** (`js/sharing.js` 1739-1935, 2996-3278, 3344-3378, 5010-5187,
5798-5830, `js/reports.js` 1331-1381, 1763-1812, 2750-2766). State: a list for each
account in localStorage, the images uploaded last (in the page and in localStorage),
the form put aside while sharing, what each tab has rendered. Hard: several tabs and
accounts on one localStorage, positions of a list that has changed, images of another
report. Right if: no duplicates, a Delete hits what it stands at, a report is saved
with its own images.

**Cleanup jobs** (`functions/cleanup.js`), **payments** (`functions/index.js` 977-1461,
`js/momo-payment.js`), **sign-up, sign-in, profile repair** (`js/users-auth.js`,
`js/firebase-loader.js`, `js/manager.js`), **premium flags of the browser**
(`js/avatar-upload.js` 1328-1462), **admin panel, avatar upload and widgets, language
switch, log collector, static pages**: see "Not modelled".

Interaction: the browser parts share localStorage and the page's globals; they
meet the functions only in Firestore (users, reports, packages, security log).
`lastUploadedImages` and the popup connect `ReportSubmission` and `SavedReports`; the
write of a redeemed pass code (`PassCodes`) is `Subscribe` in `Subscriptions` and
`RedeemCode` in `AccountStatus`; the gateway reads the status that `AccountStatus`
writes, and its high log entries are `GatewayLogs` there.

## Plan

Done, in this order: `ReportBoard` and `ReportSubmission`; `PassCodeLedger` and
`PassCodes`; `AccountStatus`; `ShareLinks`; `SavedReports`; `Subscriptions`;
`SecurityGateway`; each with its proofs. Every part of the system that keeps state
and acts on it as written is modelled. What would come next, should the code
change: the cleanup jobs once their queries match what the application writes,
payments once they activate something, and profile repair once its tests of
existence do.

Modules meant for proofs have no recursive operators; their constants are sets and
model values with named assumptions.

## ReportSubmission

One *run* is one submit event. `pc[s]` says what the handler of run `s` awaits; the
code between two awaits is one action, named for what it ends or begins
(`SubmitAccepted`, `ModerationSafe`, `CompressedOnce`, `UploadTokenRefreshed`,
`UploadSucceeds`, `UploadTimesOut`, `SendReport`, `ReportAnswered`, ...). The user
and the surroundings act in between: `CancelClick`, `PickFiles`, `ClearForm`,
`SignIn`, `SignOut`, `OtherTab`, `Reload`, and Storage and Firestore with
`UploadLands`, `ReportLands`, `ReportRejected`. The shared page is `busy` (popup and
button, which change together), `cancelled`, `files` (the file input),
`lastUploaded` and `session`, the user in localStorage; `leaving` is set when the page is on its way to
another one.

Decisions, each for a reason in the code:

- `window.fbReady` is never set, so awaiting it is a microtask: the form is read
  in the task of the click.
- In both violation paths the update of the account throws (`collection` has no
  `doc`), so that an alert and a redirect remain.
- `currentUser` of the SDK is null or emulated; uploads use the stored refresh
  token. The second premium check and the branch for no images at all cannot be
  reached.
- `uploadImage` compresses again before it reads the user: the state "recompress".
- Both image loops read the live file input after each await: the image they
  upload is the one selected *now*.
- The 30 s timer abandons an upload, it does not stop it: the object may land
  later. Likewise a POST without an answer may have landed.
- `Reload` loses the runs; requests that were sent may land.
- The snapshot the language switch takes of `lastUploadedImages` is not modelled.

A run of the *abstract* `ReportBoard` publishes at most once and then tells the user
the truth; "unknown" allows for a POST that was never answered. `MessagesAreTrue`
is the refinement: nobody is told that a report is published that is not.

Another tab may sign anybody in or out at any time (`OtherTab`). The page is not told:
its submissions, those under way and those to come before it is reloaded, are
`estranged`, a history. Only of these may the author, read before the image section,
and the token, read after it, belong to two accounts: `AuthorIsWriter` is about all
others, in the same behaviours. `AccountsDoNotSwap` is about the two token refreshes,
which write back the user they began with (`reports.js` 89, 2829). On an estranged page
that can put one account in the place of another, and the property says that nothing
else can: anywhere else it may undo a sign-out, but nobody can sign in before the page,
and with it the refresh, is gone (`leaving`). An upload without a refresh token sends
the stored one and writes nothing back (102; `StartUpload`).

`PageIsGivenBack`: the popup covers the page only while a run is under way, whichever of
the many ends it took. The one end that forgets is named in it: a form with an empty
required field (2496, `SubmitIncomplete`). `RunsEnd` has a run end *and* the page come
back; for any number of images its safety half is the theorem `EveryStepAdvances`:
although the loops read the length of a file input that may change, no step takes a run
back on a scale of 4 `MaxSelection` + 5 (`RunsAdvance`, stated with its proof).

| run | shows | instance |
| --- | --- | --- |
| `two_runs` | `SingleFlight`, `UploadedWereModerated`, `CancelHonoured` | 2 submissions, 1 image, a subscriber; 6.7 million states |
| `one_run` | `TypeOK`, `ImageUrlResolves`, `AuthorIsWriter`, `MessagesAreTrue`, `PageIsGivenBack`, `AccountsDoNotSwap`, `RunsEnd` | 1 submission, at most 2 images, selections up to 3, a subscriber and a free account; 93 000 states |

Two submissions are enough for the hazards between runs: each needs one run that
is cancelled or late and one that takes the page. Two images tell the loop's first
and last round apart, a selection of three exceeds the limit; two accounts are
needed to change the author. Submissions are symmetric in `two_runs`, which checks
invariants only.

`SingleFlight`, `UploadedWereModerated` and `CancelHonoured` carry conditions
(nobody cancelled, no upload failed, no later submission reset the flag). These
are exactly what the code needs: without them the properties fail, as
`cancel_too_late` and "Seen on the way" below show.

Fairness (`one_run`): weak fairness of `Settling`: fetches settle with an answer or
an error, compression ends, the timer fires. Uploads, Storage, Firestore and the
user owe nothing. Deadlock is not checked, since a page whose runs have ended may
rest.

## PassCodes

An *attempt* is one click on Redeem or one sign-up, in a browser of its own; a
double click is two attempts, as no button is disabled. `pc[a]` says which request
it awaits. A request is "sent", then "landed" or "refused"; the handler goes on when
it is answered or given up, which need not be the same moment, so that a page that
is closed or a lost answer leaves a write that may still land. `doc` is the
collection `pass_codes`, with the fields `used` (as `st`), `isUsed` and the expiry;
`profile[u]` is `passcodeId` of `users/u`; `unlocked` are the browsers with the local
premium flag.

- Every generated code has the field `used`, so that `f.used ?? f.isUsed` never
  reaches `isUsed`. Codes are generated one POST after the other; a code counts as
  listed from its POST on.
- Any error status of the GET reads "invalid"; only a fetch or parse that throws
  reaches the inner catch.
- After the inner `try` the handler does not return: sections 7, 8 and 10 use names
  of the inner block, throw, and are caught; section 9 sets the flags. So whatever
  does not return ends with the flag set and with the text "Error".
- The account comes from localStorage when the click happens, the token from
  whoever is stored there later. A token of another account may mark the code (any
  account may) but not credit the user (only the user and the owner may).
- Only the owner has an SDK session that persists (`admin.html`), so that the SDK
  writes of a sign-up, profile and mark, are refused elsewhere or hang. They are
  sent and answered in order. The profile has a limit of 3 s, the mark none.
- `createUserAccount` is one step from the answer of signUp on: the display name,
  localStorage and the individual profile, for which it waits up to 4 s. Nothing reads
  the session of a sign-up in between, and the sponsored profile replaces the other.
- Left out: the search for a code by field when its document
  is gone (no operation deletes one).

`contested` and `mishaps` are history: codes that two attempts used at the same time
(or a sign-up used at all, because of `isUsed`), and attempts whose write was refused
or unanswered, whose page was closed or whose account changed under way. Hence the
conditional properties say what the code guarantees, in full: `OneTimeUseInTurn`
(an undisturbed code sponsors one account), `SpentIsCredited` (no code is lost),
`CreditedIsSpent` (no credit on a code that stays good). `SponsoredOnRequest` and
`SpentStaysSpent` have no such condition: a profile names a code only because of an
attempt that was accepted for that very account, whoever is signed in when the write
goes out, and every behaviour implements `PassCodeLedger`, in which a spent code stays
spent and only an attempt that found its code unspent is granted, never one that
was turned away.

| run | shows | instance |
| --- | --- | --- |
| `codes_two_redeem` | `TypeOK`, `OneTimeUseInTurn`, `CreditedIsSpent`, `SponsoredOnRequest` | 2 redemptions, 2 accounts, 1 code; 660 000 states |
| `codes_sign_up` | `SpentIsCredited`, `SpentStaysSpent`, `TakenIsAnswered` | a redemption and a sign-up, browsers with the owner's session, 2 codes; 110 000 states |

Two attempts on one code are the smallest race; two accounts make a double use
visible; the second code in `codes_sign_up` lets the attempts also miss each other.
Fairness (`codes_sign_up`): fetches settle and the 3 s timer fires; Firestore owes
the SDK nothing, and the user may close the page. Deadlock is not checked: attempts
end.

## AccountStatus

A *click* is one run of a handler of the panel; `at[h]` is the request it makes next,
`left` and `owners` the reports and accounts it still has to write. Lists on the page
are as old as their rendering, so that an item may be blocked again and a report be
gone. `decided`, `tally`, `open` are history: the last decision about an account, the
reviews that counted, the reports ruled against since its last block.

- A review reads the account, then writes `violations + 1` and the *status it read*
  (`NewStatus`): accounts into whose review another write fell are `muddled`, two
  reviews that overlap make it `miscounted`. Both exceptions are necessary.
  `ViolationsAreCounted` says both what holds in turn (`CountedInTurn`) and what holds
  through overlaps (`CountedWithin`): they lose violations, never make up any, and
  the first is not lost.
- `Judge` of a deleted report and `OwnerMissing` throw (updateDoc), outside or inside
  a `try`: the click ends there.
- `LookUp` of an account without a document throws, because `userDoc.exists` is a
  function in this SDK and hence true, and ends the round for all later accounts.
- The PATCH of a redemption sets the status to active and creates the document;
  a sign-up does the same for an account that has none.
- Client-side blocks (`reports.js` 2222-2244, `sharing.js` 288-312), `autoBlockUser`
  and the function `scanExistingReports` never get to their writes: left out.
- Bounds: `MaxLogs` saturates the number of log entries, `MaxFailures` bounds failed
  requests. The limits 3 and 5 of the code are 2 and 1 or 2 in the instances.

| run | shows | instance |
| --- | --- | --- |
| `status_clicks` | `TypeOK`, `StatusAsDecided`, `ViolationsAreCounted`, `RulingsReachAccounts` | 2 clicks, 2 accounts, an item, 2 reports, flagged before or not; clicks are symmetric; 3.9 million states |
| `status_timer` | `OffendersBlocked` | 1 click and the timer, 2 accounts, limit 2; 380 000 states |

Two clicks are the smallest race, a limit of 2 tells a lost violation from a counted
one, and two reports of two authors let one stay behind when a scan aborts. Fairness
(`status_timer`): the panel stays open, its timer goes off and its requests settle;
clicks owe nothing. Deadlock is not checked, as with nobody to act the panel rests.

## Subscriptions

`batch` is what the daily run read at its start, `hourly` and `listed` what the admin
page read. An account is written one by one and may have been renewed in between;
`stale` are accounts ended on an expiry that was no longer theirs, `freed` those the
admin set to free. A write that fails may have landed; it ends the run, as does
a query that fails at its start (`StartFails`), and the scheduler starts it again up to `Retries` times on that day.

- Time is in days: expiries and runs fall on whole days.
- Reminder flags are never reset: after a renewal there is no second reminder.
- An account that was ended by a stale run stays inactive until an admin acts; this
  is why `PaidIsActive` excepts it for good.
- `touched` is history: accounts that were renewed, or made active by hand, after the
  daily run had read its list. `RunIsComplete` is about all others: when a run gets to
  its end (`FinishDaily`), none of them is active past its expiry, and none lacks the
  flag of a reminder that is due. It says of a single run what `ExpiredEnds` says in the
  long term.
- That the Fix button also blocks is in `AccountStatus`. Runs of the daily job do not
  overlap (one scheduler job).

| run | shows | instance |
| --- | --- | --- |
| `subscriptions` | `TypeOK`, `PaidIsActive`, `RemindedOnce`, `RunIsComplete`, `ExpiredEnds` | 2 accounts, a plan of 2 days, a reminder 1 day before, 5 days, 1 failure, 1 retry; 1.6 million states |

A plan of two days has a day of the reminder, a last day and a day after; two
accounts let a run fail between them. Fairness: days pass, the scheduler starts a run
each day and lets it go on; the admin page may be closed. On the last day (bound) the
admin does not change types and the page reads nothing anew, so that the last run has
the last word.

## SecurityGateway

A request (`pc[q]`) is handled by an instance (`inst[q]`). `kept` is `requestCounts`,
`log` the collection `security_logs`; `accepted`, `free`, `before`, `counted` are history.
Nothing is awaited between the answer about the account and the limiter, so that
both are one step (`ReadStatus`). `logSecurityEvent` swallows errors (`unlogged`), the
two reads of Firestore do not (`Throw`). An invalid token is logged for the account
"unknown" (`ArriveInvalid`), a request without any is not (`ArriveBare`).

- Paths of requests, which the limiter keeps apart, are one path.
- The limit is one per instance and between clears: an account may use it twice
  around a clear, and once on each instance. `WithinLimit` says what holds.
- The count needs a composite index on `userId` and `timestamp` that
  `firestore.indexes.json` does not list; without it `Throw` is what happens always.
- No client calls the gateway as yet.

`SlidingWindow` is the abstract limiter: an instance remembers every request it ever
admitted, admits below `Limit` in the last `Window` and refuses at it. The code keeps
less: `kept` loses what was out of the window of the account that asked, and nothing is
written back on a refusal. `LimiterIsExact` is the refinement, with `granted` mapped to
the history of admitted requests: the pruning never changes an answer, nobody is
refused below the limit, and no request goes on that was not counted.

| run | shows | instance |
| --- | --- | --- |
| `gateway` | `TypeOK`, `WithinLimit`, `BlockedTurnedAway`, `AlarmRaised`, `LimiterIsExact` | 1 account, 2 instances, 3 requests, limit 1, window 1, threshold 1, hour 2; 3.6 million states |

Three requests are needed to exceed the threshold before the last one comes; one
account is enough since the limiter keys by account, and the theorems are for any
number of them. Requests and instances are symmetric.

## ShareLinks

A *share* is one run of `getImagesForPlatform` with its caller: a reshare (with the
lock), a preview (without), or a package opened in place. `store[s]` is where its
`storeInFirestore` is, which the time limit does not stop. All shares of a page see
`current` (`window.currentPackageId`), the lock, and the timers that free it. A reader
(`view`) follows a link that was sent and looks for the package up to `MaxTries` times.

- When the time is up a share sends the link of `current`, that is of whichever share
  began last: `later` are the shares that began while it waited.
- The link is sent whatever `storeInFirestore` answered (`Created`); opened in place it
  is used only if it was stored.
- The timer of the lock (3 s) is not cancelled when the reshare ends and frees the
  lock of the next one: `unguarded`. A second handler of the page does the same with
  2 s; the Facebook dialog creates two packages without the lock.
- A reshare of a report with a prohibited word blocks the account, which throws inside
  and is swallowed, signs it out and leaves the page (`Prohibit`, `SignedOut`); all that
  waits there is cut off (`LeavePage`, as when a package is opened in place). That
  return is the only one that does not free the lock.
- `LockIsRight`: the lock keeps reshares apart (`OneReshareAtATime`), and whichever way
  they end, it is not held without one under way (`LockIsFreed`). `ReadersAreTold`:
  images are those shared (`ReadersSeeTheReport`), and "missing" is said only
  after `MaxTries` attempts none of which could have found the package
  (`MissingIsMissing`): `excused` counts, for each reader, the attempts that came before
  the write landed or got no answer, and may well come from both kinds. Giving up one
  attempt early, or passing over one good answer, is a violation.
- Nothing deletes packages; `storeInMultipleLocations` stores nothing.

| run | shows | instance |
| --- | --- | --- |
| `share_links` | `TypeOK`, `ReadersAreTold`, `LinksResolve`, `LockIsRight`, `SharesEnd` | 2 reshares, a package opened in place, a reader with 2 attempts; 105 000 states |

Two reshares race for id and lock. Previews differ from reshares in not taking the
lock only; with one more share of that kind TLC has millions of states and does not
get through in the time of the other runs, so that previews are covered by the proofs
alone. Fairness: timers go off, promises that are settled
are handed on, readers go on; Firestore need not answer. Deadlock is not checked:
shares end.

## SavedReports

Tabs of one browser share localStorage: the account, a list for each account, the
images uploaded last, the form put aside (`snapshot`). Each tab has its form,
`window.lastUploadedImages` (`tabImages`), a popup while it submits, and the list it
rendered last (`shown`), whose Delete buttons hold positions. `own` is history: the
images uploaded for the report on the form, if no others came into the tab since;
`behind` are tabs whose rendered list another tab has changed.

- A read and the write that follows it in the same task are one step; tabs do not
  interleave there.
- An empty form is saved as "Report": `getReport` sets the title, and the test for an
  empty report never fires. The same goes for "Please create a report first".
- `Render` sorts by the time of saving. Save puts a report at the head of the list, with
  the time of now, so that the sort is the identity and positions are kept.
- The tab "New report" clears `window.lastUploadedImages` and leaves the copy in
  localStorage, which the next Save falls back to. Sign-out leaves it, too: a saved
  report may carry images of an earlier one, or of another account. `ImagesBelong` is
  about reports for which images were uploaded, and those take their own.
- Left out: the test for prohibited words (it keeps some texts off the list), the
  quota (its handler frees nothing that is written any more), `setupSaveButton` of
  `reports.js`, which nobody calls, and `deleteReport`, which works on an old key.

| run | shows | instance |
| --- | --- | --- |
| `saved_list` | `DeletesWhatIsShown` | 2 tabs, 2 accounts, 2 texts, lists up to 3, no submissions; 180 000 states |
| `saved_images` | `TypeOK`, `ImagesBelong` | 2 tabs, 2 accounts, 2 texts, 2 submissions; nothing is saved, `ReportToSave` is what would be; 119 000 states |

The two halves do not depend on each other: what Save puts on the list is
`ReportToSave`, whatever is on the list. Tabs, accounts, texts and submissions are
symmetric; no liveness is checked.

## Proofs

All theorems hold for any sets of submissions, attempts, accounts, images and codes,
under the named assumptions of the modules (distinct kinds of values are disjoint,
the owner is an account).

`ReportSubmissionProofs`:

- `TypeCorrect` (`TypeOK`). `TypeOK` is not inductive without `RunShape`: which
  author, writer and image a run has at hand at each await.
- `RunsKeptApart` (`SingleFlight`). `Covered`: a run that is alive keeps the page
  busy unless the page was handed back early; `Alone`: then at most one run is
  alive. A submit needs a free page, which is what makes the step go through.
- `CancelCounts` (`CancelHonoured`). `CancelPending`: while a cancelled run has not
  reached its last look at the flag, the flag is still set unless a later
  submission cleared it.
- `ModeratedFirst` (`UploadedWereModerated`). `VerdictsReach`: with the page busy the
  selection cannot change, so the verdicts of a run cover what its upload loop
  reads. It rests on `SingleFlight`.
- `ImagesAreThere` (`ImageUrlResolves`). `UrlsOwn`: every URL a run has at hand, in its
  list, in its form data or in a confirmed upload, is an object of its own that Storage
  holds; Storage forgets nothing.
- `AuthorsWrite` (`AuthorIsWriter`). `OneAccount`: unless all that lives on the page is
  estranged (`EstrangedPage`), there is one account that every live run and every
  pending token refresh acts for, and who signed out is leaving, so that the next
  sign-in finds neither. Author and writer agree from the request on.
- `NoAccountIsSwapped` (`AccountsDoNotSwap`) from the same `OneAccount`: on a page that is
  not estranged what a refresh writes back is that one account, or nobody is signed in.
- `PageNotForgotten` (`PageIsGivenBack`) is inductive with the type invariant: every end
  of a run frees the page in the same step.
- `EveryStepAdvances` (`RunsAdvance`), one lemma per kind of step: the rank of a run
  grows and stays within its bound, which needs that the index of a loop is below the
  largest selection. This is the safety half of `RunsEnd`: a run can fail to end only
  by waiting, and that no wait is for ever is what fairness says.
- `BoardKept` (`MessagesAreTrue`): the refinement of `ReportBoard`. `ToldTrue` relates the
  message to the request (a refused submission never sent one, a published one is
  committed); with it each step of a run publishes, tells or is a stutter of the board.

`PassCodesProofs`:

- `TypeCorrect` with `Shape` (how far an attempt has come and what it has at hand).
- `NothingLost` (`SpentIsCredited`) and `NothingFree` (`CreditedIsSpent`) from `Writes`:
  the order in which the two writes of an attempt without a mishap are sent and
  land, and that a landed mark of a redemption stays in the document.
- `OneUseInTurn` (`OneTimeUseInTurn`) from `InTurn` (of the attempts on an undisturbed
  code one is under way at a time, and only one finds it good) and
  `ProfilesAreCredited` (a profile names a code only if an attempt credited it). `InTurn`
  needs `Writes`: the second attempt is turned away because the first one's mark has
  landed before it ended.
- `NobodyElseSponsors` (`SponsoredOnRequest`) from `ProfilesAreCredited` and
  `AcceptedStored`: an attempt is accepted on a code that was read, codes are never
  deleted, and the token of another account cannot credit the user.
- `LedgerKept` (`SpentStaysSpent`): the refinement, action by action, from `Typed` and
  `Known` (a code that exists was listed, so that a used code is never created
  anew).

`AccountStatusProofs`:

- `LastDecisionHolds` (`StatusAsDecided`) and `ViolationsCounted` (`CountedInTurn`) are
  proved together, with `ReadsCurrent`: a review that no write has disturbed still
  holds the account as it is, so that what it writes back changes nothing but the
  count.
- `NeverOvercounted` (`CountedWithin`) with `ReadsWithin`: what a review has read is not
  above the count of the reviews so far. It holds through every overlap, so that it
  needs none of the history of `CountedInTurn`. `CountsHold` (`ViolationsAreCounted`) is
  the two together.
- `NoRulingForgotten` (`RulingsReachAccounts`) with `JudgesOwner`: the account that a
  click is about to block is the author of the report it judges; a block of an account
  discharges every ruling against it.

`SubscriptionsProofs`:

- `PaidKeepsActive` (`PaidIsActive`) with `PageWasRight`: what the page and the daily run
  took for expired was expired when it was read, so that ending an account whose
  expiry is still the same ends no paid one.
- `OneReminder` (`RemindedOnce`) with `FlagsAsRead`: only the run writes flags, so those
  in its batch are those of the account.
- `RunsAreComplete` (`RunIsComplete`) with `Halfway`: of the accounts that nobody made
  active since the run read them, those it still holds are as it read them, and those
  it is done with are seen to. A throw ends the run and discharges the claim; others may
  end accounts, which only helps.

`SecurityGatewayProofs`:

- `NeverServesBlocked` with `FreeInv`: a request past the look at the account has seen it
  free. `AlarmsAreRaised` with `AlarmInv`: the entries there at arrival stay, and a count
  above the threshold has led to the alarm or to its lost entry.
- `LimitHolds` (`WithinLimit`) with `Remembers`: an instance remembers every request it
  let through in the window of now. A window that contains the new request ends now
  or later and holds no more than what the limiter just counted, plus one; all other
  windows are as before.
- `PruningIsExact` (`LimiterIsExact`): the refinement of `SlidingWindow`, action by action.
  `Recalls` (an instance keeps only what it admitted) and `Remembers` (it keeps all that
  is in the window) make the two counts equal, whatever was pruned.

`ShareLinksProofs`:

- `LockGuards` (`OneReshareAtATime`) with `LockHeld`: a guarded reshare under way holds the lock.
  `NoLockForNothing` (`LockIsFreed`) is inductive as it stands: who takes the lock is under
  way, and whoever ends or cuts off a reshare frees it. `LockWorks` (`LockIsRight`) is
  the two together.
- `LinksLead` with `StoredWhenLanded` and `CurrentBegan`.
- `ReadersSeeOwn` with `WaitsForOwn`, `SentOwn` and `ReadsLink`: while a share waits the
  page's id is its own or that of a later share; what it sends is one of these; a
  reader looks for what was sent. `NotToldMissing` with `ShowsFollowed` and `Excused`: only
  who was sent a link looks, and every attempt that is over was excused.
  `ReadersKnow` (`ReadersAreTold`) is the two together.

`SavedReportsProofs`:

- `SavedOnce` (`NoDuplicates`: look and append are one task, so that this is a lemma on
  sequences rather than a race, and no run checks it) from what `RemoveAt` and prepending do to a sequence without
  duplicates. `DeletesOwn` with `ShowsTheList`: a tab that is not behind shows the list of
  its account.
- `SavedWithItsImages` (`ImagesBelong`) with `ImagesMatch`: wherever own images are named,
  in a tab or in the form put aside, they are there and their submission is of that
  text.

Every inductive invariant was first checked with TLC on the instances above. Every
safety property of the passing runs is proved, the three refinements among them.
Liveness (`RunsEnd`, `TakenIsAnswered`, `OffendersBlocked`, `ExpiredEnds`,
`SharesEnd`) needs fairness and ENABLED, which are beyond the prover, and stays with TLC;
`RunsAdvance` and `RunIsComplete` are what safety can say of the first and the fourth of
them. No theorem needs induction over data: lists are only prepended to and shortened
by one, and counts are compared through cardinalities.

One hazard of PROJECT.json has no property: the sign-up that waits for the SDK without a limit, which does wait
for ever where the SDK hangs.

Many properties except a case by a history (`contested`, `mishaps`, `muddled`,
`miscounted`, `stale`, `unguarded`, `later`, `behind`, `estranged`). In these cases the
code makes no promise, and neither does the property, for the one code, account, page
or reader concerned. The behaviours are part of the instances all the same: for all
others in them the property holds, and so do the properties without such a condition.

## Findings

`cancel_too_late` is a run that TLC ends with a counterexample: a Cancel during the
last token refresh or the POST is logged as "Submission cancelled by user"
(`reports.js` 556), and the report is published.

Seen on the way, in the models or while reading, without a run of their own:

- Report submission. A second declaration of `imageUrls` (`reports.js` 2713) hides the
  array the document takes: "Array of all image URLs" is always empty. After Cancel
  and a new selection the first run goes on and uploads an image it did not check
  (2715, "only if all checks passed" at 2710). A token refresh that is answered after
  the sign-out writes the user back to localStorage (2829, 89). With a required field
  empty the handler returns at 2496 with the popup shown and the button disabled
  (`SubmitIncomplete`).
- Pass codes. Two devices that read a code before either marks it both use it, though
  the rule says one time use (`premium-iap.html` 898, `firestore.rules` 38; `contested` in
  the model: without its condition `OneTimeUseInTurn` fails). A sign-up marks `isUsed`, which the redemption does not look at
  (`users-auth.js` 1639, `premium-iap.html` 834). A redemption that fails half way sets
  the premium flag of the browser all the same (1042), a successful one ends in
  "data is not defined" (1057; `Conclude`), and "redeemed successfully" (961) is logged
  whatever the answers were. A sign-up waits without limit for a write it calls
  non-critical (`users-auth.js` 463-466). "Generated N codes" (`dashboard.html` 700) lists
  those whose POST failed, too (`GenerateFailed`).
- Account status. An invalid token is logged for the account "unknown", which has no
  document: with enough of such entries `autoBlockRepeatOffenders` throws at
  `admin.html` 625 and blocks nobody that comes later. An item may be blocked twice and
  counts twice. A false alarm leaves the account blocked, and a scan flags the report
  again.
- Functions. `checkReportContent` and `createMomoPayment` take their arguments in the
  order of the older interface and answer unauthenticated to everybody;
  `checkContentViolation` is defined twice (618 and 652), and the second has another
  result than `scanExistingReports` expects.
- Subscriptions. Reminder flags are never reset; `isPremium` and `premium` are never
  cleared; survey jobs and `resetMonthlyCounts` change nothing that is read.

## Not modelled

- **Cleanup jobs** (`functions/cleanup.js`): reports carry `timestamp`, the job asks for
  `createdAt`; packages are in `imagePackages`, the job asks for `image_packages`;
  `lastLoginAt` is never written; `subscriptionExpiry` is a string, the query compares it
  with a timestamp. Each job finds nothing, and a model could only say so.
- **Payments**: intents stay pending; no path from a payment to an account exists.
- **Premium flags of the browser**: set on many paths, cleared on none, and
  `checkPremiumStatus` counts the default account type as premium, so that they decide
  nothing.
- **Profile repair and the check for blocked accounts at sign-in** ask `userDoc.exists`,
  which is a function: always the same branch.
- **Admin panel** beyond the operations above, **avatar upload, widgets, language,
  log collector, static pages**: display and single writes.
- Wording, layout, translation, logging, maps and autosave; the contents of images
  and texts (a verdict is a choice); clocks, except that days pass, codes expire and
  timers fire; what Firebase does inside, beyond the rules and requests that arrive,
  are refused or get lost.

Most lines of the repository are vendored libraries of the iOS shell (`ios/Pods`), C
and C++ code that is not the application's. The application itself is JavaScript and
HTML, to which all entries of `map` point.
