-------------------------- MODULE ReportSubmission --------------------------
(***************************************************************************)
(* Submitting a report from the dashboard (public/js/reports.js).          *)
(*                                                                         *)
(* Every click on Submit starts one run of the asynchronous submit         *)
(* handler.  A run is synchronous between its awaits, so an action is what *)
(* one run does from one await to the next; runs interleave at the awaits  *)
(* and share the page: the loading popup with its Cancel button, the       *)
(* submit button, window._submitCancelled, the file input, the signed-in   *)
(* user in localStorage and window.lastUploadedImages.  The uploads and    *)
(* the final POST are requests with a life of their own: they may land     *)
(* after the run stopped waiting for them.                                 *)
(***************************************************************************)
EXTENDS Integers, Sequences

CONSTANTS
    Submissions,   \* the clicks on Submit: one run of the handler each
    Users,         \* accounts
    NoUser,        \* localStorage has no "user"
    Premium,       \* users whose premium_<uid> flag is "true"
    Images,        \* images a user may pick
    BadName,       \* those with a prohibited word in the file name
    Unsafe,        \* those the moderation service objects to
    MaxImages,     \* images allowed per report: 5 in the code
    MaxSelection,  \* bound: images picked at once in the file input
    NoImage, NoUrl, NoReport

ASSUME UsersAssumption == NoUser \notin Users /\ Premium \subseteq Users
ASSUME ImagesAssumption ==
    BadName \subseteq Images /\ Unsafe \subseteq Images /\ NoImage \notin Images
ASSUME LimitsAssumption == MaxImages \in Nat /\ MaxSelection \in Nat

VARIABLES
    pc,            \* where each run awaits
    outcome,       \* what the user was told about each submission
    author,        \* formData.userId of each run
    idx,           \* loop counter of the moderation and the upload loop
    img,           \* the file that the current iteration took from the input
    passed,        \* history: images with a verdict "safe" in this run
    urls,          \* the upload loop's own imageUrls
    imgUrl,        \* formData.imageUrl
    writer,        \* submitUser of each run
    up,            \* the upload process the run started last
    req,           \* the POST of the report: none, sent, committed, gone
    report,        \* the document in the reports collection
    stored,        \* objects in Firebase Storage
    busy,          \* popup shown and submit button disabled
    cancelled,     \* window._submitCancelled
    files,         \* fileInput.files
    lastUploaded,  \* window.lastUploadedImages
    session,       \* localStorage.user
    leaving,       \* a navigation or reload is under way
    cancelState,   \* history: the user's Cancel seen by each run
    events,        \* history: what happened besides plain submissions
    estranged      \* history: submissions on a page that was open when
                   \* another tab changed the account

runVars   == <<pc, outcome, author, idx, img, passed, urls, imgUrl, writer>>
netVars   == <<up, req, report, stored>>
pageVars  == <<busy, cancelled, files, lastUploaded, session, leaving>>
histVars  == <<cancelState, events, estranged>>
vars      == <<runVars, netVars, pageVars, histVars>>

-----------------------------------------------------------------------------
Selections == UNION {[1..n -> Images] : n \in 0..MaxSelection}

\* An object at reports/<author>/<time>_<at>_<name>: the time makes the path
\* of every upload of every run its own.
Object == [by : Submissions, at : Nat, img : Images]
Url    == Object \cup {NoUrl}

PreGate  == {"moderate", "compress", "recompress", "upload"}
PostGate == {"refresh", "post"}
Awaiting == PreGate \cup PostGate

InFlight(h) == pc[h] \in Awaiting

Upload == [st   : {"none", "refresh", "sent", "stored", "failed"},
           img  : Images \cup {NoImage},
           at   : Nat,
           user : Users \cup {NoUser}]

NoUpload == [st |-> "none", img |-> NoImage, at |-> 0, user |-> NoUser]

\* Mutant: the author is read when nobody is signed in any more.
DocumentOfNobody(h) ==
    [author |-> NoUser, writer |-> writer[h],
     imageUrl |-> imgUrl[h], imageUrls |-> <<>>]

\* Mutant: the author is whoever is signed in when the document is sent.
DocumentOfNow(h) ==
    [author |-> session, writer |-> writer[h],
     imageUrl |-> imgUrl[h], imageUrls |-> <<>>]

\* What the POST sends.  The handler builds it from the outer imageUrls, which
\* nothing fills: the upload loop pushes to a shadowing variable of that name.
Document(h) ==
    [author |-> author[h], writer |-> writer[h],
     imageUrl |-> imgUrl[h], imageUrls |-> <<>>]

Documents == [author : Users, writer : Users, imageUrl : Url,
              imageUrls : {<<>>}]

ASSUME ReportAssumption == NoReport \notin Documents

Outcomes == {"none", "textBlocked", "signedOut", "incomplete", "notPremium",
             "tooMany", "badName", "imageBlocked", "cancelled", "error",
             "success"}

Init ==
    /\ pc = [h \in Submissions |-> "idle"]
    /\ outcome = [h \in Submissions |-> "none"]
    /\ author = [h \in Submissions |-> NoUser]
    /\ idx = [h \in Submissions |-> 0]
    /\ img = [h \in Submissions |-> NoImage]
    /\ passed = [h \in Submissions |-> {}]
    /\ urls = [h \in Submissions |-> <<>>]
    /\ imgUrl = [h \in Submissions |-> NoUrl]
    /\ writer = [h \in Submissions |-> NoUser]
    /\ up = [h \in Submissions |-> NoUpload]
    /\ req = [h \in Submissions |-> "none"]
    /\ report = [h \in Submissions |-> NoReport]
    /\ stored = {}
    /\ busy = FALSE
    /\ cancelled = FALSE
    /\ files = <<>>
    /\ lastUploaded = <<>>
    /\ session \in Users \cup {NoUser}
    /\ leaving = FALSE
    /\ cancelState = [h \in Submissions |-> "no"]
    /\ events = {} /\ estranged = {}

-----------------------------------------------------------------------------
(***************************************************************************)
(* The click on Submit, up to the first await that waits.                  *)
(***************************************************************************)

\* Mutant: the submit button stays enabled and there is no popup.
ShowNothing == UNCHANGED busy

\* showLoadingPopup() and disableSubmitButton(true), always together, so that
\* one variable stands for both.
ShowBusy == busy' = TRUE

\* Mutant: the popup and the button stay as they are.
LeaveBusy == UNCHANGED busy

\* hideLoadingPopup() and disableSubmitButton(false), always together too.
FreePage == busy' = FALSE

\* Mutant: the page stays as it is.
StayOnPage == UNCHANGED leaving

LeavePage == leaving' = TRUE

\* Mutant: a popup without a backdrop.
AlwaysReachable == TRUE

\* The backdrop of the popup covers the whole page.
PageReachable == ~busy

Finish(h, o) ==
    /\ pc' = [pc EXCEPT ![h] = "done"]
    /\ outcome' = [outcome EXCEPT ![h] = o]

\* The new AbortController and the reset of the shared cancel flag: a Cancel
\* that an earlier run has not looked at yet is forgotten.
ResetCancel ==
    /\ cancelled' = FALSE
    /\ cancelState' = [g \in Submissions |->
                         IF cancelState[g] = "asked" /\ InFlight(g)
                         THEN "overridden" ELSE cancelState[g]]

CanSubmit(h) == pc[h] = "idle" /\ ~busy

\* A prohibited word in title or description.  The update of users/<uid>
\* throws before it reaches Firestore (window.fb.firestore.collection returns
\* a reference without .doc), so what is left is the alert and the redirect.
SubmitProhibitedText(h) ==
    /\ CanSubmit(h)
    /\ Finish(h, "textBlocked")
    /\ LeavePage
    /\ UNCHANGED <<author, idx, img, passed, urls, imgUrl, writer, netVars,
                   busy, cancelled, files, lastUploaded, session, histVars>>

\* Why a complete form is turned away before anything is sent.
Refusal(o) ==
    \/ o = "signedOut" /\ session = NoUser
    \/ o = "notPremium" /\ session \in Users \ Premium
    \/ o = "tooMany" /\ session \in Premium /\ Len(files) > MaxImages
    \/ /\ o = "badName"
       /\ session \in Premium
       /\ Len(files) \in 1..MaxImages
       /\ \E i \in DOMAIN files : files[i] \in BadName

SubmitRefused(h) ==
    /\ CanSubmit(h)
    /\ \E o \in Outcomes : Refusal(o) /\ Finish(h, o)
    /\ ResetCancel
    /\ FreePage
    /\ UNCHANGED <<author, idx, img, passed, urls, imgUrl, writer, netVars,
                   files, lastUploaded, session, leaving, events, estranged>>

\* A required field is empty: the handler returns with the popup still shown.
SubmitIncomplete(h) ==
    /\ CanSubmit(h)
    /\ session \in Users
    /\ Finish(h, "incomplete")
    /\ ResetCancel
    /\ ShowBusy
    /\ UNCHANGED <<author, idx, img, passed, urls, imgUrl, writer, netVars,
                   files, lastUploaded, session, leaving, events, estranged>>

\* A good form: collect it, and either start to moderate the first image or,
\* without images, pass the cancel check and refresh the token.
SubmitAccepted(h) ==
    /\ CanSubmit(h)
    /\ session \in Premium
    /\ \A i \in DOMAIN files : files[i] \notin BadName
    /\ Len(files) =< MaxImages
    /\ ResetCancel
    /\ ShowBusy
    /\ author' = [author EXCEPT ![h] = session]
    /\ \/ /\ files # <<>>
          /\ pc' = [pc EXCEPT ![h] = "moderate"]
          /\ idx' = [idx EXCEPT ![h] = 1]
          /\ img' = [img EXCEPT ![h] = files[1]]
          /\ UNCHANGED writer
       \/ /\ files = <<>>
          /\ pc' = [pc EXCEPT ![h] = "refresh"]
          /\ writer' = [writer EXCEPT ![h] = session]
          /\ UNCHANGED <<idx, img>>
    /\ UNCHANGED <<outcome, passed, urls, imgUrl, netVars, files,
                   lastUploaded, session, leaving, events, estranged>>

-----------------------------------------------------------------------------
\* Mutant: no last look at the cancel flag.
MayWriteUnseen == session # NoUser

\* Not cancelled, and somebody is signed in.
MayWrite == ~cancelled /\ session # NoUser

(***************************************************************************)
(* Towards the write.  From the end of the image section to the fetch that *)
(* refreshes the token nothing awaits: build the document, look at the     *)
(* cancel flag for the last time, read the user.  freed says whether the   *)
(* popup is already gone.                                                  *)
(***************************************************************************)
EnterWrite(h, url, freed) ==
    /\ imgUrl' = [imgUrl EXCEPT ![h] = url]
    /\ \/ /\ MayWrite
          /\ pc' = [pc EXCEPT ![h] = "refresh"]
          /\ writer' = [writer EXCEPT ![h] = session]
          /\ busy' = (busy /\ ~freed)
          /\ UNCHANGED outcome
       \/ /\ ~MayWrite
          /\ Finish(h, IF cancelled THEN "cancelled" ELSE "error")
          /\ FreePage
          /\ UNCHANGED writer

\* The upload loop ended: window.lastUploadedImages gets the list.
EndUploads(h, list) ==
    /\ urls' = [urls EXCEPT ![h] = list]
    /\ lastUploaded' = list
    /\ EnterWrite(h, IF list = <<>> THEN NoUrl ELSE list[1], FALSE)

\* The catch around the image section: show the page again, forget the image
\* and go on to write the report without it.
ImagesFailed(h) ==
    /\ EnterWrite(h, NoUrl, TRUE)
    /\ UNCHANGED <<urls, lastUploaded>>

(***************************************************************************)
(* STEP 1: the verdict on img[h] arrives.  Both loops read the length and  *)
(* the next file from the live file input.                                 *)
(***************************************************************************)
ModerationSafe(h) ==
    /\ pc[h] = "moderate"
    /\ passed' = [passed EXCEPT ![h] = @ \cup {img[h]}]
    /\ \/ /\ idx[h] < Len(files)
          /\ idx' = [idx EXCEPT ![h] = @ + 1]
          /\ img' = [img EXCEPT ![h] = files[idx[h] + 1]]
          /\ UNCHANGED <<pc, outcome, imgUrl, writer, urls, busy, lastUploaded>>
       \/ /\ idx[h] >= Len(files) /\ files # <<>>
          /\ pc' = [pc EXCEPT ![h] = "compress"]
          /\ idx' = [idx EXCEPT ![h] = 1]
          /\ img' = [img EXCEPT ![h] = files[1]]
          /\ UNCHANGED <<outcome, imgUrl, writer, urls, busy, lastUploaded>>
       \/ /\ files = <<>>
          /\ EndUploads(h, <<>>)
          /\ UNCHANGED <<idx, img>>
    /\ UNCHANGED <<author, netVars, cancelled, files, session, leaving,
                   histVars>>

\* The verdict is "unsafe"; when the service fails every image is "safe".  As
\* for prohibited text the update of the account throws and the page leaves.
ModerationUnsafe(h) ==
    /\ pc[h] = "moderate"
    /\ img[h] \in Unsafe
    /\ Finish(h, "imageBlocked")
    /\ FreePage
    /\ LeavePage
    /\ UNCHANGED <<author, idx, img, passed, urls, imgUrl, writer, netVars,
                   cancelled, files, lastUploaded, session, histVars>>

(***************************************************************************)
(* STEP 2: compress, look at the cancel flag, and upload, which compresses *)
(* a large image a second time before it asks who is signed in.            *)
(***************************************************************************)
CompressedOnce(h) ==
    /\ pc[h] = "compress"
    /\ ~cancelled
    /\ pc' = [pc EXCEPT ![h] = "recompress"]
    /\ UNCHANGED <<outcome, author, idx, img, passed, urls, imgUrl, writer,
                   netVars, pageVars, histVars>>

\* The error SUBMISSION_CANCELLED of the upload loop ends in the catch around
\* the image section.
UploadCancelled(h) ==
    /\ pc[h] = "compress"
    /\ cancelled
    /\ ImagesFailed(h)
    /\ UNCHANGED <<author, idx, img, passed, netVars, cancelled, files,
                   session, leaving, histVars>>

\* With the token in localStorage if there is no other to refresh it with.
StartUpload(h) ==
    /\ pc[h] = "recompress"
    /\ session # NoUser
    /\ pc' = [pc EXCEPT ![h] = "upload"]
    /\ \E st \in {"refresh", "sent"} :
          up' = [up EXCEPT ![h] = [st |-> st, img |-> img[h],
                                   at |-> idx[h], user |-> session]]
    /\ UNCHANGED <<outcome, author, idx, img, passed, urls, imgUrl, writer,
                   req, report, stored, pageVars, histVars>>

\* Nobody is signed in any more: the same catch.
UploadRefused(h) ==
    /\ pc[h] = "recompress"
    /\ session = NoUser
    /\ ImagesFailed(h)
    /\ events' = events \cup {"uploadFailed"}
    /\ UNCHANGED <<author, idx, img, passed, netVars, cancelled, files,
                   session, leaving, cancelState, estranged>>

\* The token refresh of the upload: its answer writes the user it started
\* with back to localStorage.
UploadTokenRefreshed(h) ==
    /\ up[h].st = "refresh"
    /\ up' = [up EXCEPT ![h].st = "sent"]
    /\ session' = up[h].user
    /\ UNCHANGED <<runVars, req, report, stored, busy, cancelled, files,
                   lastUploaded, leaving, histVars>>

\* Storage accepts the object: its rule wants the token's user to own the path.
UploadLands(h) ==
    /\ up[h].st = "sent"
    /\ up[h].user = author[h]
    /\ up' = [up EXCEPT ![h].st = "stored"]
    /\ stored' = stored \cup {[by |-> h, at |-> up[h].at, img |-> up[h].img]}
    /\ UNCHANGED <<runVars, req, report, pageVars, histVars>>

\* Mutant: take the URL of an object that may not be there.
UploadAnsweredEarly(h) == up[h].st \in {"sent", "stored"}

\* uploadImageToFirebaseStorage returns a URL only after an "ok" response.
UploadAnswered(h) == up[h].st = "stored"

\* The answer reaches the run in time: take the URL and go on with the loop.
UploadSucceeds(h) ==
    /\ pc[h] = "upload"
    /\ UploadAnswered(h)
    /\ LET list == Append(urls[h], [by |-> h, at |-> up[h].at, img |-> up[h].img])
       IN \/ /\ idx[h] < Len(files)
             /\ urls' = [urls EXCEPT ![h] = list]
             /\ pc' = [pc EXCEPT ![h] = "compress"]
             /\ idx' = [idx EXCEPT ![h] = @ + 1]
             /\ img' = [img EXCEPT ![h] = files[idx[h] + 1]]
             /\ UNCHANGED <<outcome, imgUrl, writer, busy, lastUploaded>>
          \/ /\ idx[h] >= Len(files)
             /\ EndUploads(h, list)
             /\ UNCHANGED <<idx, img>>
    /\ up' = [up EXCEPT ![h] = NoUpload]
    /\ UNCHANGED <<author, passed, req, report, stored, cancelled, files,
                   session, leaving, histVars>>

\* Mutant: no timer, only the upload.
NoTimer(h) == FALSE

\* The timer of Promise.race: it fires while the run waits for the upload.
UploadTimer(h) == pc[h] = "upload"

\* The 30 seconds are over: the run gives up, the upload itself goes on.
UploadTimesOut(h) ==
    /\ UploadTimer(h)
    /\ ImagesFailed(h)
    /\ events' = events \cup {"uploadFailed"}
    /\ UNCHANGED <<author, idx, img, passed, netVars, cancelled, files,
                   session, leaving, cancelState, estranged>>

\* The refresh or the upload is refused, or its answer is lost (the object may
\* be there).  A run that still waits for it takes the catch.
UploadFails(h) ==
    /\ up[h].st \in {"refresh", "sent", "stored"}
    /\ up' = [up EXCEPT ![h].st = "failed"]
    /\ \/ /\ pc[h] = "upload"
          /\ ImagesFailed(h)
          /\ events' = events \cup {"uploadFailed"}
          /\ UNCHANGED <<author, idx, img, passed>>
       \/ /\ pc[h] # "upload"
          /\ UNCHANGED <<runVars, busy, lastUploaded, events>>
    /\ UNCHANGED <<req, report, stored, cancelled, files, session, leaving,
                   cancelState, estranged>>

(***************************************************************************)
(* The write: refresh the token, then POST with whatever token there is.   *)
(***************************************************************************)
SendReport(h, ok) ==
    /\ pc[h] = "refresh"
    /\ session' = IF ok THEN writer[h] ELSE session
    /\ pc' = [pc EXCEPT ![h] = "post"]
    /\ req' = [req EXCEPT ![h] = "sent"]
    /\ UNCHANGED <<outcome, author, idx, img, passed, urls, imgUrl, writer,
                   up, report, stored, busy, cancelled, files, lastUploaded,
                   leaving, histVars>>

\* Firestore creates the document; its rule only wants a valid token.
ReportLands(h) ==
    /\ req[h] = "sent"
    /\ req' = [req EXCEPT ![h] = "committed"]
    /\ report' = [report EXCEPT ![h] = Document(h)]
    /\ UNCHANGED <<runVars, up, stored, pageVars, histVars>>

\* The request is refused (expired token) or never arrives.
ReportRejected(h) ==
    /\ req[h] = "sent"
    /\ req' = [req EXCEPT ![h] = "gone"]
    /\ UNCHANGED <<runVars, up, report, stored, pageVars, histVars>>

\* Mutant: the status of the response is not looked at.
AnyResponse(h) == req[h] # "sent"

\* submitResponse.ok
ResponseOk(h) == req[h] = "committed"

ReportAnswered(h) ==
    /\ pc[h] = "post"
    /\ ResponseOk(h)
    /\ Finish(h, "success")
    /\ FreePage
    /\ UNCHANGED <<author, idx, img, passed, urls, imgUrl, writer, netVars,
                   cancelled, files, lastUploaded, session, leaving, histVars>>

\* An error status, or no answer: the request may have landed, or still may.
ReportErrored(h) ==
    /\ pc[h] = "post"
    /\ Finish(h, "error")
    /\ FreePage
    /\ UNCHANGED <<author, idx, img, passed, urls, imgUrl, writer, netVars,
                   cancelled, files, lastUploaded, session, leaving, histVars>>

-----------------------------------------------------------------------------
(***************************************************************************)
(* The user.  While the popup is shown its backdrop covers the page and    *)
(* only its Cancel button can be reached.                                  *)
(***************************************************************************)
CancelClick ==
    /\ busy
    /\ FreePage
    /\ cancelled' = TRUE
    /\ cancelState' = [h \in Submissions |->
                         IF pc[h] \in PreGate THEN "asked"
                         ELSE IF pc[h] \in PostGate THEN "late"
                         ELSE cancelState[h]]
    /\ events' = events \cup {"cancel"} /\ UNCHANGED estranged
    /\ UNCHANGED <<runVars, netVars, files, lastUploaded, session, leaving>>

\* Pick files, remove one from the selection.
PickFiles(s) ==
    /\ PageReachable
    /\ files' = s
    /\ UNCHANGED <<runVars, netVars, busy, cancelled, lastUploaded, session,
                   leaving, histVars>>

\* The form's own Cancel button, or switching to the "new report" tab.
ClearForm ==
    /\ PageReachable
    /\ files' = <<>>
    /\ lastUploaded' = <<>>
    /\ UNCHANGED <<runVars, netVars, busy, cancelled, session, leaving,
                   histVars>>

\* Sign-in and sign-out in this tab end in a reload of the page.
SignIn(u) ==
    /\ PageReachable /\ ~leaving
    /\ session = NoUser
    /\ session' = u
    /\ LeavePage
    /\ UNCHANGED <<runVars, netVars, busy, cancelled, files, lastUploaded,
                   histVars>>

SignOut ==
    /\ PageReachable
    /\ session # NoUser
    /\ session' = NoUser
    /\ LeavePage
    /\ UNCHANGED <<runVars, netVars, busy, cancelled, files, lastUploaded,
                   histVars>>

\* A submission that is under way, or a token refresh that it waits for.
Acting(h) == InFlight(h) \/ up[h].st = "refresh"

\* The same in another tab: localStorage is shared, this page is not told.
OtherTab(u) ==
    /\ (session = NoUser) # (u = NoUser)
    /\ session' = u
    /\ estranged' = estranged \cup {h \in Submissions : pc[h] = "idle" \/ Acting(h)}
    /\ UNCHANGED <<runVars, netVars, busy, cancelled, files, lastUploaded,
                   leaving, cancelState, events>>

\* The page is reloaded: every run is lost; requests already sent are not, but
\* an upload that waits for its token is.
Reload ==
    /\ pc' = [h \in Submissions |-> IF InFlight(h) THEN "gone" ELSE pc[h]]
    /\ up' = [h \in Submissions |->
                IF up[h].st = "refresh" THEN NoUpload ELSE up[h]]
    /\ busy' = FALSE
    /\ cancelled' = FALSE
    /\ files' = <<>>
    /\ lastUploaded' = <<>>
    /\ leaving' = FALSE
    /\ estranged' = {h \in estranged : pc[h] # "idle"}
    /\ UNCHANGED <<outcome, author, idx, img, passed, urls, imgUrl, writer,
                   req, report, stored, session, cancelState, events>>

-----------------------------------------------------------------------------
Submit(h) ==
    \/ SubmitProhibitedText(h)
    \/ SubmitRefused(h)
    \/ SubmitIncomplete(h)
    \/ SubmitAccepted(h)

UploadStep(h) ==
    \/ CompressedOnce(h)
    \/ UploadCancelled(h)
    \/ StartUpload(h)
    \/ UploadRefused(h)
    \/ UploadTokenRefreshed(h)
    \/ UploadLands(h)
    \/ UploadSucceeds(h)
    \/ UploadTimesOut(h)
    \/ UploadFails(h)

WriteStep(h) ==
    \/ SendReport(h, TRUE)
    \/ SendReport(h, FALSE)
    \/ ReportLands(h)
    \/ ReportRejected(h)
    \/ ReportAnswered(h)
    \/ ReportErrored(h)

RunStep(h) ==
    \/ Submit(h)
    \/ ModerationSafe(h)
    \/ ModerationUnsafe(h)
    \/ UploadStep(h)
    \/ WriteStep(h)

UserStep ==
    \/ CancelClick
    \/ \E s \in Selections : PickFiles(s)
    \/ ClearForm
    \/ \E u \in Users : SignIn(u)
    \/ SignOut
    \/ \E u \in Users \cup {NoUser} : OtherTab(u)
    \/ Reload

Next == UserStep \/ \E h \in Submissions : RunStep(h)

Spec == Init /\ [][Next]_vars

\* What the browser and its timers do by themselves: a moderation or refresh
\* fetch settles, a compression ends, the 30 s timer fires, the POST settles.
\* Neither the user nor Storage nor Firestore owes anything.
Settling(h) ==
    \/ ModerationSafe(h) \/ ModerationUnsafe(h)
    \/ CompressedOnce(h) \/ UploadCancelled(h)
    \/ StartUpload(h) \/ UploadRefused(h)
    \/ UploadTimesOut(h)
    \/ SendReport(h, TRUE) \/ SendReport(h, FALSE)
    \/ ReportAnswered(h) \/ ReportErrored(h)

FairSpec == Spec /\ \A h \in Submissions : WF_vars(Settling(h))

-----------------------------------------------------------------------------
(***************************************************************************)
(* Properties.                                                             *)
(***************************************************************************)

RunTypeOK ==
    /\ pc \in [Submissions -> Awaiting \cup {"idle", "done", "gone"}]
    /\ outcome \in [Submissions -> Outcomes]
    /\ author \in [Submissions -> Users \cup {NoUser}]
    /\ idx \in [Submissions -> Nat]
    /\ img \in [Submissions -> Images \cup {NoImage}]
    /\ passed \in [Submissions -> SUBSET Images]
    /\ urls \in [Submissions -> Seq(Object)]
    /\ imgUrl \in [Submissions -> Url]
    /\ writer \in [Submissions -> Users \cup {NoUser}]

NetTypeOK ==
    /\ up \in [Submissions -> Upload]
    /\ req \in [Submissions -> {"none", "sent", "committed", "gone"}]
    /\ report \in [Submissions -> Documents \cup {NoReport}]
    /\ stored \subseteq Object

PageTypeOK ==
    /\ busy \in BOOLEAN
    /\ cancelled \in BOOLEAN
    /\ files \in Seq(Images)
    /\ lastUploaded \in Seq(Object)
    /\ session \in Users \cup {NoUser}
    /\ leaving \in BOOLEAN

HistTypeOK ==
    /\ cancelState \in [Submissions -> {"no", "asked", "late", "overridden"}]
    /\ events \subseteq {"cancel", "uploadFailed"} /\ estranged \subseteq Submissions

\* Every variable has its type.
TypeOK == RunTypeOK /\ NetTypeOK /\ PageTypeOK /\ HistTypeOK

\* No Cancel so far, and no upload failed.
KeptApart == events = {}

\* Disabling the submit button keeps runs of the handler apart, as long as
\* nothing shows the page again while a run is alive: its Cancel button and
\* the catch around the image section do.
SingleFlight ==
    KeptApart =>
        \A g, h \in Submissions : InFlight(g) /\ InFlight(h) => g = h

\* "only if all checks passed": as long as runs are kept apart, an object in
\* Storage has a safe verdict of the run that uploaded it, although the loops
\* read the file input again after every await.
UploadedWereModerated ==
    KeptApart =>
        \A o \in stored : o.img \in passed[o.by]

\* A Cancel that comes before the last check of the flag, and is not
\* forgotten because of a new submission, keeps the report from being sent.
CancelHonoured ==
    \A h \in Submissions : cancelState[h] = "asked" => req[h] = "none"

\* The image URL of a published report leads to an object that Storage holds
\* and that this very run uploaded, whatever timed out or got lost.
ImageUrlResolves ==
    \A h \in Submissions :
        report[h] # NoReport /\ report[h].imageUrl # NoUrl =>
            report[h].imageUrl \in stored /\ report[h].imageUrl.by = h

\* A report is posted with the token of the account it names as its author,
\* unless its page was open when another tab changed the account: the author
\* is read before the image section, the token after it.
AuthorIsWriter ==
    \A h \in Submissions \ estranged :
        report[h] # NoReport => report[h].author = report[h].writer

Refreshed(h) ==
    \/ up[h].st = "refresh" /\ up'[h].st = "sent"
    \/ pc[h] = "refresh" /\ pc'[h] = "post"

\* Both token refreshes write the user they started with back over whoever is
\* in localStorage when the answer comes.  Only on a page that was open when
\* another tab changed the account does an answer put one account in the place
\* of another: without that, who is replaced has signed out, and nobody signs in
\* before the page, and with it the refresh, is gone (reports.js:89, 2829).
AccountsDoNotSwap ==
    [][ session' \notin {session, NoUser} /\ session # NoUser =>
            \E h \in estranged : Refreshed(h) ]_vars

\* The popup covers the page and the submit button is off only while a run is
\* under way, or when a form was incomplete: no other of the many ends of the
\* handler forgets to free the page (reports.js:2496 does).
PageIsGivenBack ==
    busy => \E h \in Submissions : InFlight(h) \/ outcome[h] = "incomplete"

\* Every run that got past the field checks ends, and when it has, the popup is
\* gone and the submit button back: no path of the rest of the handler forgets
\* to free the page, and none waits for ever.
RunsEnd == \A h \in Submissions : InFlight(h) ~> ~InFlight(h) /\ ~busy

\* The abstract board: what the messages shown to the user mean.
Told(o) ==
    IF o = "none" THEN "nothing"
    ELSE IF o = "success" THEN "published"
    ELSE IF o = "error" THEN "unknown"
    ELSE "refused"

Board == INSTANCE ReportBoard WITH
            board <- {h \in Submissions : report[h] # NoReport},
            told <- [h \in Submissions |-> Told(outcome[h])]

\* What the user is told about a submission is true, now and later.
MessagesAreTrue == Board!Spec

-----------------------------------------------------------------------------
(***************************************************************************)
(* The inductive invariants behind the properties.                         *)
(***************************************************************************)

\* What a run has at hand where it awaits.
RunShapeOf(h) ==
    /\ InFlight(h) => author[h] \in Users
    /\ pc[h] \in PreGate => img[h] \in Images
    /\ pc[h] \in PostGate => writer[h] \in Users
    /\ up[h].st # "none" => up[h].img \in Images
    /\ req[h] # "none" => author[h] \in Users /\ writer[h] \in Users
    /\ pc[h] \in PreGate \cup {"idle", "refresh"} => req[h] = "none"

RunShape == \A h \in Submissions : RunShapeOf(h)

\* The popup covers the page while a run is alive, so there is only one.
Alone ==
    /\ \A h \in Submissions : InFlight(h) => busy
    /\ \A g, h \in Submissions : InFlight(g) /\ InFlight(h) => g = h

Covered ==
    /\ cancelled => "cancel" \in events
    /\ KeptApart => Alone

\* How far the verdicts of a run reach.
VerdictsOf(h) ==
    /\ pc[h] = "moderate" =>
         /\ idx[h] \in DOMAIN files
         /\ img[h] = files[idx[h]]
         /\ \A i \in 1..(idx[h] - 1) : files[i] \in passed[h]
    /\ pc[h] \in {"compress", "recompress", "upload"} =>
         /\ img[h] \in passed[h]
         /\ \A i \in DOMAIN files : files[i] \in passed[h]
    /\ up[h].st # "none" => up[h].img \in passed[h]

VerdictsReach == KeptApart => \A h \in Submissions : VerdictsOf(h)

\* A Cancel that counts finds its run before the last check, with the flag up.
CancelPending ==
    \A h \in Submissions :
        /\ pc[h] = "idle" => cancelState[h] = "no"
        /\ cancelState[h] = "asked" =>
             /\ req[h] = "none"
             /\ InFlight(h) => pc[h] \in PreGate /\ cancelled

\* Every URL that a run has at hand is one of its own objects.
Own(h) == {o \in stored : o.by = h}

UrlsOwnOf(h) ==
    /\ up[h].st = "stored" =>
         [by |-> h, at |-> up[h].at, img |-> up[h].img] \in Own(h)
    /\ \A i \in DOMAIN urls[h] : urls[h][i] \in Own(h)
    /\ imgUrl[h] \in Own(h) \cup {NoUrl}
    /\ report[h] # NoReport => report[h].imageUrl \in Own(h) \cup {NoUrl}

UrlsOwn == \A h \in Submissions : UrlsOwnOf(h)

\* The page acts for account a: nobody else's run or token refresh is alive,
\* and who signed out is leaving.
RunFor(h, a) ==
    /\ InFlight(h) => author[h] = a
    /\ pc[h] \in PostGate => writer[h] = a
    /\ up[h].st = "refresh" => up[h].user = a
    /\ session = NoUser /\ (InFlight(h) \/ up[h].st = "refresh") => leaving

ActsFor(a) ==
    /\ session \in {a, NoUser}
    /\ \A h \in Submissions : RunFor(h, a)

\* Another tab changed the account while this page was open; if none did, the
\* page acts for one account.
EstrangedPage ==
    \A h \in Submissions : pc[h] = "idle" \/ Acting(h) => h \in estranged

OneAccount ==
    /\ EstrangedPage \/ \E a \in Users \cup {NoUser} : ActsFor(a)
    /\ \A h \in Submissions \ estranged : req[h] # "none" => author[h] = writer[h]

\* No run counts further than the longest selection.
WithinSelection ==
    /\ Len(files) <= MaxSelection
    /\ \A h \in Submissions : pc[h] \in PreGate => idx[h] \in 1..MaxSelection

\* What the user was told fits the request, which cannot change it any more.
ToldOf(h) ==
    /\ pc[h] # "done" => outcome[h] = "none"
    /\ report[h] # NoReport <=> req[h] = "committed"
    /\ Told(outcome[h]) = "published" => req[h] = "committed"
    /\ Told(outcome[h]) = "refused" => req[h] = "none"

ToldTrue == \A h \in Submissions : ToldOf(h)

-----------------------------------------------------------------------------
(***************************************************************************)
(* What the code says of itself and does not do.                           *)
(***************************************************************************)

\* "Submission cancelled by user": a run whose Cancel was clicked before it
\* ended does not publish.
CancelledNeverPublished ==
    \A h \in Submissions : cancelState[h] # "no" => report[h] = NoReport
=============================================================================
