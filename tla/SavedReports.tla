---------------------------- MODULE SavedReports ----------------------------
(***************************************************************************)
(* The list of saved reports, savedReports_<uid> in localStorage, and the  *)
(* images that a saved report takes along (js/sharing.js, js/reports.js).  *)
(*                                                                         *)
(* The tabs of one browser share localStorage: the signed-in account, the  *)
(* lists and the images uploaded last.  A tab has a form, the images it    *)
(* uploaded last, in window.lastUploadedImages, and the list as it was     *)
(* rendered last: the Delete buttons hold positions in that one.           *)
(***************************************************************************)
EXTENDS Integers, SequencesExt

CONSTANTS
    Tabs,
    Accounts,
    Texts,  \* what a report says: title, description and type
    MaxSaved, \* bound: reports in a list
    Runs,   \* submissions that upload images: the run names its images
    NoText, \* an empty form, which is saved as a report named "Report"
    NoRun,  \* no submission, no images
    Nobody

ASSUME NobodyAssumption == Nobody \notin Accounts
ASSUME NoTextAssumption == NoText \notin Texts
ASSUME MaxSavedAssumption == MaxSaved \in Nat
ASSUME NoRunAssumption  == NoRun \notin Runs

VARIABLES
    signed,        \* localStorage.user
    lists,         \* savedReports_<uid> of each account
    browserImages, \* localStorage.lastUploadedImages
    snapshot,      \* localStorage.savedFormDataBeforeShare
    form,          \* the report on the form of each tab
    tabImages,     \* window.lastUploadedImages
    popup,         \* the submission that covers the page of each tab
    run,           \* the tab, the text and the state of each submission
    shown,         \* the list that each tab rendered last, and whose it is
    own,           \* history: the images uploaded for the report on the form,
                   \* if no others came into the tab since
    behind         \* history: tabs whose rendered list was changed elsewhere

pageVars  == <<form, tabImages, own>>
runVars   == <<popup, run>>
listVars  == <<lists, shown, behind>>
vars      == <<signed, browserImages, snapshot, pageVars, runVars, listVars>>

-----------------------------------------------------------------------------
Reports == Texts \cup {NoText}
Images  == Runs \cup {NoRun}

Entry == [text : Reports, images : Images]

Snapshots  == [text : Reports, images : Images, own : Images]
NoSnapshot == [text |-> NoText, images |-> NoRun, own |-> NoRun]

\* Without an account there is no list.
ListOf(a) == IF a = Nobody THEN <<>> ELSE lists[a]

TextsOf(list) == [i \in 1 .. Len(list) |-> list[i].text]

Init ==
    /\ signed \in Accounts \cup {Nobody}
    /\ lists = [a \in Accounts |-> <<>>]
    /\ browserImages = NoRun
    /\ snapshot = NoSnapshot
    /\ form = [t \in Tabs |-> NoText]
    /\ tabImages = [t \in Tabs |-> NoRun]
    /\ popup = [t \in Tabs |-> NoRun]
    /\ run = [r \in Runs |-> [st |-> "none"]]
    /\ shown = [t \in Tabs |-> [of |-> signed, list |-> <<>>]]
    /\ own = [t \in Tabs |-> NoRun]
    /\ behind = {}

\* The popup of a submission has a backdrop that keeps clicks off the page.
Free(t) == popup[t] = NoRun

-----------------------------------------------------------------------------
(***************************************************************************)
(* The form and its images.                                                *)
(***************************************************************************)
Put(t, text, images, mine) ==
    /\ form' = [form EXCEPT ![t] = text]
    /\ tabImages' = [tabImages EXCEPT ![t] = images]
    /\ own' = [own EXCEPT ![t] = mine]

\* Another report is typed over the one on the form.
Write(t, x) ==
    /\ Free(t) /\ x # form[t]
    /\ Put(t, x, tabImages[t], NoRun)
    /\ UNCHANGED <<signed, browserImages, snapshot, runVars, listVars>>

Clear(t) ==
    /\ Free(t)
    /\ Put(t, NoText, NoRun, NoRun)
    /\ UNCHANGED <<signed, snapshot, runVars, listVars>>

\* The tab "New report" leaves localStorage.lastUploadedImages.
SwitchToNew(t) == Clear(t) /\ UNCHANGED browserImages
CancelForm(t)  == Clear(t) /\ browserImages' = NoRun

Submit(t, r) ==
    /\ Free(t) /\ form[t] # NoText /\ signed # Nobody
    /\ run[r].st = "none"
    /\ run' = [run EXCEPT ![r] = [st |-> "uploading", tab |-> t, text |-> form[t]]]
    /\ popup' = [popup EXCEPT ![t] = r]
    /\ UNCHANGED <<signed, browserImages, snapshot, pageVars, listVars>>

\* Cancel frees the page; the submission stops before its next upload only.
CancelSubmit(t) ==
    /\ ~Free(t)
    /\ popup' = [popup EXCEPT ![t] = NoRun]
    /\ UNCHANGED <<signed, browserImages, snapshot, pageVars, run, listVars>>

\* Mutant: the popup stays when the submission is over.
PopupStays(r) == popup
PopupOff(r) == [t \in Tabs |-> IF popup[t] = r THEN NoRun ELSE popup[t]]

EndRun(r) ==
    /\ run[r].st = "uploading"
    /\ run' = [run EXCEPT ![r].st = "done"]
    /\ popup' = PopupOff(r)
    /\ UNCHANGED <<signed, snapshot, form, listVars>>

Uploaded(r) ==
    /\ EndRun(r)
    /\ LET t == run[r].tab
       IN /\ tabImages' = [tabImages EXCEPT ![t] = r]
          /\ own' = [own EXCEPT ![t] = IF form[t] = run[r].text THEN r ELSE NoRun]
    /\ browserImages' = r

\* The submission failed, or the Cancel reached it in time.
NotUploaded(r) == EndRun(r) /\ UNCHANGED <<browserImages, tabImages, own>>

-----------------------------------------------------------------------------
(***************************************************************************)
(* The form goes into localStorage when a report is shared to Telegram or  *)
(* Zalo, and comes back into the tab that polls for it, or into the next   *)
(* tab that loads.                                                         *)
(***************************************************************************)
ShareAway(t) ==
    /\ Free(t)
    /\ snapshot' = [text |-> form[t], images |-> tabImages[t], own |-> own[t]]
    /\ UNCHANGED <<signed, browserImages, pageVars, runVars, listVars>>

Restore(t) ==
    /\ snapshot # NoSnapshot
    /\ LET blank == snapshot.text = NoText
           none  == snapshot.images = NoRun
       IN Put(t, IF blank THEN form[t] ELSE snapshot.text,
                 IF none THEN tabImages[t] ELSE snapshot.images,
                 IF blank /\ none THEN own[t] ELSE snapshot.own)
    /\ snapshot' = NoSnapshot
    /\ UNCHANGED <<signed, browserImages, runVars, listVars>>

Expire ==
    /\ snapshot # NoSnapshot
    /\ snapshot' = NoSnapshot
    /\ UNCHANGED <<signed, browserImages, pageVars, runVars, listVars>>

-----------------------------------------------------------------------------
(***************************************************************************)
(* The list.                                                               *)
(***************************************************************************)
\* The list is sorted by the time of saving first, latest at the top: Save puts
\* a report there with the time of now, so that the sort changes nothing.
Render(t, a, list) == shown' = [shown EXCEPT ![t] = [of |-> a, list |-> TextsOf(list)]]

\* What a tab writes and renders again; other tabs are not told.
Change(t, list) ==
    /\ lists' = [lists EXCEPT ![signed] = list]
    /\ Render(t, signed, list)
    /\ behind' = {u \in behind \cup Tabs : u # t /\ (u \in behind \/ shown[u].of = signed)}
    /\ UNCHANGED <<signed, browserImages, snapshot, pageVars, runVars>>

\* Mutant: those in localStorage come first.
BrowserFirst(t) == IF browserImages # NoRun THEN browserImages ELSE tabImages[t]
ImagesToSave(t) == IF tabImages[t] # NoRun THEN tabImages[t] ELSE browserImages

ReportToSave(t) == [text |-> form[t], images |-> ImagesToSave(t)]

IsDuplicate(list, e) == \E f \in ToSet(list) : f.text = e.text

Save(t) ==
    /\ Free(t) /\ signed # Nobody
    /\ Len(lists[signed]) < MaxSaved
    /\ ~IsDuplicate(lists[signed], ReportToSave(t))
    /\ Change(t, <<ReportToSave(t)>> \o lists[signed])

Open(t) ==
    /\ Free(t)
    /\ Render(t, signed, ListOf(signed))
    /\ behind' = behind \ {t}
    /\ UNCHANGED <<signed, browserImages, snapshot, pageVars, runVars, lists>>

\* Mutant: positions are counted from 1.
SplicedFromOne(list, i) == IF i + 1 \in DOMAIN list THEN RemoveAt(list, i + 1) ELSE list
Spliced(list, i) == IF i \in DOMAIN list THEN RemoveAt(list, i) ELSE list

\* The position is that of the button; the list is read after the question.
Delete(t, i) ==
    /\ Free(t) /\ signed # Nobody
    /\ i \in DOMAIN shown[t].list
    /\ Change(t, Spliced(lists[signed], i))

ClearAll(t) ==
    /\ Free(t) /\ signed # Nobody
    /\ Change(t, <<>>)

-----------------------------------------------------------------------------
\* A tab that loads has none of its scripts' variables; the form may come back
\* from storage, which all tabs write.  Its submissions are gone.
Load(t, x, a) ==
    /\ signed' = a
    /\ Put(t, x, NoRun, NoRun)
    /\ popup' = [popup EXCEPT ![t] = NoRun]
    /\ run' = [r \in Runs |-> IF run[r].st = "uploading" /\ run[r].tab = t
                              THEN [run[r] EXCEPT !.st = "done"] ELSE run[r]]
    /\ Render(t, a, ListOf(a))
    /\ behind' = behind \ {t}
    /\ UNCHANGED <<browserImages, snapshot, lists>>

Reload(t)    == \E x \in {form[u] : u \in Tabs} \cup {NoText} : Load(t, x, signed)
SignIn(t, a) == Free(t) /\ signed = Nobody /\ Load(t, NoText, a)
SignOut(t)   == Free(t) /\ signed # Nobody /\ Load(t, NoText, Nobody)

-----------------------------------------------------------------------------
FormStep(t) ==
    \/ \E x \in Texts : Write(t, x)
    \/ SwitchToNew(t) \/ CancelForm(t) \/ ShareAway(t) \/ Restore(t)
    \/ CancelSubmit(t) \/ \E r \in Runs : Submit(t, r)

ListStep(t) ==
    \/ Save(t) \/ Open(t) \/ ClearAll(t)
    \/ \E i \in DOMAIN shown[t].list : Delete(t, i)

LoadStep(t) == Reload(t) \/ SignOut(t) \/ \E a \in Accounts : SignIn(t, a)

Next ==
    \/ \E t \in Tabs : FormStep(t) \/ ListStep(t) \/ LoadStep(t)
    \/ \E r \in Runs : Uploaded(r) \/ NotUploaded(r)
    \/ Expire

Spec == Init /\ [][Next]_vars

-----------------------------------------------------------------------------
RunState == [st : {"none"}] \cup
            [st : {"uploading", "done"}, tab : Tabs, text : Texts]

Shown == [of : Accounts \cup {Nobody}, list : Seq(Reports)]

\* A popup stands for a submission of its tab that is under way.
TypeOK ==
    /\ signed \in Accounts \cup {Nobody}
    /\ lists \in [Accounts -> Seq(Entry)]
    /\ browserImages \in Images
    /\ snapshot \in Snapshots
    /\ form \in [Tabs -> Reports]
    /\ tabImages \in [Tabs -> Images]
    /\ popup \in [Tabs -> Images]
    /\ run \in [Runs -> RunState]
    /\ shown \in [Tabs -> Shown]
    /\ own \in [Tabs -> Images]
    /\ behind \subseteq Tabs
    /\ \A t \in Tabs :
          popup[t] # NoRun => run[popup[t]].st = "uploading" /\ run[popup[t]].tab = t

\* No list holds a report twice, whichever tabs saved it (sharing.js:3200).
NoDuplicates ==
    \A a \in Accounts : \A i, j \in DOMAIN lists[a] :
        lists[a][i].text = lists[a][j].text => i = j

\* Delete removes the report that the button stood at, and no other, unless
\* the list was changed by another tab or is that of another account by now
\* (sharing.js:3002, 3015-3016).
DeletesWhatIsShown ==
    [][\A t \in Tabs : \A i \in DOMAIN shown[t].list :
          Delete(t, i) /\ t \notin behind /\ shown[t].of = signed =>
              /\ lists'[signed] = RemoveAt(lists[signed], i)
              /\ lists[signed][i].text = shown[t].list[i]]_vars

\* A report for which images were uploaded in the page is saved with images of
\* its own, unless those of a submission cancelled earlier, or of a form that
\* was put aside, came in later (sharing.js:3083, reports.js:2755).
ImagesBelong ==
    \A t \in Tabs :
        own[t] # NoRun =>
            LET e == ReportToSave(t) IN e.images = own[t] /\ run[e.images].text = e.text
=============================================================================
