------------------------- MODULE SavedReportsProofs -------------------------
(***************************************************************************)
(* Proofs about SavedReports, for any number of tabs, accounts, reports,   *)
(* submissions and saved reports.                                          *)
(***************************************************************************)
EXTENDS SavedReports, SequenceTheorems, TLAPS

-----------------------------------------------------------------------------
(***************************************************************************)
(* Lists.                                                                  *)
(***************************************************************************)
LEMMA Removed ==
    ASSUME NEW S, NEW s \in Seq(S), NEW i \in DOMAIN s
    PROVE  /\ RemoveAt(s, i) \in Seq(S)
           /\ Len(RemoveAt(s, i)) = Len(s) - 1
           /\ \A j \in 1 .. Len(s) - 1 :
                 RemoveAt(s, i)[j] = IF j < i THEN s[j] ELSE s[j + 1]
<1> DEFINE front == SubSeq(s, 1, i - 1)
           back  == SubSeq(s, i + 1, Len(s))
<1>1. i \in 1 .. Len(s) /\ Len(s) \in Nat
  OBVIOUS
<1>2. front \in Seq(S) /\ Len(front) = i - 1 /\ \A j \in 1 .. i - 1 : front[j] = s[j]
  BY <1>1
<1>3. /\ back \in Seq(S) /\ Len(back) = Len(s) - i
      /\ \A j \in 1 .. Len(s) - i : back[j] = s[i + j]
  BY <1>1
<1>4. RemoveAt(s, i) = front \o back
  BY DEF RemoveAt
<1> HIDE DEF front, back
<1>5. front \o back \in Seq(S) /\ Len(front \o back) = Len(s) - 1
  BY <1>1, <1>2, <1>3
<1>6. ASSUME NEW j \in 1 .. Len(s) - 1
      PROVE  (front \o back)[j] = IF j < i THEN s[j] ELSE s[j + 1]
  <2>1. CASE j < i
    BY <1>1, <1>2, <1>3, <2>1
  <2>2. CASE ~(j < i)
    <3>1. j - (i - 1) \in 1 .. Len(s) - i /\ i + (j - (i - 1)) = j + 1
      BY <1>1, <2>2
    <3>2. j \in 1 .. Len(front) + Len(back) /\ ~(j <= Len(front))
      BY <1>1, <1>2, <1>3, <2>2
    <3>3. (front \o back)[j] = back[j - Len(front)]
      BY <1>2, <1>3, <3>2, ConcatProperties
    <3>4. QED
      BY <1>2, <1>3, <2>2, <3>1, <3>3
  <2>3. QED
    BY <2>1, <2>2
<1>7. QED
  BY <1>4, <1>5, <1>6

LEMMA Added ==
    ASSUME NEW S, NEW s \in Seq(S), NEW e \in S
    PROVE  /\ <<e>> \o s \in Seq(S)
           /\ Len(<<e>> \o s) = Len(s) + 1
           /\ (<<e>> \o s)[1] = e
           /\ \A j \in 2 .. Len(s) + 1 : (<<e>> \o s)[j] = s[j - 1]
OBVIOUS

LEMMA TextsType ==
    ASSUME NEW list \in Seq(Entry)
    PROVE  TextsOf(list) \in Seq(Reports) /\ Len(TextsOf(list)) = Len(list)
<1>1. Len(list) \in Nat /\ \A i \in 1 .. Len(list) : list[i] \in Entry
  OBVIOUS
<1>2. \A i \in 1 .. Len(list) : list[i].text \in Reports
  BY <1>1 DEF Entry
<1>3. QED
  BY <1>1, <1>2 DEF TextsOf

-----------------------------------------------------------------------------
(***************************************************************************)
(* Types, one part per kind of variables.                                  *)
(***************************************************************************)
PageType ==
    form \in [Tabs -> Reports] /\ tabImages \in [Tabs -> Images] /\ own \in [Tabs -> Images]

ListType ==
    lists \in [Accounts -> Seq(Entry)] /\ shown \in [Tabs -> Shown] /\ behind \subseteq Tabs

RunType ==
    /\ popup \in [Tabs -> Images]
    /\ run \in [Runs -> RunState]
    /\ \A t \in Tabs :
          popup[t] # NoRun => run[popup[t]].st = "uploading" /\ run[popup[t]].tab = t

StoreType ==
    /\ signed \in Accounts \cup {Nobody}
    /\ browserImages \in Images
    /\ snapshot \in Snapshots

LEMMA Parts == TypeOK <=> PageType /\ ListType /\ RunType /\ StoreType
BY DEF TypeOK, PageType, ListType, RunType, StoreType

LEMMA PartsNext == PageType' /\ ListType' /\ RunType' /\ StoreType' => TypeOK'
BY DEF TypeOK, PageType, ListType, RunType, StoreType

LEMMA NoneType ==
    NoRun \in Images /\ NoText \in Reports /\ NoSnapshot \in Snapshots
BY DEF Images, Reports, NoSnapshot, Snapshots

LEMMA PageSame == ASSUME PageType, UNCHANGED pageVars PROVE PageType'
BY DEF PageType, pageVars

LEMMA ListSame == ASSUME ListType, UNCHANGED listVars PROVE ListType'
BY DEF ListType, listVars

LEMMA RunSame == ASSUME RunType, UNCHANGED runVars PROVE RunType'
BY DEF RunType, runVars

LEMMA StoreSame == ASSUME StoreType, UNCHANGED <<signed, browserImages, snapshot>> PROVE StoreType'
BY DEF StoreType

LEMMA PutType ==
    ASSUME PageType, NEW t \in Tabs, NEW text \in Reports, NEW images \in Images,
           NEW mine \in Images, Put(t, text, images, mine)
    PROVE  PageType'
BY DEF PageType, Put

LEMMA RenderType ==
    ASSUME ListType, NEW t \in Tabs, NEW a \in Accounts \cup {Nobody},
           NEW list \in Seq(Entry), Render(t, a, list)
    PROVE  shown' \in [Tabs -> Shown]
<1>1. [of |-> a, list |-> TextsOf(list)] \in Shown
  BY TextsType DEF Shown
<1>2. QED
  BY <1>1 DEF ListType, Render

LEMMA ChangeType ==
    ASSUME ListType, signed \in Accounts, NEW t \in Tabs, NEW list \in Seq(Entry),
           Change(t, list)
    PROVE  ListType'
<1>1. shown' \in [Tabs -> Shown]
  BY RenderType DEF Change
<1>2. QED
  BY <1>1 DEF ListType, Change

LEMMA ListOfType ==
    ASSUME ListType, NEW a \in Accounts \cup {Nobody} PROVE ListOf(a) \in Seq(Entry)
BY DEF ListOf, ListType

LEMMA SplicedType ==
    ASSUME NEW list \in Seq(Entry), NEW i PROVE Spliced(list, i) \in Seq(Entry)
BY Removed DEF Spliced

LEMMA EndRunType ==
    ASSUME RunType, NEW r \in Runs, EndRun(r) PROVE RunType'
<1>1. run[r] \in [st : {"uploading", "done"}, tab : Tabs, text : Texts]
  BY DEF RunType, RunState, EndRun
<1>2. [run[r] EXCEPT !.st = "done"] \in RunState
  BY <1>1 DEF RunState
<1>3. run' \in [Runs -> RunState]
  BY <1>2 DEF RunType, EndRun
<1>4. popup' \in [Tabs -> Images]
  BY NoRunAssumption DEF RunType, EndRun, PopupOff, Images
<1>5. ASSUME NEW t \in Tabs, popup'[t] # NoRun
      PROVE  run'[popup'[t]].st = "uploading" /\ run'[popup'[t]].tab = t
  <2>1. popup'[t] = popup[t] /\ popup[t] # r /\ popup[t] \in Runs
    BY <1>5 DEF RunType, EndRun, PopupOff, Images
  <2>2. run'[popup[t]] = run[popup[t]]
    BY <2>1 DEF RunType, EndRun
  <2>3. QED
    BY <1>5, <2>1, <2>2 DEF RunType
<1>6. QED
  BY <1>3, <1>4, <1>5 DEF RunType

LEMMA InitType == Init => TypeOK
<1> SUFFICES ASSUME Init PROVE TypeOK
  OBVIOUS
<1>1. PageType /\ StoreType
  BY NoneType DEF Init, PageType, StoreType
<1>2. RunType
  BY DEF Init, RunType, RunState, Images
<1>3. [of |-> signed, list |-> <<>>] \in Shown
  BY DEF Init, Shown
<1>4. ListType
  BY <1>3 DEF Init, ListType
<1>5. QED
  BY <1>1, <1>2, <1>4, Parts

\* What a click in a list changes: the list of the account, if any.
LEMMA ListStepShape ==
    ASSUME TypeOK, NEW t \in Tabs, ListStep(t)
    PROVE  \/ \E list \in Seq(Entry) : signed \in Accounts /\ Change(t, list)
           \/ Open(t)
<1>1. ListType /\ StoreType /\ PageType
  BY Parts
<1>2. ASSUME signed # Nobody PROVE signed \in Accounts /\ lists[signed] \in Seq(Entry)
  BY <1>1, <1>2 DEF ListType, StoreType
<1>3. ReportToSave(t) \in Entry
  BY <1>1 DEF PageType, StoreType, ReportToSave, ImagesToSave, Entry
<1>4. CASE Save(t)
  <2>1. <<ReportToSave(t)>> \o lists[signed] \in Seq(Entry)
    BY <1>2, <1>3, <1>4, Added DEF Save
  <2>2. QED
    BY <1>2, <1>4, <2>1 DEF Save
<1>5. CASE ClearAll(t)
  <2>1. <<>> \in Seq(Entry)
    OBVIOUS
  <2>2. QED
    BY <1>2, <1>5, <2>1 DEF ClearAll
<1>6. ASSUME NEW i, Delete(t, i)
      PROVE  \E list \in Seq(Entry) : signed \in Accounts /\ Change(t, list)
  <2>1. Spliced(lists[signed], i) \in Seq(Entry)
    BY <1>2, <1>6, SplicedType DEF Delete
  <2>2. QED
    BY <1>2, <1>6, <2>1 DEF Delete
<1>7. QED
  BY <1>4, <1>5, <1>6 DEF ListStep

LEMMA LoadType ==
    ASSUME TypeOK, NEW t \in Tabs, NEW x \in Reports, NEW a \in Accounts \cup {Nobody},
           Load(t, x, a)
    PROVE  TypeOK'
<1>1. PageType /\ ListType /\ RunType /\ StoreType
  BY Parts
<1>2. PageType'
  BY <1>1, PutType, NoneType DEF Load
<1>3. ListType'
  <2>1. ListOf(a) \in Seq(Entry)
    BY <1>1, ListOfType
  <2>2. shown' \in [Tabs -> Shown]
    BY <1>1, <2>1, RenderType DEF Load
  <2>3. QED
    BY <1>1, <2>2 DEF Load, ListType
<1>4. RunType'
  <2>1. ASSUME NEW r \in Runs, run[r].st = "uploading" /\ run[r].tab = t
        PROVE  [run[r] EXCEPT !.st = "done"] \in RunState
    <3>1. run[r] \in [st : {"uploading", "done"}, tab : Tabs, text : Texts]
      BY <1>1, <2>1 DEF RunType, RunState
    <3>2. QED
      BY <3>1 DEF RunState
  <2>2. run' \in [Runs -> RunState] /\ popup' \in [Tabs -> Images]
    BY <1>1, <2>1 DEF Load, RunType, Images
  <2>3. ASSUME NEW u \in Tabs, popup'[u] # NoRun
        PROVE  run'[popup'[u]].st = "uploading" /\ run'[popup'[u]].tab = u
    <3>1. u # t /\ popup'[u] = popup[u] /\ popup[u] \in Runs
      BY <1>1, <2>3 DEF Load, RunType, Images
    <3>2. run'[popup[u]] = run[popup[u]]
      BY <1>1, <2>3, <3>1 DEF Load, RunType
    <3>3. QED
      BY <1>1, <2>3, <3>1, <3>2 DEF RunType
  <2>4. QED
    BY <2>2, <2>3 DEF RunType
<1>5. StoreType'
  BY <1>1 DEF Load, StoreType
<1>6. QED
  BY <1>2, <1>3, <1>4, <1>5, PartsNext

LEMMA FormType ==
    ASSUME TypeOK, NEW t \in Tabs, FormStep(t) PROVE TypeOK'
<1>1. PageType /\ ListType /\ RunType /\ StoreType
  BY Parts
<1>2. ASSUME NEW text \in Reports, NEW images \in Images, NEW mine \in Images,
             Put(t, text, images, mine), UNCHANGED runVars, UNCHANGED listVars, StoreType'
      PROVE  TypeOK'
  BY <1>1, <1>2, PutType, ListSame, RunSame, PartsNext
<1>3. ASSUME NEW x \in Texts, Write(t, x) PROVE TypeOK'
  <2>1. x \in Reports /\ tabImages[t] \in Images /\ NoRun \in Images
    BY <1>1, NoneType DEF PageType, Reports
  <2>2. StoreType'
    BY <1>1, <1>3, StoreSame DEF Write
  <2>3. QED
    BY <1>2, <1>3, <2>1, <2>2 DEF Write
<1>4. CASE SwitchToNew(t) \/ CancelForm(t)
  <2>1. StoreType'
    BY <1>1, <1>4, NoneType DEF SwitchToNew, CancelForm, Clear, StoreType
  <2>2. QED
    BY <1>2, <1>4, <2>1, NoneType DEF SwitchToNew, CancelForm, Clear
<1>5. CASE Restore(t)
  <2> DEFINE text == IF snapshot.text = NoText THEN form[t] ELSE snapshot.text
             images == IF snapshot.images = NoRun THEN tabImages[t] ELSE snapshot.images
             mine == IF snapshot.text = NoText /\ snapshot.images = NoRun
                     THEN own[t] ELSE snapshot.own
  <2>1. text \in Reports /\ images \in Images /\ mine \in Images
    <3>1. /\ snapshot.text \in Reports /\ snapshot.images \in Images
          /\ snapshot.own \in Images
      BY <1>1 DEF StoreType, Snapshots
    <3>2. QED
      BY <1>1, <3>1 DEF PageType
  <2>2. Put(t, text, images, mine)
    BY <1>5 DEF Restore
  <2>3. StoreType'
    BY <1>1, <1>5, NoneType DEF Restore, StoreType
  <2> HIDE DEF text, images, mine
  <2>4. QED
    BY <1>2, <1>5, <2>1, <2>2, <2>3 DEF Restore
<1>6. CASE ShareAway(t)
  <2>1. [text |-> form[t], images |-> tabImages[t], own |-> own[t]] \in Snapshots
    BY <1>1 DEF PageType, Snapshots
  <2>2. StoreType'
    BY <1>1, <1>6, <2>1 DEF ShareAway, StoreType
  <2>3. QED
    BY <1>1, <1>6, <2>2, PageSame, ListSame, RunSame, PartsNext DEF ShareAway
<1>7. CASE CancelSubmit(t)
  <2>1. RunType'
    BY <1>1, <1>7, NoneType DEF CancelSubmit, RunType
  <2>2. QED
    BY <1>1, <1>7, <2>1, PageSame, ListSame, StoreSame, PartsNext DEF CancelSubmit
<1>8. ASSUME NEW r \in Runs, Submit(t, r) PROVE TypeOK'
  <2>1. [st |-> "uploading", tab |-> t, text |-> form[t]] \in RunState
    BY <1>1, <1>8 DEF Submit, PageType, RunState, Reports
  <2>2. run' \in [Runs -> RunState] /\ popup' \in [Tabs -> Images]
    BY <1>1, <1>8, <2>1 DEF Submit, RunType, Images
  <2>3. ASSUME NEW u \in Tabs, popup'[u] # NoRun
        PROVE  run'[popup'[u]].st = "uploading" /\ run'[popup'[u]].tab = u
    <3>1. CASE u = t
      BY <1>1, <1>8, <3>1 DEF Submit, RunType
    <3>2. CASE u # t
      <4>1. popup'[u] = popup[u] /\ popup[u] \in Runs
        BY <1>1, <1>8, <2>3, <3>2 DEF Submit, RunType, Images
      <4>2. run[popup[u]].st = "uploading" /\ run[popup[u]].tab = u
        BY <1>1, <2>3, <4>1 DEF RunType
      <4>3. run'[popup[u]] = run[popup[u]]
        BY <1>1, <1>8, <4>1, <4>2 DEF Submit, RunType
      <4>4. QED
        BY <4>1, <4>2, <4>3
    <3>3. QED
      BY <3>1, <3>2
  <2>4. RunType'
    BY <2>2, <2>3 DEF RunType
  <2>5. QED
    BY <1>1, <1>8, <2>4, PageSame, ListSame, StoreSame, PartsNext DEF Submit
<1>9. QED
  BY <1>3, <1>4, <1>5, <1>6, <1>7, <1>8 DEF FormStep

LEMMA TypeStep == ASSUME TypeOK, [Next]_vars PROVE TypeOK'
<1>1. PageType /\ ListType /\ RunType /\ StoreType
  BY Parts
<1>2. ASSUME NEW t \in Tabs, ListStep(t) PROVE TypeOK'
  <2>1. ASSUME NEW list \in Seq(Entry), signed \in Accounts, Change(t, list)
        PROVE  TypeOK'
    <3>1. ListType'
      BY <1>1, <2>1, ChangeType
    <3>2. QED
      BY <1>1, <2>1, <3>1, PageSame, RunSame, StoreSame, PartsNext DEF Change
  <2>2. CASE Open(t)
    <3>1. ListOf(signed) \in Seq(Entry)
      BY <1>1, ListOfType DEF StoreType
    <3>2. shown' \in [Tabs -> Shown]
      BY <1>1, <2>2, <3>1, RenderType DEF Open, StoreType
    <3>3. ListType'
      BY <1>1, <2>2, <3>2 DEF Open, ListType
    <3>4. QED
      BY <1>1, <2>2, <3>3, PageSame, RunSame, StoreSame, PartsNext DEF Open
  <2>3. QED
    BY <1>2, <2>1, <2>2, ListStepShape
<1>3. ASSUME NEW t \in Tabs, LoadStep(t) PROVE TypeOK'
  <2>1. ASSUME NEW x \in {form[u] : u \in Tabs} \cup {NoText} PROVE x \in Reports
    BY <1>1, NoneType DEF PageType
  <2>2. CASE Reload(t)
    BY <1>1, <2>1, <2>2, LoadType DEF Reload, StoreType
  <2>3. CASE SignOut(t)
    BY <2>3, NoneType, LoadType DEF SignOut
  <2>4. ASSUME NEW a \in Accounts, SignIn(t, a) PROVE TypeOK'
    BY <2>4, NoneType, LoadType DEF SignIn
  <2>5. QED
    BY <1>3, <2>2, <2>3, <2>4 DEF LoadStep
<1>4. ASSUME NEW r \in Runs, Uploaded(r) \/ NotUploaded(r) PROVE TypeOK'
  <2>1. EndRun(r)
    BY <1>4 DEF Uploaded, NotUploaded
  <2>2. RunType'
    BY <1>1, <2>1, EndRunType
  <2>3. r \in Images /\ NoRun \in Images
    BY DEF Images
  <2>4. PageType'
    BY <1>1, <1>4, <2>3 DEF Uploaded, NotUploaded, EndRun, PageType
  <2>5. StoreType'
    BY <1>1, <1>4, <2>3 DEF Uploaded, NotUploaded, EndRun, StoreType
  <2>6. QED
    BY <1>1, <2>1, <2>2, <2>4, <2>5, ListSame, PartsNext DEF EndRun
<1>5. CASE Expire
  <2>1. StoreType'
    BY <1>1, <1>5, NoneType DEF Expire, StoreType
  <2>2. QED
    BY <1>1, <1>5, <2>1, PageSame, ListSame, RunSame, PartsNext DEF Expire
<1>6. CASE UNCHANGED vars
  BY <1>1, <1>6, PageSame, ListSame, RunSame, StoreSame, PartsNext
     DEF vars, pageVars, runVars, listVars
<1>7. QED
  BY <1>2, <1>3, <1>4, <1>5, <1>6, FormType DEF Next

\* Every variable keeps its type, and a popup stands for a submission of its
\* own tab that is under way.
THEOREM TypeCorrect == Spec => []TypeOK
BY InitType, TypeStep, PTL DEF Spec

-----------------------------------------------------------------------------
(***************************************************************************)
(* No report twice.                                                        *)
(***************************************************************************)
Distinct(list) == \A i, j \in DOMAIN list : list[i].text = list[j].text => i = j

LEMMA AddedDistinct ==
    ASSUME NEW list \in Seq(Entry), NEW e \in Entry, Distinct(list), ~IsDuplicate(list, e)
    PROVE  Distinct(<<e>> \o list)
<1> DEFINE new == <<e>> \o list
<1>1. /\ DOMAIN new = 1 .. Len(list) + 1 /\ new[1] = e
      /\ \A j \in 2 .. Len(list) + 1 : new[j] = list[j - 1]
      /\ DOMAIN list = 1 .. Len(list) /\ Len(list) \in Nat
  BY Added
<1>2. \A j \in DOMAIN list : list[j].text # e.text
  BY DEF IsDuplicate, ToSet
<1> HIDE DEF new
<1>3. ASSUME NEW i \in DOMAIN new, NEW j \in DOMAIN new, new[i].text = new[j].text
      PROVE  i = j
  <2>1. CASE i = 1 /\ j = 1
    BY <2>1
  <2>2. CASE i = 1 /\ j # 1
    BY <1>1, <1>2, <1>3, <2>2
  <2>3. CASE i # 1 /\ j = 1
    BY <1>1, <1>2, <1>3, <2>3
  <2>4. CASE i # 1 /\ j # 1
    <3>1. i - 1 \in DOMAIN list /\ j - 1 \in DOMAIN list
      BY <1>1, <2>4
    <3>2. new[i] = list[i - 1] /\ new[j] = list[j - 1]
      BY <1>1, <2>4
    <3>3. i - 1 = j - 1
      BY <1>3, <3>1, <3>2 DEF Distinct
    <3>4. QED
      BY <1>1, <3>3
  <2>5. QED
    BY <2>1, <2>2, <2>3, <2>4
<1>4. QED
  BY <1>3 DEF Distinct, new

LEMMA SplicedDistinct ==
    ASSUME NEW list \in Seq(Entry), Distinct(list), NEW i
    PROVE  Distinct(Spliced(list, i))
<1>1. CASE i \notin DOMAIN list
  BY <1>1 DEF Spliced
<1>2. CASE i \in DOMAIN list
  <2> DEFINE new == RemoveAt(list, i)
  <2>1. /\ new \in Seq(Entry) /\ Len(new) = Len(list) - 1
        /\ \A j \in 1 .. Len(list) - 1 : new[j] = IF j < i THEN list[j] ELSE list[j + 1]
    BY <1>2, Removed
  <2>2. DOMAIN new = 1 .. Len(list) - 1 /\ DOMAIN list = 1 .. Len(list)
        /\ Len(list) \in Nat /\ i \in Nat
    BY <1>2, <2>1
  <2> HIDE DEF new
  <2>3. ASSUME NEW j \in DOMAIN new, NEW k \in DOMAIN new, new[j].text = new[k].text
        PROVE  j = k
    <3> DEFINE at(n) == IF n < i THEN n ELSE n + 1
    <3>1. /\ at(j) \in DOMAIN list /\ new[j] = list[at(j)]
          /\ at(k) \in DOMAIN list /\ new[k] = list[at(k)]
      BY <2>1, <2>2
    <3>2. at(j) = at(k)
      <4> HIDE DEF at
      <4>1. QED
        BY <2>3, <3>1 DEF Distinct
    <3>3. QED
      BY <2>2, <3>2
  <2>4. QED
    BY <1>2, <2>3 DEF Distinct, Spliced, new
<1>3. QED
  BY <1>1, <1>2

LEMMA DistinctLists == NoDuplicates <=> \A a \in Accounts : Distinct(lists[a])
BY DEF NoDuplicates, Distinct

\* What a step does to the lists: nothing, or a tab changes that of its account.
LEMMA ListsMove ==
    ASSUME TypeOK, [Next]_vars
    PROVE  \/ lists' = lists
           \/ \E t \in Tabs : Save(t) \/ ClearAll(t) \/ \E i \in DOMAIN shown[t].list : Delete(t, i)
<1>1. ASSUME NEW t \in Tabs, FormStep(t) PROVE lists' = lists
  BY <1>1 DEF FormStep, Write, SwitchToNew, CancelForm, Clear, ShareAway, Restore,
              CancelSubmit, Submit, listVars
<1>2. ASSUME NEW t \in Tabs, LoadStep(t) PROVE lists' = lists
  BY <1>2 DEF LoadStep, Reload, SignIn, SignOut, Load
<1>3. ASSUME NEW r \in Runs, Uploaded(r) \/ NotUploaded(r) PROVE lists' = lists
  BY <1>3 DEF Uploaded, NotUploaded, EndRun, listVars
<1>4. QED
  BY <1>1, <1>2, <1>3 DEF Next, ListStep, Open, Expire, vars, listVars

LEMMA DistinctStep ==
    ASSUME TypeOK, NoDuplicates, [Next]_vars PROVE NoDuplicates'
<1>1. ListType /\ StoreType /\ PageType /\ \A a \in Accounts : Distinct(lists[a])
  BY Parts, DistinctLists
<1>2. ASSUME lists' = lists PROVE NoDuplicates'
  BY <1>2 DEF NoDuplicates
<1>3. ASSUME NEW t \in Tabs, NEW list, Change(t, list), signed \in Accounts, Distinct(list)
      PROVE  NoDuplicates'
  <2>1. \A a \in Accounts : lists'[a] = IF a = signed THEN list ELSE lists[a]
    BY <1>1, <1>3 DEF Change, ListType
  <2>2. \A a \in Accounts : Distinct(lists'[a])
    BY <1>1, <1>3, <2>1
  <2>3. QED
    BY <2>2 DEF NoDuplicates, Distinct
<1>4. ASSUME NEW t \in Tabs, Save(t) PROVE NoDuplicates'
  <2>1. signed \in Accounts /\ lists[signed] \in Seq(Entry) /\ ReportToSave(t) \in Entry
    BY <1>1, <1>4 DEF Save, StoreType, ListType, PageType, ReportToSave, ImagesToSave, Entry
  <2>2. Distinct(<<ReportToSave(t)>> \o lists[signed])
    BY <1>1, <1>4, <2>1, AddedDistinct DEF Save
  <2>3. QED
    BY <1>3, <1>4, <2>1, <2>2 DEF Save
<1>5. ASSUME NEW t \in Tabs, ClearAll(t) PROVE NoDuplicates'
  <2>1. signed \in Accounts /\ Distinct(<<>>)
    BY <1>1, <1>5 DEF ClearAll, StoreType, Distinct
  <2>2. QED
    BY <1>3, <1>5, <2>1 DEF ClearAll
<1>6. ASSUME NEW t \in Tabs, NEW i \in DOMAIN shown[t].list, Delete(t, i) PROVE NoDuplicates'
  <2>1. signed \in Accounts /\ lists[signed] \in Seq(Entry)
    BY <1>1, <1>6 DEF Delete, StoreType, ListType
  <2>2. Distinct(Spliced(lists[signed], i))
    BY <1>1, <2>1, SplicedDistinct
  <2>3. QED
    BY <1>3, <1>6, <2>1, <2>2 DEF Delete
<1>7. QED
  BY <1>2, <1>4, <1>5, <1>6, ListsMove

\* A report is never twice in a list, whichever tabs saved it.
THEOREM SavedOnce == Spec => []NoDuplicates
<1>1. Init => NoDuplicates
  BY DEF Init, NoDuplicates
<1>2. TypeOK /\ NoDuplicates /\ [Next]_vars => NoDuplicates'
  BY DistinctStep
<1>3. QED
  BY <1>1, <1>2, TypeCorrect, PTL DEF Spec

-----------------------------------------------------------------------------
(***************************************************************************)
(* The Delete buttons.                                                     *)
(***************************************************************************)
\* A tab that is not behind shows the list of the account it rendered.
ShowsTheList ==
    \A t \in Tabs \ behind : shown[t].list = TextsOf(ListOf(shown[t].of))

LEMMA ShowsInit == Init => ShowsTheList
<1>1. TextsOf(<<>>) = <<>>
  BY DEF TextsOf
<1>2. QED
  BY <1>1 DEF Init, ShowsTheList, ListOf

LEMMA ShowsStep ==
    ASSUME TypeOK, ShowsTheList, [Next]_vars PROVE ShowsTheList'
<1>1. ListType /\ StoreType
  BY Parts
<1>2. ASSUME UNCHANGED listVars PROVE ShowsTheList'
  BY <1>2 DEF listVars, ShowsTheList, ListOf
<1>3. ASSUME NEW t \in Tabs, NEW a, Render(t, a, ListOf(a)), lists' = lists,
             behind' = behind \ {t}
      PROVE  ShowsTheList'
  <2>1. shown'[t] = [of |-> a, list |-> TextsOf(ListOf(a))]
        /\ \A u \in Tabs \ {t} : shown'[u] = shown[u]
    BY <1>1, <1>3 DEF Render, ListType
  <2>2. ASSUME NEW b PROVE ListOf(b)' = ListOf(b)
    BY <1>3 DEF ListOf
  <2>3. QED
    BY <1>3, <2>1, <2>2 DEF ShowsTheList
<1>4. ASSUME NEW t \in Tabs, NEW list, signed # Nobody, Change(t, list) PROVE ShowsTheList'
  <2>1. /\ signed \in Accounts
        /\ \A a \in Accounts : lists'[a] = IF a = signed THEN list ELSE lists[a]
        /\ shown'[t] = [of |-> signed, list |-> TextsOf(list)]
        /\ \A u \in Tabs \ {t} : shown'[u] = shown[u]
        /\ \A u \in Tabs \ behind' : u = t \/ (u \notin behind /\ shown[u].of # signed)
    BY <1>1, <1>4 DEF Change, Render, ListType, StoreType
  <2> DEFINE next(a) == IF a = Nobody THEN <<>> ELSE lists'[a]
  <2>2. ASSUME NEW u \in Tabs \ behind'
        PROVE  shown'[u].list = TextsOf(next(shown'[u].of))
    <3>1. CASE u = t
      BY <1>4, <2>1, <3>1
    <3>2. CASE u # t
      <4>1. shown'[u] = shown[u] /\ u \notin behind /\ shown[u].of # signed
        BY <2>1, <2>2, <3>2
      <4>2. shown[u].of \in Accounts \cup {Nobody}
        BY <1>1 DEF ListType, Shown
      <4>3. next(shown[u].of) = ListOf(shown[u].of)
        BY <2>1, <4>1, <4>2 DEF ListOf
      <4>4. QED
        BY <4>1, <4>3 DEF ShowsTheList
    <3>3. QED
      BY <3>1, <3>2
  <2>3. QED
    BY <2>2 DEF ShowsTheList, ListOf
<1>5. ASSUME NEW t \in Tabs, FormStep(t) PROVE UNCHANGED listVars
  BY <1>5 DEF FormStep, Write, SwitchToNew, CancelForm, Clear, ShareAway, Restore,
              CancelSubmit, Submit, listVars
<1>6. ASSUME NEW t \in Tabs, LoadStep(t) PROVE ShowsTheList'
  BY <1>3, <1>6 DEF LoadStep, Reload, SignIn, SignOut, Load
<1>7. ASSUME NEW t \in Tabs, ListStep(t) PROVE ShowsTheList'
  <2>1. CASE Open(t)
    BY <1>3, <2>1 DEF Open
  <2>2. CASE Save(t)
    BY <1>4, <2>2 DEF Save
  <2>3. CASE ClearAll(t)
    BY <1>4, <2>3 DEF ClearAll
  <2>4. ASSUME NEW i, Delete(t, i) PROVE ShowsTheList'
    BY <1>4, <2>4 DEF Delete
  <2>5. QED
    BY <1>7, <2>1, <2>2, <2>3, <2>4 DEF ListStep
<1>8. ASSUME NEW r \in Runs, Uploaded(r) \/ NotUploaded(r) PROVE UNCHANGED listVars
  BY <1>8 DEF Uploaded, NotUploaded, EndRun
<1>9. QED
  BY <1>2, <1>5, <1>6, <1>7, <1>8 DEF Next, Expire, vars

LEMMA DeleteShown ==
    ASSUME TypeOK, ShowsTheList, NEW t \in Tabs, NEW i \in DOMAIN shown[t].list,
           Delete(t, i), t \notin behind, shown[t].of = signed
    PROVE  /\ lists'[signed] = RemoveAt(lists[signed], i)
           /\ lists[signed][i].text = shown[t].list[i]
<1>1. signed \in Accounts /\ lists[signed] \in Seq(Entry) /\ ListOf(signed) = lists[signed]
  BY Parts DEF Delete, StoreType, ListType, ListOf
<1>2. shown[t].list = TextsOf(lists[signed])
  BY <1>1 DEF ShowsTheList
<1>3. i \in DOMAIN lists[signed] /\ shown[t].list[i] = lists[signed][i].text
  BY <1>1, <1>2 DEF TextsOf
<1>4. lists'[signed] = Spliced(lists[signed], i)
  BY <1>1, Parts DEF Delete, Change, ListType
<1>5. QED
  BY <1>3, <1>4 DEF Spliced

\* Delete removes the report whose button was clicked, and no other, unless the
\* list was changed by another tab or is that of another account by now.
THEOREM DeletesOwn == Spec => DeletesWhatIsShown
<1>1. TypeOK /\ ShowsTheList /\ [Next]_vars => ShowsTheList'
  BY ShowsStep
<1>2. TypeOK /\ ShowsTheList /\ [Next]_vars
      => [\A t \in Tabs : \A i \in DOMAIN shown[t].list :
            Delete(t, i) /\ t \notin behind /\ shown[t].of = signed =>
              /\ lists'[signed] = RemoveAt(lists[signed], i)
              /\ lists[signed][i].text = shown[t].list[i]]_vars
  BY DeleteShown
<1>3. QED
  BY <1>1, <1>2, ShowsInit, TypeCorrect, PTL DEF Spec, DeletesWhatIsShown

-----------------------------------------------------------------------------
(***************************************************************************)
(* The images of a report.                                                 *)
(***************************************************************************)
\* Images that were uploaded for a report are those that go with it.
Mine(text, images, mine) ==
    mine # NoRun => images = mine /\ run[mine].st # "none" /\ run[mine].text = text

PagesMatch    == \A t \in Tabs : Mine(form[t], tabImages[t], own[t])
SnapshotMatch == Mine(snapshot.text, snapshot.images, snapshot.own)
ImagesMatch   == PagesMatch /\ SnapshotMatch

LEMMA MatchInit == Init => ImagesMatch
BY DEF Init, ImagesMatch, PagesMatch, SnapshotMatch, Mine, NoSnapshot

LEMMA MatchBelongs == ImagesMatch => ImagesBelong
BY DEF ImagesMatch, PagesMatch, Mine, ImagesBelong, ReportToSave, ImagesToSave

\* A submission keeps its text once it has started.
LEMMA TextKept ==
    ASSUME TypeOK, [Next]_vars
    PROVE  \A r \in Runs : run[r].st # "none"
                           => run'[r].st # "none" /\ run'[r].text = run[r].text
<1>1. RunType
  BY Parts
<1>2. ASSUME NEW r \in Runs, run[r].st # "none"
      PROVE  [run[r] EXCEPT !.st = "done"].st # "none"
             /\ [run[r] EXCEPT !.st = "done"].text = run[r].text
  <2>1. run[r] \in [st : {"uploading", "done"}, tab : Tabs, text : Texts]
    BY <1>1, <1>2 DEF RunType, RunState
  <2>2. QED
    BY <2>1
<1>3. ASSUME NEW t \in Tabs, FormStep(t), ~(\E r \in Runs : Submit(t, r)) PROVE run' = run
  BY <1>3 DEF FormStep, Write, SwitchToNew, CancelForm, Clear, ShareAway, Restore,
              CancelSubmit, runVars
<1>4. ASSUME NEW t \in Tabs, NEW s \in Runs, Submit(t, s), NEW r \in Runs, run[r].st # "none"
      PROVE  run'[r] = run[r]
  BY <1>1, <1>4 DEF Submit, RunType
<1>5. ASSUME NEW t \in Tabs, LoadStep(t), NEW r \in Runs
      PROVE  run'[r] = run[r] \/ run'[r] = [run[r] EXCEPT !.st = "done"]
  BY <1>1, <1>5 DEF LoadStep, Reload, SignIn, SignOut, Load, RunType
<1>6. ASSUME NEW s \in Runs, Uploaded(s) \/ NotUploaded(s), NEW r \in Runs
      PROVE  run'[r] = run[r] \/ run'[r] = [run[r] EXCEPT !.st = "done"]
  BY <1>1, <1>6 DEF Uploaded, NotUploaded, EndRun, RunType
<1>7. ASSUME NEW t \in Tabs, ListStep(t) PROVE run' = run
  BY <1>7 DEF ListStep, Save, Open, ClearAll, Delete, Change, runVars
<1>8. CASE Expire \/ UNCHANGED vars
  BY <1>8 DEF Expire, vars, runVars
<1>9. QED
  BY <1>2, <1>3, <1>4, <1>5, <1>6, <1>7, <1>8 DEF Next

MatchAfter(text, images, mine) ==
    mine # NoRun => images = mine /\ run'[mine].st # "none" /\ run'[mine].text = text

LEMMA MatchKept ==
    ASSUME TypeOK, [Next]_vars, NEW text, NEW images, NEW mine \in Images,
           Mine(text, images, mine)
    PROVE  MatchAfter(text, images, mine)
<1>1. CASE mine = NoRun
  BY <1>1 DEF MatchAfter
<1>2. CASE mine # NoRun
  <2>1. mine \in Runs
    BY <1>2 DEF Images
  <2>2. QED
    BY <1>2, <2>1, TextKept DEF Mine, MatchAfter
<1>3. QED
  BY <1>1, <1>2

\* What a step puts on a page, matched before the step or with new images.
LEMMA MatchStep ==
    ASSUME TypeOK, ImagesMatch, [Next]_vars PROVE ImagesMatch'
<1>1. PageType /\ RunType /\ StoreType
  BY Parts
<1>2. \A t \in Tabs : MatchAfter(form[t], tabImages[t], own[t])
  BY <1>1, MatchKept DEF ImagesMatch, PagesMatch, PageType
<1>3. MatchAfter(snapshot.text, snapshot.images, snapshot.own)
  BY <1>1, MatchKept DEF ImagesMatch, SnapshotMatch, StoreType, Snapshots
<1>4. UNCHANGED pageVars => PagesMatch'
  BY <1>2 DEF MatchAfter, PagesMatch, Mine, pageVars
<1>5. UNCHANGED snapshot \/ snapshot' = NoSnapshot => SnapshotMatch'
  BY <1>3 DEF MatchAfter, SnapshotMatch, Mine, NoSnapshot
<1>6. ASSUME NEW t \in Tabs, NEW text, NEW images, NEW mine, Put(t, text, images, mine),
             MatchAfter(text, images, mine)
      PROVE  PagesMatch'
  <2>1. \A u \in Tabs : MatchAfter(form'[u], tabImages'[u], own'[u])
    BY <1>1, <1>2, <1>6 DEF Put, PageType
  <2>2. QED
    BY <2>1 DEF MatchAfter, PagesMatch, Mine
<1>7. \A text, images : MatchAfter(text, images, NoRun)
  BY DEF MatchAfter
<1>8. ASSUME NEW t \in Tabs, FormStep(t) PROVE ImagesMatch'
  <2>1. ASSUME NEW x \in Texts, Write(t, x) PROVE ImagesMatch'
    BY <1>5, <1>6, <1>7, <2>1 DEF Write, ImagesMatch
  <2>2. CASE SwitchToNew(t) \/ CancelForm(t)
    BY <1>5, <1>6, <1>7, <2>2 DEF SwitchToNew, CancelForm, Clear, ImagesMatch
  <2>3. CASE ShareAway(t)
    <3>1. SnapshotMatch'
      BY <1>2, <2>3 DEF ShareAway, SnapshotMatch, Mine, MatchAfter
    <3>2. QED
      BY <1>4, <2>3, <3>1 DEF ShareAway, ImagesMatch
  <2>4. CASE Restore(t)
    <3> DEFINE text == IF snapshot.text = NoText THEN form[t] ELSE snapshot.text
               images == IF snapshot.images = NoRun THEN tabImages[t] ELSE snapshot.images
               mine == IF snapshot.text = NoText /\ snapshot.images = NoRun
                       THEN own[t] ELSE snapshot.own
    <3>1. Put(t, text, images, mine) /\ snapshot' = NoSnapshot
      BY <2>4 DEF Restore
    <3>2. MatchAfter(text, images, mine)
      <4>1. CASE snapshot.text = NoText /\ snapshot.images = NoRun
        BY <1>2, <4>1
      <4>2. CASE snapshot.own = NoRun
        BY <1>2, <1>7, <4>2
      <4>3. CASE snapshot.own # NoRun
        <5>1. snapshot.own \in Runs /\ run[snapshot.own].st # "none"
              /\ snapshot.images = snapshot.own
              /\ run[snapshot.own].text = snapshot.text
          BY <1>1, <4>3 DEF ImagesMatch, SnapshotMatch, Mine, StoreType, Snapshots, Images
        <5>2. run[snapshot.own] \in [st : {"uploading", "done"}, tab : Tabs, text : Texts]
          BY <1>1, <5>1 DEF RunType, RunState
        <5>3. snapshot.text # NoText /\ snapshot.images # NoRun
          BY <4>3, <5>1, <5>2, NoTextAssumption
        <5>4. QED
          BY <1>3, <5>3
      <4>4. QED
        BY <4>1, <4>2, <4>3
    <3> HIDE DEF text, images, mine
    <3>3. QED
      BY <1>5, <1>6, <3>1, <3>2 DEF ImagesMatch
  <2>5. ASSUME CancelSubmit(t) \/ \E r \in Runs : Submit(t, r) PROVE ImagesMatch'
    BY <1>4, <1>5, <2>5 DEF CancelSubmit, Submit, ImagesMatch
  <2>6. QED
    BY <1>8, <2>1, <2>2, <2>3, <2>4, <2>5 DEF FormStep
<1>9. ASSUME NEW t \in Tabs, ListStep(t) PROVE ImagesMatch'
  BY <1>4, <1>5, <1>9 DEF ListStep, Save, Open, ClearAll, Delete, Change, ImagesMatch
<1>10. ASSUME NEW t \in Tabs, LoadStep(t) PROVE ImagesMatch'
  BY <1>5, <1>6, <1>7, <1>10 DEF LoadStep, Reload, SignIn, SignOut, Load, ImagesMatch
<1>11. ASSUME NEW r \in Runs, Uploaded(r) PROVE ImagesMatch'
  <2>1. /\ run[r] \in [st : {"uploading", "done"}, tab : Tabs, text : Texts]
        /\ run[r].st = "uploading" /\ run' = [run EXCEPT ![r].st = "done"]
        /\ form' = form /\ snapshot' = snapshot
    BY <1>1, <1>11 DEF Uploaded, EndRun, RunType, RunState
  <2> DEFINE t == run[r].tab
  <2>2. /\ tabImages' = [tabImages EXCEPT ![t] = r]
        /\ own' = [own EXCEPT ![t] = IF form[t] = run[r].text THEN r ELSE NoRun]
        /\ t \in Tabs
    BY <1>11, <2>1 DEF Uploaded
  <2>3. run'[r].st # "none" /\ run'[r].text = run[r].text
    BY <2>1, TextKept
  <2> HIDE DEF t
  <2>4. \A u \in Tabs : MatchAfter(form'[u], tabImages'[u], own'[u])
    BY <1>1, <1>2, <2>1, <2>2, <2>3 DEF MatchAfter, PageType
  <2>5. PagesMatch'
    BY <2>4 DEF MatchAfter, PagesMatch, Mine
  <2>6. QED
    BY <1>5, <2>1, <2>5 DEF ImagesMatch
<1>12. ASSUME NEW r \in Runs, NotUploaded(r) PROVE ImagesMatch'
  BY <1>4, <1>5, <1>12 DEF NotUploaded, EndRun, ImagesMatch, pageVars
<1>13. CASE Expire \/ UNCHANGED vars
  BY <1>4, <1>5, <1>13 DEF Expire, vars, ImagesMatch
<1>14. QED
  BY <1>8, <1>9, <1>10, <1>11, <1>12, <1>13 DEF Next

\* A report whose images came in while it was on the form is saved with them.
THEOREM SavedWithItsImages == Spec => []ImagesBelong
<1>1. TypeOK /\ ImagesMatch /\ [Next]_vars => ImagesMatch'
  BY MatchStep
<1>2. QED
  BY <1>1, MatchInit, MatchBelongs, TypeCorrect, PTL DEF Spec
=============================================================================
